----------------------------- MODULE Metaserver -----------------------------
(***************************************************************************)
(* The updates of the metaserver: socket/metaserver.c.                     *)
(*                                                                         *)
(* An update is a chain of two HTTP requests.  The game thread asks for a  *)
(* one-time password (kind "otp"); the thread of that request, in its      *)
(* callback, reads or makes the key file and sends the update itself.      *)
(* Each request runs in a thread of the toolkit: it is in progress, then   *)
(* has a state that everybody can read, and only then calls back (the      *)
(* callbacks ask for that state).  request_lock protects current_request;  *)
(* metaserver_init() initialises it after the first update was started,    *)
(* and metaserver_deinit() destroys it.                                    *)
(***************************************************************************)
EXTENDS Integers, FiniteSets

CONSTANTS
    Requests,       \* memory for requests; a request's thread has its name
    Keys,           \* keys that may be generated
    Absent, Empty,  \* no key file, and one that was never written
    NULL

ASSUME ConstantsAssumption ==
    /\ NULL \notin Requests
    /\ Absent \notin Keys /\ Empty \notin Keys /\ Absent # Empty

VARIABLES
    pc,         \* where the game thread is
    lock,       \* the thread of the request that holds request_lock, or NULL
    current,    \* current_request
    alive,      \* the requests that were created and not freed
    kind,       \* which request it is
    thread,     \* what the thread of a request is doing
    failed,     \* the answer of a request is an error
    used,       \* the key that an update was sent with
    file,       \* the content of METASERVER_KEY_FILE
    key_is_new

vars == <<pc, lock, current, alive, kind, thread, failed, used, file, key_is_new>>
memory == <<alive, kind, thread, failed, used>>
keyfile == <<file, key_is_new>>

Pending(r) == thread[r] # "none"
Updates == {r \in Requests : Pending(r) /\ kind[r] = "update"}

Init ==
    /\ pc = "init" /\ lock = NULL /\ current = NULL
    /\ alive = {} /\ kind = [r \in Requests |-> "otp"]
    /\ thread = [r \in Requests |-> "none"] /\ failed = [r \in Requests |-> FALSE]
    /\ used = [r \in Requests |-> Absent]
    /\ file = Absent /\ key_is_new = FALSE

---------------------------------------------------------------------------
(* What the functions share                                                *)

(* Memory is not given again while an old thread still holds its address.  *)
Unused == {r \in Requests : r \notin alive /\ ~Pending(r)}

(* curl_request_create() and the start of its thread                       *)
Started(r, k) ==
    /\ current' = r /\ alive' = alive \cup {r} /\ kind' = [kind EXCEPT ![r] = k]

(* A mutex that was destroyed no longer stops anybody.                     *)
CanLock == lock = NULL \/ pc = "down"

InProgress(r) == thread[r] = "running"

---------------------------------------------------------------------------
(* The game thread                                                         *)

(* metaserver_info_update(), as far as it holds the lock                   *)
Update ==
    /\ pc \in {"init", "play"} /\ CanLock
    /\ IF current # NULL /\ InProgress(current)
       THEN /\ pc' = IF pc = "init" THEN "locks" ELSE "play"
            /\ UNCHANGED alive
       ELSE /\ pc' = IF pc = "init" THEN "first" ELSE "build"
            /\ alive' = alive \ {current}
    /\ UNCHANGED <<lock, current, kind, thread, failed, used, keyfile>>

(* The rest of it, without the lock                                        *)
BuildRequest ==
    /\ pc \in {"first", "build"}
    /\ \E r \in Unused : Started(r, "otp") /\ thread' = [thread EXCEPT ![r] = "running"]
    /\ pc' = IF pc = "first" THEN "locks" ELSE "play"
    /\ UNCHANGED <<lock, failed, used, keyfile>>

(* The end of metaserver_init().  Initialising a mutex frees it.           *)
InitLocks ==
    /\ pc = "locks" /\ pc' = "play" /\ lock' = NULL
    /\ UNCHANGED <<current, memory, keyfile>>

(* metaserver_deinit() waits until there is no request, or until the       *)
(* current one has its answer.                                             *)
Stop ==
    /\ pc = "play" /\ pc' = "poll"
    /\ UNCHANGED <<lock, current, memory, keyfile>>
Poll ==
    /\ pc = "poll" /\ CanLock
    /\ current # NULL => ~InProgress(current)
    /\ pc' = "end"
    /\ UNCHANGED <<lock, current, memory, keyfile>>
End ==
    /\ pc = "end" /\ pc' = "down"
    /\ alive' = alive \ {current} /\ current' = NULL
    /\ UNCHANGED <<lock, kind, thread, failed, used, keyfile>>

---------------------------------------------------------------------------
(* The threads of requests                                                 *)

(* The answer, the metaserver's or a time-out's, can be seen before the    *)
(* callback runs.                                                          *)
Answer(r) ==
    /\ thread[r] = "running"
    /\ thread' = [thread EXCEPT ![r] = "answered"]
    /\ \E f \in BOOLEAN : failed' = [failed EXCEPT ![r] = f]
    /\ UNCHANGED <<pc, lock, current, alive, kind, used, keyfile>>

(* metaserver_otp_request() and metaserver_update_request() begin.         *)
Called(r) ==
    /\ thread[r] = "answered" /\ CanLock
    /\ lock' = r /\ current' = NULL
    /\ thread' = [thread EXCEPT ![r] = "called"]
    /\ UNCHANGED <<pc, alive, kind, failed, used, keyfile>>

(* metaserver_request_process_error().  A request that somebody freed may  *)
(* be read as anything.                                                    *)
IsError(r, e) == r \in alive => e = failed[r]

(* Both callbacks end with this; what the request was is forgotten.        *)
Forget(r) ==
    /\ alive' = alive \ {r} /\ thread' = [thread EXCEPT ![r] = "none"]
    /\ kind' = [kind EXCEPT ![r] = "otp"] /\ failed' = [failed EXCEPT ![r] = FALSE]
    /\ used' = [used EXCEPT ![r] = Absent]
LeaveLocked(r) == Forget(r) /\ UNCHANGED lock
Leave(r) == Forget(r) /\ lock' = NULL

(* The answer is an error or has no password in it, or the key file can be *)
(* neither read nor made.                                                  *)
NoPassword(r) ==
    /\ thread[r] = "called" /\ kind[r] = "otp"
    /\ Leave(r)
    /\ key_is_new' \in IF file = Absent THEN {key_is_new} ELSE {key_is_new, FALSE}
    /\ UNCHANGED <<pc, current, file>>

(* metaserver_get_key() has a key, k                                       *)
GetKey(k) ==
    \/ /\ file = Absent
       /\ k \in Keys \ {used[r] : r \in Updates}
       /\ file' = k /\ key_is_new' = TRUE
    \/ /\ file \in Keys /\ k = file
       /\ key_is_new' = FALSE /\ UNCHANGED file

Password(r) ==
    /\ thread[r] = "called" /\ kind[r] = "otp" /\ IsError(r, FALSE)
    /\ \E k \in Keys, p \in Unused :
           /\ GetKey(k)
           /\ Started(p, "update") /\ used' = [used EXCEPT ![p] = k]
           /\ thread' = [thread EXCEPT ![r] = "sent", ![p] = "running"]
    /\ UNCHANGED <<pc, lock, failed>>

PasswordUsed(r) ==
    /\ thread[r] = "sent" /\ Leave(r)
    /\ UNCHANGED <<pc, current, keyfile>>

(* The rest of metaserver_update_request()                                 *)
RejectAnyKey ==
    /\ file' = Absent /\ UNCHANGED key_is_new
Reject ==
    IF key_is_new THEN file' = Absent /\ key_is_new' = FALSE
                  ELSE UNCHANGED keyfile
Updated(r) ==
    /\ thread[r] = "called" /\ kind[r] = "update"
    /\ \/ IsError(r, FALSE) /\ UNCHANGED keyfile
       \/ IsError(r, TRUE) /\ Reject
    /\ Leave(r)
    /\ UNCHANGED <<pc, current>>

---------------------------------------------------------------------------
(* The server exits or is killed, and starts again.  A key that was just   *)
(* being written may be lost.                                              *)
Kill ==
    /\ pc' = "init" /\ lock' = NULL /\ current' = NULL /\ alive' = {}
    /\ thread' = [r \in Requests |-> "none"]
    /\ file' \in IF file = Absent /\ \E r \in Requests : thread[r] = "called"
                 THEN {Absent, Empty} ELSE {file}
    /\ key_is_new' = FALSE /\ failed' = [r \in Requests |-> FALSE]
    /\ kind' = [r \in Requests |-> "otp"] /\ used' = [r \in Requests |-> Absent]

GameThread == Update \/ BuildRequest \/ InitLocks \/ Poll \/ End
Thread(r) ==
    \/ Answer(r) \/ Called(r) \/ NoPassword(r) \/ Password(r)
    \/ PasswordUsed(r) \/ Updated(r)
Next == GameThread \/ Stop \/ Kill \/ \E r \in Requests : Thread(r)

Spec == Init /\ [][Next]_vars

(* The threads run, requests end (they have time-outs), and the game       *)
(* thread goes on; when it updates and whether it stops is open.           *)
Fairness ==
    /\ \A r \in Requests : WF_vars(Thread(r))
    /\ WF_vars(BuildRequest) /\ WF_vars(InitLocks) /\ WF_vars(Poll) /\ WF_vars(End)
FairSpec == Spec /\ Fairness

---------------------------------------------------------------------------
(* Properties                                                              *)

(* The key is removed "since it was rejected" by the update that was sent  *)
(* with it, never while another update that uses it is on its way, however *)
(* updates overlap and whatever a callback reads from a freed request.     *)
OwnKeyOnly ==
    [][file' # file => Updates \cap Updates' = {}]_vars

(* metaserver_deinit() comes to its end, also when the first request of an *)
(* update goes on to send the second one meanwhile.                        *)
StopEnds == pc = "poll" ~> pc # "poll"

(* "No other thread is working with the current request at this point"     *)
(* (where it is freed).  The code breaks this: between the moment that a   *)
(* request has its answer and its callback, the game thread frees it.      *)
FreedByOne == \A r \in Requests : Pending(r) => r \in alive
=============================================================================
