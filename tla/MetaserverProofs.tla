-------------------------- MODULE MetaserverProofs --------------------------
(***************************************************************************)
(* The key of the metaserver, for any number of requests that overlap in   *)
(* any way.                                                                *)
(***************************************************************************)
EXTENDS Metaserver, TLAPS

RequestTypes ==
    /\ kind \in [Requests -> {"otp", "update"}]
    /\ thread \in [Requests -> {"none", "running", "answered", "called", "sent"}]

(* While there is no key file no update is on its way, and a key that is   *)
(* new was sent with one update only: who reads the key from its file      *)
(* clears key_is_new, whether or not his own update gets anywhere.         *)
KeyInv ==
    /\ RequestTypes
    /\ file = Absent => Updates = {} /\ ~key_is_new
    /\ key_is_new => \A r, s \in Updates : r = s

LEMMA InitKey == Init => KeyInv
<1> SUFFICES ASSUME Init PROVE KeyInv OBVIOUS
<1>1. RequestTypes BY DEF Init, RequestTypes
<1>2. Updates = {} BY DEF Init, Updates, Pending
<1>3. ~key_is_new BY DEF Init
<1>4. file = Absent => Updates = {} /\ ~key_is_new BY <1>2, <1>3
<1>5. key_is_new => \A r, s \in Updates : r = s BY <1>3
<1> QED BY <1>1, <1>4, <1>5, Zenon DEF KeyInv

(* Steps that begin no update and leave the key file alone; an update may  *)
(* end, and key_is_new be cleared.                                         *)
LEMMA QuietStep ==
    ASSUME KeyInv, RequestTypes', Updates' \subseteq Updates,
           UNCHANGED file, key_is_new' => key_is_new
    PROVE  KeyInv'
<1>1. file' = Absent => Updates' = {} /\ ~key_is_new' BY DEF KeyInv
<1>2. key_is_new' => \A r, s \in Updates' : r = s BY DEF KeyInv
<1> QED BY <1>1, <1>2 DEF KeyInv

(* A callback that ends: its request is no longer pending.                 *)
LEMMA ForgetStep ==
    ASSUME RequestTypes, NEW r \in Requests, Forget(r)
    PROVE  RequestTypes' /\ Updates' = Updates \ {r}
<1>1. /\ thread' = [thread EXCEPT ![r] = "none"] /\ kind' = [kind EXCEPT ![r] = "otp"]
  BY DEF Forget
<1>2. RequestTypes'
  BY <1>1 DEF RequestTypes
<1>3. ASSUME NEW s \in Requests PROVE s \in Updates' <=> s \in Updates \ {r}
  BY <1>1 DEF RequestTypes, Updates, Pending
<1> QED BY <1>2, <1>3 DEF Updates

(* A step keeps KeyInv; it touches the key file only when no update that   *)
(* was on its way stays so.                                                *)
LEMMA StepKey ==
    ASSUME KeyInv, [Next]_vars
    PROVE  KeyInv' /\ (file' # file => Updates \cap Updates' = {})
<1> DEFINE Goal == KeyInv' /\ (file' # file => Updates \cap Updates' = {})
<1> SUFFICES Goal OBVIOUS
<1>t. RequestTypes BY DEF KeyInv
<1>1. ASSUME UNCHANGED <<file, key_is_new>>, UNCHANGED <<kind, thread>> PROVE Goal
  <2>1. RequestTypes' /\ Updates' = Updates BY <1>t, <1>1 DEF RequestTypes, Updates, Pending
  <2> QED BY <1>1, <2>1, QuietStep
<1>2. CASE Update \/ InitLocks \/ Stop \/ Poll \/ End \/ UNCHANGED vars
  <2>1. UNCHANGED <<file, key_is_new>> /\ UNCHANGED <<kind, thread>>
    BY <1>2 DEF Update, InitLocks, Stop, Poll, End, vars, memory, keyfile
  <2> QED BY <1>1, <2>1
<1>3. CASE BuildRequest
  <2>1. PICK r \in Unused : Started(r, "otp") /\ thread' = [thread EXCEPT ![r] = "running"]
    BY <1>3 DEF BuildRequest
  <2>2. /\ r \in Requests /\ thread[r] = "none" /\ kind' = [kind EXCEPT ![r] = "otp"]
        /\ UNCHANGED <<file, key_is_new>>
    BY <1>3, <2>1 DEF Unused, Pending, Started, BuildRequest, keyfile
  <2>3. RequestTypes' BY <1>t, <2>1, <2>2 DEF RequestTypes
  <2>4. \A s \in Requests : s \in Updates' => s \in Updates
    BY <1>t, <2>1, <2>2 DEF RequestTypes, Updates, Pending
  <2>5. Updates' \subseteq Updates BY <2>4 DEF Updates
  <2> QED BY <2>2, <2>3, <2>5, QuietStep
<1>4. ASSUME NEW r \in Requests, Answer(r) \/ Called(r) PROVE Goal
  <2>1. PICK t \in {"answered", "called"} : thread' = [thread EXCEPT ![r] = t]
    BY <1>4 DEF Answer, Called
  <2>2. thread[r] # "none" /\ UNCHANGED kind /\ UNCHANGED <<file, key_is_new>>
    BY <1>4 DEF Answer, Called, keyfile
  <2>3. RequestTypes' BY <1>t, <2>1, <2>2 DEF RequestTypes
  <2>4. Updates' = Updates BY <1>t, <2>1, <2>2 DEF RequestTypes, Updates, Pending
  <2> QED BY <2>2, <2>3, <2>4, QuietStep
<1>5. ASSUME NEW r \in Requests, NoPassword(r) \/ PasswordUsed(r) PROVE Goal
  <2>1. Forget(r) /\ UNCHANGED file /\ key_is_new' \in {key_is_new, FALSE}
    BY <1>5 DEF NoPassword, PasswordUsed, Leave, keyfile
  <2>2. key_is_new' = key_is_new \/ key_is_new' = FALSE BY <2>1
  <2>3. key_is_new' => key_is_new BY <2>2, Zenon
  <2>4. RequestTypes' /\ Updates' = Updates \ {r} BY <1>t, <2>1, ForgetStep
  <2> QED BY <2>1, <2>3, <2>4, QuietStep
<1>6. ASSUME NEW r \in Requests, Password(r) PROVE Goal
  <2>1. PICK k \in Keys, p \in Unused :
          /\ GetKey(k) /\ Started(p, "update")
          /\ thread' = [thread EXCEPT ![r] = "sent", ![p] = "running"]
    BY <1>6 DEF Password
  <2>2. /\ p \in Requests /\ thread[p] = "none" /\ kind' = [kind EXCEPT ![p] = "update"]
        /\ thread[r] = "called" /\ kind[r] = "otp" /\ p # r
    BY <1>6, <2>1 DEF Unused, Pending, Started, Password
  <2>3. RequestTypes' BY <1>t, <2>1, <2>2 DEF RequestTypes
  <2>4. \A s \in Requests : s \in Updates' <=> s \in Updates \/ s = p
    BY <1>t, <2>1, <2>2 DEF RequestTypes, Updates, Pending
  <2>5. Updates' = Updates \cup {p} BY <2>2, <2>4 DEF Updates
  <2>6. CASE file = Absent /\ file' = k /\ key_is_new' = TRUE
    <3>1. Updates = {} /\ k # Absent BY <2>6, ConstantsAssumption DEF KeyInv
    <3> QED BY <2>3, <2>5, <2>6, <3>1 DEF KeyInv
  <2>7. CASE file \in Keys /\ key_is_new' = FALSE /\ UNCHANGED file
    <3>1. file # Absent BY <2>7, ConstantsAssumption
    <3> QED BY <2>3, <2>7, <3>1 DEF KeyInv
  <2> QED BY <2>1, <2>6, <2>7 DEF GetKey
<1>7. ASSUME NEW r \in Requests, Updated(r) PROVE Goal
  <2>1. Forget(r) /\ r \in Updates
    BY <1>7 DEF Updated, Leave, Updates, Pending
  <2>2. RequestTypes' /\ Updates' = Updates \ {r} BY <1>t, <2>1, ForgetStep
  <2>3. CASE UNCHANGED keyfile BY <2>2, <2>3, QuietStep DEF keyfile
  <2>4. CASE key_is_new /\ file' = Absent /\ key_is_new' = FALSE
    <3>1. Updates = {r} BY <2>1, <2>4 DEF KeyInv
    <3>2. Updates' = {} BY <2>2, <3>1
    <3> QED BY <2>2, <2>4, <3>2 DEF KeyInv
  <2> QED BY <1>7, <2>3, <2>4 DEF Updated, Reject
<1>8. CASE Kill
  <2>1. /\ thread' = [s \in Requests |-> "none"] /\ kind' = [s \in Requests |-> "otp"]
        /\ key_is_new' = FALSE
    BY <1>8 DEF Kill
  <2>2. RequestTypes' /\ Updates' = {} BY <2>1 DEF RequestTypes, Updates, Pending
  <2> QED BY <2>1, <2>2 DEF KeyInv
<1> HIDE DEF Goal
<1> QED
  BY <1>2, <1>3, <1>4, <1>5, <1>6, <1>7, <1>8 DEF Next, GameThread, Thread

(* The key file changes only when no update that uses the key goes on:     *)
(* neither a rejected update nor a new key takes the key of another one,   *)
(* though the lock may be gone and a freed request be read as anything.    *)
THEOREM KeyIsOwn == Spec => OwnKeyOnly
<1>1. KeyInv /\ [Next]_vars => KeyInv' BY StepKey
<1>2. KeyInv /\ [Next]_vars => [file' # file => Updates \cap Updates' = {}]_vars BY StepKey
<1> QED BY <1>1, <1>2, InitKey, PTL DEF Spec, OwnKeyOnly
=============================================================================
