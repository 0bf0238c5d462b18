---------------------------- MODULE PathRequests ----------------------------
(***************************************************************************)
(* The requests for paths: server/pathfinder.c, the loop over them in      *)
(* server/main.c, and the waypoints that make them, types/waypoint.c and   *)
(* set_npc_enemy() in types/monster.c.                                     *)
(*                                                                         *)
(* A waypoint is an object inside a monster.  It is followed while it is   *)
(* active: a patrol or home waypoint while FLAG_CURSED is set, the aggro   *)
(* waypoint (FLAG_DAMNED) while its enemy is valid.  Following it without  *)
(* a path, the monster puts the waypoint into a ring of QueueSize cells;   *)
(* the main loop takes requests out and computes the paths when it has     *)
(* time.  By then the waypoint may be inactive or destroyed, and its       *)
(* memory be another waypoint with another tag.                            *)
(***************************************************************************)
EXTENDS Integers, Sequences, FiniteSets

CONSTANTS
    Slots,          \* memory for waypoints
    QueueSize,      \* PATHFINDER_QUEUE_SIZE
    Tags,           \* values of `count': never used twice, here only
                    \*   while a request remembers them
    NULL

ASSUME ConstantsAssumption ==
    /\ QueueSize \in Nat \ {0}
    /\ NULL \notin [tag : Tags, active : BOOLEAN, requested : BOOLEAN, path : BOOLEAN]
    /\ NULL \notin [slot : Slots, tag : Tags]

VARIABLES
    wp,         \* the waypoint in every slot, or NULL
    ring,       \* pathfinder_queue: waypoints with the tag they had
    first, last     \* pathfinder_queue_first, pathfinder_queue_last

vars == <<wp, ring, first, last>>

Cells == 0 .. QueueSize - 1
Waypoint == [tag : Tags, active : BOOLEAN, requested : BOOLEAN, path : BOOLEAN]
Request == [slot : Slots, tag : Tags]

Init ==
    /\ wp = [s \in Slots |-> NULL]
    /\ ring = [c \in Cells |-> NULL] /\ first = 0 /\ last = 0

Live(s) == wp[s] # NULL

---------------------------------------------------------------------------
(* The ring                                                                *)

AfterTooLate(c) == IF c + 1 > QueueSize THEN 0 ELSE c + 1
After(c) == IF c + 1 >= QueueSize THEN 0 ELSE c + 1

FullWithoutWrap == last = first - 1
Full == last = first - 1 \/ (first = 0 /\ last = QueueSize - 1)

Held == IF last >= first THEN last - first ELSE last - first + QueueSize
Cell(k) == IF first + k < QueueSize THEN first + k ELSE first + k - QueueSize

(* OBJECT_VALID() with the tag, and the test of the flags                  *)
WantedAnyTag(r) == Live(r.slot) /\ wp[r.slot].active
Wanted(r) == Live(r.slot) /\ wp[r.slot].tag = r.tag /\ wp[r.slot].active

---------------------------------------------------------------------------
(* Waypoints                                                               *)

(* A monster gets a waypoint, from a map file or when it needs one.        *)
Create(s) ==
    /\ ~Live(s)
    /\ \E t \in Tags, active \in BOOLEAN :
           /\ \A k \in 0 .. Held - 1 : ring[Cell(k)] # [slot |-> s, tag |-> t]
           /\ wp' = [wp EXCEPT ![s] = [tag |-> t, active |-> active,
                                       requested |-> FALSE, path |-> FALSE]]
    /\ UNCHANGED <<ring, first, last>>

(* The waypoint is destroyed, as a rule with its monster.                  *)
Destroy(s) ==
    /\ Live(s)
    /\ wp' = [wp EXCEPT ![s] = NULL]
    /\ UNCHANGED <<ring, first, last>>

(* An enemy is found, the way home is taken, or the waypoint is next on a  *)
(* patrol.                                                                 *)
Activate(s) ==
    /\ Live(s) /\ ~wp[s].active
    /\ wp' = [wp EXCEPT ![s].active = TRUE]
    /\ UNCHANGED <<ring, first, last>>

(* The enemy is lost, or cannot be reached at all.                         *)
Deactivate(s) ==
    /\ Live(s) /\ wp[s].active
    /\ wp' = [wp EXCEPT ![s].active = FALSE]
    /\ UNCHANGED <<ring, first, last>>

Arrive(s) ==
    /\ Live(s) /\ wp[s].active
    /\ wp' = [wp EXCEPT ![s].active = FALSE, ![s].path = FALSE]
    /\ UNCHANGED <<ring, first, last>>

(* path_request(), for a waypoint that is left with no path                *)
Ask(s) ==
    IF wp[s].requested \/ Full
    THEN /\ wp' = [wp EXCEPT ![s].path = FALSE]
         /\ UNCHANGED <<ring, last>>
    ELSE /\ wp' = [wp EXCEPT ![s].path = FALSE, ![s].requested = TRUE]
         /\ ring' = [ring EXCEPT ![last] = [slot |-> s, tag |-> wp[s].tag]]
         /\ last' = After(last)

(* A step towards the waypoint.  The path may have come to its end or not  *)
(* lead to the enemy any more, which takes a new one unless the waypoint   *)
(* is near; a monster that does not get closer gives its path up.          *)
Move(s) ==
    /\ Live(s) /\ wp[s].active
    /\ \E far, ended, stuck \in BOOLEAN :
           IF far /\ (~wp[s].path \/ ended)
           THEN Ask(s)
           ELSE /\ wp' = [wp EXCEPT ![s].path = @ /\ ~ended /\ ~stuck]
                /\ UNCHANGED <<ring, last>>
    /\ UNCHANGED first

---------------------------------------------------------------------------
(* The main loop                                                           *)

(* path_get_next_request() returns the k-th request, having dropped those  *)
(* before it, and its path is computed, or none is found.                  *)
Serve(k) ==
    LET s == ring[Cell(k)].slot IN
    /\ first' = After(Cell(k))
    /\ \E found \in BOOLEAN :
           wp' = [wp EXCEPT ![s].requested = FALSE, ![s].path = @ \/ found]

(* One round of dequeue_path_requests().  The loop there takes as many     *)
(* rounds as time allows, at least one.                                    *)
DequeueStuck ==
    /\ first # last
    /\ Wanted(ring[Cell(0)]) /\ Serve(0)
    /\ UNCHANGED <<ring, last>>
Dequeue ==
    /\ first # last
    /\ \/ /\ \A k \in 0 .. Held - 1 : ~Wanted(ring[Cell(k)])
          /\ first' = last /\ UNCHANGED wp
       \/ \E k \in 0 .. Held - 1 :
             /\ Wanted(ring[Cell(k)]) /\ \A j \in 0 .. k - 1 : ~Wanted(ring[Cell(j)])
             /\ Serve(k)
    /\ UNCHANGED <<ring, last>>

Next ==
    \/ \E s \in Slots : \/ Create(s) \/ Destroy(s) \/ Activate(s) \/ Deactivate(s)
                        \/ Arrive(s) \/ Move(s)
    \/ Dequeue

Spec == Init /\ [][Next]_vars

(* do_specials() takes requests every second tick.                         *)
FairSpec == Spec /\ WF_vars(Dequeue)

---------------------------------------------------------------------------
(* Properties                                                              *)

(* Every index stays inside the ring, and what the queue holds is a        *)
(* request, never a cell that was not written.                             *)
TypeOK ==
    /\ wp \in [Slots -> Waypoint \cup {NULL}]
    /\ ring \in [Cells -> Request \cup {NULL}]
    /\ first \in Cells /\ last \in Cells
    /\ \A k \in 0 .. Held - 1 : ring[Cell(k)] # NULL

(* A waypoint that lives is queued at most once, and only while its flag   *)
(* says that it has asked: the flag alone keeps a monster that asks every  *)
(* turn from filling the queue, and a request left by an earlier waypoint  *)
(* in the same memory must not take the flag away.                         *)
Mine(s, k) == ring[Cell(k)] = [slot |-> s, tag |-> wp[s].tag]
QueuedOnce ==
    \A s \in Slots : Live(s) =>
        \A k \in 0 .. Held - 1 : Mine(s, k) =>
            /\ wp[s].requested
            /\ \A j \in 0 .. Held - 1 : Mine(s, j) => j = k

(* The ring is a queue: requests are served in the order they were made,   *)
(* one that is still wanted is never lost or overtaken, also when the      *)
(* indices wrap and when the ring is full.                                 *)
Queue == [k \in 1 .. Held |-> ring[Cell(k - 1)]]
Q == INSTANCE RequestQueue WITH
        Requests <- Request, Capacity <- QueueSize - 1,
        queue <- Queue, wanted <- {r \in Request : Wanted(r)}
InOrder == Q!Spec

(* Every request is taken out of the queue at last, however many monsters  *)
(* go on asking.                                                           *)
Waiting(r) == \E k \in 0 .. Held - 1 : ring[Cell(k)] = r
EveryRequestLeaves == \A r \in Request : Waiting(r) ~> ~Waiting(r)

(* A waypoint that "has requested path" (pathfinder.h) waits in the queue. *)
(* The code breaks this: a request that is dropped while the waypoint is   *)
(* inactive leaves the flag set, and the waypoint never asks again.        *)
RequestedWaits ==
    \A s \in Slots : Live(s) /\ wp[s].requested =>
        \E k \in 0 .. Held - 1 : Mine(s, k)
=============================================================================
