---------------------------- MODULE RequestQueue ----------------------------
(***************************************************************************)
(* What the queue of path requests promises: requests are served in the    *)
(* order they were made, no request that is still wanted is passed over,   *)
(* and no more than Capacity of them wait.                                 *)
(***************************************************************************)
EXTENDS Integers, Sequences

CONSTANTS Requests, Capacity

VARIABLES
    queue,      \* the requests that wait, oldest first
    wanted      \* the requests whose waypoint still needs the path

vars == <<queue, wanted>>

Init == queue = <<>> /\ wanted \subseteq Requests

Put(r) == Len(queue) < Capacity /\ queue' = Append(queue, r)

(* Everything before the k-th request is unwanted, and either that one is  *)
(* wanted, and served, or there is nothing behind it.                      *)
Take(k) ==
    /\ \A j \in 1 .. k - 1 : queue[j] \notin wanted
    /\ queue[k] \in wanted \/ k = Len(queue)
    /\ queue' = SubSeq(queue, k + 1, Len(queue))

Next ==
    /\ wanted' \subseteq Requests
    /\ \/ UNCHANGED queue
       \/ \E r \in Requests : Put(r)
       \/ \E k \in 1 .. Len(queue) : Take(k)

Spec == Init /\ [][Next]_vars
=============================================================================
