----------------------------- MODULE TurnOrder -----------------------------
(***************************************************************************)
(* What process_events() promises about turns, without the list.           *)
(*                                                                         *)
(* A pass gives one visit to every object that was active when it began    *)
(* and stayed active, and none to an object that became active during it.  *)
(* While an object has its turn, or between passes, objects may become     *)
(* active or inactive; an object that stops being active loses the visit   *)
(* it was waiting for, even when it becomes active again.                  *)
(***************************************************************************)
CONSTANT Objects

VARIABLES
    active,     \* the objects that have a speed
    waiting,    \* those of them the pass has still to visit
    phase       \* "idle": no pass; "loop": choosing; "process": a turn runs

vars == <<active, waiting, phase>>

Init == active = {} /\ waiting = {} /\ phase = "idle"

Begin ==
    /\ phase = "idle" /\ phase' = "loop"
    /\ waiting' = active
    /\ UNCHANGED active

(* The pass visits o: o has a turn, lets it pass, or is no longer fit for one
   and leaves. *)
Visit(o) ==
    /\ phase = "loop"
    /\ o \in waiting
    /\ waiting' = waiting \ {o}
    /\ \/ phase' = "process" /\ UNCHANGED active
       \/ phase' = phase /\ UNCHANGED active
       \/ phase' = phase /\ active' = active \ {o}

EndTurn == phase = "process" /\ phase' = "loop" /\ UNCHANGED <<active, waiting>>

Join(o) ==
    /\ phase # "loop"
    /\ active' = active \cup {o}
    /\ UNCHANGED <<waiting, phase>>

Leave(o) ==
    /\ phase # "loop"
    /\ active' = active \ {o}
    /\ waiting' = waiting \ {o}
    /\ UNCHANGED phase

End ==
    /\ phase = "loop" /\ waiting = {}
    /\ phase' = "idle"
    /\ UNCHANGED <<active, waiting>>

Next ==
    \/ Begin \/ EndTurn \/ End
    \/ \E o \in Objects : Visit(o) \/ Join(o) \/ Leave(o)

Spec == Init /\ [][Next]_vars
=============================================================================
