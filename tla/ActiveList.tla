---------------------------- MODULE ActiveList ----------------------------
(***************************************************************************)
(* The active list: the doubly linked list of the objects that have a      *)
(* speed, and process_events(), which walks it once per tick behind a      *)
(* marker element while the handlers it calls create, destroy, remove,     *)
(* insert and re-time any object, the one being processed included.        *)
(*                                                                         *)
(* One thread runs all of it.  The interleaving is that of a handler with  *)
(* the loop that called it: `pass' is "idle" between two calls of          *)
(* process_events() (commands of players, other parts of the tick), "loop" *)
(* at the head of its while loop, and "process" inside object_process().   *)
(***************************************************************************)
EXTENDS Integers, FiniteSets

CONSTANTS
    Slots,      \* chunks of the object memory pool: the values of object *
    Marker,     \* the static object `marker' of main.c
    NULL,
    MaxTag      \* bound on the number of objects ever created

ASSUME MarkerAssumption == Marker \notin Slots
ASSUME NullAssumption == NULL \notin Slots \cup {Marker}
ASSUME TagAssumption == MaxTag \in Nat

Nodes == Slots \cup {Marker}
Speeds == {"zero", "slow", "active"}    \* "slow": at most MIN_ACTIVE_SPEED

VARIABLES
    list,       \* active_objects and the active_next/active_prev of all nodes
    count,      \* the tag of the object in a slot, 0 when the slot is free
    speed,
    removed,    \* FLAG_REMOVED
    homed,      \* map # NULL or env # NULL
    mob,        \* type = SPAWN_POINT_MOB
    animated,   \* the tail of the loop has updated the animation of the object
    tags,       \* the static tag counter of object_get()
    pass, op, tag,  \* where process_events() is, and its two locals
    pending,    \* history: objects this pass has still to visit
    visited     \* history: objects some pass has visited since their creation

fields == <<count, speed, removed, homed, mob, animated, tags>>
locals == <<pass, op, tag>>
vars == <<list, fields, locals, pending, visited>>

Live(o) == count[o] # 0                            \* ~ OBJECT_FREE(o)
DestroyedUntagged(o, t) == ~Live(o)                \* wrong: another object may live there
Destroyed(o, t) == ~Live(o) \/ count[o] # t        \* OBJECT_DESTROYED(o, t)

---------------------------------------------------------------------------
(* The list                                                                *)

OnList(l, o) == l.next[o] # NULL \/ l.prev[o] # NULL \/ l.head = o

PushFront(l, o) ==
    [head |-> o,
     next |-> [l.next EXCEPT ![o] = l.head],
     prev |-> [n \in Nodes |-> CASE n = o -> NULL
                                 [] n # o /\ n = l.head -> o
                                 [] OTHER -> l.prev[n]]]

(* Wrong: the node after o still points back to o. *)
UnlinkForwardOnly(l, o) ==
    [head |-> IF l.prev[o] = NULL THEN l.next[o] ELSE l.head,
     next |-> [n \in Nodes |-> CASE n = o -> NULL
                                 [] n # o /\ n = l.prev[o] -> l.next[o]
                                 [] OTHER -> l.next[n]],
     prev |-> [l.prev EXCEPT ![o] = NULL]]

Unlink(l, o) ==
    [head |-> IF l.prev[o] = NULL THEN l.next[o] ELSE l.head,
     next |-> [n \in Nodes |-> CASE n = o -> NULL
                                 [] n # o /\ n = l.prev[o] -> l.next[o]
                                 [] OTHER -> l.next[n]],
     prev |-> [n \in Nodes |-> CASE n = o -> NULL
                                 [] n # o /\ n = l.next[o] -> l.prev[o]
                                 [] OTHER -> l.prev[n]]]

(* Wrong: during a pass a new node is put ahead of the marker. *)
UpdateSpeedAhead(l, o, s, m) ==
    IF m THEN l
    ELSE IF s = "active"
         THEN CASE OnList(l, o) -> l
                [] ~OnList(l, o) /\ pass = "idle" -> PushFront(l, o)
                [] OTHER ->
                     [head |-> l.head,
                      next |-> [l.next EXCEPT ![Marker] = o, ![o] = l.next[Marker]],
                      prev |-> [n \in Nodes |-> CASE n = o -> Marker
                                                  [] n # o /\ n = l.next[Marker] -> o
                                                  [] OTHER -> l.prev[n]]]
         ELSE IF OnList(l, o) THEN Unlink(l, o) ELSE l

(* object_update_speed(o), o having speed s and being a spawn point mob or
   not. *)
UpdateSpeed(l, o, s, m) ==
    IF m THEN l
    ELSE IF s = "active"
         THEN IF OnList(l, o) THEN l ELSE PushFront(l, o)
         ELSE IF OnList(l, o) THEN Unlink(l, o) ELSE l

(* The marker and the node after it change places. *)
MoveMarker(l) ==
    LET o == l.next[Marker]
        p == l.prev[Marker]
    IN [head |-> IF p = NULL THEN o ELSE l.head,
        next |-> [n \in Nodes |-> CASE n = o -> Marker
                                    [] n = Marker -> l.next[o]
                                    [] n # o /\ n # Marker /\ n = p -> o
                                    [] OTHER -> l.next[n]],
        prev |-> [n \in Nodes |-> CASE n = o -> p
                                    [] n = Marker -> o
                                    [] n # o /\ n # Marker /\ n = l.next[o] -> Marker
                                    [] OTHER -> l.prev[n]]]

(* The marker leaves; its own pointers stay as they were. *)
DropMarker(l) ==
    IF l.prev[Marker] # NULL
    THEN [l EXCEPT !.next[l.prev[Marker]] = NULL]
    ELSE [l EXCEPT !.head = NULL]

---------------------------------------------------------------------------
Init ==
    /\ list = [head |-> NULL, next |-> [n \in Nodes |-> NULL],
               prev |-> [n \in Nodes |-> NULL]]
    /\ count = [o \in Slots |-> 0]
    /\ speed = [o \in Slots |-> "zero"]
    /\ removed = [o \in Slots |-> TRUE]
    /\ homed = [o \in Slots |-> FALSE]
    /\ mob = [o \in Slots |-> FALSE]
    /\ animated = [o \in Slots |-> FALSE]
    /\ tags = 0
    /\ pass = "idle" /\ op = NULL /\ tag = 0
    /\ pending = {} /\ visited = {}

---------------------------------------------------------------------------
(* What a handler, or the code between two passes, does to any object.     *)

HandlerRuns == pass \in {"idle", "process"}

(* An object gets speed s and object_update_speed() is called for it. *)
Retime(o, s) ==
    /\ speed' = [speed EXCEPT ![o] = s]
    /\ list' = UpdateSpeed(list, o, s, mob[o])
    /\ pending' = IF s # "active" /\ ~mob[o] THEN pending \ {o} ELSE pending

(* object_get(): a zeroed chunk of the pool with a new tag. *)
ObjectGet(o) ==
    /\ HandlerRuns
    /\ ~Live(o) /\ tags < MaxTag
    /\ tags' = tags + 1
    /\ count' = [count EXCEPT ![o] = tags + 1]
    /\ speed' = [speed EXCEPT ![o] = "zero"]
    /\ removed' = [removed EXCEPT ![o] = TRUE]
    /\ homed' = [homed EXCEPT ![o] = FALSE]
    /\ mob' = [mob EXCEPT ![o] = FALSE]
    /\ animated' = [animated EXCEPT ![o] = FALSE]
    /\ visited' = visited \ {o}
    /\ UNCHANGED <<list, locals, pending>>

(* A handler changes the speed of an object, or copies an archetype into it,
   and calls object_update_speed(). *)
SetSpeed(o, s) ==
    /\ HandlerRuns
    /\ Live(o)
    /\ Retime(o, s)
    /\ UNCHANGED <<count, removed, homed, mob, animated, tags, locals, visited>>

(* object_insert_map() and object_insert_into().  The flag is cleared before
   the map of the target square is looked up: when there is none the object is
   left with whatever map it had. *)
Insert(o, found) ==
    /\ HandlerRuns
    /\ Live(o) /\ removed[o]
    /\ removed' = [removed EXCEPT ![o] = FALSE]
    /\ homed' = [homed EXCEPT ![o] = found \/ homed[o]]
    /\ UNCHANGED <<list, count, speed, mob, animated, tags, locals, pending, visited>>

(* object_remove(): the object stays on the active list.  It keeps the map it
   was on, or gets the map of the object that contained it, if any. *)
Remove(o, h) ==
    /\ HandlerRuns
    /\ Live(o) /\ ~removed[o]
    /\ removed' = [removed EXCEPT ![o] = TRUE]
    /\ homed' = [homed EXCEPT ![o] = h]
    /\ UNCHANGED <<list, count, speed, mob, animated, tags, locals, pending, visited>>

(* object_destroy(), which refuses an object that was not removed.  What the
   freed chunk holds is of no account: object_get() clears it. *)
Destroy(o) ==
    /\ HandlerRuns
    /\ Live(o) /\ removed[o]
    /\ Retime(o, "zero")
    /\ count' = [count EXCEPT ![o] = 0]
    /\ homed' = [homed EXCEPT ![o] = FALSE]
    /\ mob' = [mob EXCEPT ![o] = FALSE]
    /\ animated' = [animated EXCEPT ![o] = FALSE]
    /\ visited' = visited \ {o}
    /\ UNCHANGED <<removed, tags, locals>>

(* Wrong: the object stays on the list. *)
BecomeSpawnMobListed(o) ==
    /\ HandlerRuns
    /\ Live(o)
    /\ mob' = [mob EXCEPT ![o] = TRUE]
    /\ UNCHANGED <<list, count, speed, removed, homed, animated, tags, locals,
                   pending, visited>>

(* A script turns an object into a spawn point mob: it keeps its speed but must
   leave the list first, while object_update_speed() still acts on it. *)
BecomeSpawnMob(o) ==
    /\ HandlerRuns
    /\ Live(o)
    /\ mob' = [mob EXCEPT ![o] = TRUE]
    /\ list' = UpdateSpeed(list, o, "zero", FALSE)
    /\ pending' = pending \ {o}
    /\ UNCHANGED <<count, speed, removed, homed, animated, tags, locals, visited>>

(* A script turns a spawn point mob into something else: nobody looks at the
   speed that it kept. *)
CeaseSpawnMob(o) ==
    /\ HandlerRuns
    /\ Live(o) /\ mob[o]
    /\ mob' = [mob EXCEPT ![o] = FALSE]
    /\ UNCHANGED <<list, count, speed, removed, homed, animated, tags, locals,
                   pending, visited>>

---------------------------------------------------------------------------
(* process_events()                                                        *)

StartPass ==
    /\ pass = "idle"
    /\ pass' = "loop"
    /\ list' = PushFront(list, Marker)
    /\ pending' = {o \in Slots : OnList(list, o)}
    /\ UNCHANGED <<fields, op, tag, visited>>

(* The checks made on an object before it may act. *)
Unfit(o) == ~Live(o) \/ removed[o] \/ speed[o] = "zero" \/ ~homed[o]

(* o is the node after the marker, and the marker moves past it. *)
Take(o) ==
    /\ pass = "loop"
    /\ o = list.next[Marker]
    /\ pending' = pending \ {o}

(* Wrong: the speed is reset without calling object_update_speed(). *)
VisitUnfitKept(o) ==
    /\ Take(o)
    /\ Unfit(o)
    /\ speed' = [speed EXCEPT ![o] = "zero"]
    /\ list' = MoveMarker(list)
    /\ UNCHANGED <<count, removed, homed, mob, animated, tags, locals, visited>>

(* An object that is free, removed, without speed or nowhere is taken off the
   list instead of being processed, its speed being lost. *)
VisitUnfit(o) ==
    /\ Take(o)
    /\ Unfit(o)
    /\ speed' = [speed EXCEPT ![o] = "zero"]
    /\ list' = UpdateSpeed(MoveMarker(list), o, "zero", mob[o])
    /\ UNCHANGED <<count, removed, homed, mob, animated, tags, locals, visited>>

(* The object has not gathered enough speed to act: only its animation goes
   on. *)
VisitWaiting(o) ==
    /\ Take(o)
    /\ ~Unfit(o)
    /\ list' = MoveMarker(list)
    /\ animated' = [animated EXCEPT ![o] = TRUE]
    /\ visited' = visited \cup {o}
    /\ UNCHANGED <<count, speed, removed, homed, mob, tags, locals>>

(* The object acts: object_process() is called. *)
VisitReady(o) ==
    /\ Take(o)
    /\ ~Unfit(o)
    /\ list' = MoveMarker(list)
    /\ pass' = "process" /\ op' = o /\ tag' = count[o]
    /\ visited' = visited \cup {o}
    /\ UNCHANGED fields

(* Wrong: the locals outlive the iteration. *)
ReturnStale ==
    /\ pass = "process"
    /\ pass' = "loop"
    /\ UNCHANGED <<list, fields, op, tag, pending, visited>>

(* object_process() returns: the animation goes on, unless the object was
   destroyed meanwhile. *)
Return ==
    /\ pass = "process"
    /\ pass' = "loop" /\ op' = NULL /\ tag' = 0
    /\ animated' = IF Destroyed(op, tag) THEN animated
                   ELSE [animated EXCEPT ![op] = TRUE]
    /\ UNCHANGED <<list, count, speed, removed, homed, mob, tags, pending,
                   visited>>

EndPass ==
    /\ pass = "loop"
    /\ list.next[Marker] = NULL
    /\ pass' = "idle"
    /\ list' = DropMarker(list)
    /\ UNCHANGED <<fields, op, tag, pending, visited>>

---------------------------------------------------------------------------
Handler == \E o \in Slots :
    \/ ObjectGet(o)
    \/ \E s \in Speeds : SetSpeed(o, s)
    \/ \E found \in BOOLEAN : Insert(o, found)
    \/ \E h \in BOOLEAN : Remove(o, h)
    \/ Destroy(o)
    \/ BecomeSpawnMob(o)
    \/ CeaseSpawnMob(o)

Visit == \E o \in Slots : VisitUnfit(o) \/ VisitWaiting(o) \/ VisitReady(o)

Next == Handler \/ StartPass \/ Visit \/ Return \/ EndPass

Spec == Init /\ [][Next]_vars

(* The main loop keeps ticking, its while loop keeps turning, and every call of
   object_process() returns. *)
Fairness == WF_vars(StartPass) /\ WF_vars(Visit) /\ WF_vars(Return)
            /\ WF_vars(EndPass)

FairSpec == Spec /\ Fairness
---------------------------------------------------------------------------
(* Properties                                                              *)

Pointers == Nodes \cup {NULL}
Lists == [head : Pointers, next : [Nodes -> Pointers], prev : [Nodes -> Pointers]]

(* Type invariant. *)
TypeOK ==
    /\ list \in Lists
    /\ count \in [Slots -> 0 .. MaxTag]
    /\ speed \in [Slots -> Speeds]
    /\ removed \in [Slots -> BOOLEAN] /\ homed \in [Slots -> BOOLEAN]
    /\ mob \in [Slots -> BOOLEAN] /\ animated \in [Slots -> BOOLEAN]
    /\ tags \in 0 .. MaxTag
    /\ pass \in {"idle", "loop", "process"}
    /\ op \in Slots \cup {NULL} /\ tag \in 0 .. MaxTag
    /\ (op \in Slots <=> pass = "process")
    /\ pending \subseteq Slots /\ visited \subseteq Slots

(* The nodes linked into the list. *)
MembersOf(l, phase) ==
    {o \in Slots : OnList(l, o)} \cup (IF phase = "idle" THEN {} ELSE {Marker})
Members == MembersOf(list, pass)

(* Going by active_next from active_objects or by active_prev meets the same
   nodes in opposite orders, whatever handlers did to the list. *)
Linked(l, M) ==
    /\ l.head \in M \cup {NULL}
    /\ l.head = NULL => M = {}
    /\ \A n \in M : /\ l.next[n] \in M \cup {NULL}
                    /\ l.prev[n] \in M \cup {NULL}
                    /\ l.prev[n] = NULL <=> n = l.head
                    /\ l.next[n] # NULL => l.prev[l.next[n]] = n
                    /\ l.prev[n] # NULL => l.next[l.prev[n]] = n

(* No set of members is closed under active_prev: the list has no cycle and
   each member is reached from active_objects. *)
Acyclic(l, M) == \A S \in SUBSET M : S # {} => \E n \in S : l.prev[n] \notin S

ListWellFormed == Linked(list, Members) /\ Acyclic(list, Members)

(* The list holds only objects that should be processed: live ones with a speed
   above MIN_ACTIVE_SPEED, spawn point mobs excepted; so it never holds a freed
   object ("Free object on active list"). *)
ListedActive ==
    \A o \in Slots : OnList(list, o) => Live(o) /\ speed[o] = "active" /\ ~mob[o]

(* An object that should be processed, and is not on the list. *)
Missed(o) == Live(o) /\ speed[o] = "active" /\ ~mob[o] /\ ~OnList(list, o)

(* The "List of active objects that need to be processed" is kept as it says: no
   step leaves on it what should not be processed, and none makes it miss what
   should, but for a script that turns a spawn point mob into something else
   (Object_SetAttribute()). *)
ActiveListed ==
    [][/\ ListedActive'
       /\ \A o \in Slots : Missed(o)' => Missed(o) \/ (mob[o] /\ ~mob'[o])]_vars

(* P holds the members after the marker: a successor is in P exactly when the
   node before it is the marker or in P. *)
Ahead(l, M, P) ==
    /\ P \subseteq M \ {Marker}
    /\ l.head \notin P
    /\ \A n \in M : l.next[n] # NULL => (l.next[n] \in P <=> n \in P \cup {Marker})

(* The objects ahead of the marker are those the pass has still to visit: an
   object that joins the list during a pass is put behind the marker, and only
   leaving the list or being visited takes an object from ahead of it. *)
PendingAhead == Ahead(list, Members, pending) /\ (pass = "idle" => pending = {})

(* The tail of the loop body touches an object only in a pass that visited it:
   never another object that the handler created in the same chunk. *)
OnlyVisitedTouched == \A o \in Slots : Live(o) /\ animated[o] => o \in visited

(* Turns are given as TurnOrder says: one visit per pass to whoever was active
   at its start and stayed so, none to objects that joined during the pass. *)
Turns == INSTANCE TurnOrder WITH
    Objects <- Slots, active <- {o \in Slots : OnList(list, o)},
    waiting <- pending, phase <- pass

TurnsSpec == Turns!Spec

(* A pass ends although every turn may activate new objects: they are put at
   the beginning of the list, behind the marker. *)
PassEnds == (pass # "idle") ~> (pass = "idle")

(* An object on the active list is visited unless it leaves the list. *)
ActiveVisited == \A o \in Slots : OnList(list, o) ~> (~OnList(list, o) \/ o \in visited)
=============================================================================
