------------------------- MODULE PathRequestsProofs -------------------------
(***************************************************************************)
(* Theorems about PathRequests, for any number of waypoints, tags and      *)
(* cells.  The arithmetic of the ring is settled by four lemmas; what      *)
(* remains is which waypoint is where.                                     *)
(***************************************************************************)
EXTENDS PathRequests, TLAPS

Indices == first \in Cells /\ last \in Cells

---------------------------------------------------------------------------
(* The ring                                                                *)

LEMMA SizeIsNat == QueueSize \in Nat /\ QueueSize >= 1
BY ConstantsAssumption

(* The held requests lie in different cells.                               *)
LEMMA CellsOfRing ==
    ASSUME Indices
    PROVE  /\ Held \in 0 .. QueueSize - 1
           /\ \A k \in 0 .. QueueSize - 1 : Cell(k) \in Cells
           /\ \A j, k \in 0 .. QueueSize - 1 : Cell(j) = Cell(k) => j = k
           /\ Cell(Held) = last /\ Cell(0) = first
           /\ Held = 0 <=> first = last
           /\ Full <=> Held = QueueSize - 1
BY SizeIsNat DEF Indices, Cells, Held, Cell, Full

(* A request is put behind the last.                                       *)
LEMMA PutOne ==
    ASSUME Indices, ~Full, UNCHANGED first, last' = After(last)
    PROVE  Indices' /\ Held' = Held + 1 /\ \A k : Cell(k)' = Cell(k)
BY SizeIsNat DEF Indices, Cells, Held, Cell, Full, After

(* The first k + 1 requests are taken out.                                 *)
LEMMA TakeSome ==
    ASSUME Indices, NEW k \in 0 .. Held - 1, first' = After(Cell(k)), UNCHANGED last
    PROVE  /\ Indices' /\ Held' = Held - k - 1
           /\ \A j \in 0 .. Held' - 1 : Cell(j)' = Cell(j + k + 1)
BY SizeIsNat DEF Indices, Cells, Held, Cell, After

LEMMA TakeAll ==
    ASSUME Indices, first' = last, UNCHANGED last
    PROVE  Indices' /\ Held' = 0
BY SizeIsNat DEF Indices, Cells, Held

LEMMA TakeNone ==
    ASSUME UNCHANGED <<first, last>>
    PROVE  Held' = Held /\ \A k : Cell(k)' = Cell(k)
BY DEF Held, Cell

---------------------------------------------------------------------------
(* The invariants                                                          *)

IInv == TypeOK /\ QueuedOnce

LEMMA InitIInv == Init => IInv
<1> SUFFICES ASSUME Init PROVE IInv
  OBVIOUS
<1>1. Indices /\ Held = 0
  BY SizeIsNat DEF Init, Indices, Cells, Held
<1>2. TypeOK
  BY <1>1 DEF Init, TypeOK, Indices
<1>3. QueuedOnce
  BY DEF Init, QueuedOnce, Live
<1> QED BY <1>2, <1>3 DEF IInv

(* A waypoint changes, and no request with it: it is as it was queued, or  *)
(* it is gone, or it is a new one that no request remembers.               *)
LEMMA WaypointChanges ==
    ASSUME IInv, UNCHANGED <<ring, first, last>>, NEW s \in Slots, NEW w \in Waypoint \cup {NULL},
           wp' = [wp EXCEPT ![s] = w],
           w # NULL => \/ Live(s) /\ w.tag = wp[s].tag /\ w.requested = wp[s].requested
                       \/ \A k \in 0 .. Held - 1 : ring[Cell(k)] # [slot |-> s, tag |-> w.tag]
    PROVE  IInv'
<1>0. Held' = Held /\ \A k : Cell(k)' = Cell(k)
  BY TakeNone
<1>1. TypeOK'
  BY <1>0 DEF IInv, TypeOK
<1>2. QueuedOnce'
  BY <1>0 DEF IInv, TypeOK, QueuedOnce, Mine, Live
<1> QED BY <1>1, <1>2 DEF IInv

(* A request is put into the queue.                                        *)
LEMMA PutKeepsIInv ==
    ASSUME IInv, NEW s \in Slots, Live(s), ~wp[s].requested, ~Full, UNCHANGED first,
           wp' = [wp EXCEPT ![s].path = FALSE, ![s].requested = TRUE],
           ring' = [ring EXCEPT ![last] = [slot |-> s, tag |-> wp[s].tag]], last' = After(last)
    PROVE  IInv'
<1> DEFINE r == [slot |-> s, tag |-> wp[s].tag]
<1>1. Indices
  BY DEF IInv, TypeOK, Indices
<1>2. Indices' /\ Held' = Held + 1 /\ \A k : Cell(k)' = Cell(k)
  BY <1>1, PutOne
<1>3. PICK n \in Nat : n = Held
  BY <1>1, CellsOfRing, SizeIsNat
<1>4. n + 1 \in 0 .. QueueSize - 1 /\ Cell(n) = last
  BY <1>1, <1>3, CellsOfRing, SizeIsNat
<1>10. ASSUME NEW k \in 0 .. n - 1 PROVE Cell(k) \in Cells /\ Cell(k) # last
  <2>1. k \in 0 .. QueueSize - 1 /\ n \in 0 .. QueueSize - 1 /\ k # n
    BY <1>3, <1>4, SizeIsNat
  <2> QED BY <1>1, <1>4, <2>1, CellsOfRing
<1>5. r \in Request
  BY DEF IInv, TypeOK, Live, Waypoint, Request
<1>6. \A k \in 0 .. n - 1 : ring'[Cell(k)'] = ring[Cell(k)]
  BY <1>2, <1>10 DEF IInv, TypeOK
<1>7. ring'[Cell(n)'] = r
  BY <1>2, <1>4 DEF IInv, TypeOK
<1>8. TypeOK'
  <2>1. wp' \in [Slots -> Waypoint \cup {NULL}]
    BY DEF IInv, TypeOK, Live, Waypoint
  <2>2. ring' \in [Cells -> Request \cup {NULL}]
    BY <1>5 DEF IInv, TypeOK
  <2>3. \A k \in 0 .. Held' - 1 : k = n \/ k \in 0 .. n - 1
    BY <1>2, <1>3
  <2>4. r # NULL
    BY <1>5, ConstantsAssumption DEF Request
  <2>5. \A k \in 0 .. Held' - 1 : ring'[Cell(k)'] # NULL
    BY <1>3, <1>6, <1>7, <2>3, <2>4 DEF IInv, TypeOK
  <2> QED BY <1>2, <2>1, <2>2, <2>5 DEF TypeOK, Indices
<1>9. QueuedOnce'
  <2> SUFFICES ASSUME NEW t \in Slots, Live(t)', NEW k \in 0 .. Held' - 1, Mine(t, k)'
               PROVE  wp'[t].requested /\ \A j \in 0 .. Held' - 1 : Mine(t, j)' => j = k
    BY DEF QueuedOnce
  <2>1. \A j \in 0 .. Held' - 1 : j = n \/ j \in 0 .. n - 1
    BY <1>2, <1>3
  <2>2. Live(t) /\ wp'[t].tag = wp[t].tag
    BY DEF IInv, TypeOK, Live, Waypoint
  <2>3. \A j \in 0 .. n - 1 : Mine(t, j)' <=> Mine(t, j)
    BY <1>6, <2>2 DEF Mine
  <2>4. CASE t = s
    <3>1. wp'[t].requested
      BY <2>4 DEF IInv, TypeOK, Live, Waypoint
    <3>2. \A j \in 0 .. n - 1 : ~Mine(t, j)
      BY <1>3, <2>4 DEF IInv, QueuedOnce
    <3> QED BY <2>1, <2>3, <3>1, <3>2
  <2>5. CASE t # s
    <3>1. ~Mine(t, n)'
      BY <1>7, <2>5 DEF Mine
    <3>2. wp'[t] = wp[t]
      BY <2>5 DEF IInv, TypeOK
    <3> QED BY <1>3, <2>1, <2>2, <2>3, <3>1, <3>2 DEF IInv, QueuedOnce
  <2> QED BY <2>4, <2>5
<1> QED BY <1>8, <1>9 DEF IInv

(* The queue is emptied of requests that nobody wants.                     *)
LEMMA DropKeepsIInv ==
    ASSUME IInv, first' = last, UNCHANGED <<wp, ring, last>>
    PROVE  IInv'
<1>1. Indices' /\ Held' = 0
  BY TakeAll DEF IInv, TypeOK, Indices
<1>2. TypeOK'
  BY <1>1 DEF IInv, TypeOK, Indices
<1>3. QueuedOnce'
  BY <1>1 DEF QueuedOnce
<1> QED BY <1>2, <1>3 DEF IInv

(* A request is served: it was the only one of its waypoint.               *)
LEMMA ServeKeepsIInv ==
    ASSUME IInv, NEW k \in 0 .. Held - 1, Wanted(ring[Cell(k)]), Serve(k), UNCHANGED <<ring, last>>
    PROVE  IInv'
<1> DEFINE s == ring[Cell(k)].slot
<1>1. Indices
  BY DEF IInv, TypeOK, Indices
<1>2. /\ Indices' /\ Held' = Held - k - 1
      /\ \A j \in 0 .. Held' - 1 : Cell(j)' = Cell(j + k + 1)
  BY <1>1, TakeSome DEF Serve
<1>3. Held \in Nat /\ \A j \in 0 .. Held - 1 : Cell(j) \in Cells
  BY <1>1, CellsOfRing, SizeIsNat
<1>4. \A j \in 0 .. Held' - 1 : j + k + 1 \in 0 .. Held - 1 /\ j + k + 1 # k
  BY <1>2, <1>3
<1>5. ring[Cell(k)] \in Request /\ s \in Slots /\ ring[Cell(k)] = [slot |-> s, tag |-> ring[Cell(k)].tag]
  BY <1>3 DEF IInv, TypeOK, Request
<1>6. Live(s) /\ wp[s].tag = ring[Cell(k)].tag
  BY DEF Wanted
<1>7. PICK found \in BOOLEAN : wp' = [wp EXCEPT ![s].requested = FALSE, ![s].path = @ \/ found]
  BY DEF Serve
<1>8. \A t \in Slots : /\ Live(t)' <=> Live(t)
                       /\ Live(t) => wp'[t].tag = wp[t].tag
                       /\ Live(t) /\ t # s => wp'[t].requested = wp[t].requested
  <2>1. wp \in [Slots -> Waypoint \cup {NULL}] BY DEF IInv, TypeOK
  <2>2. wp[s] \in Waypoint BY <1>5, <1>6, <2>1 DEF Live
  <2>3. \A t \in Slots : t # s => wp'[t] = wp[t] BY <1>7, <2>1
  <2>4. wp'[s] = [wp[s] EXCEPT !.requested = FALSE, !.path = @ \/ found] BY <1>5, <1>7, <2>1
  <2>5. wp'[s] \in Waypoint /\ wp'[s].tag = wp[s].tag BY <2>2, <2>4 DEF Waypoint
  <2>6. wp'[s] # NULL BY <2>5, ConstantsAssumption DEF Waypoint
  <2> QED BY <1>6, <2>3, <2>5, <2>6 DEF Live
<1>9. TypeOK'
  <2>1. wp[s] \in Waypoint
    BY <1>5, <1>6 DEF IInv, TypeOK, Live
  <2>3. (wp[s].path \/ found) \in BOOLEAN
    OBVIOUS
  <2>4. PICK q \in BOOLEAN : q = (wp[s].path \/ found)
    BY <2>3
  <2>5. wp' = [wp EXCEPT ![s] = [wp[s] EXCEPT !.requested = FALSE, !.path = q]]
    BY <1>5, <1>7, <2>1, <2>4 DEF IInv, TypeOK, Waypoint
  <2>6. wp' \in [Slots -> Waypoint \cup {NULL}]
    BY <1>5, <2>1, <2>5 DEF IInv, TypeOK, Waypoint
  <2>2. \A j \in 0 .. Held' - 1 : ring'[Cell(j)'] # NULL
    BY <1>2, <1>4 DEF IInv, TypeOK
  <2> QED BY <1>2, <2>2, <2>6 DEF IInv, TypeOK, Indices
<1>10. QueuedOnce'
  <2> SUFFICES ASSUME NEW t \in Slots, Live(t)', NEW i \in 0 .. Held' - 1, Mine(t, i)'
               PROVE  wp'[t].requested /\ \A j \in 0 .. Held' - 1 : Mine(t, j)' => j = i
    BY DEF QueuedOnce
  <2>1. \A j \in 0 .. Held' - 1 : Mine(t, j)' <=> Mine(t, j + k + 1)
    BY <1>2, <1>8 DEF Mine
  <2>2. Live(t) /\ Mine(t, i + k + 1)
    BY <1>8, <2>1
  <2>3. /\ wp[t].requested
        /\ \A j \in 0 .. Held - 1 : Mine(t, j) => j = i + k + 1
    BY <1>4, <2>2 DEF IInv, QueuedOnce
  <2>4. t # s
    <3> SUFFICES ASSUME t = s PROVE FALSE
      OBVIOUS
    <3>1. Mine(t, k)
      BY <1>5, <1>6 DEF Mine
    <3> QED BY <1>4, <2>3, <3>1
  <2>5. \A j \in 0 .. Held' - 1 : Mine(t, j)' => j = i
    <3> SUFFICES ASSUME NEW j \in 0 .. Held' - 1, Mine(t, j)' PROVE j = i
      OBVIOUS
    <3>1. j + k + 1 = i + k + 1
      BY <1>4, <2>1, <2>3
    <3> QED BY <1>2, <1>3, <3>1
  <2> QED BY <1>8, <2>2, <2>3, <2>4, <2>5
<1> QED BY <1>9, <1>10 DEF IInv

LEMMA NextKeepsIInv == IInv /\ [Next]_vars => IInv'
<1> SUFFICES ASSUME IInv, [Next]_vars PROVE IInv'
  OBVIOUS
<1>1. \A s \in Slots : Live(s) => wp[s] \in Waypoint
  BY DEF IInv, TypeOK, Live
<1>2. ASSUME NEW s \in Slots, Create(s) PROVE IInv'
  <2>1. PICK t \in Tags, active \in BOOLEAN :
            /\ \A k \in 0 .. Held - 1 : ring[Cell(k)] # [slot |-> s, tag |-> t]
            /\ wp' = [wp EXCEPT ![s] = [tag |-> t, active |-> active,
                                        requested |-> FALSE, path |-> FALSE]]
    BY <1>2 DEF Create
  <2> DEFINE w == [tag |-> t, active |-> active, requested |-> FALSE, path |-> FALSE]
  <2>2. w \in Waypoint /\ w.tag = t
    BY DEF Waypoint
  <2>3. UNCHANGED <<ring, first, last>>
    BY <1>2 DEF Create
  <2> HIDE DEF w
  <2> QED BY <2>1, <2>2, <2>3, WaypointChanges DEF w
<1>3. ASSUME NEW s \in Slots, Destroy(s) PROVE IInv'
  BY <1>3, WaypointChanges DEF Destroy
<1>4. ASSUME NEW s \in Slots, NEW a \in BOOLEAN, NEW q \in BOOLEAN, Live(s),
             wp' = [wp EXCEPT ![s] = [wp[s] EXCEPT !.active = a, !.path = q]],
             UNCHANGED <<ring, first, last>>
      PROVE  IInv'
  <2> DEFINE w == [wp[s] EXCEPT !.active = a, !.path = q]
  <2>1. w \in Waypoint /\ w.tag = wp[s].tag /\ w.requested = wp[s].requested
    BY <1>1, <1>4 DEF Waypoint
  <2> HIDE DEF w
  <2> QED BY <1>4, <2>1, WaypointChanges DEF w
<1>5. ASSUME NEW s \in Slots, Activate(s) \/ Deactivate(s) \/ Arrive(s) PROVE IInv'
  <2>1. wp[s] \in Waypoint /\ Live(s) /\ UNCHANGED <<ring, first, last>>
    BY <1>1, <1>5 DEF Activate, Deactivate, Arrive
  <2>2. CASE Activate(s)
    <3>1. wp' = [wp EXCEPT ![s] = [wp[s] EXCEPT !.active = TRUE, !.path = wp[s].path]]
      BY <2>1, <2>2 DEF Activate, IInv, TypeOK, Waypoint
    <3> QED BY <1>4, <2>1, <3>1 DEF Waypoint
  <2>3. CASE Deactivate(s)
    <3>1. wp' = [wp EXCEPT ![s] = [wp[s] EXCEPT !.active = FALSE, !.path = wp[s].path]]
      BY <2>1, <2>3 DEF Deactivate, IInv, TypeOK, Waypoint
    <3> QED BY <1>4, <2>1, <3>1 DEF Waypoint
  <2>4. CASE Arrive(s)
    <3>1. wp' = [wp EXCEPT ![s] = [wp[s] EXCEPT !.active = FALSE, !.path = FALSE]]
      BY <2>1, <2>4 DEF Arrive, IInv, TypeOK, Waypoint
    <3> QED BY <1>4, <2>1, <3>1
  <2> QED BY <1>5, <2>2, <2>3, <2>4
<1>6. ASSUME NEW s \in Slots, Move(s) PROVE IInv'
  <2>1. wp[s] \in Waypoint /\ Live(s) /\ UNCHANGED first
    BY <1>1, <1>6 DEF Move
  <2>2. PICK far \in BOOLEAN, ended \in BOOLEAN, stuck \in BOOLEAN :
            IF far /\ (~wp[s].path \/ ended)
            THEN Ask(s)
            ELSE /\ wp' = [wp EXCEPT ![s].path = @ /\ ~ended /\ ~stuck]
                 /\ UNCHANGED <<ring, last>>
    BY <1>6 DEF Move
  <2>3. CASE wp' = [wp EXCEPT ![s].path = @ /\ ~ended /\ ~stuck] /\ UNCHANGED <<ring, last>>
    <3>1. (wp[s].path /\ ~ended /\ ~stuck) \in BOOLEAN
      OBVIOUS
    <3>2. PICK q \in BOOLEAN : q = (wp[s].path /\ ~ended /\ ~stuck)
      BY <3>1
    <3>3. wp' = [wp EXCEPT ![s] = [wp[s] EXCEPT !.active = wp[s].active, !.path = q]]
      BY <2>1, <2>3, <3>2 DEF IInv, TypeOK, Waypoint
    <3> QED BY <1>4, <2>1, <2>3, <3>3 DEF Waypoint
  <2>4. CASE Ask(s)
    <3>1. CASE wp[s].requested \/ Full
      <4>1. wp' = [wp EXCEPT ![s] = [wp[s] EXCEPT !.active = wp[s].active, !.path = FALSE]]
        BY <2>1, <2>4, <3>1 DEF Ask, IInv, TypeOK, Waypoint
      <4>2. UNCHANGED <<ring, last>>
        BY <2>4, <3>1 DEF Ask
      <4> QED BY <1>4, <2>1, <4>1, <4>2 DEF Waypoint
    <3>2. CASE ~(wp[s].requested \/ Full)
      BY <2>1, <2>4, <3>2, PutKeepsIInv DEF Ask
    <3> QED BY <3>1, <3>2
  <2> QED BY <2>2, <2>3, <2>4
<1>7. ASSUME Dequeue PROVE IInv'
  BY <1>7, DropKeepsIInv, ServeKeepsIInv DEF Dequeue
<1>8. ASSUME UNCHANGED vars PROVE IInv'
  BY <1>8, TakeNone DEF vars, IInv, TypeOK, QueuedOnce, Mine, Live
<1> QED BY <1>2, <1>3, <1>5, <1>6, <1>7, <1>8 DEF Next

LEMMA Inductive == Spec => []IInv
BY InitIInv, NextKeepsIInv, PTL DEF Spec

(* The indices stay in the ring and the queue holds requests only          *)
(* (pathfinder_queue_enqueue() and pathfinder_queue_dequeue()).            *)
THEOREM TypeCorrect == Spec => []TypeOK
BY Inductive, PTL DEF IInv

(* A waypoint is queued at most once, and has its flag set while it is     *)
(* (path_request(), path_get_next_request()), whatever is created in the   *)
(* memory of waypoints that died in the queue.                             *)
THEOREM OnceQueued == Spec => []QueuedOnce
BY Inductive, PTL DEF IInv

---------------------------------------------------------------------------
(* The ring implements the queue                                           *)

LEMMA QueueOfRing ==
    ASSUME IInv
    PROVE  /\ Queue \in Seq(Request) /\ Len(Queue) = Held
           /\ \A k \in 1 .. Held : Queue[k] = ring[Cell(k - 1)]
<1>1. Held \in Nat /\ \A k \in 0 .. Held - 1 : Cell(k) \in Cells
  BY CellsOfRing, SizeIsNat DEF IInv, TypeOK, Indices
<1>2. \A k \in 1 .. Held : k - 1 \in 0 .. Held - 1
  BY <1>1
<1>3. \A k \in 1 .. Held : ring[Cell(k - 1)] \in Request
  BY <1>1, <1>2 DEF IInv, TypeOK
<1>4. Queue \in [1 .. Held -> Request]
  BY <1>3 DEF Queue
<1> QED BY <1>1, <1>4 DEF Queue

(* Nothing happens to the queue.                                           *)
LEMMA QueueStays ==
    ASSUME UNCHANGED <<ring, first, last>>
    PROVE  Q!Next
<1>1. Held' = Held /\ \A k : Cell(k)' = Cell(k)
  BY TakeNone
<1>2. Queue' = Queue
  BY <1>1 DEF Queue
<1> QED BY <1>2 DEF Q!Next

LEMMA QueuePut ==
    ASSUME IInv, IInv', NEW s \in Slots, Live(s), ~Full, UNCHANGED first,
           ring' = [ring EXCEPT ![last] = [slot |-> s, tag |-> wp[s].tag]], last' = After(last)
    PROVE  Q!Next
<1> DEFINE r == [slot |-> s, tag |-> wp[s].tag]
<1>1. Indices
  BY DEF IInv, TypeOK, Indices
<1>2. Held' = Held + 1 /\ \A k : Cell(k)' = Cell(k)
  BY <1>1, PutOne
<1>3. PICK n \in Nat : n = Held
  BY <1>1, CellsOfRing, SizeIsNat
<1>4. n + 1 \in 0 .. QueueSize - 1 /\ Cell(n) = last
  BY <1>1, <1>3, CellsOfRing, SizeIsNat
<1>5. ASSUME NEW k \in 0 .. n - 1 PROVE Cell(k) \in Cells /\ Cell(k) # last
  <2>1. k \in 0 .. QueueSize - 1 /\ n \in 0 .. QueueSize - 1 /\ k # n
    BY <1>3, <1>4, SizeIsNat
  <2> QED BY <1>1, <1>4, <2>1, CellsOfRing
<1>6. r \in Request
  BY DEF IInv, TypeOK, Live, Waypoint, Request
<1>7. \A k \in 0 .. n - 1 : ring'[Cell(k)'] = ring[Cell(k)]
  BY <1>2, <1>5 DEF IInv, TypeOK
<1>8. ring'[Cell(n)'] = r
  BY <1>2, <1>4 DEF IInv, TypeOK
<1>9. /\ Queue \in Seq(Request) /\ Len(Queue) = n
      /\ \A k \in 1 .. n : Queue[k] = ring[Cell(k - 1)]
  BY <1>3, QueueOfRing
<1>10. Queue' = [k \in 1 .. n + 1 |-> ring'[Cell(k - 1)']]
  BY <1>2, <1>3 DEF Queue
<1>11. ASSUME NEW k \in 1 .. n + 1
       PROVE  ring'[Cell(k - 1)'] = IF k = n + 1 THEN r ELSE Queue[k]
  <2>1. CASE k = n + 1
    BY <1>8, <2>1
  <2>2. CASE k # n + 1
    <3>1. k \in 1 .. n /\ k - 1 \in 0 .. n - 1
      BY <2>2
    <3> QED BY <1>7, <1>9, <2>2, <3>1
  <2> QED BY <2>1, <2>2
<1>12. Queue' = Append(Queue, r)
  <2>1. Queue' = [k \in 1 .. n + 1 |-> IF k = n + 1 THEN r ELSE Queue[k]]
    BY <1>10, <1>11
  <2> QED BY <1>9, <2>1
<1>13. Len(Queue) < QueueSize - 1
  BY <1>4, <1>9, SizeIsNat
<1>14. Q!Put(r)
  BY <1>12, <1>13 DEF Q!Put
<1> QED BY <1>6, <1>14 DEF Q!Next

LEMMA QueueServe ==
    ASSUME IInv, NEW k \in 0 .. Held - 1, Wanted(ring[Cell(k)]), Serve(k), UNCHANGED <<ring, last>>,
           \A j \in 0 .. k - 1 : ~Wanted(ring[Cell(j)])
    PROVE  Q!Next
<1>1. Indices
  BY DEF IInv, TypeOK, Indices
<1>2. PICK n \in Nat : n = Held
  BY <1>1, CellsOfRing, SizeIsNat
<1>3. Held' = n - k - 1 /\ \A j \in 0 .. Held' - 1 : Cell(j)' = Cell(j + k + 1)
  BY <1>1, <1>2, TakeSome DEF Serve
<1>4. k \in 0 .. n - 1 /\ k + 1 \in 1 .. n
  BY <1>2
<1>5. /\ Queue \in Seq(Request) /\ Len(Queue) = n
      /\ \A j \in 1 .. n : Queue[j] = ring[Cell(j - 1)]
  BY <1>2, QueueOfRing
<1>6. Queue' = SubSeq(Queue, k + 2, n)
  <2>1. Queue' = [j \in 1 .. n - k - 1 |-> ring[Cell(j - 1)']]
    BY <1>3 DEF Queue
  <2>2. ASSUME NEW j \in 1 .. n - k - 1 PROVE ring[Cell(j - 1)'] = Queue[j + k + 1]
    <3>1. j - 1 \in 0 .. Held' - 1 /\ j + k + 1 \in 1 .. n
      BY <1>3, <1>4
    <3>2. Cell(j - 1)' = Cell(j - 1 + k + 1)
      BY <1>3, <3>1
    <3>3. j - 1 + k + 1 = j + k + 1 - 1
      BY <1>4
    <3> QED BY <1>5, <3>1, <3>2, <3>3
  <2>3. Queue' = [j \in 1 .. n - k - 1 |-> Queue[j + k + 1]]
    BY <2>1, <2>2
  <2> QED BY <1>4, <1>5, <2>3
<1>7. Queue[k + 1] \in {r \in Request : Wanted(r)}
  <2>1. Queue[k + 1] = ring[Cell(k)]
    BY <1>4, <1>5
  <2> QED BY <1>4, <1>5, <2>1
<1>8. ASSUME NEW j \in 1 .. k + 1 - 1 PROVE Queue[j] \notin {r \in Request : Wanted(r)}
  <2>1. j \in 1 .. n /\ j - 1 \in 0 .. k - 1
    BY <1>4
  <2> QED BY <1>5, <2>1
<1>9. Q!Take(k + 1)
  <2>1. k + 1 + 1 = k + 2
    BY <1>4
  <2> QED BY <1>5, <1>6, <1>7, <1>8, <2>1 DEF Q!Take
<1> QED BY <1>4, <1>5, <1>9 DEF Q!Next

LEMMA QueueDrop ==
    ASSUME IInv, first # last, first' = last, UNCHANGED <<ring, last>>,
           \A j \in 0 .. Held - 1 : ~Wanted(ring[Cell(j)])
    PROVE  Q!Next
<1>1. Indices
  BY DEF IInv, TypeOK, Indices
<1>2. PICK n \in Nat : n = Held
  BY <1>1, CellsOfRing, SizeIsNat
<1>3. n # 0 /\ Held' = 0
  BY <1>1, <1>2, CellsOfRing, TakeAll
<1>4. /\ Queue \in Seq(Request) /\ Len(Queue) = n
      /\ \A j \in 1 .. n : Queue[j] = ring[Cell(j - 1)]
  BY <1>2, QueueOfRing
<1>5. Queue' = SubSeq(Queue, n + 1, n)
  <2>1. Queue' = <<>>
    BY <1>3 DEF Queue
  <2> QED BY <1>4, <2>1
<1>6. ASSUME NEW j \in 1 .. n - 1 PROVE Queue[j] \notin {r \in Request : Wanted(r)}
  <2>1. j \in 1 .. n /\ j - 1 \in 0 .. Held - 1
    BY <1>2
  <2> QED BY <1>4, <2>1
<1>7. Q!Take(n)
  BY <1>4, <1>5, <1>6 DEF Q!Take
<1> QED BY <1>3, <1>4, <1>7 DEF Q!Next

LEMMA InitImplements == Init => Q!Init
<1> SUFFICES ASSUME Init PROVE Q!Init
  OBVIOUS
<1>1. Held = 0
  BY DEF Init, Held
<1>2. Queue = <<>>
  BY <1>1 DEF Queue
<1> QED BY <1>2 DEF Q!Init

LEMMA NextImplements == IInv /\ IInv' /\ [Next]_vars => [Q!Next]_(Q!vars)
<1> SUFFICES ASSUME IInv, IInv', [Next]_vars PROVE Q!Next
  OBVIOUS
<1>1. CASE UNCHANGED <<ring, first, last>>
  BY <1>1, QueueStays
<1>2. ASSUME NEW s \in Slots, Move(s) PROVE Q!Next
  <2>1. Live(s) /\ UNCHANGED first
    BY <1>2 DEF Move
  <2>2. CASE UNCHANGED <<ring, last>>
    BY <2>1, <2>2, QueueStays
  <2>3. CASE Ask(s) /\ ~(wp[s].requested \/ Full)
    BY <2>1, <2>3, QueuePut DEF Ask
  <2> QED BY <1>2, <2>2, <2>3 DEF Move, Ask
<1>3. ASSUME Dequeue PROVE Q!Next
  BY <1>3, QueueDrop, QueueServe DEF Dequeue
<1> QED BY <1>1, <1>2, <1>3 DEF Next, vars, Create, Destroy, Activate, Deactivate, Arrive

(* The ring is a bounded queue from which nothing wanted is lost and which *)
(* keeps the order of requests, for every size of the ring                 *)
(* (pathfinder_queue_enqueue(), path_get_next_request()).                  *)
THEOREM RequestsInOrder == Spec => InOrder
<1>1. Init => Q!Init
  BY InitImplements
<1>2. IInv /\ IInv' /\ [Next]_vars => [Q!Next]_(Q!vars)
  BY NextImplements
<1> QED BY <1>1, <1>2, Inductive, PTL DEF Spec, InOrder, Q!Spec
=============================================================================
