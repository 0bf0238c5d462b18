------------------------- MODULE ActiveListProofs -------------------------
(* Proofs about ActiveList for any pool of objects. *)
EXTENDS ActiveList, TLAPS

(* l is a well-formed list whose members are M: the invariant of every
   operation on the list. *)
ListInv(l, M) ==
    /\ l \in Lists
    /\ M \subseteq Nodes
    /\ Linked(l, M)
    /\ Acyclic(l, M)
    /\ \A o \in Slots \ M : l.next[o] = NULL /\ l.prev[o] = NULL

(* An object is recognised as a member by its own pointers and the head, the
   test object_update_speed() makes. *)
LEMMA OnListIsMember ==
    ASSUME NEW l, NEW M, ListInv(l, M), NEW o \in Slots
    PROVE  OnList(l, o) <=> o \in M
<1>1. CASE o \in M
  BY <1>1 DEF ListInv, Linked, OnList
<1>2. CASE o \notin M
  BY <1>2, NullAssumption DEF ListInv, Linked, OnList, Nodes
<1>3. QED BY <1>1, <1>2

(* Putting a node that is not in the list at its beginning keeps the list
   well-formed. *)
LEMMA PushFrontInv ==
    ASSUME NEW l, NEW M, ListInv(l, M), NEW o \in Nodes, o \notin M
    PROVE  ListInv(PushFront(l, o), M \cup {o})
<1> DEFINE k == PushFront(l, o)
           N == M \cup {o}
<1>1. /\ k.head = o
      /\ k.next = [l.next EXCEPT ![o] = l.head]
      /\ k.prev = [n \in Nodes |-> CASE n = o -> NULL
                                     [] n # o /\ n = l.head -> o
                                     [] OTHER -> l.prev[n]]
  BY DEF PushFront
<1>2. l \in Lists /\ M \subseteq Nodes /\ NULL \notin Nodes /\ Linked(l, M)
  BY NullAssumption DEF ListInv, Nodes
<1>3. k \in Lists
  <2>1. k.next \in [Nodes -> Pointers]
    BY <1>1, <1>2 DEF Lists, Pointers
  <2>2. \A n \in Nodes : (CASE n = o -> NULL
                            [] n # o /\ n = l.head -> o
                            [] OTHER -> l.prev[n]) \in Pointers
    BY <1>2 DEF Lists, Pointers
  <2>3. k.prev \in [Nodes -> Pointers]
    BY <1>1, <2>2
  <2>4. QED BY <2>1, <2>3 DEF PushFront, Lists, Pointers
<1>4. \A n \in Nodes : /\ k.next[n] = IF n = o THEN l.head ELSE l.next[n]
                       /\ n = o => k.prev[n] = NULL
                       /\ n # o /\ n = l.head => k.prev[n] = o
                       /\ n # o /\ n # l.head => k.prev[n] = l.prev[n]
  BY <1>1, <1>2 DEF Lists
<1>5. Linked(k, N)
  BY <1>1, <1>2, <1>4 DEF Linked
<1>6. Acyclic(k, N)
  <2> SUFFICES ASSUME NEW S \in SUBSET N, S # {}
               PROVE  \E n \in S : k.prev[n] \notin S
    BY DEF Acyclic
  <2>1. CASE o \in S
    BY <2>1, <1>2, <1>4
  <2>2. CASE o \notin S
    <3>1. PICK n \in S : l.prev[n] \notin S
      BY <2>2 DEF ListInv, Acyclic
    <3>2. k.prev[n] \in {o, l.prev[n]}
      BY <3>1, <2>2, <1>2, <1>4
    <3>3. QED BY <3>1, <3>2, <2>2
  <2>3. QED BY <2>1, <2>2
<1>7. \A s \in Slots \ N : k.next[s] = NULL /\ k.prev[s] = NULL
  BY <1>2, <1>4 DEF ListInv, Nodes, Linked
<1>8. QED BY <1>2, <1>3, <1>5, <1>6, <1>7 DEF ListInv

(* Unlinking a member keeps the list well-formed. *)
LEMMA UnlinkInv ==
    ASSUME NEW l, NEW M, ListInv(l, M), NEW o \in M
    PROVE  ListInv(Unlink(l, o), M \ {o})
<1> DEFINE k == Unlink(l, o)
           N == M \ {o}
<1>1. /\ k.head = IF l.prev[o] = NULL THEN l.next[o] ELSE l.head
      /\ k.next = [n \in Nodes |-> CASE n = o -> NULL
                                     [] n # o /\ n = l.prev[o] -> l.next[o]
                                     [] OTHER -> l.next[n]]
      /\ k.prev = [n \in Nodes |-> CASE n = o -> NULL
                                     [] n # o /\ n = l.next[o] -> l.prev[o]
                                     [] OTHER -> l.prev[n]]
  BY DEF Unlink
<1>2. l \in Lists /\ M \subseteq Nodes /\ NULL \notin Nodes /\ Linked(l, M) /\ o \in Nodes
  BY NullAssumption DEF ListInv, Nodes
<1>3. \A n \in Nodes : /\ n = o => k.next[n] = NULL /\ k.prev[n] = NULL
                       /\ n # o /\ n = l.prev[o] => k.next[n] = l.next[o]
                       /\ n # o /\ n # l.prev[o] => k.next[n] = l.next[n]
                       /\ n # o /\ n = l.next[o] => k.prev[n] = l.prev[o]
                       /\ n # o /\ n # l.next[o] => k.prev[n] = l.prev[n]
  BY <1>1
<1>4. k \in Lists
  <2>1. \A n \in Nodes : k.next[n] \in Pointers /\ k.prev[n] \in Pointers
    BY <1>2, <1>3 DEF Lists, Pointers
  <2>2. k.next \in [Nodes -> Pointers] /\ k.prev \in [Nodes -> Pointers]
    BY <1>1, <2>1
  <2>3. k.head \in Pointers
    BY <1>1, <1>2 DEF Lists
  <2>4. QED BY <2>2, <2>3 DEF Unlink, Lists
<1>5. l.prev[o] # o /\ l.next[o] # o
  <2>1. l.prev[o] # o
    <3>1. {o} \in SUBSET M /\ {o} # {}
      OBVIOUS
    <3>2. \E n \in {o} : l.prev[n] \notin {o}
      BY <3>1 DEF ListInv, Acyclic
    <3>3. QED BY <3>2
  <2>2. QED BY <2>1, <1>2 DEF Linked
<1>6. Linked(k, N)
  <2>1. k.head \in N \cup {NULL} /\ (k.head = NULL => N = {})
    <3>1. k.head \in N \cup {NULL}
      BY <1>1, <1>2, <1>5 DEF Linked
    <3>2. ASSUME k.head = NULL, N # {} PROVE FALSE
      <4>1. l.prev[o] = NULL /\ l.next[o] = NULL
        BY <3>2, <1>1, <1>2 DEF Linked
      <4>2. PICK n \in N : l.prev[n] \notin N
        BY <3>2 DEF ListInv, Acyclic
      <4>3. l.prev[n] = NULL \/ l.prev[n] = o
        BY <4>2, <1>2 DEF Linked
      <4>4. QED BY <4>1, <4>2, <4>3, <1>2 DEF Linked
    <3>3. QED BY <3>1, <3>2
  <2>2. ASSUME NEW n \in N
        PROVE  /\ k.next[n] \in N \cup {NULL}
               /\ k.prev[n] \in N \cup {NULL}
               /\ k.next[n] # NULL => k.prev[k.next[n]] = n
               /\ k.prev[n] # NULL => k.next[k.prev[n]] = n
               /\ k.prev[n] = NULL <=> n = k.head
    BY SMTT(20), <1>1, <1>2, <1>3, <1>5 DEF Linked
  <2>3. QED BY <2>1, <2>2 DEF Linked
<1>7. Acyclic(k, N)
  <2> SUFFICES ASSUME NEW S \in SUBSET N, S # {}
               PROVE  \E n \in S : k.prev[n] \notin S
    BY DEF Acyclic
  <2>1. PICK a \in S : l.prev[a] \notin S
    BY DEF ListInv, Acyclic
  <2>2. PICK b \in S \cup {o} : l.prev[b] \notin S \cup {o}
    BY DEF ListInv, Acyclic
  <2>3. CASE l.next[o] \notin S
    BY <2>1, <2>3, <1>2, <1>3
  <2>4. CASE l.next[o] \in S /\ b = o
    BY <2>2, <2>4, <1>2, <1>3
  <2>5. CASE b # o
    <3>1. b \in Nodes /\ b # l.next[o]
      BY <2>2, <2>5, <1>2 DEF Linked
    <3>2. QED BY <2>2, <2>5, <3>1, <1>3
  <2>6. QED BY <2>3, <2>4, <2>5
<1>8. \A s \in Slots \ N : k.next[s] = NULL /\ k.prev[s] = NULL
  BY <1>2, <1>3 DEF ListInv, Nodes, Linked
<1>9. QED BY <1>2, <1>4, <1>6, <1>7, <1>8 DEF ListInv

(* Moving the marker past the next node keeps the list well-formed. *)
LEMMA MoveMarkerInv ==
    ASSUME NEW l, NEW M, ListInv(l, M), Marker \in M, l.next[Marker] # NULL
    PROVE  ListInv(MoveMarker(l), M)
<1> DEFINE k == MoveMarker(l)
           o == l.next[Marker]
           p == l.prev[Marker]
           q == l.next[o]
<1>1. /\ k.head = IF p = NULL THEN o ELSE l.head
      /\ k.next = [n \in Nodes |-> CASE n = o -> Marker
                                     [] n = Marker -> q
                                     [] n # o /\ n # Marker /\ n = p -> o
                                     [] OTHER -> l.next[n]]
      /\ k.prev = [n \in Nodes |-> CASE n = o -> p
                                     [] n = Marker -> o
                                     [] n # o /\ n # Marker /\ n = q -> Marker
                                     [] OTHER -> l.prev[n]]
  BY DEF MoveMarker
<1>2. l \in Lists /\ M \subseteq Nodes /\ NULL \notin Nodes /\ Linked(l, M)
  BY NullAssumption DEF ListInv, Nodes
<1>3. /\ o \in M /\ l.prev[o] = Marker
      /\ p \in M \cup {NULL} /\ q \in M \cup {NULL}
  BY <1>2 DEF Linked
<1>4. o # Marker
  <2>1. {Marker} \in SUBSET M /\ {Marker} # {}
    OBVIOUS
  <2>2. \E n \in {Marker} : l.prev[n] \notin {Marker}
    BY <2>1 DEF ListInv, Acyclic
  <2>3. QED BY <2>2, <1>3
<1>5. p # o
  <2>1. {Marker, o} \in SUBSET M /\ {Marker, o} # {}
    BY <1>3
  <2>2. \E n \in {Marker, o} : l.prev[n] \notin {Marker, o}
    BY <2>1 DEF ListInv, Acyclic
  <2>3. QED BY <2>2, <1>3
<1>6. p # Marker /\ q # o /\ q # Marker
  BY <1>2, <1>3, <1>4, <1>5 DEF Linked
<1> HIDE DEF o, p, q, k
<1>7. \A n \in Nodes : /\ n = o => k.next[n] = Marker /\ k.prev[n] = p
                       /\ n = Marker => k.next[n] = q /\ k.prev[n] = o
                       /\ n # o /\ n # Marker /\ n = p => k.next[n] = o
                       /\ n # o /\ n # Marker /\ n # p => k.next[n] = l.next[n]
                       /\ n # o /\ n # Marker /\ n = q => k.prev[n] = Marker
                       /\ n # o /\ n # Marker /\ n # q => k.prev[n] = l.prev[n]
  BY <1>1, <1>4
<1>8. k \in Lists
  <2>1. \A n \in Nodes : k.next[n] \in Pointers /\ k.prev[n] \in Pointers
    BY <1>2, <1>3, <1>7 DEF Lists, Pointers
  <2>2. k.next \in [Nodes -> Pointers] /\ k.prev \in [Nodes -> Pointers]
    BY <1>1, <2>1
  <2>3. k.head \in Pointers
    BY <1>1, <1>2, <1>3 DEF Lists, Pointers
  <2>4. QED BY <2>2, <2>3 DEF k, MoveMarker, Lists
<1>9. /\ l.next[Marker] = o /\ l.prev[Marker] = p /\ l.next[o] = q
  BY DEF o, p, q
<1>10. Linked(k, M)
  <2>1. k.head \in M \cup {NULL} /\ (k.head = NULL => M = {})
    BY <1>1, <1>2, <1>3 DEF Linked
  <2>2. ASSUME NEW n \in M
        PROVE  /\ k.next[n] \in M \cup {NULL}
               /\ k.prev[n] \in M \cup {NULL}
    BY <1>2, <1>3, <1>7 DEF Linked
  <2>3. ASSUME NEW n \in M
        PROVE  k.prev[n] = NULL <=> n = k.head
    BY <1>1, <1>2, <1>3, <1>4, <1>5, <1>6, <1>7, <1>9 DEF Linked
  <2>4. ASSUME NEW n \in M, k.next[n] # NULL
        PROVE  k.prev[k.next[n]] = n
    BY <1>2, <1>3, <1>4, <1>5, <1>6, <1>7, <1>9, <2>4 DEF Linked
  <2>5. ASSUME NEW n \in M, k.prev[n] # NULL
        PROVE  k.next[k.prev[n]] = n
    BY <1>2, <1>3, <1>4, <1>5, <1>6, <1>7, <1>9, <2>5 DEF Linked
  <2>6. QED BY <2>1, <2>2, <2>3, <2>4, <2>5 DEF Linked
<1>11. Acyclic(k, M)
  <2> SUFFICES ASSUME NEW S \in SUBSET M, S # {}
               PROVE  \E n \in S : k.prev[n] \notin S
    BY DEF Acyclic
  <2> DEFINE swap(n) == IF n = o THEN Marker ELSE IF n = Marker THEN o ELSE n
             T == {n \in M : swap(n) \in S}
  <2>1. T # {}
    <3>1. PICK s \in S : TRUE
      OBVIOUS
    <3>2. swap(s) \in M /\ swap(swap(s)) = s
      BY <1>3
    <3>3. QED BY <3>2
  <2>2. PICK n \in T : l.prev[n] \notin T
    BY <2>1 DEF ListInv, Acyclic
  <2>3. n \in Nodes /\ (l.prev[n] = NULL \/ l.prev[n] \in M)
    BY <1>2, <2>2 DEF Linked
  <2>4. CASE n = Marker
    <3>1. o \in S /\ p \notin T
      BY <2>2, <2>4, <1>9
    <3>2. p \notin S
      BY <3>1, <1>3, <1>5, <1>6
    <3>3. QED BY <3>1, <3>2, <1>2, <1>3, <1>7
  <2>5. CASE n = o
    <3>1. Marker \in S /\ o \notin S
      BY <2>2, <2>5, <1>3, <1>4
    <3>2. QED BY <3>1, <1>2, <1>7
  <2>6. CASE n # Marker /\ n # o /\ n = q
    <3>1. l.prev[n] = o
      BY <2>6, <1>2, <1>3, <1>9 DEF Linked
    <3>2. n \in S /\ Marker \notin S
      BY <3>1, <2>2, <2>6, <1>3, <1>4
    <3>3. QED BY <3>2, <2>3, <2>6, <1>7
  <2>7. CASE n # Marker /\ n # o /\ n # q
    <3>1. l.prev[n] # o /\ l.prev[n] # Marker
      BY <2>7, <2>3, <1>2, <1>3, <1>9 DEF Linked
    <3>2. n \in S /\ l.prev[n] \notin S
      BY <3>1, <2>2, <2>3, <2>7, <1>2
    <3>3. QED BY <3>2, <2>3, <2>7, <1>7
  <2>8. QED BY <2>4, <2>5, <2>6, <2>7
<1>12. \A s \in Slots \ M : k.next[s] = NULL /\ k.prev[s] = NULL
  <2> SUFFICES ASSUME NEW s \in Slots \ M
               PROVE  k.next[s] = NULL /\ k.prev[s] = NULL
    OBVIOUS
  <2>1. s \in Nodes /\ s # o /\ s # Marker /\ s # p /\ s # q
    BY <1>2, <1>3 DEF Nodes
  <2>2. l.next[s] = NULL /\ l.prev[s] = NULL
    BY DEF ListInv
  <2>3. QED BY <2>1, <2>2, <1>7
<1>13. QED BY <1>2, <1>8, <1>10, <1>11, <1>12 DEF ListInv, k

(* Taking the marker out when it is last keeps the list well-formed, although
   the marker's own pointers are left as they were. *)
LEMMA DropMarkerInv ==
    ASSUME NEW l, NEW M, ListInv(l, M), Marker \in M, l.next[Marker] = NULL
    PROVE  ListInv(DropMarker(l), M \ {Marker})
<1> DEFINE k == DropMarker(l)
           N == M \ {Marker}
           p == l.prev[Marker]
<1>1. l \in Lists /\ M \subseteq Nodes /\ NULL \notin Nodes /\ Linked(l, M)
      /\ Marker \in Nodes
  BY NullAssumption DEF ListInv, Nodes
<1>2. /\ k.head = IF p # NULL THEN l.head ELSE NULL
      /\ k.prev = l.prev
      /\ p # NULL => k.next = [l.next EXCEPT ![p] = NULL]
      /\ p = NULL => k.next = l.next
  BY <1>1 DEF DropMarker, Lists
<1>3. k \in Lists
  BY <1>1 DEF DropMarker, Lists, Pointers
<1>4. p \in N \cup {NULL}
  <2>1. {Marker} \in SUBSET M /\ {Marker} # {}
    OBVIOUS
  <2>2. \E n \in {Marker} : l.prev[n] \notin {Marker}
    BY <2>1 DEF ListInv, Acyclic
  <2>3. QED BY <2>2, <1>1 DEF Linked
<1>5. \A n \in Nodes : /\ k.prev[n] = l.prev[n]
                       /\ n = p => k.next[n] = NULL
                       /\ n # p => k.next[n] = l.next[n]
  BY <1>1, <1>2, <1>4 DEF Lists
<1>6. p = NULL => N = {}
  <2> SUFFICES ASSUME p = NULL, N # {} PROVE FALSE
    OBVIOUS
  <2>1. PICK n \in N : l.prev[n] \notin N
    BY DEF ListInv, Acyclic
  <2>2. l.prev[n] = NULL \/ l.prev[n] = Marker
    BY <2>1, <1>1 DEF Linked
  <2>3. QED BY <2>1, <2>2, <1>1 DEF Linked
<1>7. Linked(k, N)
  <2>1. k.head \in N \cup {NULL} /\ (k.head = NULL => N = {})
    BY <1>1, <1>2, <1>6 DEF Linked
  <2>2. ASSUME NEW n \in N
        PROVE  /\ k.next[n] \in N \cup {NULL}
               /\ k.prev[n] \in N \cup {NULL}
               /\ k.prev[n] = NULL <=> n = k.head
               /\ k.next[n] # NULL => k.prev[k.next[n]] = n
               /\ k.prev[n] # NULL => k.next[k.prev[n]] = n
    BY <1>1, <1>2, <1>4, <1>5, <1>6 DEF Linked
  <2>3. QED BY <2>1, <2>2 DEF Linked
<1>8. Acyclic(k, N)
  <2> SUFFICES ASSUME NEW S \in SUBSET N, S # {}
               PROVE  \E n \in S : k.prev[n] \notin S
    BY DEF Acyclic
  <2>1. PICK n \in S : l.prev[n] \notin S
    BY DEF ListInv, Acyclic
  <2>2. QED BY <2>1, <1>1, <1>5
<1>9. \A s \in Slots \ N : k.next[s] = NULL /\ k.prev[s] = NULL
  BY <1>1, <1>4, <1>5, MarkerAssumption DEF ListInv, Nodes
<1>10. QED BY <1>1, <1>3, <1>7, <1>8, <1>9 DEF ListInv

---------------------------------------------------------------------------
(* The members after object_update_speed(). *)
NewMembers(M, o, s, m) == IF m THEN M ELSE IF s = "active" THEN M \cup {o} ELSE M \ {o}

(* object_update_speed() keeps the list well-formed and makes the object a
   member exactly when its speed asks for it. *)
LEMMA UpdateSpeedInv ==
    ASSUME NEW l, NEW M, ListInv(l, M), NEW o \in Slots, NEW s, NEW m \in BOOLEAN
    PROVE  ListInv(UpdateSpeed(l, o, s, m), NewMembers(M, o, s, m))
<1>1. OnList(l, o) <=> o \in M
  BY OnListIsMember
<1>2. CASE m
  BY <1>2 DEF UpdateSpeed, NewMembers
<1>3. CASE ~m /\ s = "active"
  <2>1. CASE o \in M
    <3>1. M \cup {o} = M
      BY <2>1
    <3>2. QED BY <3>1, <2>1, <1>1, <1>3 DEF UpdateSpeed, NewMembers
  <2>2. CASE o \notin M
    <3>1. o \in Nodes
      BY DEF Nodes
    <3>2. QED BY <3>1, <2>2, <1>1, <1>3, PushFrontInv DEF UpdateSpeed, NewMembers
  <2>3. QED BY <2>1, <2>2
<1>4. CASE ~m /\ s # "active"
  <2>1. CASE o \in M
    BY <2>1, <1>1, <1>4, UnlinkInv DEF UpdateSpeed, NewMembers
  <2>2. CASE o \notin M
    <3>1. M \ {o} = M
      BY <2>2
    <3>2. QED BY <3>1, <2>2, <1>1, <1>4 DEF UpdateSpeed, NewMembers
  <2>3. QED BY <2>1, <2>2
<1>5. QED BY <1>2, <1>3, <1>4

(* A node put at the beginning is not ahead of the marker. *)
LEMMA PushFrontAhead ==
    ASSUME NEW l, NEW M, ListInv(l, M), NEW P, Ahead(l, M, P),
           NEW o \in Slots, o \notin M
    PROVE  Ahead(PushFront(l, o), M \cup {o}, P)
<1>1. l \in Lists /\ M \subseteq Nodes /\ o \in Nodes /\ o # Marker /\ Linked(l, M)
  BY MarkerAssumption DEF ListInv, Nodes
<1>2. \A n \in Nodes : PushFront(l, o).next[n] = IF n = o THEN l.head ELSE l.next[n]
  BY <1>1 DEF PushFront, Lists
<1>3. PushFront(l, o).head = o
  BY DEF PushFront
<1>4. QED BY <1>1, <1>2, <1>3 DEF Ahead, Linked

(* Unlinking an object leaves the others on their side of the marker. *)
LEMMA UnlinkAhead ==
    ASSUME NEW l, NEW M, ListInv(l, M), NEW P, Ahead(l, M, P),
           NEW o \in Slots, o \in M
    PROVE  Ahead(Unlink(l, o), M \ {o}, P \ {o})
<1> DEFINE k == Unlink(l, o)
<1>1. l \in Lists /\ M \subseteq Nodes /\ o \in Nodes /\ o # Marker /\ Linked(l, M)
      /\ NULL \notin Nodes
  BY MarkerAssumption, NullAssumption DEF ListInv, Nodes
<1>2. \A n \in Nodes : /\ n = o => k.next[n] = NULL
                       /\ n # o /\ n = l.prev[o] => k.next[n] = l.next[o]
                       /\ n # o /\ n # l.prev[o] => k.next[n] = l.next[n]
  BY DEF Unlink
<1>3. k.head = IF l.prev[o] = NULL THEN l.next[o] ELSE l.head
  BY DEF Unlink
<1>4. k.head \notin P \ {o}
  <2>1. CASE l.prev[o] = NULL
    <3>1. o = l.head /\ o \notin P
      BY <2>1, <1>1 DEF Linked, Ahead
    <3>2. NULL \notin P /\ k.head = l.next[o]
      BY <2>1, <1>1, <1>3, NullAssumption DEF Ahead, Nodes
    <3>3. l.next[o] # NULL => (l.next[o] \in P <=> o \in P \cup {Marker})
      BY DEF Ahead
    <3>4. QED BY <3>1, <3>2, <3>3, <1>1
  <2>2. CASE l.prev[o] # NULL
    BY <2>2, <1>3 DEF Ahead
  <2>3. QED BY <2>1, <2>2
<1>5. ASSUME NEW n \in M \ {o}, k.next[n] # NULL
      PROVE  k.next[n] \in P \ {o} <=> n \in (P \ {o}) \cup {Marker}
  <2>1. CASE n = l.prev[o]
    <3>1. l.next[n] = o /\ k.next[n] = l.next[o] /\ l.next[o] # o
      BY <2>1, <1>1, <1>2, <1>5 DEF Linked
    <3>2. (o \in P <=> n \in P \cup {Marker}) /\ (l.next[o] \in P <=> o \in P \cup {Marker})
      <4>1. l.next[n] # NULL /\ l.next[o] # NULL
        BY <3>1, <1>5, NullAssumption DEF Nodes
      <4>2. QED BY <3>1, <4>1 DEF Ahead
    <3>3. QED BY <3>1, <3>2, <1>1
  <2>2. CASE n # l.prev[o]
    <3>1. k.next[n] = l.next[n] /\ l.next[n] # o
      BY <2>2, <1>1, <1>2, <1>5 DEF Linked
    <3>2. QED BY <3>1, <1>5 DEF Ahead
  <2>3. QED BY <2>1, <2>2
<1>6. P \ {o} \subseteq (M \ {o}) \ {Marker}
  BY DEF Ahead
<1>7. QED BY <1>4, <1>5, <1>6 DEF Ahead

(* The object the marker passes is the only one that is no longer ahead. *)
LEMMA MoveMarkerAhead ==
    ASSUME NEW l, NEW M, ListInv(l, M), NEW P, Ahead(l, M, P),
           Marker \in M, NEW o \in Slots, o = l.next[Marker]
    PROVE  o \in P /\ Ahead(MoveMarker(l), M, P \ {o})
<1> DEFINE k == MoveMarker(l)
           p == l.prev[Marker]
           q == l.next[o]
<1>1. /\ l \in Lists /\ M \subseteq Nodes /\ o \in Nodes /\ o # Marker
      /\ Linked(l, M) /\ NULL \notin Nodes /\ Marker \in Nodes
  BY MarkerAssumption, NullAssumption DEF ListInv, Nodes
<1>2. o \in M /\ l.prev[o] = Marker /\ o \in P /\ Marker \notin P
  BY <1>1 DEF Linked, Ahead
<1>3. \A n \in Nodes : /\ n = o => k.next[n] = Marker
                       /\ n = Marker => k.next[n] = q
                       /\ n # o /\ n # Marker /\ n = p => k.next[n] = o
                       /\ n # o /\ n # Marker /\ n # p => k.next[n] = l.next[n]
  BY <1>1 DEF MoveMarker
<1>4. k.head = IF p = NULL THEN o ELSE l.head
  BY DEF MoveMarker
<1>5. p # Marker
  <2>1. l.prev[Marker] = Marker => l.next[Marker] = Marker
    BY <1>1 DEF Linked
  <2>2. QED BY <2>1, <1>1
<1>6. p \notin P
  BY <1>1, <1>2 DEF Linked, Ahead
<1>7. q # NULL => q \in P /\ q # o
  <2>1. q # NULL => q \in P
    BY <1>2 DEF Ahead
  <2>2. q = o => o = Marker
    BY <1>1, <1>2 DEF Linked
  <2>3. QED BY <2>1, <2>2, <1>1
<1>8. ASSUME NEW n \in M, k.next[n] # NULL
      PROVE  k.next[n] \in P \ {o} <=> n \in (P \ {o}) \cup {Marker}
  <2>1. CASE n = o
    BY <2>1, <1>1, <1>2, <1>3
  <2>2. CASE n = Marker
    BY <2>2, <1>1, <1>3, <1>7, <1>8
  <2>3. CASE n # o /\ n # Marker /\ n = p
    BY <2>3, <1>1, <1>3, <1>6
  <2>4. CASE n # o /\ n # Marker /\ n # p
    <3>1. k.next[n] = l.next[n] /\ l.next[n] # o
      BY <2>4, <1>1, <1>2, <1>3, <1>8 DEF Linked
    <3>2. QED BY <3>1, <2>4, <1>8 DEF Ahead
  <2>5. QED BY <2>1, <2>2, <2>3, <2>4
<1>9. k.head \notin P \ {o} /\ P \ {o} \subseteq M \ {Marker}
  BY <1>4 DEF Ahead
<1>10. QED BY <1>2, <1>8, <1>9 DEF Ahead

---------------------------------------------------------------------------
(* The inductive invariant.  ListInv adds to ListWellFormed that what is not a
   member points nowhere; VisitInv ties the locals of process_events() to the
   object that has its turn. *)
VisitInv ==
    /\ OnlyVisitedTouched
    /\ tag <= tags /\ \A o \in Slots : count[o] <= tags
    /\ pass = "process" => (op \in visited \/ Destroyed(op, tag))

IInv ==
    /\ TypeOK
    /\ ListInv(list, Members)
    /\ ListedActive
    /\ PendingAhead
    /\ VisitInv

(* The members recognised by OnList are the M of ListInv. *)
LEMMA MembersAre ==
    ASSUME NEW l, NEW M, ListInv(l, M), NEW ph, Marker \in M <=> ph # "idle"
    PROVE  MembersOf(l, ph) = M
<1>1. \A o \in Slots : OnList(l, o) <=> o \in M
  BY OnListIsMember
<1>2. M \subseteq Slots \cup {Marker}
  BY DEF ListInv, Nodes
<1>3. QED BY <1>1, <1>2, MarkerAssumption DEF MembersOf

LEMMA MarkerMember == Marker \in Members <=> pass # "idle"
BY MarkerAssumption DEF Members, MembersOf

LEMMA InitIInv == Init => IInv
<1> SUFFICES ASSUME Init PROVE IInv
  OBVIOUS
<1>1. TypeOK
  BY TagAssumption, NullAssumption DEF Init, TypeOK, Lists, Pointers, Speeds, Nodes
<1>2. Members = {}
  BY NullAssumption DEF Init, Members, MembersOf, OnList, Nodes
<1>3. ListInv(list, {})
  BY <1>1 DEF Init, TypeOK, ListInv, Linked, Acyclic, Nodes
<1>4. ListedActive
  BY NullAssumption DEF Init, ListedActive, OnList, Live, Nodes
<1>5. PendingAhead
  BY <1>2 DEF Init, PendingAhead, Ahead
<1>6. VisitInv
  BY DEF Init, VisitInv, OnlyVisitedTouched, Live
<1>7. QED BY <1>1, <1>2, <1>3, <1>4, <1>5, <1>6 DEF IInv

(* Giving object o the speed s keeps the list, the marker's two sides and the
   membership of every other object. *)
LEMMA UpdateSpeedStep ==
    ASSUME IInv, NEW o \in Slots, NEW s, NEW m \in BOOLEAN, pass' = pass,
           list' = UpdateSpeed(list, o, s, m),
           pending' = IF s # "active" /\ ~m THEN pending \ {o} ELSE pending,
           pass # "loop"
    PROVE  /\ list' \in Lists
           /\ ListInv(list, Members)'
           /\ PendingAhead'
           /\ \A x \in Slots : x # o => (OnList(list, x)' <=> OnList(list, x))
           /\ m => (OnList(list, o)' <=> OnList(list, o))
           /\ ~m => (OnList(list, o)' <=> s = "active")
<1> DEFINE N == NewMembers(Members, o, s, m)
<1>1. ListInv(list, Members) /\ Ahead(list, Members, pending)
      /\ (pass = "idle" => pending = {})
  BY DEF IInv, PendingAhead
<1>2. ListInv(list', N)
  BY <1>1, UpdateSpeedInv
<1>3. Marker \in N <=> pass' # "idle"
  BY MarkerMember, MarkerAssumption DEF NewMembers
<1>4. Members' = N
  BY <1>2, <1>3, MembersAre DEF Members
<1>5. \A x \in Slots : /\ OnList(list, x) <=> x \in Members
                       /\ OnList(list', x) <=> x \in N
  BY <1>1, <1>2, OnListIsMember
<1>6. Ahead(list', N, pending')
  <2>1. CASE m
    BY <2>1, <1>1 DEF UpdateSpeed, NewMembers
  <2>2. CASE ~m /\ s = "active"
    <3>1. CASE o \in Members
      <4>1. N = Members
        BY <3>1, <2>2 DEF NewMembers
      <4>2. QED BY <4>1, <3>1, <2>2, <1>1, <1>5 DEF UpdateSpeed
    <3>2. CASE o \notin Members
      BY <3>2, <2>2, <1>1, <1>5, PushFrontAhead DEF UpdateSpeed, NewMembers
    <3>3. QED BY <3>1, <3>2
  <2>3. CASE ~m /\ s # "active"
    <3>1. CASE o \in Members
      BY <3>1, <2>3, <1>1, <1>5, UnlinkAhead DEF UpdateSpeed, NewMembers
    <3>2. CASE o \notin Members
      <4>1. N = Members /\ pending \ {o} = pending
        BY <3>2, <2>3, <1>1 DEF NewMembers, Ahead
      <4>2. QED BY <4>1, <3>2, <2>3, <1>1, <1>5 DEF UpdateSpeed
    <3>3. QED BY <3>1, <3>2
  <2>4. QED BY <2>1, <2>2, <2>3
<1>7. PendingAhead'
  BY <1>1, <1>4, <1>6 DEF PendingAhead
<1>8. \A x \in Slots : OnList(list, x)' <=> x \in N
  BY <1>5 DEF OnList
<1>9. QED BY <1>2, <1>4, <1>5, <1>7, <1>8 DEF ListInv, NewMembers

(* The visit of an object moves the marker past it and nothing else. *)
LEMMA MoveMarkerStep ==
    ASSUME IInv, NEW o \in Slots, Take(o)
    PROVE  /\ o \in pending
           /\ ListInv(MoveMarker(list), Members)
           /\ Ahead(MoveMarker(list), Members, pending \ {o})
           /\ Members = MembersOf(MoveMarker(list), "loop")
           /\ \A x \in Slots : OnList(MoveMarker(list), x) <=> OnList(list, x)
<1>1. ListInv(list, Members) /\ Ahead(list, Members, pending) /\ Marker \in Members
      /\ o = list.next[Marker] /\ list.next[Marker] # NULL
  BY MarkerMember, NullAssumption DEF IInv, PendingAhead, Take
<1>2. ListInv(MoveMarker(list), Members)
  BY <1>1, MoveMarkerInv
<1>3. o \in pending /\ Ahead(MoveMarker(list), Members, pending \ {o})
  BY <1>1, MoveMarkerAhead
<1>4. Members = MembersOf(MoveMarker(list), "loop")
  BY <1>1, <1>2, MembersAre
<1>5. \A x \in Slots : OnList(MoveMarker(list), x) <=> OnList(list, x)
  BY <1>1, <1>2, OnListIsMember
<1>6. QED BY <1>2, <1>3, <1>4, <1>5

(* What the steps with a change of speed do to who is on the list. *)
LEMMA SetSpeedLists ==
    ASSUME IInv, NEW o \in Slots, NEW s \in Speeds, SetSpeed(o, s)
    PROVE  /\ list' \in Lists /\ ListInv(list, Members)' /\ PendingAhead'
           /\ \A x \in Slots : x # o => (OnList(list, x)' <=> OnList(list, x))
           /\ mob[o] => (OnList(list, o)' <=> OnList(list, o))
           /\ ~mob[o] => (OnList(list, o)' <=> s = "active")
BY UpdateSpeedStep DEF IInv, SetSpeed, Retime, HandlerRuns, TypeOK, locals

LEMMA DestroyLists ==
    ASSUME IInv, NEW o \in Slots, Destroy(o)
    PROVE  /\ list' \in Lists /\ ListInv(list, Members)' /\ PendingAhead'
           /\ \A x \in Slots : x # o => (OnList(list, x)' <=> OnList(list, x))
           /\ ~OnList(list, o)'
<1>1. /\ list' = UpdateSpeed(list, o, "zero", mob[o]) /\ mob[o] \in BOOLEAN
      /\ pending' = IF "zero" # "active" /\ ~mob[o] THEN pending \ {o} ELSE pending
      /\ pass' = pass /\ pass # "loop"
  BY DEF IInv, Destroy, Retime, HandlerRuns, TypeOK, locals
<1>2. "zero" # "active"
  OBVIOUS
<1> DEFINE s == "zero"
<1> HIDE DEF s
<1>3. /\ list' = UpdateSpeed(list, o, s, mob[o])
      /\ pending' = IF s # "active" /\ ~mob[o] THEN pending \ {o} ELSE pending
  BY <1>1 DEF s
<1>4. /\ list' \in Lists /\ ListInv(list, Members)' /\ PendingAhead'
      /\ \A x \in Slots : x # o => (OnList(list, x)' <=> OnList(list, x))
      /\ mob[o] => (OnList(list, o)' <=> OnList(list, o))
      /\ ~mob[o] => (OnList(list, o)' <=> s = "active")
  BY <1>1, <1>3, UpdateSpeedStep
<1>5. mob[o] => ~OnList(list, o)
  BY DEF IInv, ListedActive
<1>6. QED BY <1>2, <1>4, <1>5 DEF s

LEMMA BecomeLists ==
    ASSUME IInv, NEW o \in Slots, BecomeSpawnMob(o)
    PROVE  /\ list' \in Lists /\ ListInv(list, Members)' /\ PendingAhead'
           /\ \A x \in Slots : x # o => (OnList(list, x)' <=> OnList(list, x))
           /\ ~OnList(list, o)'
<1> DEFINE s == "zero"
           m == FALSE
<1>1. s # "active" /\ m \in BOOLEAN /\ ~m
  OBVIOUS
<1> HIDE DEF s, m
<1>2. /\ list' = UpdateSpeed(list, o, s, m) /\ pass' = pass /\ pass # "loop"
      /\ pending' = IF s # "active" /\ ~m THEN pending \ {o} ELSE pending
  BY <1>1 DEF BecomeSpawnMob, HandlerRuns, locals, s, m
<1>3. QED BY <1>1, <1>2, UpdateSpeedStep

(* A step that leaves the list, the pass and the history of the pass alone
   keeps what is said of them. *)
LEMMA ListUnchanged ==
    ASSUME IInv, UNCHANGED <<list, pass, pending>>
    PROVE  ListInv(list, Members)' /\ PendingAhead'
BY DEF IInv, ListInv, Linked, Acyclic, Members, MembersOf, OnList, PendingAhead, Ahead

LEMMA HandlerIInv ==
    ASSUME IInv, NEW o \in Slots
    PROVE  /\ ObjectGet(o) => IInv'
           /\ \A s \in Speeds : SetSpeed(o, s) => IInv'
           /\ \A found \in BOOLEAN : Insert(o, found) => IInv'
           /\ \A h \in BOOLEAN : Remove(o, h) => IInv'
           /\ Destroy(o) => IInv'
           /\ BecomeSpawnMob(o) => IInv'
           /\ CeaseSpawnMob(o) => IInv'
<1> USE DEF IInv
<1>1. ASSUME ObjectGet(o) PROVE IInv'
  <2>1. ListInv(list, Members)' /\ PendingAhead'
    BY <1>1, ListUnchanged DEF ObjectGet, locals
  <2>2. TypeOK'
    BY <1>1, TagAssumption DEF ObjectGet, TypeOK, locals, Speeds
  <2>3. ListedActive'
    BY <1>1 DEF ObjectGet, ListedActive, TypeOK, OnList, Live, locals
  <2>4. VisitInv'
    BY <1>1, TagAssumption
    DEF ObjectGet, VisitInv, OnlyVisitedTouched, TypeOK, Live, Destroyed, locals
  <2>5. QED BY <2>1, <2>2, <2>3, <2>4
<1>2. ASSUME NEW s \in Speeds, SetSpeed(o, s) PROVE IInv'
  <2>1. /\ list' \in Lists /\ ListInv(list, Members)' /\ PendingAhead'
        /\ \A x \in Slots : x # o => (OnList(list, x)' <=> OnList(list, x))
        /\ mob[o] => (OnList(list, o)' <=> OnList(list, o))
        /\ ~mob[o] => (OnList(list, o)' <=> s = "active")
    BY <1>2, SetSpeedLists
  <2>2. TypeOK'
    BY <1>2, <2>1 DEF SetSpeed, Retime, TypeOK, locals
  <2>3. ListedActive'
    BY <1>2, <2>1 DEF SetSpeed, Retime, ListedActive, TypeOK, Live, locals
  <2>4. VisitInv'
    BY <1>2 DEF SetSpeed, VisitInv, OnlyVisitedTouched, Live, Destroyed, locals
  <2>5. QED BY <2>1, <2>2, <2>3, <2>4
<1>3. ASSUME NEW found \in BOOLEAN, Insert(o, found) PROVE IInv'
  <2>1. ListInv(list, Members)' /\ PendingAhead'
    BY <1>3, ListUnchanged DEF Insert, locals
  <2>2. TypeOK'
    BY <1>3 DEF Insert, TypeOK, locals
  <2>3. ListedActive' /\ VisitInv'
    BY <1>3
    DEF Insert, ListedActive, VisitInv, OnlyVisitedTouched, OnList, Live, Destroyed, locals
  <2>4. QED BY <2>1, <2>2, <2>3
<1>4. ASSUME NEW h \in BOOLEAN, Remove(o, h) PROVE IInv'
  <2>1. ListInv(list, Members)' /\ PendingAhead'
    BY <1>4, ListUnchanged DEF Remove, locals
  <2>2. TypeOK'
    BY <1>4 DEF Remove, TypeOK, locals
  <2>3. ListedActive' /\ VisitInv'
    BY <1>4
    DEF Remove, ListedActive, VisitInv, OnlyVisitedTouched, OnList, Live, Destroyed, locals
  <2>4. QED BY <2>1, <2>2, <2>3
<1>5. ASSUME Destroy(o) PROVE IInv'
  <2>1. /\ list' \in Lists /\ ListInv(list, Members)' /\ PendingAhead'
        /\ \A x \in Slots : x # o => (OnList(list, x)' <=> OnList(list, x))
        /\ ~OnList(list, o)'
    BY <1>5, DestroyLists
  <2>2. TypeOK'
    BY <1>5, <2>1, TagAssumption DEF Destroy, Retime, TypeOK, locals, Speeds
  <2>3. ListedActive'
    BY <1>5, <2>1 DEF Destroy, Retime, ListedActive, TypeOK, Live, locals
  <2>4. VisitInv'
    BY <1>5, TagAssumption
    DEF Destroy, VisitInv, OnlyVisitedTouched, TypeOK, Live, Destroyed, locals
  <2>5. QED BY <2>1, <2>2, <2>3, <2>4
<1>6. ASSUME BecomeSpawnMob(o) PROVE IInv'
  <2>1. /\ list' \in Lists /\ ListInv(list, Members)' /\ PendingAhead'
        /\ \A x \in Slots : x # o => (OnList(list, x)' <=> OnList(list, x))
        /\ ~OnList(list, o)'
    BY <1>6, BecomeLists
  <2>2. TypeOK'
    BY <1>6, <2>1 DEF BecomeSpawnMob, TypeOK, locals
  <2>3. ListedActive'
    BY <1>6, <2>1 DEF BecomeSpawnMob, ListedActive, TypeOK, Live, locals
  <2>4. VisitInv'
    BY <1>6 DEF BecomeSpawnMob, VisitInv, OnlyVisitedTouched, Live, Destroyed, locals
  <2>5. QED BY <2>1, <2>2, <2>3, <2>4
<1>7. ASSUME CeaseSpawnMob(o) PROVE IInv'
  <2>1. ListInv(list, Members)' /\ PendingAhead'
    BY <1>7, ListUnchanged DEF CeaseSpawnMob, locals
  <2>2. TypeOK'
    BY <1>7 DEF CeaseSpawnMob, TypeOK, locals
  <2>3. ListedActive'
    BY <1>7 DEF CeaseSpawnMob, ListedActive, TypeOK, OnList, Live, locals
  <2>4. VisitInv'
    BY <1>7 DEF CeaseSpawnMob, VisitInv, OnlyVisitedTouched, Live, Destroyed, locals
  <2>5. QED BY <2>1, <2>2, <2>3, <2>4
<1>8. QED BY <1>1, <1>2, <1>3, <1>4, <1>5, <1>6, <1>7

(* The visit of an unfit object takes it off the list. *)
LEMMA VisitUnfitLists ==
    ASSUME IInv, NEW o \in Slots, VisitUnfit(o)
    PROVE  /\ ListInv(list', Members \ {o})
           /\ Ahead(list', Members \ {o}, pending')
           /\ o # Marker
           /\ \A x \in Slots : OnList(list, x)' <=> OnList(list, x) /\ x # o
<1> DEFINE k == MoveMarker(list)
<1>1. /\ ListInv(k, Members) /\ Ahead(k, Members, pending \ {o})
      /\ \A x \in Slots : OnList(k, x) <=> OnList(list, x)
      /\ o \in pending /\ o # Marker
  BY MoveMarkerStep, MarkerAssumption DEF VisitUnfit
<1>2. OnList(list, o) /\ ~mob[o] /\ o \in Members
  BY <1>1, OnListIsMember DEF IInv, ListedActive, PendingAhead, Ahead
<1>3. list' = Unlink(k, o)
  BY <1>1, <1>2 DEF VisitUnfit, UpdateSpeed
<1>4. ListInv(list', Members \ {o})
  BY <1>1, <1>2, <1>3, UnlinkInv
<1>5. Ahead(list', Members \ {o}, pending')
  <2>1. (pending \ {o}) \ {o} = pending \ {o}
    OBVIOUS
  <2>2. Ahead(Unlink(k, o), Members \ {o}, (pending \ {o}) \ {o})
    BY <1>1, <1>2, UnlinkAhead
  <2>3. QED BY <2>1, <2>2, <1>3 DEF VisitUnfit, Take
<1>6. \A x \in Slots : OnList(list', x) <=> x \in Members \ {o}
  BY <1>4, OnListIsMember
<1>7. \A x \in Slots : OnList(list, x) <=> x \in Members
  BY OnListIsMember DEF IInv
<1>8. QED BY <1>1, <1>4, <1>5, <1>6, <1>7 DEF OnList

LEMMA VisitIInv ==
    ASSUME IInv, NEW o \in Slots
    PROVE  VisitUnfit(o) \/ VisitWaiting(o) \/ VisitReady(o) => IInv'
<1> USE DEF IInv
<1>1. ASSUME VisitUnfit(o) PROVE IInv'
  <2>1. /\ ListInv(list', Members \ {o}) /\ Ahead(list', Members \ {o}, pending')
        /\ o # Marker
        /\ \A x \in Slots : OnList(list, x)' <=> OnList(list, x) /\ x # o
    BY <1>1, VisitUnfitLists
  <2>2. Members' = Members \ {o}
    <3>1. Marker \in Members \ {o} <=> pass' # "idle"
      BY <1>1, <2>1, MarkerMember DEF VisitUnfit, Take, locals
    <3>2. QED BY <2>1, <3>1, MembersAre DEF Members
  <2>3. TypeOK'
    BY <1>1, <2>1 DEF VisitUnfit, Take, TypeOK, ListInv, locals, Speeds
  <2>4. ListedActive'
    BY <1>1, <2>1 DEF VisitUnfit, ListedActive, TypeOK, Live
  <2>5. PendingAhead'
    BY <1>1, <2>1, <2>2 DEF VisitUnfit, Take, PendingAhead, locals
  <2>6. VisitInv'
    BY <1>1 DEF VisitUnfit, VisitInv, OnlyVisitedTouched, Live, Destroyed, locals
  <2>7. QED BY <2>1, <2>2, <2>3, <2>4, <2>5, <2>6
<1>2. ASSUME VisitWaiting(o) \/ VisitReady(o) PROVE IInv'
  <2>1. Take(o) /\ pass' \in {"loop", "process"} /\ list' = MoveMarker(list)
    BY <1>2 DEF VisitWaiting, VisitReady, Take, locals
  <2>2. /\ ListInv(list', Members) /\ Ahead(list', Members, pending')
        /\ \A x \in Slots : OnList(list', x) <=> OnList(list, x)
    BY <2>1, MoveMarkerStep DEF Take
  <2>3. Members' = Members
    <3>1. Marker \in Members <=> pass' # "idle"
      BY <2>1, MarkerMember DEF Take
    <3>2. QED BY <2>2, <3>1, MembersAre DEF Members
  <2>4. TypeOK'
    <3>1. CASE VisitWaiting(o)
      BY <3>1, <2>2 DEF VisitWaiting, Take, TypeOK, ListInv, locals
    <3>2. CASE VisitReady(o)
      BY <3>2, <2>2 DEF VisitReady, Take, TypeOK, ListInv, fields
    <3>3. QED BY <1>2, <3>1, <3>2
  <2>5. ListedActive'
    BY <1>2, <2>2 DEF VisitWaiting, VisitReady, ListedActive, OnList, Live, fields
  <2>6. PendingAhead'
    BY <2>1, <2>2, <2>3 DEF PendingAhead
  <2>7. VisitInv'
    BY <1>2
    DEF VisitWaiting, VisitReady, Take, VisitInv, OnlyVisitedTouched, TypeOK, Live,
        Destroyed, locals, fields
  <2>8. QED BY <2>2, <2>3, <2>4, <2>5, <2>6, <2>7
<1>3. QED BY <1>1, <1>2

(* A pass begins and ends without a change to who is on the list. *)
LEMMA StartPassLists ==
    ASSUME IInv, StartPass
    PROVE  /\ ListInv(list', Members \cup {Marker})
           /\ \A x \in Slots : OnList(list, x)' <=> OnList(list, x)
<1>1. Marker \notin Members /\ Marker \in Nodes /\ ListInv(list, Members)
  BY MarkerMember DEF IInv, StartPass, Nodes
<1>2. ListInv(list', Members \cup {Marker})
  BY <1>1, PushFrontInv DEF StartPass
<1>3. \A x \in Slots : OnList(list', x) <=> x \in Members \cup {Marker}
  BY <1>2, OnListIsMember
<1>4. \A x \in Slots : OnList(list, x) <=> x \in Members
  BY <1>1, OnListIsMember
<1>5. QED BY <1>2, <1>3, <1>4, MarkerAssumption DEF OnList

LEMMA EndPassLists ==
    ASSUME IInv, EndPass
    PROVE  /\ ListInv(list', Members \ {Marker})
           /\ \A x \in Slots : OnList(list, x)' <=> OnList(list, x)
<1>1. Marker \in Members /\ list.next[Marker] = NULL /\ ListInv(list, Members)
  BY MarkerMember DEF IInv, EndPass
<1>2. ListInv(list', Members \ {Marker})
  BY <1>1, DropMarkerInv DEF EndPass
<1>3. \A x \in Slots : OnList(list', x) <=> x \in Members \ {Marker}
  BY <1>2, OnListIsMember
<1>4. \A x \in Slots : OnList(list, x) <=> x \in Members
  BY <1>1, OnListIsMember
<1>5. QED BY <1>2, <1>3, <1>4, MarkerAssumption DEF OnList

LEMMA PassIInv == IInv /\ (StartPass \/ Return \/ EndPass) => IInv'
<1> USE DEF IInv
<1>1. ASSUME IInv, StartPass PROVE IInv'
  <2>1. Marker \notin Members /\ Marker \in Nodes
    BY <1>1, MarkerMember DEF StartPass, Nodes
  <2>2. ListInv(list', Members \cup {Marker})
    BY <1>1, StartPassLists
  <2>3. Members' = Members \cup {Marker}
    <3>1. Marker \in Members \cup {Marker} <=> pass' # "idle"
      BY <1>1 DEF StartPass
    <3>2. QED BY <2>2, <3>1, MembersAre DEF Members
  <2>4. pending' = Members
    BY <1>1 DEF StartPass, Members, MembersOf
  <2>5. Ahead(list', Members \cup {Marker}, pending')
    <3>1. Linked(list, Members) /\ list \in Lists /\ Members \subseteq Nodes
      BY <1>1 DEF ListInv
    <3>2. \A n \in Nodes : list'.next[n] = IF n = Marker THEN list.head ELSE list.next[n]
      BY <1>1, <3>1 DEF StartPass, PushFront, Lists
    <3>3. list'.head = Marker
      BY <1>1 DEF StartPass, PushFront
    <3>4. QED BY <2>1, <2>4, <3>1, <3>2, <3>3 DEF Ahead, Linked
  <2>6. \A x \in Slots : OnList(list, x)' <=> OnList(list, x)
    BY <1>1, StartPassLists
  <2>7. TypeOK'
    BY <1>1, <2>2 DEF StartPass, TypeOK, ListInv, fields
  <2>8. ListedActive' /\ PendingAhead'
    BY <1>1, <2>3, <2>5, <2>6 DEF StartPass, ListedActive, PendingAhead, Live, fields
  <2>9. VisitInv'
    BY <1>1 DEF StartPass, VisitInv, OnlyVisitedTouched, Live, Destroyed, fields
  <2>10. QED BY <2>2, <2>3, <2>7, <2>8, <2>9
<1>2. ASSUME IInv, Return PROVE IInv'
  <2>1. Members' = Members
    BY <1>2 DEF Return, Members, MembersOf, OnList
  <2>2. ListInv(list, Members)' /\ PendingAhead'
    BY <1>2, <2>1
    DEF Return, ListInv, Linked, Acyclic, PendingAhead, Ahead
  <2>3. TypeOK'
    BY <1>2, TagAssumption, NullAssumption DEF Return, TypeOK
  <2>4. ListedActive'
    BY <1>2 DEF Return, ListedActive, OnList, Live
  <2>5. VisitInv'
    BY <1>2 DEF Return, VisitInv, OnlyVisitedTouched, TypeOK, Live, Destroyed
  <2>6. QED BY <2>2, <2>3, <2>4, <2>5
<1>3. ASSUME IInv, EndPass PROVE IInv'
  <2>1. Marker \in Members /\ list.next[Marker] = NULL
    BY <1>3, MarkerMember DEF EndPass
  <2>2. ListInv(list', Members \ {Marker})
    BY <1>3, EndPassLists
  <2>3. Members' = Members \ {Marker}
    <3>1. Marker \in Members \ {Marker} <=> pass' # "idle"
      BY <1>3 DEF EndPass
    <3>2. QED BY <2>2, <3>1, MembersAre DEF Members
  <2>4. \A x \in Slots : OnList(list, x)' <=> OnList(list, x)
    BY <1>3, EndPassLists
  <2>5. pending = {}
    (* Otherwise some pending object has a predecessor that is neither pending
       nor the marker, and would not be pending itself. *)
    <3> SUFFICES ASSUME pending # {} PROVE FALSE
      OBVIOUS
    <3>1. pending \subseteq Members /\ Linked(list, Members) /\ NULL \notin Nodes
          /\ list.head \notin pending /\ Members \subseteq Nodes
      BY <1>3, NullAssumption DEF PendingAhead, Ahead, ListInv, Nodes
    <3>2. PICK n \in pending : list.prev[n] \notin pending
      BY <1>3, <3>1 DEF ListInv, Acyclic
    <3>3. list.prev[n] \in Members /\ list.next[list.prev[n]] = n
      BY <3>1, <3>2 DEF Linked
    <3>4. n # NULL
      BY <3>1, <3>2
    <3>5. list.prev[n] \in pending \cup {Marker}
      BY <1>3, <3>2, <3>3, <3>4 DEF PendingAhead, Ahead
    <3>6. QED BY <2>1, <3>2, <3>3, <3>4, <3>5
  <2>6. PendingAhead'
    BY <1>3, <2>2, <2>3, <2>5 DEF EndPass, PendingAhead, Ahead, ListInv, Linked
  <2>7. TypeOK' /\ ListedActive'
    BY <1>3, <2>2, <2>4 DEF EndPass, TypeOK, ListedActive, ListInv, Live, fields
  <2>8. VisitInv'
    BY <1>3 DEF EndPass, VisitInv, OnlyVisitedTouched, Live, Destroyed, fields
  <2>9. QED BY <2>2, <2>3, <2>6, <2>7, <2>8
<1>4. QED BY <1>1, <1>2, <1>3

LEMMA NextIInv == IInv /\ [Next]_vars => IInv'
<1> SUFFICES ASSUME IInv, [Next]_vars PROVE IInv'
  OBVIOUS
<1>1. CASE Handler
  <2>1. PICK o \in Slots :
          \/ ObjectGet(o)
          \/ \E s \in Speeds : SetSpeed(o, s)
          \/ \E found \in BOOLEAN : Insert(o, found)
          \/ \E h \in BOOLEAN : Remove(o, h)
          \/ Destroy(o)
          \/ BecomeSpawnMob(o)
          \/ CeaseSpawnMob(o)
    BY <1>1 DEF Handler
  <2>2. QED BY <2>1, HandlerIInv
<1>2. CASE StartPass \/ Return \/ EndPass
  BY <1>2, PassIInv
<1>3. CASE Visit
  BY <1>3, VisitIInv DEF Visit
<1>4. CASE UNCHANGED vars
  <2>1. ListInv(list, Members)' /\ PendingAhead'
    BY <1>4, ListUnchanged DEF vars, locals
  <2>2. TypeOK' /\ ListedActive' /\ VisitInv'
    BY <1>4
    DEF vars, fields, locals, IInv, TypeOK, ListedActive, VisitInv, OnlyVisitedTouched,
        OnList, Live, Destroyed
  <2>3. QED BY <2>1, <2>2 DEF IInv
<1>5. QED BY <1>1, <1>2, <1>3, <1>4 DEF Next

LEMMA InductiveInvariant == Spec => []IInv
<1>1. QED BY InitIInv, NextIInv, PTL DEF Spec

(* Whatever handlers do, every variable keeps its type; in particular
   process_events() is inside object_process() exactly when op is set. *)
THEOREM TypeCorrect == Spec => []TypeOK
<1>1. IInv => TypeOK
  BY DEF IInv
<1>2. QED BY <1>1, InductiveInvariant, PTL

(* However many objects there are, the active list is well-formed in every
   state: object_update_speed() may be called on any object from any handler
   while process_events() is walking the list. *)
THEOREM ListIsWellFormed == Spec => []ListWellFormed
<1>1. IInv => ListWellFormed
  BY DEF IInv, ListInv, ListWellFormed
<1>2. QED BY <1>1, InductiveInvariant, PTL

(* A handler does not make the list miss an object. *)
LEMMA HandlerDropsNone ==
    ASSUME IInv, Handler, NEW x \in Slots, Missed(x)'
    PROVE  Missed(x) \/ (mob[x] /\ ~mob'[x])
<1> USE DEF Missed, Live
<1>1. PICK o \in Slots :
        \/ ObjectGet(o)
        \/ \E s \in Speeds : SetSpeed(o, s)
        \/ \E found \in BOOLEAN : Insert(o, found)
        \/ \E h \in BOOLEAN : Remove(o, h)
        \/ Destroy(o)
        \/ BecomeSpawnMob(o)
        \/ CeaseSpawnMob(o)
  BY DEF Handler
<1>2. CASE ObjectGet(o)
  BY <1>2 DEF ObjectGet, IInv, TypeOK, OnList
<1>3. ASSUME NEW s \in Speeds, SetSpeed(o, s) PROVE Missed(x)
  <2>1. CASE x # o
    BY <1>3, <2>1, SetSpeedLists DEF SetSpeed, Retime, IInv, TypeOK
  <2>2. CASE x = o
    BY <1>3, <2>2, SetSpeedLists DEF SetSpeed, Retime, IInv, TypeOK
  <2>3. QED BY <2>1, <2>2
<1>4. CASE (\E f \in BOOLEAN : Insert(o, f)) \/ (\E h \in BOOLEAN : Remove(o, h))
  BY <1>4 DEF Insert, Remove, OnList
<1>5. CASE Destroy(o)
  BY <1>5, DestroyLists DEF Destroy, Retime, IInv, TypeOK
<1>6. CASE BecomeSpawnMob(o)
  BY <1>6, BecomeLists DEF BecomeSpawnMob, IInv, TypeOK
<1>7. CASE CeaseSpawnMob(o)
  BY <1>7 DEF CeaseSpawnMob, IInv, TypeOK, OnList
<1>8. QED BY <1>1, <1>2, <1>3, <1>4, <1>5, <1>6, <1>7

(* Nothing that is done to any object, in a pass or between two, leaves on the list
   a freed object, one without speed or a spawn point mob, or makes it miss an object
   with a speed, but for a script that turns a spawn point mob into something else. *)
THEOREM ListHoldsActive == Spec => ActiveListed
<1>1. IInv /\ [Next]_vars
      => [/\ ListedActive'
          /\ \A o \in Slots : Missed(o)' => Missed(o) \/ (mob[o] /\ ~mob'[o])]_vars
  <2> SUFFICES ASSUME IInv, Next, NEW x \in Slots, Missed(x)'
               PROVE  Missed(x) \/ (mob[x] /\ ~mob'[x])
    BY NextIInv DEF IInv
  <2>1. CASE Handler
    BY <2>1, HandlerDropsNone
  <2>2. CASE StartPass
    BY <2>2, StartPassLists DEF StartPass, Missed, Live, fields
  <2>3. CASE Return
    BY <2>3 DEF Return, Missed, Live, OnList
  <2>4. CASE EndPass
    BY <2>4, EndPassLists DEF EndPass, Missed, Live, fields
  <2>5. ASSUME NEW o \in Slots, VisitUnfit(o) \/ VisitWaiting(o) \/ VisitReady(o)
        PROVE  Missed(x)
    <3>1. CASE VisitUnfit(o)
      BY <3>1, VisitUnfitLists DEF VisitUnfit, Missed, Live, IInv, TypeOK
    <3>2. CASE VisitWaiting(o) \/ VisitReady(o)
      <4>1. Take(o) /\ list' = MoveMarker(list)
        BY <3>2 DEF VisitWaiting, VisitReady
      <4>2. OnList(list, x)' <=> OnList(list, x)
        BY <4>1, MoveMarkerStep DEF OnList
      <4>3. QED BY <3>2, <4>2 DEF VisitWaiting, VisitReady, fields, Missed, Live
    <3>3. QED BY <2>5, <3>1, <3>2
  <2>6. QED BY <2>1, <2>2, <2>3, <2>4, <2>5 DEF Next, Visit
<1>2. QED BY <1>1, InductiveInvariant, PTL DEF Spec, ActiveListed

(* The nodes after the marker are the objects the pass has still to visit. *)
THEOREM MarkerSeparates == Spec => []PendingAhead
<1>1. IInv => PendingAhead
  BY DEF IInv
<1>2. QED BY <1>1, InductiveInvariant, PTL

(* After object_process() returns, process_events() never writes to an object
   that took the place of the one it processed. *)
THEOREM NoStaleTouch == Spec => []OnlyVisitedTouched
<1>1. IInv => OnlyVisitedTouched
  BY DEF IInv, VisitInv
<1>2. QED BY <1>1, InductiveInvariant, PTL

---------------------------------------------------------------------------
(* The refinement of TurnOrder.  The objects on the list change as TurnOrder's
   active set does. *)

LEMMA InitRefines == Init => Turns!Init
BY NullAssumption DEF Init, Turns!Init, OnList, Nodes

(* A handler step is a Join, a Leave or a stutter of TurnOrder. *)
LEMMA HandlerRefines ==
    ASSUME IInv, IInv', Handler
    PROVE  [Turns!Next]_Turns!vars
<1> DEFINE A == {x \in Slots : OnList(list, x)}
<1> SUFFICES ASSUME NEW o \in Slots,
                    \/ ObjectGet(o)
                    \/ \E s \in Speeds : SetSpeed(o, s)
                    \/ \E found \in BOOLEAN : Insert(o, found)
                    \/ \E h \in BOOLEAN : Remove(o, h)
                    \/ Destroy(o)
                    \/ BecomeSpawnMob(o)
                    \/ CeaseSpawnMob(o)
             PROVE  Turns!Join(o) \/ Turns!Leave(o) \/ UNCHANGED Turns!vars
  BY DEF Handler, Turns!Next
<1>1. pass # "loop" /\ pass' = pass
  BY DEF HandlerRuns, ObjectGet, SetSpeed, Insert, Remove, Destroy, BecomeSpawnMob,
         CeaseSpawnMob, locals
<1>2. pending \subseteq A
  BY MarkerAssumption DEF IInv, PendingAhead, Ahead, Members, MembersOf
<1>3. CASE \/ ObjectGet(o) \/ CeaseSpawnMob(o)
           \/ (\E f \in BOOLEAN : Insert(o, f)) \/ (\E h \in BOOLEAN : Remove(o, h))
  BY <1>3 DEF ObjectGet, CeaseSpawnMob, Insert, Remove, Turns!vars, locals, OnList
<1>4. ASSUME NEW s \in Speeds, SetSpeed(o, s)
      PROVE  Turns!Join(o) \/ Turns!Leave(o) \/ UNCHANGED Turns!vars
  <2>1. \A x \in Slots : x # o => (OnList(list, x)' <=> OnList(list, x))
    BY <1>4, SetSpeedLists
  <2>2. CASE s = "active" /\ ~mob[o]
    <3>1. OnList(list, o)'
      BY <1>4, <2>2, SetSpeedLists
    <3>2. A' = A \cup {o} /\ pending' = pending
      BY <1>4, <2>1, <2>2, <3>1 DEF SetSpeed, Retime
    <3>3. QED BY <1>1, <3>2 DEF Turns!Join
  <2>3. CASE s # "active" /\ ~mob[o]
    <3>1. ~OnList(list, o)'
      BY <1>4, <2>3, SetSpeedLists
    <3>2. A' = A \ {o} /\ pending' = pending \ {o}
      BY <1>4, <2>1, <2>3, <3>1 DEF SetSpeed, Retime
    <3>3. QED BY <1>1, <3>2 DEF Turns!Leave
  <2>4. CASE mob[o]
    <3>1. list' = list /\ pending' = pending
      BY <1>4, <2>4 DEF SetSpeed, Retime, UpdateSpeed
    <3>2. QED BY <3>1, <1>1 DEF Turns!vars, OnList
  <2>5. QED BY <2>2, <2>3, <2>4
<1>5. ASSUME Destroy(o) \/ BecomeSpawnMob(o)
      PROVE  Turns!Join(o) \/ Turns!Leave(o) \/ UNCHANGED Turns!vars
  <2>1. \A x \in Slots : OnList(list, x)' <=> OnList(list, x) /\ x # o
    <3>1. CASE Destroy(o)
      BY <3>1, DestroyLists
    <3>2. CASE BecomeSpawnMob(o)
      BY <3>2, BecomeLists
    <3>3. QED BY <1>5, <3>1, <3>2
  <2>2. A' = A \ {o}
    BY <2>1
  <2>3. pending' = pending \ {o}
    <3>1. CASE mob[o]
      BY <3>1, <1>2, <1>5 DEF Destroy, BecomeSpawnMob, Retime, IInv, ListedActive
    <3>2. CASE ~mob[o]
      BY <3>2, <1>5 DEF Destroy, BecomeSpawnMob, Retime
    <3>3. QED BY <3>1, <3>2
  <2>4. QED BY <1>1, <2>2, <2>3 DEF Turns!Leave
<1>6. QED BY <1>3, <1>4, <1>5

(* A step of process_events() is the step of the same name of TurnOrder. *)
LEMMA PassRefines ==
    ASSUME IInv, IInv', StartPass \/ Return \/ EndPass \/ Visit
    PROVE  Turns!Next
<1> DEFINE A == {x \in Slots : OnList(list, x)}
<1>1. ASSUME StartPass PROVE Turns!Begin
  <2>1. \A x \in Slots : OnList(list, x)' <=> OnList(list, x)
    BY <1>1, StartPassLists
  <2>2. QED BY <1>1, <2>1 DEF StartPass, Turns!Begin
<1>2. ASSUME Return PROVE Turns!EndTurn
  BY <1>2 DEF Return, Turns!EndTurn, OnList
<1>3. ASSUME EndPass PROVE Turns!End
  <2>1. \A x \in Slots : OnList(list, x)' <=> OnList(list, x)
    BY <1>3, EndPassLists
  <2>2. pending = {}
    BY <1>3 DEF EndPass, IInv, PendingAhead
  <2>3. QED BY <1>3, <2>1, <2>2 DEF EndPass, Turns!End
<1>4. ASSUME NEW o \in Slots, VisitUnfit(o) \/ VisitWaiting(o) \/ VisitReady(o)
      PROVE  Turns!Visit(o)
  <2>1. o \in pending /\ pass = "loop" /\ pending' = pending \ {o}
        /\ \A x \in Slots : OnList(MoveMarker(list), x) <=> OnList(list, x)
    <3>1. Take(o)
      BY <1>4 DEF VisitUnfit, VisitWaiting, VisitReady
    <3>2. QED BY <3>1, MoveMarkerStep DEF Take
  <2>2. CASE VisitUnfit(o)
    <3>1. \A x \in Slots : OnList(list, x)' <=> OnList(list, x) /\ x # o
      BY <2>2, VisitUnfitLists
    <3>2. A' = A \ {o} /\ pass' = pass
      BY <2>2, <3>1 DEF VisitUnfit, locals
    <3>3. QED BY <2>1, <3>2 DEF Turns!Visit
  <2>3. CASE VisitWaiting(o) \/ VisitReady(o)
    <3>1. A' = A /\ (pass' = "process" \/ pass' = pass)
      BY <2>1, <2>3 DEF VisitWaiting, VisitReady, locals, OnList
    <3>2. QED BY <2>1, <3>1 DEF Turns!Visit
  <2>4. QED BY <1>4, <2>2, <2>3
<1>5. QED BY <1>1, <1>2, <1>3, <1>4 DEF Visit, Turns!Next

(* process_events() with the linked list gives turns as TurnOrder promises:
   objects that join during a pass wait for the next one, no object is visited
   twice in a pass, and the pass ends only when every object that was active at
   its beginning and stayed active was visited. *)
THEOREM ImplementsTurnOrder == Spec => TurnsSpec
<1>1. IInv /\ IInv' /\ [Next]_vars => [Turns!Next]_Turns!vars
  <2> SUFFICES ASSUME IInv, IInv', [Next]_vars
               PROVE  [Turns!Next]_Turns!vars
    OBVIOUS
  <2>1. CASE Handler
    BY <2>1, HandlerRefines
  <2>2. CASE StartPass \/ Visit \/ Return \/ EndPass
    BY <2>2, PassRefines
  <2>3. CASE UNCHANGED vars
    BY <2>3 DEF vars, Turns!vars, locals, OnList
  <2>4. QED BY <2>1, <2>2, <2>3 DEF Next
<1>2. QED BY InitRefines, InductiveInvariant, <1>1, PTL DEF Spec, TurnsSpec, Turns!Spec
=============================================================================
