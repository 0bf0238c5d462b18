-------------------------- MODULE SessionsProofs --------------------------
(***************************************************************************)
(* Proofs about Sessions, for any sockets, names and time-outs.            *)
(***************************************************************************)
EXTENDS Sessions, TLAPS

(* Where the loops of an iteration stand: what a loop has still to visit is on
   the list it walks, and a socket being read, or logged in, is alive. *)
Places ==
    /\ phase \in {"sweepWaiting", "readWaiting"} => todo \subseteq waiting
    /\ phase \in {"sweepPlayers", "readPlayers", "post"} => todo \subseteq Players
    /\ reading # NULL => /\ phase \in {"readWaiting", "readPlayers"}
                         /\ reading \notin todo
                         /\ conn[reading].state # "free"
                         /\ phase = "readPlayers" => reading \in Players
    /\ wanted # NULL => reading # NULL /\ conn[reading].state = "login"

IInv == TypeOK /\ OneList /\ UniqueName /\ NoRollback /\ Places

LEMMA InitIInv == Init => IInv
BY NullAssumption, TicksAssumption
   DEF Init, IInv, TypeOK, OneList, UniqueName, NoRollback, Places, Players, find_player,
       Freed, Conns, States, Phases

(* A loop counts an idle tick within the bounds of the counters. *)
LEMMA ZombieTickType ==
    ASSUME NEW c \in Conns
    PROVE  /\ ZombieTick(c) \in Conns
           /\ ZombieTick(c).name = c.name
           /\ ZombieTick(c).state = c.state \/ (c.state = "zombie" /\ ZombieTick(c).state = "dead")
<1>1. /\ c.login_count \in 0 .. ZombieTicks + 1
      /\ Saturated(c.login_count, ZombieTicks + 1) \in 0 .. ZombieTicks + 1
  BY TicksAssumption DEF Saturated, Conns
<1>2. CASE c.state # "zombie"
  BY <1>2 DEF ZombieTick
<1>3. CASE c.state = "zombie"
  <2>1. ZombieTick(c) = [c EXCEPT !.login_count = Saturated(c.login_count, ZombieTicks + 1),
                                  !.state = IF c.login_count >= ZombieTicks
                                            THEN "dead" ELSE "zombie"]
    BY <1>3 DEF ZombieTick
  <2> DEFINE n == Saturated(c.login_count, ZombieTicks + 1)
             e == IF c.login_count >= ZombieTicks THEN "dead" ELSE "zombie"
  <2>2. n \in 0 .. ZombieTicks + 1 /\ e \in {"zombie", "dead"}
    BY <1>1
  <2> HIDE DEF n, e
  <2>3. ZombieTick(c) = [c EXCEPT !.login_count = n, !.state = e]
    BY <2>1 DEF n, e
  <2>4. ZombieTick(c) = [state |-> e, login_count |-> n, keepalive |-> c.keepalive,
                         account |-> c.account, name |-> c.name, queue |-> c.queue]
    BY <2>3 DEF Conns
  <2>5. e = "zombie" \/ e = "dead"
    BY DEF e
  <2> QED
    BY <1>3, <2>2, <2>4, <2>5 DEF Conns, States
<1> QED
  BY <1>2, <1>3

LEMMA KeepaliveTickType ==
    ASSUME NEW c \in Conns, ~SilentTooLong(c)
    PROVE  /\ KeepaliveTick(c) \in Conns
           /\ KeepaliveTick(c).name = c.name
           /\ KeepaliveTick(c).state = c.state
BY TicksAssumption DEF KeepaliveTick, SilentTooLong, Saturated, Conns, States

LEMMA FreedType == Freed \in Conns
BY TicksAssumption DEF Freed, Conns, States

(* A player leaves: the others keep their names, and its character is saved or
   its save was refused. *)
LEMMA LogoutIInv ==
    ASSUME IInv, NEW s \in Players, NEW done \in BOOLEAN, player_logout(s, done),
           UNCHANGED waiting
    PROVE  /\ TypeOK!1' /\ fresh' \subseteq Names /\ refused' \subseteq Names
           /\ watched' \subseteq Sockets
           /\ OneList' /\ UniqueName' /\ NoRollback'
           /\ Players' = Players \ {s}
<1>1. s \in Sockets /\ conn[s].name \in Names /\ s \notin waiting
  BY DEF IInv, TypeOK, OneList, Players, Conns
<1>2. conn' = [conn EXCEPT ![s] = Freed] /\ conn' \in [Sockets -> Conns]
  BY <1>1, FreedType DEF player_logout, IInv, TypeOK
<1>3. Players' = Players \ {s}
  BY <1>1, <1>2 DEF Players, Freed, IInv, TypeOK
<1>4. OneList'
  BY <1>1, <1>2, <1>3 DEF OneList, IInv, TypeOK, Freed
<1>5. UniqueName'
  BY <1>1, <1>2, <1>3 DEF UniqueName, Players, IInv, TypeOK
<1>6. /\ fresh' \subseteq Names /\ refused' \subseteq Names
      /\ fresh \cup refused \subseteq fresh' \cup refused'
      /\ conn[s].name \in fresh' \cup refused'
  BY <1>1 DEF player_logout, player_save, IInv, TypeOK
<1>7. NoRollback'
  <2> SUFFICES ASSUME NEW n \in Names, find_player(n)' = {}, n \notin fresh' \cup refused'
               PROVE  FALSE
    BY DEF NoRollback
  <2>1. n # conn[s].name /\ n \notin fresh \cup refused
    BY <1>6
  <2>2. PICK t \in Players : conn[t].name = n
    BY <2>1 DEF IInv, NoRollback, find_player
  <2>3. t \in Players' /\ conn'[t].name = n
    BY <2>1, <2>2, <1>1, <1>2, <1>3 DEF IInv, TypeOK, Players
  <2> QED
    BY <2>3 DEF find_player
<1> QED
  BY <1>2, <1>3, <1>4, <1>5, <1>6, <1>7 DEF player_logout, IInv, TypeOK

(* A step by which connections are given up or counters change, and in which
   only characters in the game change, keeps the lists and the names. *)
LEMMA NamesKept ==
    ASSUME IInv, UNCHANGED waiting,
           conn' \in [Sockets -> Conns],
           \A s \in Sockets : conn'[s].name = conn[s].name,
           \A s \in Sockets : \/ conn'[s].state = conn[s].state
                              \/ conn[s].state # "free" /\ conn'[s].state \in {"zombie", "dead"},
           \A n \in Names : n \in fresh \cup refused =>
                                n \in fresh' \cup refused' \/ find_player(n) # {}
    PROVE  OneList' /\ UniqueName' /\ NoRollback' /\ Players' = Players
<1>1. Players' = Players
  BY DEF Players
<1>2. OneList'
  BY <1>1 DEF IInv, OneList
<1>3. UniqueName'
  BY <1>1 DEF IInv, UniqueName, Players
<1>4. \A n \in Names : find_player(n)' = find_player(n)
  BY <1>1 DEF find_player, Players
<1>5. NoRollback'
  BY <1>4 DEF IInv, NoRollback
<1> QED
  BY <1>1, <1>2, <1>3, <1>5

(* The same for a step that changes one connection and no file. *)
LEMMA OneGivenUp ==
    ASSUME IInv, UNCHANGED waiting, UNCHANGED files,
           NEW s \in Sockets,
           conn' = [conn EXCEPT ![s] = conn'[s]],
           conn'[s] \in Conns,
           conn'[s].name = conn[s].name,
           \/ conn'[s].state = conn[s].state
           \/ conn[s].state # "free" /\ conn'[s].state \in {"zombie", "dead"}
    PROVE  conn' \in [Sockets -> Conns] /\ OneList' /\ UniqueName' /\ NoRollback'
           /\ Players' = Players
<1>1. conn' \in [Sockets -> Conns]
  BY DEF IInv, TypeOK
<1>2. \A t \in Sockets : /\ conn'[t].name = conn[t].name
                         /\ \/ conn'[t].state = conn[t].state
                            \/ conn[t].state # "free" /\ conn'[t].state \in {"zombie", "dead"}
  BY DEF IInv, TypeOK
<1> QED
  BY <1>1, <1>2, NamesKept DEF files

(* A waiting connection is freed. *)
LEMMA WaitingFreed ==
    ASSUME IInv, NEW s \in waiting, UNCHANGED files,
           conn' = [conn EXCEPT ![s] = Freed], waiting' = waiting \ {s}
    PROVE  conn' \in [Sockets -> Conns] /\ OneList' /\ UniqueName' /\ NoRollback'
           /\ Players' = Players
<1>1. s \in Sockets /\ s \notin Players /\ conn[s].name = NULL
  BY DEF IInv, TypeOK, OneList, Players
<1>2. conn' \in [Sockets -> Conns]
  BY <1>1, FreedType DEF IInv, TypeOK
<1>3. \A t \in Sockets : /\ conn'[t].name = conn[t].name
                         /\ t # s => conn'[t] = conn[t]
                         /\ t = s => conn'[t].state = "free"
  BY <1>1 DEF IInv, TypeOK, Freed
<1>4. Players' = Players
  BY <1>3 DEF Players
<1>5. OneList'
  BY <1>1, <1>3, <1>4 DEF IInv, OneList
<1>6. UniqueName'
  BY <1>3, <1>4 DEF IInv, UniqueName, Players
<1>7. \A n \in Names : find_player(n)' = find_player(n)
  BY <1>3, <1>4 DEF find_player, Players
<1>8. NoRollback'
  BY <1>7 DEF IInv, NoRollback, files
<1> QED
  BY <1>2, <1>4, <1>5, <1>6, <1>8

---------------------------------------------------------------------------
(* The actions, loop by loop                                               *)

LEMMA LoopStep ==
    ASSUME IInv,
           Tick \/ EndSweepWaiting \/ EndSweepPlayers \/ EndAccept \/ EndRead
           \/ EndTurns \/ EndPost
    PROVE  IInv'
<1>1. UNCHANGED <<conn, waiting, reading, wanted, files>>
  BY DEF Tick, EndSweepWaiting, EndSweepPlayers, EndAccept, EndRead, EndTurns, EndPost
<1>2. /\ Players' = Players /\ OneList' /\ UniqueName' /\ NoRollback'
  BY <1>1 DEF Players, find_player, IInv, OneList, UniqueName, NoRollback, files
<1>3. /\ phase' \in Phases /\ todo' \subseteq Sockets /\ watched' \subseteq Sockets
      /\ phase' \in {"sweepWaiting", "readWaiting"} => todo' \subseteq waiting
      /\ phase' \in {"sweepPlayers", "readPlayers", "post"} => todo' \subseteq Players
      /\ reading = NULL
  BY DEF Tick, EndSweepWaiting, EndSweepPlayers, EndAccept, EndRead, EndTurns, EndPost,
         IInv, TypeOK, Places, Phases, Players
<1>4. TypeOK'
  BY <1>1, <1>3 DEF IInv, TypeOK, files
<1>5. Places'
  BY <1>1, <1>2, <1>3 DEF IInv, Places
<1> QED
  BY <1>2, <1>4, <1>5 DEF IInv

LEMMA SweepWaitingStep ==
    ASSUME IInv, NEW s \in Sockets, SweepWaiting(s)
    PROVE  IInv'
<1>1. /\ s \in waiting /\ s \in todo /\ reading = NULL /\ wanted = NULL
      /\ phase = "sweepWaiting" /\ todo' = todo \ {s}
      /\ conn[s] \in Conns /\ conn[s].state # "free"
      /\ UNCHANGED <<phase, reading, wanted, files>>
  BY DEF SweepWaiting, IInv, Places, TypeOK, OneList
<1>2. CASE conn' = [conn EXCEPT ![s] = Freed] /\ waiting' = waiting \ {s}
           /\ UNCHANGED watched
  <2>1. conn' \in [Sockets -> Conns] /\ OneList' /\ UniqueName' /\ NoRollback'
        /\ Players' = Players
    BY <1>1, <1>2, WaitingFreed
  <2>2. TypeOK'
    BY <1>1, <1>2, <2>1 DEF IInv, TypeOK, files
  <2>3. Places'
    BY <1>1, <1>2, <2>1 DEF IInv, Places
  <2> QED
    BY <2>1, <2>2, <2>3 DEF IInv
<1>3. CASE /\ conn' = [conn EXCEPT ![s] = ZombieTick(@)]
           /\ watched' = IF conn[s].state = "zombie" THEN watched ELSE watched \cup {s}
           /\ UNCHANGED waiting
  <2> DEFINE c == ZombieTick(conn[s])
  <2>a. /\ c \in Conns /\ c.name = conn[s].name
        /\ c.state = conn[s].state \/ c.state = "dead"
    BY <1>1, ZombieTickType
  <2>b. conn' = [conn EXCEPT ![s] = conn'[s]] /\ conn'[s] = c
    BY <1>3 DEF IInv, TypeOK
  <2> HIDE DEF c
  <2>c. /\ UNCHANGED waiting /\ UNCHANGED files
        /\ conn' = [conn EXCEPT ![s] = conn'[s]]
        /\ conn'[s] \in Conns /\ conn'[s].name = conn[s].name
        /\ \/ conn'[s].state = conn[s].state
           \/ conn[s].state # "free" /\ conn'[s].state \in {"zombie", "dead"}
    BY <1>1, <1>3, <2>a, <2>b
  <2>1. conn' \in [Sockets -> Conns] /\ OneList' /\ UniqueName' /\ NoRollback'
        /\ Players' = Players
    BY <2>c, OneGivenUp
  <2>2. TypeOK'
    BY <1>1, <1>3, <2>1 DEF IInv, TypeOK, files
  <2>3. Places'
    BY <1>1, <1>3, <2>1 DEF IInv, Places
  <2> QED
    BY <2>1, <2>2, <2>3 DEF IInv
<1> QED
  BY <1>2, <1>3 DEF SweepWaiting

(* A player leaves in a loop that had to visit it, or because another one
   kicks it out while no loop runs. *)
LEMMA LeaveStep ==
    ASSUME IInv, NEW s \in Players, NEW done \in BOOLEAN, player_logout(s, done),
           UNCHANGED <<waiting, phase, reading, wanted>>,
           todo' \subseteq todo, s \notin todo', s # reading
    PROVE  IInv'
<1>1. /\ TypeOK!1' /\ fresh' \subseteq Names /\ refused' \subseteq Names
      /\ watched' \subseteq Sockets
      /\ OneList' /\ UniqueName' /\ NoRollback' /\ Players' = Players \ {s}
  BY LogoutIInv
<1>2. TypeOK'
  BY <1>1 DEF IInv, TypeOK
<1>3. reading # NULL => conn'[reading] = conn[reading]
  BY DEF player_logout, IInv, TypeOK
<1>4. Places'
  BY <1>1, <1>3 DEF IInv, Places
<1> QED
  BY <1>1, <1>2, <1>4 DEF IInv

LEMMA SweepPlayerStep ==
    ASSUME IInv, NEW s \in Sockets, SweepPlayer(s)
    PROVE  IInv'
<1>1. /\ s \in Players /\ s \in todo /\ reading = NULL /\ wanted = NULL
      /\ phase = "sweepPlayers" /\ todo' = todo \ {s}
      /\ conn[s] \in Conns /\ conn[s].state # "free"
      /\ UNCHANGED <<waiting, phase, reading, wanted>>
  BY DEF SweepPlayer, IInv, Places, TypeOK, OneList
<1>2. ASSUME NEW done \in BOOLEAN, player_logout(s, done) PROVE IInv'
  BY <1>1, <1>2, NullAssumption, LeaveStep DEF Players
<1>3. CASE /\ ~SilentTooLong(conn[s])
           /\ conn' = [conn EXCEPT ![s] = ZombieTick(KeepaliveTick(@))]
           /\ watched' = IF conn[s].state = "zombie" THEN watched ELSE watched \cup {s}
           /\ UNCHANGED files
  <2> DEFINE c == ZombieTick(KeepaliveTick(conn[s]))
  <2>a. /\ c \in Conns /\ c.name = conn[s].name
        /\ c.state = conn[s].state \/ c.state = "dead"
    BY <1>1, <1>3, KeepaliveTickType, ZombieTickType
  <2>1. conn' = [conn EXCEPT ![s] = conn'[s]] /\ conn'[s] = c
    BY <1>3 DEF IInv, TypeOK
  <2> HIDE DEF c
  <2>c. /\ UNCHANGED waiting /\ UNCHANGED files
        /\ conn' = [conn EXCEPT ![s] = conn'[s]]
        /\ conn'[s] \in Conns /\ conn'[s].name = conn[s].name
        /\ \/ conn'[s].state = conn[s].state
           \/ conn[s].state # "free" /\ conn'[s].state \in {"zombie", "dead"}
    BY <1>1, <1>3, <2>a, <2>1
  <2>2. conn' \in [Sockets -> Conns] /\ OneList' /\ UniqueName' /\ NoRollback'
        /\ Players' = Players
    BY <2>c, OneGivenUp
  <2>3. TypeOK'
    BY <1>1, <1>3, <2>2 DEF IInv, TypeOK, files
  <2>4. Places'
    BY <1>1, <1>3, <2>2 DEF IInv, Places
  <2> QED
    BY <2>2, <2>3, <2>4 DEF IInv
<1> QED
  BY <1>2, <1>3 DEF SweepPlayer

LEMMA AcceptStep ==
    ASSUME IInv, NEW s \in Sockets, Accept(s)
    PROVE  IInv'
<1> DEFINE c == [Freed EXCEPT !.state = "login"]
<1>1. /\ c \in Conns /\ c.name = NULL /\ c.state = "login"
  <2>1. Freed.name = NULL
    BY DEF Freed
  <2> QED
    BY <2>1, FreedType DEF Conns, States
<1> HIDE DEF c
<1>2. /\ conn' = [conn EXCEPT ![s] = c] /\ waiting' = waiting \cup {s}
      /\ phase = "accept" /\ conn[s].state = "free"
      /\ UNCHANGED loop /\ UNCHANGED files
  BY DEF Accept, c
<1>3. s \notin waiting /\ s \notin Players /\ conn[s].name = NULL
  BY <1>2 DEF IInv, OneList, Players
<1>4. /\ conn' \in [Sockets -> Conns] /\ conn'[s] = c
      /\ \A t \in Sockets : t # s => conn'[t] = conn[t]
  BY <1>1, <1>2 DEF IInv, TypeOK
<1>5. Players' = Players
  BY <1>1, <1>3, <1>4 DEF Players
<1>6. OneList'
  BY <1>1, <1>2, <1>3, <1>4, <1>5 DEF IInv, OneList
<1>7. UniqueName'
  BY <1>3, <1>4, <1>5 DEF IInv, UniqueName, Players
<1>8. \A n \in Names : find_player(n)' = find_player(n)
  BY <1>3, <1>4, <1>5 DEF find_player, Players
<1>9. NoRollback'
  BY <1>2, <1>8 DEF IInv, NoRollback, files
<1>10. TypeOK' /\ Places'
  BY <1>2, <1>3, <1>4, <1>5 DEF IInv, TypeOK, Places, loop, files
<1> QED
  BY <1>6, <1>7, <1>9, <1>10 DEF IInv

(* A loop passes over a connection, begins to read it or finds it broken. *)
LEMMA TurnStep ==
    ASSUME IInv, NEW s \in Sockets, StartRead(s) \/ Break(s) \/ Skip(s)
    PROVE  IInv'
<1>1. /\ s \in todo /\ todo' = todo \ {s} /\ reading = NULL /\ wanted = NULL
      /\ phase \in {"readWaiting", "readPlayers"} /\ conn[s].state # "free"
      /\ conn[s] \in Conns
      /\ UNCHANGED waiting /\ UNCHANGED phase /\ UNCHANGED watched
      /\ UNCHANGED wanted /\ UNCHANGED files
      /\ reading' \in {NULL, s}
  BY NullAssumption DEF StartRead, Break, Skip, Turn, IInv, Places, OneList, TypeOK
<1>2. /\ conn' = [conn EXCEPT ![s] = conn'[s]] /\ conn'[s] \in Conns
      /\ conn'[s].name = conn[s].name
      /\ conn'[s].state = conn[s].state \/ conn'[s].state = "dead"
  BY <1>1 DEF StartRead, Break, Skip, IInv, TypeOK, Conns, States
<1>3. conn' \in [Sockets -> Conns] /\ OneList' /\ UniqueName' /\ NoRollback'
      /\ Players' = Players
  BY <1>1, <1>2, OneGivenUp
<1>4. TypeOK'
  BY <1>1, <1>3 DEF IInv, TypeOK, files
<1>5. Places'
  BY <1>1, <1>2, <1>3 DEF IInv, Places
<1> QED
  BY <1>3, <1>4, <1>5 DEF IInv

LEMMA DropStep ==
    ASSUME IInv, NEW s \in Sockets, Drop(s)
    PROVE  IInv'
<1>1. /\ s \in todo /\ todo' = todo \ {s} /\ reading = NULL /\ wanted = NULL
      /\ phase \in {"readWaiting", "readPlayers"}
      /\ UNCHANGED phase /\ UNCHANGED reading /\ UNCHANGED wanted
  BY DEF Drop, Turn, IInv, Places
<1>2. CASE /\ s \in waiting /\ conn' = [conn EXCEPT ![s] = Freed]
           /\ waiting' = waiting \ {s} /\ UNCHANGED <<watched, files>>
  <2>1. conn' \in [Sockets -> Conns] /\ OneList' /\ UniqueName' /\ NoRollback'
        /\ Players' = Players
    BY <1>2, WaitingFreed
  <2>2. TypeOK' /\ Places'
    BY <1>1, <1>2, <2>1 DEF IInv, TypeOK, Places, files
  <2> QED
    BY <2>1, <2>2 DEF IInv
<1>3. ASSUME s \in Players, NEW done \in BOOLEAN, player_logout(s, done), UNCHANGED waiting
      PROVE  IInv'
  BY <1>1, <1>3, NullAssumption, LeaveStep DEF Players
<1> QED
  BY <1>2, <1>3 DEF Drop

---------------------------------------------------------------------------
(* Packets                                                                 *)

(* A packet that changes only the connection it came from, which at most is
   given up. *)
LEMMA PacketStep ==
    ASSUME IInv, reading # NULL, wanted = NULL, NEW c \in Conns,
           conn' = [conn EXCEPT ![reading] = c],
           c.name = conn[reading].name,
           \/ c.state = conn[reading].state
           \/ c.state \in {"zombie", "dead"},
           UNCHANGED waiting, UNCHANGED phase, UNCHANGED todo, UNCHANGED watched,
           reading' \in {reading, NULL}, UNCHANGED wanted, UNCHANGED files
    PROVE  IInv'
<1>1. reading \in Sockets /\ conn[reading].state # "free"
  BY DEF IInv, TypeOK, Places
<1>2. conn' = [conn EXCEPT ![reading] = conn'[reading]] /\ conn'[reading] = c
  BY <1>1 DEF IInv, TypeOK
<1>3. conn' \in [Sockets -> Conns] /\ OneList' /\ UniqueName' /\ NoRollback'
      /\ Players' = Players
  BY <1>1, <1>2, OneGivenUp
<1>4. TypeOK'
  BY <1>3 DEF IInv, TypeOK, files
<1>5. Places'
  BY <1>1, <1>2, <1>3 DEF IInv, Places
<1> QED
  BY <1>3, <1>4, <1>5 DEF IInv

(* One more command on a queue. *)
LEMMA QueuedType ==
    ASSUME NEW c \in Conns, c.queue < MaxQueue
    PROVE  Queued(c) \in Conns /\ Queued(c).name = c.name
<1>1. c.queue + 1 \in 0 .. MaxQueue
  BY TicksAssumption DEF Conns
<1> QED
  BY <1>1 DEF Queued, Conns

LEMMA PacketHandledStep ==
    ASSUME IInv, PacketHandled
    PROVE  IInv'
<1>1. /\ reading # NULL /\ wanted = NULL /\ reading \in Sockets
      /\ This \in Conns /\ This = conn[reading] /\ conn[reading].state # "free"
  BY DEF PacketHandled, IInv, TypeOK, Places, This
<1>2. ASSUME NEW c \in Conns, Packet(c), c.name = This.name,
             c.state = This.state \/ c.state \in {"zombie", "dead"}
      PROVE  IInv'
  BY <1>1, <1>2, PacketStep DEF Packet, loop
<1>3. CASE OutdatedVersion \/ TooManyPasswords
  <2>1. [This EXCEPT !.state = "zombie"] \in Conns
    BY <1>1 DEF Conns, States
  <2> QED
    BY <1>1, <1>2, <1>3, <2>1 DEF OutdatedVersion, TooManyPasswords, Conns
<1>4. CASE Clear
  <2>1. [This EXCEPT !.queue = 0] \in Conns
    BY <1>1, TicksAssumption DEF Conns
  <2> QED
    BY <1>1, <1>2, <1>4, <2>1 DEF Clear, Conns
<1>5. CASE Keepalive
  <2>1. [This EXCEPT !.keepalive = 0] \in Conns
    BY <1>1, TicksAssumption DEF Conns
  <2> QED
    BY <1>1, <1>2, <1>5, <2>1 DEF Keepalive, Conns
<1>6. ASSUME NEW login \in BOOLEAN, Account(login) PROVE IInv'
  <2>1. /\ [This EXCEPT !.state = "dead"] \in Conns
        /\ [This EXCEPT !.account = TRUE] \in Conns
    BY <1>1 DEF Conns, States
  <2>2. CASE This.account = login
    BY <1>1, <1>2, <1>6, <2>1, <2>2 DEF Account, Conns
  <2>3. CASE This.account # login
    BY <1>1, <1>2, <1>6, <2>1, <2>3 DEF Account, Conns
  <2> QED
    BY <2>2, <2>3
<1>7. ASSUME NEW st \in {This.state, "dead"}, PlayerOnly(st) PROVE IInv'
  <2>1. /\ Queued(This) \in Conns /\ Queued(This).name = This.name
        /\ Packet([Queued(This) EXCEPT !.state = st]) /\ st \in States
    BY <1>1, <1>7, QueuedType DEF PlayerOnly, Conns, States
  <2>2. /\ [Queued(This) EXCEPT !.state = st] \in Conns
        /\ [Queued(This) EXCEPT !.state = st].name = This.name
        /\ [Queued(This) EXCEPT !.state = st].state = st
    BY <2>1 DEF Conns
  <2> QED
    BY <1>2, <2>1, <2>2
<1>8. ASSUME NEW n \in Names, LoginChar(n) PROVE IInv'
  <2>1. /\ conn[reading].state = "login" /\ wanted' = n
        /\ UNCHANGED <<conn, waiting, phase, todo, watched, reading, files>>
    BY <1>1, <1>8 DEF LoginChar
  <2>2. Players' = Players /\ OneList' /\ UniqueName' /\ NoRollback'
    BY <2>1 DEF IInv, OneList, UniqueName, NoRollback, Players, find_player, files
  <2>3. TypeOK' /\ Places'
    BY <1>1, <2>1, <2>2 DEF IInv, TypeOK, Places, files
  <2> QED
    BY <2>2, <2>3 DEF IInv
<1>9. CASE LastPacket
  <2>1. PICK c \in {This, [This EXCEPT !.state = "dead"]} : conn' = [conn EXCEPT ![reading] = c]
    BY <1>1, <1>9 DEF LastPacket, IInv, TypeOK
  <2>2. /\ c \in Conns /\ c.name = This.name
        /\ c.state = This.state \/ c.state = "dead"
    BY <1>1 DEF Conns, States
  <2> QED
    BY <1>1, <1>9, <2>1, <2>2, PacketStep DEF LastPacket
<1> QED
  BY <1>3, <1>4, <1>5, <1>6, <1>7, <1>8, <1>9 DEF PacketHandled

---------------------------------------------------------------------------
(* Logging in                                                              *)

(* Only connections that wait are logged in. *)
LEMMA LoginPlace ==
    ASSUME IInv, wanted # NULL
    PROVE  /\ reading \in waiting /\ reading \in Sockets /\ reading # NULL
           /\ reading \notin Players /\ conn[reading].name = NULL
           /\ wanted \in Names
           /\ phase = "readWaiting" /\ todo \subseteq waiting /\ reading \notin todo
BY DEF IInv, Places, TypeOK, OneList, Players

LEMMA EvictStep ==
    ASSUME IInv, NEW s \in Sockets, NEW done \in BOOLEAN, Evict(s, done)
    PROVE  IInv'
<1>1. /\ wanted # NULL /\ s \in Players /\ player_logout(s, done)
      /\ UNCHANGED <<waiting, phase, todo, reading, wanted>>
  BY DEF Evict, find_player
<1>2. s # reading /\ s \notin todo
  BY <1>1, LoginPlace DEF IInv, OneList
<1> QED
  BY <1>1, <1>2, LeaveStep

LEMMA RefuseLoginStep ==
    ASSUME IInv, RefuseLogin
    PROVE  IInv'
<1>1. /\ wanted # NULL /\ wanted' = NULL
      /\ conn' = [conn EXCEPT ![reading] = conn'[reading]]
      /\ conn'[reading] \in Conns /\ conn'[reading].name = conn[reading].name
      /\ conn'[reading].state = "zombie" /\ conn[reading].state = "login"
      /\ UNCHANGED waiting /\ UNCHANGED phase /\ UNCHANGED todo
      /\ UNCHANGED watched /\ UNCHANGED reading /\ UNCHANGED files
  BY LoginPlace DEF RefuseLogin, IInv, TypeOK, Places, Conns, States
<1>2. conn' \in [Sockets -> Conns] /\ OneList' /\ UniqueName' /\ NoRollback'
      /\ Players' = Players
  BY <1>1, LoginPlace, OneGivenUp
<1>3. TypeOK' /\ Places'
  BY <1>1, <1>2, LoginPlace DEF IInv, TypeOK, Places, files
<1> QED
  BY <1>2, <1>3 DEF IInv

LEMMA EnterGameStep ==
    ASSUME IInv, EnterGame
    PROVE  IInv'
<1> DEFINE c == conn'[reading]
<1>1. /\ wanted # NULL /\ find_player(wanted) = {} /\ wanted' = NULL
      /\ waiting' = waiting \ {reading}
      /\ UNCHANGED phase /\ UNCHANGED todo /\ UNCHANGED watched /\ UNCHANGED reading
      /\ fresh' = fresh \cup {wanted} /\ refused' = refused \ {wanted}
  BY DEF EnterGame, player_load
<1>2. /\ reading \in waiting /\ reading \in Sockets /\ reading # NULL
      /\ reading \notin Players /\ conn[reading].name = NULL
      /\ wanted \in Names /\ wanted # NULL
      /\ phase = "readWaiting" /\ todo \subseteq waiting /\ reading \notin todo
  BY <1>1, LoginPlace
<1>3. /\ conn' \in [Sockets -> Conns]
      /\ c.state = "playing" /\ c.name = wanted
      /\ \A t \in Sockets : t # reading => conn'[t] = conn[t]
  BY <1>2 DEF EnterGame, IInv, TypeOK, Conns, States
<1>4. Players' = Players \cup {reading}
  BY <1>2, <1>3 DEF Players
<1>5. OneList'
  BY <1>1, <1>2, <1>3, <1>4 DEF IInv, OneList
<1>6. \A t \in Players : conn[t].name # wanted
  BY <1>1 DEF find_player
<1>7. UniqueName'
  BY <1>2, <1>3, <1>4, <1>6 DEF IInv, UniqueName, Players
<1>8. NoRollback'
  <2> SUFFICES ASSUME NEW n \in Names, find_player(n)' = {}, n \notin fresh' \cup refused'
               PROVE  FALSE
    BY DEF NoRollback
  <2>1. n # wanted /\ n \notin fresh \cup refused
    BY <1>1
  <2>2. PICK t \in Players : conn[t].name = n
    BY <2>1 DEF IInv, NoRollback, find_player
  <2>3. t \in Players' /\ conn'[t].name = n
    BY <2>2, <1>2, <1>3, <1>4 DEF Players
  <2> QED
    BY <2>3 DEF find_player
<1>9. TypeOK'
  BY <1>1, <1>2, <1>3 DEF IInv, TypeOK
<1>10. Places'
  BY <1>1, <1>2, <1>3 DEF IInv, Places
<1> QED
  BY <1>5, <1>7, <1>8, <1>9, <1>10 DEF IInv

---------------------------------------------------------------------------
(* Turns and what comes after them                                         *)

LEMMA TookType ==
    ASSUME NEW c \in Conns, c.queue > 0
    PROVE  Took(c) \in Conns /\ Took(c).name = c.name /\ Took(c).state = c.state
<1>1. c.queue - 1 \in 0 .. MaxQueue /\ 0 \in 0 .. ZombieTicks + 1
      /\ 0 \in 0 .. KeepaliveTimeout
  BY TicksAssumption DEF Conns
<1> QED
  BY <1>1 DEF Took, Conns

(* A turn that keeps all players in the game. *)
LEMMA TurnKeeps ==
    ASSUME IInv, Turns, UNCHANGED watched,
           conn' \in [Sockets -> Conns],
           \A s \in Sockets : conn'[s].name = conn[s].name,
           \A s \in Sockets : \/ conn'[s].state = conn[s].state
                              \/ conn[s].state # "free" /\ conn'[s].state \in {"zombie", "dead"},
           fresh' \subseteq Names, refused' \subseteq Names,
           \A n \in Names : n \in fresh \cup refused =>
                                n \in fresh' \cup refused' \/ find_player(n) # {}
    PROVE  IInv'
<1>1. /\ phase = "turns" /\ reading = NULL /\ wanted = NULL
      /\ UNCHANGED waiting /\ UNCHANGED phase /\ UNCHANGED todo /\ UNCHANGED reading
      /\ UNCHANGED wanted
  BY DEF Turns, IInv, Places
<1>2. OneList' /\ UniqueName' /\ NoRollback' /\ Players' = Players
  BY <1>1, NamesKept
<1>3. TypeOK' /\ Places'
  BY <1>1, <1>2 DEF IInv, TypeOK, Places
<1> QED
  BY <1>2, <1>3 DEF IInv

(* One player kicks another one, or himself, out of the game. *)
LEMMA KickStep ==
    ASSUME IInv, NEW s \in Players, NEW t \in Sockets, NEW done \in BOOLEAN, Kick(s, t, done)
    PROVE  IInv'
<1>1. /\ phase = "turns" /\ reading = NULL /\ wanted = NULL
      /\ UNCHANGED waiting /\ UNCHANGED phase /\ UNCHANGED todo /\ UNCHANGED reading
      /\ UNCHANGED wanted
      /\ conn' = [conn EXCEPT ![s] = Took(conn[s]), ![t] = Freed]
      /\ watched' = watched \ {t} /\ t \in Players
      /\ player_save(conn[t].name, done)
  BY DEF Kick, Turns, IInv, Places
<1>2. /\ s \in Sockets /\ t \notin waiting /\ conn[t].name \in Names
      /\ Took(conn[s]) \in Conns /\ Took(conn[s]).name = conn[s].name
      /\ Took(conn[s]).state = conn[s].state
  BY <1>1, TookType DEF Kick, CanCommand, IInv, TypeOK, OneList, Players, Conns
<1>3. /\ conn' \in [Sockets -> Conns]
      /\ conn'[t].name = NULL /\ conn'[t].state = "free"
  BY <1>1, <1>2, FreedType DEF IInv, TypeOK, Freed
<1>4. \A u \in Sockets : u # t => /\ conn'[u].name = conn[u].name
                                 /\ conn'[u].state = conn[u].state
  BY <1>1, <1>2 DEF IInv, TypeOK
<1>5. Players' = Players \ {t}
  BY <1>3, <1>4 DEF Players
<1>6. OneList'
  BY <1>1, <1>2, <1>3, <1>4, <1>5 DEF IInv, OneList
<1>7. UniqueName'
  BY <1>3, <1>4, <1>5 DEF IInv, UniqueName, Players
<1>8. /\ fresh' \subseteq Names /\ refused' \subseteq Names
      /\ fresh \cup refused \subseteq fresh' \cup refused'
      /\ conn[t].name \in fresh' \cup refused'
  BY <1>1, <1>2 DEF player_save, IInv, TypeOK
<1>9. NoRollback'
  <2> SUFFICES ASSUME NEW n \in Names, find_player(n)' = {}, n \notin fresh' \cup refused'
               PROVE  FALSE
    BY DEF NoRollback
  <2>1. n # conn[t].name /\ n \notin fresh \cup refused
    BY <1>8
  <2>2. PICK u \in Players : conn[u].name = n
    BY <2>1 DEF IInv, NoRollback, find_player
  <2>3. u \in Players' /\ conn'[u].name = n
    BY <2>1, <2>2, <1>4, <1>5 DEF Players
  <2> QED
    BY <2>3 DEF find_player
<1>10. TypeOK' /\ Places'
  BY <1>1, <1>3, <1>8 DEF IInv, TypeOK, Places
<1> QED
  BY <1>6, <1>7, <1>9, <1>10 DEF IInv

(* The process ends with a player who kicked himself. *)
LEMMA KickHimselfStep ==
    ASSUME IInv, NEW s \in Players, NEW done \in BOOLEAN, KickHimself(s, done)
    PROVE  IInv'
<1>1. /\ phase = "turns" /\ phase' = "top" /\ UNCHANGED <<todo, reading, wanted>>
      /\ reading = NULL /\ wanted = NULL
      /\ conn' = [t \in Sockets |-> Freed] /\ waiting' = {} /\ watched' = {}
  BY DEF KickHimself, IInv, Places
<1>2. conn' \in [Sockets -> Conns] /\ Players' = {}
      /\ \A t \in Sockets : conn'[t].state = "free"
  BY <1>1, FreedType DEF Players, Freed
<1>3. OneList' /\ UniqueName'
  BY <1>1, <1>2 DEF OneList, UniqueName
<1>4. \A t \in Players : conn[t].name \in Names
  BY DEF Players, IInv, TypeOK, Conns
<1>5. fresh' \subseteq Names /\ refused' \subseteq Names
  BY <1>4 DEF KickHimself, IInv, TypeOK
<1>6. \A n \in Names : n \in fresh \cup refused \/ \E t \in Players : conn[t].name = n
  BY DEF IInv, NoRollback, find_player
<1>7. \A n \in Names : n \in fresh' \cup refused'
  BY <1>6 DEF KickHimself
<1>8. NoRollback'
  BY <1>7 DEF NoRollback
<1>9. TypeOK' /\ Places'
  BY <1>1, <1>2, <1>5 DEF IInv, TypeOK, Places, Phases
<1> QED
  BY <1>3, <1>8, <1>9 DEF IInv

LEMMA PlayerActsStep ==
    ASSUME IInv, NEW s \in Players, PlayerActs(s)
    PROVE  IInv'
<1>1. /\ s \in Sockets /\ conn[s] \in Conns /\ conn[s].name \in Names
      /\ s \in find_player(conn[s].name)
  BY DEF IInv, TypeOK, Players, Conns, find_player
<1>2. CASE Command(s)
  <2>1. /\ Turns /\ conn' = [conn EXCEPT ![s] = Took(conn[s])]
        /\ fresh' = fresh \ {conn[s].name}
        /\ UNCHANGED watched /\ UNCHANGED refused
        /\ Took(conn[s]) \in Conns /\ Took(conn[s]).name = conn[s].name
        /\ Took(conn[s]).state = conn[s].state
    BY <1>1, <1>2, TookType DEF Command, CanCommand
  <2>2. conn' \in [Sockets -> Conns]
    BY <1>1, <2>1 DEF IInv, TypeOK
  <2>3. \A t \in Sockets : conn'[t].name = conn[t].name /\ conn'[t].state = conn[t].state
    BY <2>1 DEF IInv, TypeOK
  <2>4. fresh' \subseteq Names /\ refused' \subseteq Names
    BY <2>1 DEF IInv, TypeOK
  <2>5. \A n \in Names : n \in fresh \cup refused =>
                             n \in fresh' \cup refused' \/ find_player(n) # {}
    BY <1>1, <2>1
  <2> QED
    BY <2>1, <2>2, <2>3, <2>4, <2>5, TurnKeeps
<1>3. CASE Live(s)
  <2>1. /\ Turns /\ fresh' = fresh \ {conn[s].name}
        /\ UNCHANGED conn /\ UNCHANGED watched /\ UNCHANGED refused
    BY <1>3 DEF Live
  <2>2. /\ fresh' \subseteq Names /\ refused' \subseteq Names /\ conn' \in [Sockets -> Conns]
    BY <2>1 DEF IInv, TypeOK
  <2>3. \A n \in Names : n \in fresh \cup refused =>
                             n \in fresh' \cup refused' \/ find_player(n) # {}
    BY <1>1, <2>1
  <2> QED
    BY <2>1, <2>2, <2>3, TurnKeeps
<1>4. ASSUME NEW done \in BOOLEAN, Autosave(s, done) PROVE IInv'
  <2>1. /\ Turns /\ UNCHANGED conn /\ UNCHANGED watched
        /\ player_save(conn[s].name, done)
    BY <1>4 DEF Autosave
  <2>2. /\ fresh' \subseteq Names /\ refused' \subseteq Names /\ conn' \in [Sockets -> Conns]
    BY <1>1, <2>1 DEF IInv, TypeOK, player_save
  <2>3. \A n \in Names : n \in fresh \cup refused =>
                             n \in fresh' \cup refused' \/ find_player(n) # {}
    BY <1>1, <2>1 DEF player_save
  <2> QED
    BY <2>1, <2>2, <2>3, TurnKeeps
<1>5. ASSUME NEW banned \in SUBSET Players, KickBanned(s, banned) PROVE IInv'
  <2> DEFINE base(t) == IF t = s THEN Took(conn[t]) ELSE conn[t]
  <2>1. /\ Turns /\ UNCHANGED watched /\ UNCHANGED files
        /\ conn' = [t \in Sockets |-> IF t \in banned THEN [base(t) EXCEPT !.state = "zombie"]
                                      ELSE base(t)]
    BY <1>5 DEF KickBanned
  <2>2. \A t \in Sockets : /\ base(t) \in Conns /\ base(t).name = conn[t].name
                           /\ base(t).state = conn[t].state
    BY <1>1, <1>5, TookType DEF KickBanned, CanCommand, IInv, TypeOK
  <2>3. \A t \in banned : t \in Sockets /\ conn[t].state # "free"
    BY DEF Players, IInv, OneList
  <2> HIDE DEF base
  <2>4. \A t \in Sockets : /\ conn'[t] \in Conns /\ conn'[t].name = conn[t].name
                           /\ \/ conn'[t].state = conn[t].state
                              \/ conn[t].state # "free" /\ conn'[t].state = "zombie"
    BY <2>1, <2>2, <2>3 DEF Conns, States
  <2>5. conn' \in [Sockets -> Conns]
    BY <2>1, <2>4
  <2>6. /\ fresh' = fresh /\ refused' = refused
        /\ fresh' \subseteq Names /\ refused' \subseteq Names
    BY <2>1 DEF IInv, TypeOK, files
  <2> QED
    BY <2>1, <2>4, <2>5, <2>6, TurnKeeps
<1>6. ASSUME NEW t \in Sockets, NEW done \in BOOLEAN, Kick(s, t, done) PROVE IInv'
  BY <1>6, KickStep
<1>7. ASSUME NEW done \in BOOLEAN, KickHimself(s, done) PROVE IInv'
  BY <1>7, KickHimselfStep
<1> QED
  BY <1>2, <1>3, <1>4, <1>5, <1>6, <1>7 DEF PlayerActs

LEMMA PostStep ==
    ASSUME IInv, NEW s \in Sockets, Post(s)
    PROVE  IInv'
<1>1. /\ s \in todo /\ todo' = todo \ {s} /\ phase = "post" /\ s \in Players
      /\ reading = NULL /\ wanted = NULL
      /\ conn[s] \in Conns /\ conn[s].state # "free"
      /\ UNCHANGED waiting /\ UNCHANGED phase /\ UNCHANGED reading /\ UNCHANGED wanted
  BY DEF Post, IInv, Places, TypeOK, OneList
<1>2. ASSUME NEW done \in BOOLEAN, player_logout(s, done) PROVE IInv'
  BY <1>1, <1>2, NullAssumption, LeaveStep DEF Players
<1>3. CASE /\ conn' \in {conn, [conn EXCEPT ![s].state = "dead"]}
           /\ UNCHANGED <<watched, files>>
  <2>1. /\ conn' = [conn EXCEPT ![s] = conn'[s]] /\ conn'[s] \in Conns
        /\ conn'[s].name = conn[s].name
        /\ conn'[s].state = conn[s].state \/ conn'[s].state = "dead"
    BY <1>1, <1>3 DEF IInv, TypeOK, Conns, States
  <2>2. conn' \in [Sockets -> Conns] /\ OneList' /\ UniqueName' /\ NoRollback'
        /\ Players' = Players
    BY <1>1, <1>3, <2>1, OneGivenUp
  <2>3. TypeOK' /\ Places'
    BY <1>1, <1>3, <2>2 DEF IInv, TypeOK, Places, files
  <2> QED
    BY <2>2, <2>3 DEF IInv
<1> QED
  BY <1>2, <1>3 DEF Post

LEMMA ShutdownStep ==
    ASSUME IInv, Shutdown
    PROVE  IInv'
<1>1. PICK done \in SUBSET {conn[s].name : s \in Players} :
          /\ fresh' = fresh \cup done
          /\ refused' = (refused \cup {conn[s].name : s \in Players}) \ done
  BY DEF Shutdown
<1>2. /\ phase = "top" /\ UNCHANGED <<phase, todo, reading, wanted>>
      /\ reading = NULL /\ wanted = NULL
      /\ conn' = [s \in Sockets |-> Freed] /\ waiting' = {} /\ watched' = {}
  BY DEF Shutdown, IInv, Places
<1>3. conn' \in [Sockets -> Conns] /\ Players' = {}
      /\ \A s \in Sockets : conn'[s].state = "free"
  BY <1>2, FreedType DEF Players, Freed
<1>4. OneList' /\ UniqueName'
  BY <1>2, <1>3 DEF OneList, UniqueName
<1>5. \A s \in Players : conn[s].name \in Names
  BY DEF Players, IInv, TypeOK, Conns
<1>6. fresh' \subseteq Names /\ refused' \subseteq Names
  BY <1>1, <1>5 DEF IInv, TypeOK
<1>7. \A n \in Names : n \in fresh \cup refused \/ \E s \in Players : conn[s].name = n
  BY DEF IInv, NoRollback, find_player
<1>8. \A n \in Names : n \in fresh' \cup refused'
  BY <1>1, <1>7
<1>9. NoRollback'
  BY <1>8 DEF NoRollback
<1>10. TypeOK' /\ Places'
  BY <1>2, <1>3, <1>6 DEF IInv, TypeOK, Places
<1> QED
  BY <1>4, <1>9, <1>10 DEF IInv

LEMMA StutterStep ==
    ASSUME IInv, UNCHANGED vars
    PROVE  IInv'
BY DEF IInv, TypeOK, OneList, UniqueName, NoRollback, Places, Players, find_player,
       vars, loop, files

LEMMA NextIInv ==
    ASSUME IInv, [Next]_vars
    PROVE  IInv'
<1>1. CASE Progress
  BY <1>1, LoopStep, SweepWaitingStep, SweepPlayerStep, PostStep, TurnStep, DropStep,
     RefuseLoginStep, EnterGameStep, EvictStep DEF Progress
<1> QED
  BY <1>1, PacketHandledStep, AcceptStep, PlayerActsStep, ShutdownStep, StutterStep
     DEF Next

---------------------------------------------------------------------------
(* What was given up stays given up                                        *)

(* A step that changes one connection. *)
LEMMA OneStaysGivenUp ==
    ASSUME TypeOK, NEW s \in Sockets, NEW c,
           conn' = [conn EXCEPT ![s] = c],
           \/ c.state = conn[s].state
           \/ c.state \in {"zombie", "dead", "free"}
           \/ conn[s].state \notin {"zombie", "dead"}
    PROVE  StaysGivenUp
BY DEF StaysGivenUp, TypeOK

LEMMA PacketStaysGivenUp ==
    ASSUME IInv, PacketHandled
    PROVE  StaysGivenUp
<1>1. /\ TypeOK /\ reading \in Sockets /\ This \in Conns /\ This = conn[reading]
  BY DEF PacketHandled, IInv, TypeOK, This
<1>2. ASSUME NEW c, Packet(c), c.state = This.state \/ c.state \in {"zombie", "dead"}
      PROVE  StaysGivenUp
  BY <1>1, <1>2, OneStaysGivenUp DEF Packet
<1>3. CASE OutdatedVersion \/ TooManyPasswords \/ Clear \/ Keepalive
  BY <1>1, <1>2, <1>3 DEF OutdatedVersion, TooManyPasswords, Clear, Keepalive, Conns
<1>4. ASSUME NEW login \in BOOLEAN, Account(login) PROVE StaysGivenUp
  <2>1. CASE This.account = login
    BY <1>1, <1>2, <1>4, <2>1 DEF Account, Conns
  <2>2. CASE This.account # login
    BY <1>1, <1>2, <1>4, <2>2 DEF Account, Conns
  <2> QED
    BY <2>1, <2>2
<1>5. ASSUME NEW st \in {This.state, "dead"}, PlayerOnly(st) PROVE StaysGivenUp
  <2>1. /\ Queued(This) \in Conns /\ Packet([Queued(This) EXCEPT !.state = st])
    BY <1>1, <1>5, QueuedType DEF PlayerOnly
  <2>2. [Queued(This) EXCEPT !.state = st].state = st
    BY <2>1 DEF Conns
  <2> QED
    BY <1>2, <2>1, <2>2
<1>6. ASSUME NEW n \in Names, LoginChar(n) PROVE StaysGivenUp
  BY <1>6 DEF LoginChar, StaysGivenUp
<1>7. CASE LastPacket
  BY <1>1, <1>7 DEF LastPacket, StaysGivenUp, TypeOK, Conns
<1> QED
  BY <1>3, <1>4, <1>5, <1>6, <1>7 DEF PacketHandled

LEMMA PlayerActsStaysGivenUp ==
    ASSUME IInv, NEW s \in Players, PlayerActs(s)
    PROVE  StaysGivenUp
<1>1. s \in Sockets /\ conn[s] \in Conns /\ conn \in [Sockets -> Conns]
  BY DEF IInv, TypeOK, Players
<1>2. CASE Command(s)
  BY <1>1, <1>2, TookType DEF Command, CanCommand, StaysGivenUp
<1>3. CASE Live(s)
  BY <1>3 DEF Live, StaysGivenUp
<1>4. ASSUME NEW done \in BOOLEAN, Autosave(s, done) PROVE StaysGivenUp
  BY <1>4 DEF Autosave, StaysGivenUp
<1>5. ASSUME NEW t \in Sockets, NEW done \in BOOLEAN, Kick(s, t, done) PROVE StaysGivenUp
  <2>1. conn' = [conn EXCEPT ![s] = Took(conn[s]), ![t] = Freed]
        /\ Took(conn[s]).state = conn[s].state
    BY <1>1, <1>5, TookType DEF Kick, CanCommand
  <2> QED
    BY <1>1, <2>1 DEF StaysGivenUp, Freed
<1>6. ASSUME NEW banned \in SUBSET Players, KickBanned(s, banned) PROVE StaysGivenUp
  <2> DEFINE base(t) == IF t = s THEN Took(conn[t]) ELSE conn[t]
  <2>1. conn' = [t \in Sockets |-> IF t \in banned THEN [base(t) EXCEPT !.state = "zombie"]
                                   ELSE base(t)]
    BY <1>6 DEF KickBanned
  <2>2. \A t \in Sockets : base(t) \in Conns /\ base(t).state = conn[t].state
    BY <1>1, <1>6, TookType DEF KickBanned, CanCommand
  <2> HIDE DEF base
  <2>3. \A t \in Sockets : conn'[t].state = conn[t].state \/ conn'[t].state = "zombie"
    BY <2>1, <2>2 DEF Conns
  <2> QED
    BY <2>3 DEF StaysGivenUp
<1>7. ASSUME NEW done \in BOOLEAN, KickHimself(s, done) PROVE StaysGivenUp
  BY <1>7 DEF KickHimself, StaysGivenUp, Freed
<1> QED
  BY <1>2, <1>3, <1>4, <1>5, <1>6, <1>7 DEF PlayerActs

LEMMA SweepsStayGivenUp ==
    ASSUME IInv, NEW s \in Sockets, SweepWaiting(s) \/ SweepPlayer(s)
    PROVE  StaysGivenUp
<1>1. conn[s] \in Conns /\ TypeOK /\ Freed.state = "free"
  BY DEF IInv, TypeOK, Freed
<1>2. CASE conn' = [conn EXCEPT ![s] = Freed]
  BY <1>1, <1>2, OneStaysGivenUp
<1>3. CASE conn' = [conn EXCEPT ![s] = ZombieTick(conn[s])]
  BY <1>1, <1>3, ZombieTickType, OneStaysGivenUp
<1>4. CASE /\ ~SilentTooLong(conn[s])
           /\ conn' = [conn EXCEPT ![s] = ZombieTick(KeepaliveTick(conn[s]))]
  <2>1. /\ KeepaliveTick(conn[s]) \in Conns
        /\ KeepaliveTick(conn[s]).state = conn[s].state
    BY <1>1, <1>4, KeepaliveTickType
  <2>2. \/ ZombieTick(KeepaliveTick(conn[s])).state = conn[s].state
        \/ ZombieTick(KeepaliveTick(conn[s])).state = "dead"
    BY <2>1, ZombieTickType
  <2> QED
    BY <1>1, <1>4, <2>2, OneStaysGivenUp
<1> QED
  BY <1>2, <1>3, <1>4 DEF SweepWaiting, SweepPlayer, player_logout

LEMMA NextStaysGivenUp ==
    ASSUME IInv, [Next]_vars
    PROVE  [StaysGivenUp]_vars
<1>1. TypeOK /\ Freed.state = "free"
  BY DEF IInv, Freed
<1>2. ASSUME NEW s \in Sockets, Post(s) \/ StartRead(s) \/ Break(s) \/ Drop(s) \/ Skip(s)
      PROVE  StaysGivenUp
  BY <1>1, <1>2 DEF Post, StartRead, Break, Drop, Skip, player_logout,
                     TypeOK, Conns, StaysGivenUp
<1>3. CASE RefuseLogin \/ EnterGame
  <2>1. wanted # NULL
    BY <1>3 DEF RefuseLogin, EnterGame
  <2>2. reading \in Sockets /\ conn[reading].state = "login"
    BY <2>1, LoginPlace DEF IInv, Places
  <2> QED
    BY <1>1, <1>3, <2>2 DEF RefuseLogin, EnterGame, StaysGivenUp, TypeOK
<1>4. ASSUME NEW s \in Sockets, NEW done \in BOOLEAN, Evict(s, done) PROVE StaysGivenUp
  BY <1>1, <1>4, OneStaysGivenUp DEF Evict, player_logout
<1>5. CASE Progress
  <2>1. CASE Tick \/ EndSweepWaiting \/ EndSweepPlayers \/ EndAccept \/ EndRead
             \/ EndTurns \/ EndPost
    BY <2>1 DEF Tick, EndSweepWaiting, EndSweepPlayers, EndAccept, EndRead, EndTurns,
                EndPost, StaysGivenUp
  <2> QED
    BY <1>2, <1>3, <1>4, <1>5, <2>1, SweepsStayGivenUp DEF Progress
<1>6. ASSUME NEW s \in Sockets, Accept(s) PROVE StaysGivenUp
  BY <1>1, <1>6 DEF Accept, StaysGivenUp, TypeOK
<1>7. CASE Shutdown
  BY <1>1, <1>7 DEF Shutdown, StaysGivenUp
<1> QED
  BY <1>5, <1>6, <1>7, PacketStaysGivenUp, PlayerActsStaysGivenUp DEF Next

---------------------------------------------------------------------------
(* The theorems                                                            *)

(* The inductive invariant holds in every state of every behaviour. *)
THEOREM Invariance == Spec => []IInv
BY InitIInv, NextIInv, PTL DEF Spec

(* Every variable has its type: in particular the saturated counters and the
   queue keep within their bounds. *)
THEOREM TypeCorrect == Spec => []TypeOK
<1>1. IInv => TypeOK
  BY DEF IInv
<1> QED
  BY <1>1, Invariance, PTL

(* The two lists of connections stay apart, and every connection is on one of
   them, at every point of an iteration. *)
THEOREM AlwaysOneList == Spec => []OneList
<1>1. IInv => OneList
  BY DEF IInv
<1> QED
  BY <1>1, Invariance, PTL

(* No two sessions play the same character. *)
THEOREM AlwaysUniqueName == Spec => []UniqueName
<1>1. IInv => UniqueName
  BY DEF IInv
<1> QED
  BY <1>1, Invariance, PTL

(* A character that is out of the game has lost nothing, unless its last save was
   refused or the process ended with a player who kicked himself. *)
THEOREM NothingRolledBack == Spec => []NoRollback
<1>1. IInv => NoRollback
  BY DEF IInv
<1> QED
  BY <1>1, Invariance, PTL

(* No packet in the buffer of a connection that was given up, and no command of
   another player, brings it back into the game. *)
THEOREM GivenUpForGood == Spec => NoResurrection
BY Invariance, NextStaysGivenUp, PTL DEF Spec, NoResurrection
=============================================================================
