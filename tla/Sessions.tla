----------------------------- MODULE Sessions -----------------------------
(***************************************************************************)
(* Connections and players: socket_server_process() and                    *)
(* socket_server_post_process(), the packets that log an account and a     *)
(* character in, commands that put others out of the game, and the loading *)
(* and saving of characters at each end of a session.                      *)
(*                                                                         *)
(* One iteration of the main loop is cut into the steps that handle one    *)
(* socket or one packet; `phase' says which of its loops is running and    *)
(* `todo' which sockets that loop has still to visit.  The order in which  *)
(* a loop visits them is left open.  What a client sends is left open too: *)
(* any packet may come next while a socket is being read.                  *)
(***************************************************************************)
EXTENDS Naturals, FiniteSets

CONSTANTS
    Sockets,            \* socket_structs; one is used again after it was freed
    Names,              \* characters, all of one account
    NULL,
    ZombieTicks,        \* MAX_TICKS_MULTIPLIER
    KeepaliveTimeout,   \* SOCKET_KEEPALIVE_TIMEOUT
    MaxQueue            \* bound on the commands that wait for their player

ASSUME NullAssumption == NULL \notin Sockets \cup Names
ASSUME TicksAssumption == ZombieTicks \in Nat /\ KeepaliveTimeout \in Nat
                          /\ MaxQueue \in Nat

VARIABLES
    conn,       \* the socket_struct, its player and its queued commands
    waiting,    \* client_sockets: connections that do not play yet
    phase, todo,
    watched,    \* sockets in the sets given to select()
    reading,    \* the socket whose packets are being handled, or NULL
    wanted,     \* the name that player_login() is logging in, or NULL
    fresh,      \* names whose file holds the latest state of the character
    refused     \* history: names whose last save, when one was due, was not done

files == <<fresh, refused>>
loop == <<phase, todo, watched, reading, wanted>>
vars == <<conn, waiting, loop, files>>

Phases == {"top", "sweepWaiting", "sweepPlayers", "accept", "readWaiting",
           "readPlayers", "turns", "post"}
States == {"free", "login", "playing", "zombie", "dead"}

Freed == [state |-> "free", login_count |-> 0, keepalive |-> 0, account |-> FALSE,
          name |-> NULL, queue |-> 0]

(* first_player *)
Players == {s \in Sockets : conn[s].name # NULL}
find_player(n) == {s \in Players : conn[s].name = n}

Init ==
    /\ conn = [s \in Sockets |-> Freed]
    /\ waiting = {}
    /\ phase = "top" /\ todo = {} /\ watched = {}
    /\ reading = NULL /\ wanted = NULL
    /\ fresh = Names /\ refused = {}

---------------------------------------------------------------------------
(* Characters                                                              *)

(* player_save(): not done on a map without saving or when a file operation
   fails; the file is then the one of the last save. *)
player_save(n, done) ==
    /\ fresh' = IF done THEN fresh \cup {n} ELSE fresh
    /\ refused' = IF done THEN refused \ {n} ELSE refused \cup {n}

(* Loading makes the character what its file says. *)
player_load(n) ==
    /\ fresh' = fresh \cup {n}
    /\ refused' = refused \ {n}

(* Wrong: the character is not saved. *)
player_logout_unsaved(s, done) ==
    /\ conn' = [conn EXCEPT ![s] = Freed]
    /\ watched' = watched \ {s}
    /\ UNCHANGED files

(* player_logout(): the character is saved and leaves, the socket is freed. *)
player_logout(s, done) ==
    /\ player_save(conn[s].name, done)
    /\ conn' = [conn EXCEPT ![s] = Freed]
    /\ watched' = watched \ {s}

---------------------------------------------------------------------------
(* socket_server_process(): the two loops before select()                  *)

Tick ==
    /\ phase = "top"
    /\ phase' = "sweepWaiting" /\ todo' = waiting /\ watched' = {}
    /\ UNCHANGED <<conn, waiting, reading, wanted, files>>

Saturated(n, max) == IF n < max THEN n + 1 ELSE max

(* Wrong: the count starts anew at every tick. *)
ZombieTickReset(c) ==
    [c EXCEPT !.login_count = 0,
              !.state = IF @ = "zombie" /\ c.login_count > ZombieTicks THEN "dead" ELSE @]

(* server_socket_csocket_is_zombie() *)
ZombieTick(c) ==
    IF c.state # "zombie" THEN c
    ELSE [c EXCEPT !.login_count = Saturated(@, ZombieTicks + 1),
                   !.state = IF c.login_count >= ZombieTicks THEN "dead" ELSE @]

SweepWaiting(s) ==
    /\ phase = "sweepWaiting" /\ s \in todo
    /\ todo' = todo \ {s}
    /\ \/ /\ conn' = [conn EXCEPT ![s] = Freed]     \* dead, or its fd is invalid
          /\ waiting' = waiting \ {s}
          /\ UNCHANGED watched
       \/ /\ conn[s].state # "dead"
          /\ conn' = [conn EXCEPT ![s] = ZombieTick(@)]
          /\ watched' = IF conn[s].state = "zombie" THEN watched ELSE watched \cup {s}
          /\ UNCHANGED waiting
    /\ UNCHANGED <<phase, reading, wanted, files>>

EndSweepWaiting ==
    /\ phase = "sweepWaiting" /\ todo = {}
    /\ phase' = "sweepPlayers" /\ todo' = Players
    /\ UNCHANGED <<conn, waiting, watched, reading, wanted, files>>

SilentTooLongLate(c) == c.keepalive > KeepaliveTimeout         \* wrong: one too many
SilentTooLongIdle(c) == c.keepalive >= KeepaliveTimeout /\ c.queue = 0     \* wrong
SilentTooLong(c) == c.keepalive >= KeepaliveTimeout

KeepaliveTick(c) == [c EXCEPT !.keepalive = Saturated(@, KeepaliveTimeout + 1)]

(* A player that is dead, has an invalid fd or was silent too long leaves. *)
SweepPlayer(s) ==
    /\ phase = "sweepPlayers" /\ s \in todo
    /\ todo' = todo \ {s}
    /\ \/ \E done \in BOOLEAN : player_logout(s, done)
       \/ /\ conn[s].state # "dead" /\ ~SilentTooLong(conn[s])
          /\ conn' = [conn EXCEPT ![s] = ZombieTick(KeepaliveTick(@))]
          /\ watched' = IF conn[s].state = "zombie" THEN watched ELSE watched \cup {s}
          /\ UNCHANGED files
    /\ UNCHANGED <<waiting, phase, reading, wanted>>

(* select(): when no descriptor is ready the function returns. *)
EndSweepPlayers ==
    /\ phase = "sweepPlayers" /\ todo = {}
    /\ phase' \in {"accept", "turns"}
    /\ UNCHANGED <<conn, waiting, todo, watched, reading, wanted, files>>

(* socket_server_csocket_create() and init_connection() *)
Accept(s) ==
    /\ phase = "accept"
    /\ conn[s].state = "free"
    /\ conn' = [conn EXCEPT ![s] = [Freed EXCEPT !.state = "login"]]
    /\ waiting' = waiting \cup {s}
    /\ UNCHANGED <<loop, files>>

EndAccept ==
    /\ phase = "accept"
    /\ phase' = "readWaiting" /\ todo' = waiting
    /\ UNCHANGED <<conn, waiting, watched, reading, wanted, files>>

---------------------------------------------------------------------------
(* The two loops after select()                                            *)

Turn(s) ==
    /\ phase \in {"readWaiting", "readPlayers"} /\ reading = NULL
    /\ s \in todo
    /\ todo' = todo \ {s}

StartRead(s) ==
    /\ Turn(s)
    /\ s \in watched
    /\ reading' = s
    /\ UNCHANGED <<conn, waiting, phase, watched, wanted, files>>

(* An error, or a failed write. *)
Break(s) ==
    /\ Turn(s)
    /\ s \in watched
    /\ conn' = [conn EXCEPT ![s].state = "dead"]
    /\ UNCHANGED <<waiting, phase, watched, reading, wanted, files>>

(* The socket expired in the loop before select(). *)
Drop(s) ==
    /\ Turn(s)
    /\ conn[s].state = "dead"
    /\ \/ /\ s \in waiting
          /\ conn' = [conn EXCEPT ![s] = Freed]
          /\ waiting' = waiting \ {s}
          /\ UNCHANGED <<watched, files>>
       \/ /\ s \in Players
          /\ \E done \in BOOLEAN : player_logout(s, done)
          /\ UNCHANGED waiting
    /\ UNCHANGED <<phase, reading, wanted>>

Skip(s) ==
    /\ Turn(s)
    /\ conn[s].state # "dead"
    /\ UNCHANGED <<conn, waiting, phase, watched, reading, wanted, files>>

EndRead ==
    /\ phase \in {"readWaiting", "readPlayers"} /\ reading = NULL /\ todo = {}
    /\ IF phase = "readWaiting"
       THEN phase' = "readPlayers" /\ todo' = Players
       ELSE phase' = "turns" /\ todo' = {}
    /\ UNCHANGED <<conn, waiting, watched, reading, wanted, files>>

---------------------------------------------------------------------------
(* socket_server_csocket_read(): the packets of the socket being read.     *)
(* Every one that was received is handled, whatever became of the socket.  *)

(* The last packet was handled; or a read or decryption failed. *)
LastPacket ==
    /\ reading # NULL
    /\ reading' = NULL
    /\ conn' \in {conn, [conn EXCEPT ![reading].state = "dead"]}
    /\ UNCHANGED <<waiting, phase, todo, watched, wanted, files>>

(* A packet that changes no more than the socket it came from. *)
Packet(c) ==
    /\ reading # NULL
    /\ conn' = [conn EXCEPT ![reading] = c]
    /\ UNCHANGED <<waiting, loop, files>>

This == conn[reading]

OutdatedVersion == Packet([This EXCEPT !.state = "zombie"])

(* An account command; `login' tells those that log in to the account from
   those that need it. *)
Account(login) ==
    Packet(IF This.account = login THEN [This EXCEPT !.state = "dead"]
           ELSE [This EXCEPT !.account = TRUE])

TooManyPasswords == ~This.account /\ Packet([This EXCEPT !.state = "zombie"])

Queued(c) == [c EXCEPT !.queue = @ + 1]

(* A command only for players is put on the queue, and so is a packet that is
   refused because it does not belong on this kind of connection. *)
PlayerOnly(state) ==
    /\ This.queue < MaxQueue
    /\ Packet([Queued(This) EXCEPT !.state = state])

Clear == Packet([This EXCEPT !.queue = 0])

Keepalive == Packet([This EXCEPT !.keepalive = 0])

(* Wrong: the state of the connection is not looked at. *)
LoginAnyState(n) ==
    /\ This.account
    /\ wanted' = n
    /\ UNCHANGED <<conn, waiting, phase, todo, watched, reading, files>>

(* player_login() begins; it does so only for a socket in ST_LOGIN. *)
LoginChar(n) ==
    /\ This.account /\ This.state = "login"
    /\ wanted' = n
    /\ UNCHANGED <<conn, waiting, phase, todo, watched, reading, files>>

PacketHandled ==
    /\ reading # NULL /\ wanted = NULL
    /\ \/ OutdatedVersion \/ TooManyPasswords \/ Clear \/ Keepalive
       \/ \E login \in BOOLEAN : Account(login)
       \/ PlayerOnly(This.state) \/ PlayerOnly("dead")
       \/ \E n \in Names : LoginChar(n)
       \/ LastPacket

---------------------------------------------------------------------------
(* player_login(), continued                                               *)

(* Whoever plays the character is logged out, even when the login is refused
   afterwards. *)
Evict(s, done) ==
    /\ wanted # NULL
    /\ s \in find_player(wanted)
    /\ player_logout(s, done)
    /\ UNCHANGED <<waiting, phase, todo, reading, wanted>>

(* A ban, or no player file. *)
RefuseLogin ==
    /\ wanted # NULL /\ find_player(wanted) = {}
    /\ conn' = [conn EXCEPT ![reading].state = "zombie"]
    /\ wanted' = NULL
    /\ UNCHANGED <<waiting, phase, todo, watched, reading, files>>

(* Wrong: the session that plays the character goes on. *)
EnterGameTwice ==
    /\ wanted # NULL
    /\ conn' = [conn EXCEPT ![reading].state = "playing", ![reading].name = wanted]
    /\ waiting' = waiting \ {reading}
    /\ player_load(wanted)
    /\ wanted' = NULL
    /\ UNCHANGED <<phase, todo, watched, reading>>

(* Wrong: the socket stays on client_sockets. *)
EnterGameStillWaiting ==
    /\ wanted # NULL /\ find_player(wanted) = {}
    /\ conn' = [conn EXCEPT ![reading].state = "playing", ![reading].name = wanted]
    /\ player_load(wanted)
    /\ wanted' = NULL
    /\ UNCHANGED <<waiting, phase, todo, watched, reading>>

EnterGame ==
    /\ wanted # NULL /\ find_player(wanted) = {}
    /\ conn' = [conn EXCEPT ![reading].state = "playing", ![reading].name = wanted]
    /\ waiting' = waiting \ {reading}
    /\ player_load(wanted)
    /\ wanted' = NULL
    /\ UNCHANGED <<phase, todo, watched, reading>>

---------------------------------------------------------------------------
(* process_events(): players carry out their commands, and things happen to
   them.  It does not run in every iteration.  How many commands a player may
   carry out depends on its speed and is left open.                        *)

Turns == phase = "turns" /\ UNCHANGED <<waiting, phase, todo, reading, wanted>>

(* socket_server_handle_client() takes the next command of a player. *)
CanCommand(s) == conn[s].state = "playing" /\ conn[s].queue > 0
Took(c) == [c EXCEPT !.queue = @ - 1, !.login_count = 0, !.keepalive = 0]

Command(s) ==
    /\ Turns /\ CanCommand(s)
    /\ conn' = [conn EXCEPT ![s] = Took(@)]
    /\ fresh' = fresh \ {conn[s].name}
    /\ UNCHANGED <<watched, refused>>

(* command_kick(), which may name the one who gives it. *)
Kick(s, t, done) ==
    /\ Turns /\ CanCommand(s) /\ t \in Players
    /\ conn' = [conn EXCEPT ![s] = Took(@), ![t] = Freed]
    /\ watched' = watched \ {t}
    /\ player_save(conn[t].name, done)

(* Who kicks himself is freed while socket_server_handle_client() still uses the player
   and the socket.  When the memory still reads "dead" nothing more happens, as
   in Kick; or the process ends, nobody else is saved, and it is started again. *)
KickHimself(s, done) ==
    /\ phase = "turns" /\ CanCommand(s)
    /\ phase' = "top"
    /\ conn' = [t \in Sockets |-> Freed] /\ waiting' = {} /\ watched' = {}
    /\ fresh' = IF done THEN fresh \cup {conn[s].name} ELSE fresh
    /\ refused' = (refused \cup {conn[t].name : t \in Players})
                      \ IF done THEN {conn[s].name} ELSE {}
    /\ UNCHANGED <<todo, reading, wanted>>

(* command_ban(): every player that a ban matches, dead or not, becomes a
   zombie. *)
KickBanned(s, banned) ==
    /\ Turns /\ CanCommand(s)
    /\ conn' = [t \in Sockets |->
                   LET c == IF t = s THEN Took(conn[t]) ELSE conn[t]
                   IN IF t \in banned THEN [c EXCEPT !.state = "zombie"] ELSE c]
    /\ UNCHANGED <<watched, files>>

(* Something happens to a character, whatever the state of its connection. *)
Live(s) ==
    /\ Turns
    /\ fresh' = fresh \ {conn[s].name}
    /\ UNCHANGED <<conn, watched, refused>>

Autosave(s, done) ==
    /\ Turns
    /\ conn[s].state = "playing"
    /\ player_save(conn[s].name, done)
    /\ UNCHANGED <<conn, watched>>

PlayerActs(s) ==
    \/ Command(s) \/ Live(s)
    \/ \E done \in BOOLEAN :
           \/ Autosave(s, done) \/ KickHimself(s, done)
           \/ \E t \in Sockets : Kick(s, t, done)
    \/ \E banned \in SUBSET Players : KickBanned(s, banned)

EndTurns ==
    /\ phase = "turns"
    /\ phase' = "post" /\ todo' = Players
    /\ UNCHANGED <<conn, waiting, watched, reading, wanted, files>>

---------------------------------------------------------------------------
(* socket_server_post_process() *)
Post(s) ==
    /\ phase = "post" /\ s \in todo
    /\ todo' = todo \ {s}
    /\ \/ /\ conn[s].state = "dead"
          /\ \E done \in BOOLEAN : player_logout(s, done)
       \/ /\ conn[s].state # "dead"
          /\ \/ UNCHANGED conn
             \/ s \in watched /\ conn' = [conn EXCEPT ![s].state = "dead"]
          /\ UNCHANGED <<watched, files>>
    /\ UNCHANGED <<waiting, phase, reading, wanted>>

EndPost ==
    /\ phase = "post" /\ todo = {}
    /\ phase' = "top"
    /\ UNCHANGED <<conn, waiting, todo, watched, reading, wanted, files>>

(* The server shuts down, player_disconnect_all() logging out all players, and
   is started again. *)
Shutdown ==
    /\ phase = "top"
    /\ \E done \in SUBSET {conn[s].name : s \in Players} :
           /\ fresh' = fresh \cup done
           /\ refused' = (refused \cup {conn[s].name : s \in Players}) \ done
    /\ conn' = [s \in Sockets |-> Freed] /\ waiting' = {} /\ watched' = {}
    /\ UNCHANGED <<phase, todo, reading, wanted>>

---------------------------------------------------------------------------
(* Every step that brings the iteration nearer to its end. *)
Progress ==
    \/ Tick \/ EndSweepWaiting \/ EndSweepPlayers \/ EndAccept \/ EndRead \/ EndTurns
    \/ EndPost
    \/ \E s \in Sockets :
           \/ SweepWaiting(s) \/ SweepPlayer(s) \/ Post(s)
           \/ StartRead(s) \/ Break(s) \/ Drop(s) \/ Skip(s)
    \/ RefuseLogin \/ EnterGame
    \/ \E s \in Sockets, done \in BOOLEAN : Evict(s, done)

Next ==
    \/ Progress
    \/ PacketHandled
    \/ \E s \in Sockets : Accept(s)
    \/ \E s \in Players : PlayerActs(s)
    \/ Shutdown

Spec == Init /\ [][Next]_vars

(* The main loop goes on, and a buffer holds finitely many packets. *)
Fairness == WF_vars(Progress) /\ WF_vars(wanted = NULL /\ LastPacket)

FairSpec == Spec /\ Fairness

---------------------------------------------------------------------------
(* Properties                                                              *)

Conns == [state : States, login_count : 0 .. ZombieTicks + 1,
          keepalive : 0 .. KeepaliveTimeout, account : BOOLEAN,
          name : Names \cup {NULL}, queue : 0 .. MaxQueue]

(* Type invariant. *)
TypeOK ==
    /\ conn \in [Sockets -> Conns]
    /\ waiting \subseteq Sockets /\ todo \subseteq Sockets /\ watched \subseteq Sockets
    /\ phase \in Phases
    /\ reading \in Sockets \cup {NULL} /\ wanted \in Names \cup {NULL}
    /\ fresh \subseteq Names /\ refused \subseteq Names

(* A connection is on exactly one of the two lists the loops walk, whatever
   list it was on when the loop began: client_sockets until it plays,
   first_player from then on. *)
OneList ==
    \A s \in Sockets :
        /\ conn[s].state = "login" => s \in waiting
        /\ conn[s].state = "playing" => s \in Players
        /\ (conn[s].state = "free") <=> (s \notin waiting /\ s \notin Players)
        /\ ~(s \in waiting /\ s \in Players)

(* A character is in the game at most once. *)
UniqueName ==
    \A s, t \in Players : conn[s].name = conn[t].name => s = t

(* When a character is not in the game, its file holds its latest state,
   however its session ended, unless its last save was not done: the map or a file
   operation refused it, or the process ended with a player who kicked
   himself. *)
NoRollback ==
    \A n \in Names : find_player(n) = {} => n \in fresh \cup refused

(* A connection that was given up, dead or a zombie, never plays again: the
   packets that follow in its buffer cannot log it in. *)
StaysGivenUp ==
    \A s \in Sockets : conn[s].state \in {"zombie", "dead"} =>
                           conn'[s].state \in {"zombie", "dead", "free"}
NoResurrection == [][StaysGivenUp]_vars

(* A connection that was given up is freed. *)
GivenUpFreed ==
    \A s \in Sockets : conn[s].state \in {"zombie", "dead"} ~> conn[s].state = "free"

(* A player whose client falls silent is logged out. *)
SilentPlayerLeaves ==
    \A s \in Sockets : s \in Players ~> (s \notin Players \/ reading = s)
=============================================================================
