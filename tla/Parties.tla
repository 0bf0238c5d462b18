------------------------------ MODULE Parties ------------------------------
(***************************************************************************)
(* Parties of players (server/party.c, commands/player/party.c): who is    *)
(* in which party, who leads it, and how it shares loot. A party is a       *)
(* structure from a pool with a list of its members, and every player has a *)
(* pointer to the party he is in; the two are changed by hand. Passwords    *)
(* are left out, as a player may type any.                                  *)
(***************************************************************************)
EXTENDS Naturals, SequencesExt

CONSTANTS
    Players,    \* the characters; their names are unique (Sessions)
    Names,      \* names of parties
    Structs,    \* party structures of the pool
    Modes,      \* the looting modes in use
    NULL

LootModes == {"normal", "leader", "owner", "random", "split"}

ASSUME NullAssumption == NULL \notin Players \cup Names \cup Structs
ASSUME ModesAssumption == Modes \subseteq LootModes /\ "normal" \in Modes

VARIABLES
    online,     \* the players in the game
    party,      \* the party each player points to
    struct      \* what each structure holds; without a name it is in the pool

partyVars == <<online, party, struct>>

(* A structure as the pool gives it out: cleared, as all users of the pools expect. *)
Blank == [name |-> NULL, leader |-> NULL, members |-> <<>>, loot |-> "normal", idx |-> 0]

Parties == {s \in Structs : struct[s].name # NULL}
Members(s) == ToSet(struct[s].members)

Init ==
    /\ online = {}
    /\ party = [p \in Players |-> NULL]
    /\ struct = [s \in Structs |-> Blank]

Leads(p) == party[p] # NULL /\ struct[party[p]].leader = p

-----------------------------------------------------------------------------

Position(list, p) == CHOOSE i \in DOMAIN list : list[i] = p

(* Unlinking a member; the next in the list leads when the leader left. *)
(* Wrong: the leader stays the leader. *)
LeftLed(r, p) ==
    LET rest == RemoveAt(r.members, Position(r.members, p))
    IN  IF rest = <<>> THEN Blank ELSE [r EXCEPT !.members = rest]

Left(r, p) ==
    LET rest == RemoveAt(r.members, Position(r.members, p))
    IN  IF rest = <<>> THEN Blank
        ELSE [r EXCEPT !.members = rest,
                       !.leader = IF r.leader = p THEN Head(rest) ELSE r.leader]

(* remove_party_member(), which ends the party with its last member. *)
RemoveMember(p) ==
    /\ struct' = [struct EXCEPT ![party[p]] = Left(@, p)]
    /\ party' = [party EXCEPT ![p] = NULL]

Form(p, n) ==
    /\ p \in online /\ party[p] = NULL
    /\ \A s \in Parties : struct[s].name # n
    /\ \E s \in Structs \ Parties :
        /\ struct' = [struct EXCEPT ![s] = [Blank EXCEPT !.name = n, !.leader = p,
                                                         !.members = <<p>>]]
        /\ party' = [party EXCEPT ![p] = s]
    /\ UNCHANGED online

Join(p, s) ==
    /\ p \in online /\ party[p] = NULL
    /\ s \in Parties
    /\ struct' = [struct EXCEPT ![s].members = Cons(p, @)]
    /\ party' = [party EXCEPT ![p] = s]
    /\ UNCHANGED online

Leave(p) ==
    /\ party[p] # NULL
    /\ RemoveMember(p)
    /\ UNCHANGED online

Kick(p, q) ==
    /\ Leads(p) /\ q # p
    /\ q \in Members(party[p])
    /\ RemoveMember(q)
    /\ UNCHANGED online

HandOver(p, q) ==
    /\ Leads(p) /\ q # p
    /\ q \in online /\ party[q] = party[p]
    /\ struct' = [struct EXCEPT ![party[q]].leader = q]
    /\ UNCHANGED <<online, party>>

SetLoot(p, mode) ==
    /\ Leads(p)
    /\ struct' = [struct EXCEPT ![party[p]].loot = mode]
    /\ UNCHANGED <<online, party>>

LogIn(p) ==
    /\ p \notin online
    /\ online' = online \cup {p}
    /\ UNCHANGED <<party, struct>>

(* free_player() leaves the party before the player is freed. *)
(* Wrong: the player is freed and the party keeps him. *)
LogOutJoined(p) ==
    /\ p \in online
    /\ online' = online \ {p}
    /\ UNCHANGED <<party, struct>>

LogOut(p) ==
    /\ p \in online
    /\ online' = online \ {p}
    /\ IF party[p] = NULL THEN UNCHANGED <<party, struct>> ELSE RemoveMember(p)

(* The commands that a player may give about parties. *)
PartyCommand(p) ==
    \/ \E n \in Names : Form(p, n)
    \/ \E s \in Structs : Join(p, s)
    \/ Leave(p)
    \/ \E q \in Players : Kick(p, q) \/ HandOver(p, q)
    \/ \E mode \in Modes : SetLoot(p, mode)

(* What the sharing of a corpse does to a party: it moves the index on. *)
Advance(s, i) ==
    /\ struct' = [struct EXCEPT ![s].idx = i]
    /\ UNCHANGED <<online, party>>

Next ==
    \/ \E p \in Players : PartyCommand(p) \/ LogIn(p) \/ LogOut(p)
    \/ \E s \in Parties, i \in Nat : Advance(s, i)

Spec == Init /\ [][Next]_partyVars

-----------------------------------------------------------------------------

PartyType ==
    /\ online \subseteq Players
    /\ party \in [Players -> Structs \cup {NULL}]
    /\ struct \in [Structs -> [name : Names \cup {NULL}, leader : Players \cup {NULL},
                               members : Seq(Players), loot : Modes, idx : Nat]]

(* party.c keeps two ends of one relation by hand, in commands, at log-out and at
   the end of a party: a player points to a party exactly when its list has him, once;
   only players in the game are in one; a party has members and one of them
   leads it; two parties have two names. A structure back in the pool has nobody. *)
PartiesAgree ==
    /\ \A p \in Players, s \in Structs :
        party[p] = s <=> \E i \in DOMAIN struct[s].members : struct[s].members[i] = p
    /\ \A p \in Players : party[p] # NULL => p \in online
    /\ \A s \in Structs :
        /\ \A i, j \in DOMAIN struct[s].members :
             struct[s].members[i] = struct[s].members[j] => i = j
        /\ struct[s].name = NULL => struct[s] = Blank
        /\ struct[s].name # NULL => \E i \in DOMAIN struct[s].members :
                                       struct[s].members[i] = struct[s].leader
    /\ \A s, t \in Parties : struct[s].name = struct[t].name => s = t
=============================================================================
