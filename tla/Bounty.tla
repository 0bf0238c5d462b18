------------------------------- MODULE Bounty -------------------------------
(***************************************************************************)
(* Who gets what from a monster (server/attack.c, object_drop_inventory(),  *)
(* types/container.c, server/party.c, types/common/process.c): its enemy,   *)
(* the experience of the kill, the corpse that is locked for a player or a  *)
(* party, and what is in it. The monster lives again when its corpse is     *)
(* gone. What is not a player is only told apart from players.              *)
(***************************************************************************)
EXTENDS Parties

CONSTANTS
    Maps, Lair,         \* regions within which on_same_map() holds; the monster's
    Things, Coins,      \* what the monster carries when it lives
    MaxArrows,          \* bound of the arrows that stick in it
    MaxViewers,         \* bound of those who look into its corpse at a time
    Gain,               \* experience of a kill that is worth something
    Levels,             \* levels of the skill; 0 for a player who does not have it
    Limit               \* what add_exp() adds at most at a level

ASSUME LairAssumption == Lair \in Maps
ASSUME PlayersAssumption == IsFiniteSet(Players)
ASSUME BountyAssumption ==
    /\ Things \in Nat /\ Coins \in Nat /\ MaxArrows \in Nat /\ MaxViewers \in Nat /\ Gain \in Nat
    /\ Levels \subseteq Nat /\ 0 \in Levels /\ Limit \in [Levels -> Nat]

VARIABLES
    place,      \* the map each player is on
    prey,       \* the monster
    corpse,     \* what is left of it, or NULL
    given,      \* history: what the last step handed out, and who killed
    fought      \* history: who fought the living monster in the session he is in

bountyVars == <<place, prey, corpse, given, fought>>
gameVars == <<partyVars, bountyVars>>

(* A pointer to an enemy: what is now in the memory it points to, and whether that
   is still the object whose tag was stored with the pointer. *)
NoEnemy == [type |-> "none", who |-> NULL, same |-> FALSE]
Enemy(p) == [type |-> "player", who |-> p, same |-> TRUE]
Beast == [type |-> "other", who |-> NULL, same |-> TRUE]

Nobody == [p \in Players |-> 0]
Nothing == [by |-> NULL, exp |-> Nobody, things |-> Nobody, coins |-> Nobody, back |-> Nobody]
Quiet == given' = Nothing

Alive == [alive |-> TRUE, enemy |-> NoEnemy, arrows |-> {}]
Slain == [alive |-> FALSE, enemy |-> NoEnemy, arrows |-> {}]

Total(f) == SumFunctionOnSet(f, Players)

(* The numbers in T, the smallest first. *)
Ascending(T) == CHOOSE f \in [1 .. Cardinality(T) -> T] : \A i, j \in DOMAIN f : i < j => f[i] < f[j]

(* Members of the party of p who are on his map, in the order of the list. *)
Near(p, q) == place[q] = place[p]
Mates(p) == IF party[p] = NULL THEN {} ELSE {q \in Members(party[p]) : Near(p, q)}

GameInit ==
    /\ Init
    /\ place = [p \in Players |-> Lair]
    /\ prey = Alive
    /\ corpse = NULL
    /\ given = Nothing
    /\ fought = {}

-----------------------------------------------------------------------------
(* Coming, going and walking. *)

(* Where somebody was who is gone no longer matters. The object of a new player may get the memory of one that is gone. *)
Enter(p) ==
    /\ LogIn(p)
    /\ \E m \in Maps : place' = [place EXCEPT ![p] = m]
    /\ \/ UNCHANGED prey
       \/ /\ prey.enemy.type = "dead"
          /\ prey' = [prey EXCEPT !.enemy = [type |-> "player", who |-> p, same |-> FALSE]]
    /\ UNCHANGED <<corpse, fought>> /\ Quiet

(* So may any other object; and it may go. *)
OtherObject ==
    /\ \/ /\ prey.enemy.type = "dead"
          /\ prey' = [prey EXCEPT !.enemy = [Beast EXCEPT !.same = FALSE]]
       \/ /\ prey.enemy.type = "other"
          /\ prey' = [prey EXCEPT !.enemy = [NoEnemy EXCEPT !.type = "dead"]]
    /\ UNCHANGED <<partyVars, place, corpse, fought>> /\ Quiet

(* The tag of the shooter is no more; the arrow is a thing like the others. *)
Ownerless(inv, p) == [i \in DOMAIN inv |-> IF inv[i] = p THEN NULL ELSE inv[i]]

Exit(p) ==
    /\ LogOut(p)
    /\ prey' = [prey EXCEPT !.arrows = @ \ {p},
                            !.enemy = IF @.type = "player" /\ @.who = p
                                      THEN [NoEnemy EXCEPT !.type = "dead"] ELSE @]
    /\ corpse' = IF corpse = NULL THEN NULL
                 ELSE [corpse EXCEPT !.viewers = @ \ {p}, !.inv = Ownerless(@, p)]
    /\ fought' = fought \ {p}
    /\ place' = [place EXCEPT ![p] = Lair]
    /\ Quiet

(* Leaving a square closes what the player looks into. *)
(* Wrong: it stays open. *)
WalkOpen(p, m) ==
    /\ p \in online /\ place[p] # m
    /\ place' = [place EXCEPT ![p] = m]
    /\ UNCHANGED <<partyVars, prey, corpse, fought>> /\ Quiet

Walk(p, m) ==
    /\ p \in online /\ place[p] # m
    /\ place' = [place EXCEPT ![p] = m]
    /\ corpse' = IF corpse = NULL THEN NULL ELSE [corpse EXCEPT !.viewers = @ \ {p}]
    /\ UNCHANGED <<partyVars, prey, fought>> /\ Quiet

-----------------------------------------------------------------------------
(* The fight. *)

Valid(e) == e.type # "none" /\ e.same

(* The monster's own turn: it gives up an enemy, or finds one. *)
Aggro ==
    /\ prey.alive
    /\ \/ /\ prey' = [prey EXCEPT !.enemy = NoEnemy]
          /\ UNCHANGED fought
       \/ /\ prey' = [prey EXCEPT !.enemy = Beast]
          /\ UNCHANGED fought
       \/ \E p \in online :
            /\ place[p] = Lair
            /\ prey' = [prey EXCEPT !.enemy = Enemy(p)]
            /\ fought' = fought \cup {p}
    /\ UNCHANGED <<partyVars, place, corpse>> /\ Quiet

Stick(p) ==
    /\ prey.alive
    /\ p \in online \ prey.arrows /\ Cardinality(prey.arrows) < MaxArrows
    /\ prey' = [prey EXCEPT !.arrows = @ \cup {p}]
    /\ UNCHANGED <<partyVars, place, corpse, fought>> /\ Quiet

(* Who hits becomes the enemy when there is none, unless he is not seen. *)
Provoked(e, hitter) == IF Valid(e) THEN {e} ELSE {e, hitter}

(* The owner of a projectile or spell may be anywhere by now. *)
Hit(p) ==
    /\ prey.alive /\ p \in online
    /\ \E e \in Provoked(prey.enemy, Enemy(p)) : prey' = [prey EXCEPT !.enemy = e]
    /\ fought' = fought \cup {p}
    /\ UNCHANGED <<partyVars, place, corpse>> /\ Quiet

-----------------------------------------------------------------------------
(* Experience. level says what level those who can share have in the skill. *)

add_exp(level, q, n) == IF n > Limit[level[q]] THEN Limit[level[q]] ELSE n

Shares(p, level) ==
    LET sharers == {q \in DOMAIN level : level[q] # 0}
        shares  == SumFunctionOnSet([q \in sharers |-> level[q] + 4], sharers)
        others  == [q \in Players |->
                      IF q \in sharers \ {p}
                      THEN add_exp(level, q, (level[q] + 4) * (Gain \div shares)) ELSE 0]
    IN  IF party[p] = NULL \/ Cardinality(sharers) <= 1 \/ shares > Gain
        THEN [Nobody EXCEPT ![p] = add_exp(level, p, Gain)]
        ELSE [others EXCEPT ![p] = add_exp(level, p, Gain - Total(others))]

-----------------------------------------------------------------------------
(* The corpse. *)

(* The player for whom the corpse is: the enemy, if the pointer is good. *)
(* Wrong: whoever is there now. *)
HeirNow(e) == IF e.type = "player" THEN e.who ELSE NULL
Heir(e) == IF e.type = "player" /\ e.same THEN e.who ELSE NULL

ForParty(w) == party[w] # NULL /\ struct[party[w]].loot # "owner"

(* Arrows of others than the enemy and his party fall to the floor. *)
Kept(e) == {a \in prey.arrows :
              e.type = "player" =>
                a = e.who \/ (party[a] # NULL /\ party[a] = party[e.who])}

Corpse(e, things, coins) ==
    LET w == Heir(e)
    IN  [kind    |-> IF w = NULL THEN "corpse" ELSE IF ForParty(w) THEN "party" ELSE "player",
         lock    |-> IF w # NULL /\ ForParty(w) THEN struct[party[w]].name ELSE w,
         inv     |-> [i \in 1 .. things |-> NULL] \o SetToSeq(Kept(e)),
         coins   |-> coins,
         viewers |-> {}]

(* A player kills: an enemy that is a player keeps the bounty; nothing is left of a
   kill that is not worth any experience, or when the race has no corpse. *)
Kill(p) ==
    /\ prey.alive /\ p \in online
    /\ \E e \in Provoked(prey.enemy, Enemy(p)) :
        LET f == IF e.type = "player" THEN e ELSE Enemy(p)
        IN  \/ /\ corpse' = NULL
               /\ Quiet
            \/ \E level \in [Mates(p) \cup {p} -> Levels] :
                 /\ level[p] # 0
                 /\ corpse' = Corpse(f, Things, Coins)
                 /\ given' = [Nothing EXCEPT !.by = p, !.exp = Shares(p, level)]
    /\ prey' = Slain
    /\ fought' = {}
    /\ UNCHANGED <<partyVars, place>>

(* A monster kills another: a corpse without loot, for nobody. *)
KilledByBeast ==
    /\ prey.alive
    /\ corpse' = Corpse(Beast, 0, 0)
    /\ prey' = Slain
    /\ fought' = {}
    /\ UNCHANGED <<partyVars, place>> /\ Quiet

-----------------------------------------------------------------------------
(* Looting. A corpse is opened by applying it. *)

party_can_open_corpse(p) ==
    /\ party[p] # NULL /\ corpse.lock = struct[party[p]].name
    /\ struct[party[p]].loot = "leader" => Leads(p)

MayOpen(p) ==
    \/ corpse.kind = "corpse"
    \/ corpse.kind = "player" /\ corpse.lock = p
    \/ corpse.kind = "party" /\ party_can_open_corpse(p)

(* Arrows of members nearby go back to them first, if they can carry them. *)
Reclaimed(p) == {q \in Mates(p) : \E i \in DOMAIN corpse.inv : corpse.inv[i] = q}
His(q) == {i \in DOMAIN corpse.inv : corpse.inv[i] = q}
Returned(back) == [q \in Players |-> IF q \in back THEN Cardinality(His(q)) ELSE 0]

(* Each thing, and the heap of coins (0), goes to a member drawn at random, if he can
   carry it; to says who got what. *)
Random(p, inv, to) ==
    [inv   |-> [i \in DOMAIN inv |-> i \notin DOMAIN to],
     coins |-> IF 0 \in DOMAIN to THEN 0 ELSE corpse.coins,
     idx   |-> struct[party[p]].idx,
     given |-> [Nothing EXCEPT
                  !.things = [q \in Players |->
                                Cardinality({i \in DOMAIN inv \cap DOMAIN to : to[i] = q})],
                  !.coins = IF 0 \in DOMAIN to THEN [Nobody EXCEPT ![to[0]] = corpse.coins]
                            ELSE Nobody]]

(* Positions of the list of members: where the index points to among those who are
   near, and the list from its head when the index is past them. *)
NearAt(p) == LET list == struct[party[p]].members
             IN  Ascending({i \in DOMAIN list : Near(p, list[i])})

SplitStart(p) ==
    LET at == NearAt(p)
        i  == struct[party[p]].idx
    IN  IF i >= Len(at) THEN [idx |-> 0, pos |-> 1] ELSE [idx |-> i, pos |-> at[i + 1]]

(* Wrong: the index moves on, the position does not. *)
SplitNextSame(p, r) ==
    IF r.idx + 1 >= Len(NearAt(p)) THEN [r EXCEPT !.idx = 0] ELSE [r EXCEPT !.idx = r.idx + 1]

SplitNext(p, r) ==
    IF r.idx + 1 >= Len(NearAt(p)) THEN [r EXCEPT !.idx = 0, !.pos = 1]
    ELSE [r EXCEPT !.idx = r.idx + 1, !.pos = r.pos + 1]

(* Wrong: a thing is taken out before it is known whether somebody can carry it. *)
SplitOneLost(p, able, r, i) ==
    LET q    == struct[party[p]].members[r.pos]
        next == [SplitNext(p, r) EXCEPT !.left[i] = FALSE]
    IN  IF Near(p, q) /\ i \in able THEN [next EXCEPT !.got[q] = @ + 1]
        ELSE next

(* Each thing goes to the member at the position if he is near and can carry it, and
   the position moves on. *)
SplitOne(p, able, r, i) ==
    LET q    == struct[party[p]].members[r.pos]
        next == SplitNext(p, r)
    IN  IF Near(p, q) /\ i \in able THEN [next EXCEPT !.left[i] = FALSE, !.got[q] = @ + 1]
        ELSE next

SplitAll(p, inv, able) ==
    LET begin == [idx |-> SplitStart(p).idx, pos |-> SplitStart(p).pos, got |-> Nobody,
                  left |-> [i \in DOMAIN inv |-> TRUE]]
        upto[i \in 0 .. Len(inv)] ==
            IF i = 0 THEN begin ELSE SplitOne(p, able, upto[i - 1], i)
    IN  upto[Len(inv)]

(* The coins are divided, the rest goes to the first. *)
Split(p, inv, able) ==
    LET first == struct[party[p]].members[NearAt(p)[1]]
        n     == Len(NearAt(p))
        end   == SplitAll(p, inv, able)
    IN  [inv   |-> end.left,
         coins |-> 0,
         idx   |-> end.idx,
         given |-> [Nothing EXCEPT
                      !.things = end.got,
                      !.coins = [q \in Players |->
                                   IF q \notin Mates(p) THEN 0
                                   ELSE (corpse.coins \div n)
                                        + IF q = first THEN corpse.coins % n ELSE 0]]]

Selected(inv, left) ==
    LET kept == Ascending({i \in DOMAIN inv : left[i]})
    IN  [j \in DOMAIN kept |-> inv[kept[j]]]

(* What opening does to a corpse that is the party's. *)
Handled(p, result, inv, back) ==
    /\ corpse' = [corpse EXCEPT !.viewers = @ \cup {p}, !.coins = result.coins,
                                !.inv = Selected(inv, result.inv)]
    /\ given' = [result.given EXCEPT !.back = Returned(back)]
    /\ Advance(party[p], result.idx)

Open(p) ==
    /\ corpse # NULL
    /\ p \in online /\ place[p] = Lair /\ p \notin corpse.viewers
    /\ Cardinality(corpse.viewers) < MaxViewers
    /\ MayOpen(p)
    /\ IF corpse.kind # "party"
       THEN /\ corpse' = [corpse EXCEPT !.viewers = @ \cup {p}]
            /\ UNCHANGED partyVars /\ Quiet
       ELSE \E back \in SUBSET Reclaimed(p) :
              LET inv == Selected(corpse.inv, [i \in DOMAIN corpse.inv |-> corpse.inv[i] \notin back])
              IN  CASE struct[party[p]].loot = "random" ->
                         \E able \in SUBSET (DOMAIN inv \cup {0}) :
                         \E to \in [able -> Mates(p)] : Handled(p, Random(p, inv, to), inv, back)
                    [] struct[party[p]].loot = "split" ->
                         \E able \in SUBSET DOMAIN inv : Handled(p, Split(p, inv, able), inv, back)
                    [] OTHER ->
                         /\ corpse' = [corpse EXCEPT !.viewers = @ \cup {p}, !.inv = inv]
                         /\ given' = [Nothing EXCEPT !.back = Returned(back)]
                         /\ UNCHANGED partyVars
    /\ UNCHANGED <<place, prey, fought>>

(* Who looks into it takes one thing, or the coins. *)
Take(p) ==
    /\ corpse # NULL /\ p \in corpse.viewers
    /\ \/ \E i \in DOMAIN corpse.inv : corpse' = [corpse EXCEPT !.inv = RemoveAt(@, i)]
       \/ corpse' = [corpse EXCEPT !.coins = 0]
    /\ UNCHANGED <<partyVars, place, prey, fought>> /\ Quiet

Close(p) ==
    /\ corpse # NULL /\ p \in corpse.viewers
    /\ corpse' = [corpse EXCEPT !.viewers = @ \ {p}]
    /\ UNCHANGED <<partyVars, place, prey, fought>> /\ Quiet

(* The time of a corpse is up: while someone looks into it, it stays; it loses its
   lock; it goes. But this is for a corpse whose sub_type was not changed, and
   locking it changes that. *)
Rotten(c) ==
    IF c.kind = "corpse" /\ c.viewers # {} THEN c
    ELSE IF c.kind = "corpse" /\ c.lock # NULL THEN [c EXCEPT !.lock = NULL]
    ELSE NULL

Rot ==
    /\ corpse # NULL
    /\ corpse' = Rotten(corpse)
    /\ UNCHANGED <<partyVars, place, prey, fought>> /\ Quiet

Respawn ==
    /\ ~prey.alive /\ corpse = NULL
    /\ prey' = Alive
    /\ UNCHANGED <<partyVars, place, corpse, fought>> /\ Quiet

GameNext ==
    \/ \E p \in Players :
        \/ PartyCommand(p) /\ UNCHANGED <<place, prey, corpse, fought>> /\ Quiet
        \/ Enter(p) \/ Exit(p)
        \/ \E m \in Maps : Walk(p, m)
        \/ Stick(p) \/ Hit(p) \/ Kill(p)
        \/ Open(p) \/ Take(p) \/ Close(p)
    \/ OtherObject \/ Aggro \/ KilledByBeast \/ Rot \/ Respawn

GameSpec == GameInit /\ [][GameNext]_gameVars

-----------------------------------------------------------------------------

GameType ==
    /\ PartyType
    /\ place \in [Players -> Maps]
    /\ prey \in [alive : BOOLEAN, arrows : SUBSET online,
                 enemy : [type : {"none", "player", "other", "dead"},
                          who : online \cup {NULL}, same : BOOLEAN]]
    /\ (prey.enemy.who # NULL) <=> (prey.enemy.type = "player")
    /\ corpse # NULL =>
         /\ corpse.kind \in {"corpse", "player", "party"}
         /\ corpse.lock \in (CASE corpse.kind = "corpse" -> {NULL}
                              [] corpse.kind = "player" -> Players
                              [] OTHER -> Names)
         /\ corpse.inv \in Seq(online \cup {NULL})
         /\ corpse.coins \in 0 .. Coins
         /\ corpse.viewers \subseteq {p \in online : place[p] = Lair}
    /\ given \in [by : Players \cup {NULL}, exp : [Players -> Nat], things : [Players -> Nat],
                 coins : [Players -> Nat], back : [Players -> Nat]]
    /\ fought \subseteq online

(* A corpse is locked for a player who fought the monster in this session, or for the
   party such a player is in: not for one who logged in when the enemy had logged
   out and was given the memory of his object (object_drop_inventory()). *)
BountyEarned ==
    [][corpse = NULL /\ corpse' # NULL =>
         /\ corpse'.kind = "player" => corpse'.lock \in fought \cup {given'.by}
         /\ corpse'.kind = "party" =>
              \E p \in fought \cup {given'.by} : party[p] # NULL /\ struct[party[p]].name = corpse'.lock
      ]_gameVars

(* Sharing neither makes nor loses anything: the experience of a kill is not handed
   out twice; as long as there is a corpse, every thing and every coin that was in
   it is still there, was handed to somebody, or is an arrow that went back to who
   shot it, unless someone who looks into it takes it; and whoever is given something is
   a member of the party the corpse is locked for, and near (share_kill_exp(),
   party_handle_corpse(), party_loot_random(), party_loot_split()). *)
SharedOut ==
    [][/\ Total(given'.exp) <= Gain
       /\ corpse # NULL /\ corpse' # NULL =>
            /\ \/ \E p \in Players : Take(p)
               \/ /\ Len(corpse.inv) = Len(corpse'.inv) + Total(given'.things) + Total(given'.back)
                  /\ corpse.coins = corpse'.coins + Total(given'.coins)
            /\ \A q \in Players : given'.things[q] + given'.coins[q] + given'.back[q] > 0 =>
                 /\ place[q] = Lair /\ party[q] # NULL
                 /\ corpse.lock = struct[party[q]].name
      ]_gameVars

(* Splitting is even as far as it goes: when nothing is left, two members who are near
   do not differ by more than one thing, nor by more coins than there are members
   (party_loot_split() with an index that is kept from corpse to corpse). *)
SplitEvenly ==
    [][\A p \in Players :
         /\ corpse # NULL /\ corpse' # NULL
         /\ corpse.kind = "party" /\ corpse'.viewers = corpse.viewers \cup {p}
         /\ p \notin corpse.viewers
         /\ struct[party[p]].loot = "split" /\ corpse'.inv = <<>>
         => \A q, r \in Mates(p) :
              /\ given'.things[q] <= given'.things[r] + 1
              /\ given'.coins[q] < given'.coins[r] + Cardinality(Mates(p))
      ]_gameVars

(* process.c: "If the corpse was locked, remove the lock, making it available for all
   players": no corpse goes away while it is locked. *)
LockExpires ==
    [][corpse # NULL /\ corpse' = NULL => corpse.lock = NULL]_gameVars
=============================================================================
