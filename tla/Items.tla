------------------------------- MODULE Items -------------------------------
(***************************************************************************)
(* Things, their weight, and the containers people look into:              *)
(* server/object.c, types/container.c, and what a player does with things  *)
(* in types/player.c and socket/item.c.                                    *)
(*                                                                         *)
(* Every holder caches the weight of what it holds.  A magical container   *)
(* reduces it (here: to one half, rounded down) and keeps the full sum as  *)
(* well.  The players who look into a container form a list that begins at *)
(* the container and runs through their player structures.                 *)
(***************************************************************************)
EXTENDS Integers, FiniteSets, Functions

CONSTANTS
    Players, Containers,
    Piles,      \* slots for objects of one kind that stack
    Squares,    \* of the floor,
    Home,       \*   and the one where the dead and those who log in appear
    Magical,    \* containers with a modifier of weight
    Trapped,    \* containers with a rune that may kill
    Limit,      \* weight_limit of every container, 0 if it has none
    CanCarry,   \* what a player can carry
    MaxUnits,   \* bound: units in all piles together
    IntMax,     \* the largest int, twice which and one is the largest uint32_t
    MaxCount,   \* bound: how many of a thing a client asks for
    NULL        \* nobody, nowhere, no container

ASSUME ConstantsAssumption ==
    /\ Home \in Squares /\ Magical \subseteq Containers /\ Trapped \subseteq Containers
    /\ Limit \in [Containers -> Nat]
    /\ CanCarry \in Nat /\ MaxUnits \in Nat \ {0}

(* No pile has more units than an int can count.                           *)
ASSUME CountsAssumption ==
    IntMax \in Nat /\ MaxUnits <= IntMax /\ MaxCount \in 0 .. 2 * IntMax + 1

(* There are finitely many objects, and each is of one kind.               *)
ASSUME KindsAssumption ==
    /\ IsFiniteSet(Players) /\ IsFiniteSet(Containers) /\ IsFiniteSet(Piles)
    /\ Players \cap (Containers \cup Piles \cup Squares) = {}
    /\ Containers \cap (Piles \cup Squares) = {} /\ Piles \cap Squares = {}
    /\ NULL \notin Players \cup Containers \cup Piles \cup Squares

(* The state of everything, so that functions of the code are operators on *)
(* it.  env is the environment of an object, or the square that it is on;  *)
(* it is NULL for what does not exist (and for who is not in the game).    *)
VARIABLE world

Things == Containers \cup Piles
Holders == Containers \cup Players
World == [env : [Things \cup Players -> Holders \cup Squares \cup {NULL}],
          nrof : [Piles -> 0 .. MaxUnits],
          carrying : [Holders -> Nat],
          sum : [Magical -> Nat],                       \* damage_round_tag
          applied : SUBSET Containers,                  \* FLAG_APPLIED
          container : [Players -> Containers \cup {NULL}],
          above : [Players -> Players \cup {NULL}],     \* container_above
          below : [Players -> Players \cup {NULL}],     \* container_below
          newest : [Containers -> Players \cup {NULL}]] \* attacked_by

(* What one comes by from x on, x included, as next leads from one to the  *)
(* next: the smallest set with x in it that next does not lead out of.     *)
Reached(next, x) ==
    LET closed == {S \in SUBSET DOMAIN next :
                       ({x} \cup {next[z] : z \in S}) \cap DOMAIN next \subseteq S}
    IN  {y \in DOMAIN next : \A S \in closed : y \in S}

(* A thing, what it is in, what that is in ...                             *)
Around(w, x) == Reached([y \in Things |-> w.env[y]], x)
Inside(w, x) == {y \in Things : x \in Around(w, y)}
In(w, h) == {x \in Things : w.env[x] = h}

Init ==
    world = [env |-> [x \in Things \cup Players |-> NULL],
             nrof |-> [o \in Piles |-> 0],
             carrying |-> [h \in Holders |-> 0], sum |-> [c \in Magical |-> 0],
             applied |-> {},
             container |-> [p \in Players |-> NULL],
             above |-> [p \in Players |-> NULL], below |-> [p \in Players |-> NULL],
             newest |-> [c \in Containers |-> NULL]]

---------------------------------------------------------------------------
(* Weight                                                                  *)

Own(x) == 1     \* what a container, or one of a pile, weighs by itself

(* WEIGHT_NROF                                                             *)
Weight(w, x, n) == IF x \in Containers THEN Own(x) + w.carrying[x] ELSE n * Own(x)
Whole(w, x) == Weight(w, x, IF x \in Piles THEN w.nrof[x] ELSE 1)

Reduced(h, total) == IF h \in Magical THEN total \div 2 ELSE total

Stored(w, h) == IF h \in Magical THEN w.sum[h] ELSE w.carrying[h]

PassedUnreduced(w, s) ==
    IF s.at \notin Holders THEN s
    ELSE LET total == Stored(s, s.at) + s.by
         IN  [carrying |-> [s.carrying EXCEPT ![s.at] = Reduced(s.at, total)],
              sum |-> [c \in Magical |-> IF c = s.at THEN total ELSE s.sum[c]],
              at |-> w.env[s.at],
              by |-> s.by]

(* One turn of the loop of object_weight_add(): the holder at weighs more  *)
(* by that much, and only the change of the reduced weight is passed on.   *)
Passed(w, s) ==
    IF s.at \notin Holders THEN s
    ELSE LET total == Stored(s, s.at) + s.by
         IN  [carrying |-> [s.carrying EXCEPT ![s.at] = Reduced(s.at, total)],
              sum |-> [c \in Magical |-> IF c = s.at THEN total ELSE s.sum[c]],
              at |-> w.env[s.at],
              by |-> Reduced(s.at, total) - s.carrying[s.at]]

(* object_weight_add(), and object_weight_sub() for a negative d           *)
AddWeight(w, h, d) ==
    LET turn[k \in Nat] ==
            IF k = 0 THEN [carrying |-> w.carrying, sum |-> w.sum, at |-> h, by |-> d]
                     ELSE Passed(w, turn[k - 1])
        last == turn[Cardinality(Containers) + 1]
    IN  [w EXCEPT !.carrying = last.carrying, !.sum = last.sum]

(* The weight of what is in h, where containers carry that much            *)
Filled(w, carrying, h) ==
    SumFunction([x \in In(w, h) |-> IF x \in Containers THEN Own(x) + carrying[x]
                                                      ELSE w.nrof[x] * Own(x)])
Contents(w, h) == Filled(w, w.carrying, h)

(* object_weight_sum(), when a player is loaded                            *)
WeightSum(w, p) ==
    LET load[h \in Holders] == Reduced(h, Filled(w, load, h))
        loaded == {h \in Holders : h = p \/ \E y \in Around(w, h) : w.env[y] = p}
    IN  [w EXCEPT !.carrying = [h \in Holders |-> IF h \in loaded THEN load[h] ELSE @[h]],
                  !.sum = [c \in Magical |-> IF c \in loaded THEN Filled(w, load, c) ELSE @[c]]]

---------------------------------------------------------------------------
(* The players who look into a container                                   *)

Listed(w, c) == Reached(w.above, w.newest[c])

Forget(w, S) ==
    [w EXCEPT !.container = [p \in Players |-> IF p \in S THEN NULL ELSE @[p]],
              !.above = [p \in Players |-> IF p \in S THEN NULL ELSE @[p]],
              !.below = [p \in Players |-> IF p \in S THEN NULL ELSE @[p]]]

(* container_close() for all players                                       *)
CloseAll(w, c) ==
    IF w.newest[c] = NULL THEN w
    ELSE [Forget(w, Listed(w, c)) EXCEPT !.applied = @ \ {c}, !.newest[c] = NULL]

CloseHead(w, p) ==
    LET c == w.container[p]
        a == w.above[p]
        b == w.below[p]
    IN  CASE c = NULL -> w
          [] c # NULL /\ w.env[c] = NULL -> [w EXCEPT !.container[p] = NULL]
          [] c # NULL /\ w.env[c] # NULL /\ a = NULL /\ b = NULL -> CloseAll(w, c)
          [] OTHER -> Forget([w EXCEPT !.newest[c] = a], {p})

(* container_close() for one player.  A container that was destroyed is    *)
(* only forgotten.                                                         *)
Close(w, p) ==
    LET c == w.container[p]
        a == w.above[p]
        b == w.below[p]
    IN  CASE c = NULL -> w
          [] c # NULL /\ w.env[c] = NULL -> [w EXCEPT !.container[p] = NULL]
          [] c # NULL /\ w.env[c] # NULL /\ a = NULL /\ b = NULL -> CloseAll(w, c)
          [] c # NULL /\ w.env[c] # NULL /\ a # NULL /\ b = NULL ->
               Forget([w EXCEPT !.newest[c] = a, !.below[a] = NULL], {p})
          [] c # NULL /\ w.env[c] # NULL /\ b # NULL ->
               Forget([w EXCEPT !.above[b] = a,
                                !.below = [q \in Players |-> IF q = a THEN b ELSE @[q]]], {p})

---------------------------------------------------------------------------
(* Taking things out of the world and putting them into it                 *)

RemoveOpen(w, x) ==
    LET v == IF w.env[x] \in Holders THEN AddWeight(w, w.env[x], -Whole(w, x)) ELSE w
    IN  [v EXCEPT !.env[x] = NULL]

(* object_remove() of a thing, with its callbacks                          *)
Remove(w, x) ==
    LET v == IF w.env[x] \in Holders THEN AddWeight(w, w.env[x], -Whole(w, x)) ELSE w
        closed == IF x \in Containers THEN CloseAll(v, x) ELSE v
    IN  [closed EXCEPT !.env[x] = NULL]

(* A player who leaves a square leaves the containers that stay behind.    *)
RemovePlayer(w, p) ==
    LET c == w.container[p]
    IN  [(IF c # NULL /\ w.env[c] # p THEN Close(w, p) ELSE w) EXCEPT !.env[p] = NULL]
Enter(w, p, s) == [RemovePlayer(w, p) EXCEPT !.env[p] = s]

(* object_can_merge()                                                      *)
Mergeable(w, o, place) == {x \in Piles \ {o} : w.env[x] = place}

(* object_insert_into(), which merges x into the first pile it can; which  *)
(* of several is first, is open.  Its outcomes:                            *)
InsertInto(w, x, h) ==
    IF x \in Piles /\ Mergeable(w, x, h) # {}
    THEN {AddWeight([w EXCEPT !.nrof = [@ EXCEPT ![o] = w.nrof[o] + w.nrof[x], ![x] = 0]],
                    h, Whole(w, x)) : o \in Mergeable(w, x, h)}
    ELSE {[AddWeight(w, h, Whole(w, x)) EXCEPT !.env[x] = h]}

(* object_insert_map(), where x takes over the pile                        *)
InsertMap(w, x, s) ==
    LET v == [w EXCEPT !.env[x] = s, !.applied = @ \ {x}]
    IN  IF x \in Piles /\ Mergeable(w, x, s) # {}
        THEN {[v EXCEPT !.nrof = [@ EXCEPT ![x] = w.nrof[x] + w.nrof[o], ![o] = 0],
                        !.env[o] = NULL] : o \in Mergeable(w, x, s)}
        ELSE {v}

(* object_stack_get_removed(): what is taken is the object or a new one.   *)
Unused(w) == {o \in Piles : w.env[o] = NULL}
TakenAtMost(w, x, n) ==
    IF x \in Containers \/ n > w.nrof[x]
    THEN {<<x, Remove(w, x)>>}
    ELSE {<<new, [AddWeight(w, w.env[x], -Weight(w, x, n)) EXCEPT
                      !.nrof = [@ EXCEPT ![x] = w.nrof[x] - n, ![new] = n]]>> : new \in Unused(w)}
Split(w, x, n, new) ==
    [AddWeight(w, w.env[x], -Weight(w, x, n)) EXCEPT
         !.nrof = [@ EXCEPT ![x] = w.nrof[x] - n, ![new] = n]]
Taken(w, x, n) ==
    IF x \in Containers \/ n >= w.nrof[x]
    THEN {<<x, Remove(w, x)>>}
    ELSE {<<new, Split(w, x, n, new)>> : new \in Unused(w)}

Amounts(w, x) == IF x \in Piles THEN 1 .. w.nrof[x] ELSE {1}

(* Take n of x out of where it is and put it somewhere.                    *)
MovedInto(w, x, n, h) == UNION {InsertInto(t[2], t[1], h) : t \in Taken(w, x, n)}
MovedToMap(w, x, n, s) == UNION {InsertMap(t[2], t[1], s) : t \in Taken(w, x, n)}

---------------------------------------------------------------------------
(* What a player does                                                      *)

Present(p) == world.env[p] # NULL

(* esrv_get_ob_from_count(): what the client may name                      *)
InReach(w, p) == In(w, p) \cup In(w, w.env[p])
Sees(w, p, x) ==
    \/ x \in InReach(w, p)
    \/ w.container[p] \in InReach(w, p) /\ w.env[x] = w.container[p]

(* container_open().  The rune kills the first who opens, who then is at   *)
(* home while the container is being opened.                               *)
Open(w, p, c) ==
    LET shared == w.newest[c] # NULL
        v == [w EXCEPT !.container[p] = c, !.above[p] = w.newest[c],
                       !.below = [q \in Players |-> IF q = w.newest[c] THEN p ELSE @[q]],
                       !.applied = @ \cup {c}]
        after == IF c \in Trapped /\ ~shared THEN {v, Enter(v, p, Home)} ELSE {v}
    IN  {[u EXCEPT !.below[p] = NULL, !.newest[c] = p] : u \in after}

(* The apply handler of containers.  A lock or a corpse of somebody else   *)
(* refuses, and so does an environment that is not the player.             *)
Apply(p, c) ==
    /\ Present(p) /\ Sees(world, p, c)
    /\ LET open == world.container[p]
           w == Close(world, p)
       IN  IF open = c THEN world' = w
           ELSE \/ world' = w
                \/ /\ w.env[c] \in Squares \/ c \in w.applied
                   /\ w.env[c] \in Squares \cup {p}
                   /\ world' \in Open(w, p, c)
                \/ /\ w.env[c] = p /\ c \notin w.applied
                   /\ world' = [w EXCEPT !.applied = @ \cup {c}]

(* How many the client says, and what pick_up() makes of it.               *)
Counts == 0 .. MaxCount
ToInt(n) == IF n > IntMax THEN n - 2 * (IntMax + 1) ELSE n
ToUnsigned(n) == IF n < 0 THEN n + 2 * (IntMax + 1) ELSE n

(* WEIGHT_NROF for any number, and the same sum in sack_can_hold()         *)
Claimed(w, x, n) ==
    (IF n < 1 THEN 1 ELSE n) * Own(x) + (IF x \in Containers THEN w.carrying[x] ELSE 0)

CanHoldOne(w, c, x, n) ==
    /\ c \in w.applied /\ c # x
    /\ Limit[c] # 0 => IF c \in Magical
                       THEN 2 * w.carrying[c] + Claimed(w, x, 1) <= 2 * Limit[c]
                       ELSE w.carrying[c] + Claimed(w, x, 1) <= Limit[c]

(* sack_can_hold(); numbers are doubled where the sack is magical          *)
CanHold(w, c, x, n) ==
    /\ c \in w.applied /\ c # x
    /\ Limit[c] # 0 => IF c \in Magical
                       THEN 2 * w.carrying[c] + Claimed(w, x, n) <= 2 * Limit[c]
                       ELSE w.carrying[c] + Claimed(w, x, n) <= Limit[c]

(* container_check_magical()                                               *)
BothMagical(x, c) == {x, c} \subseteq Magical

(* Where pick_up() puts a thing.  With a container open that is neither it *)
(* nor around it, only a container that is full and not both magical keeps *)
(* the player from picking up.                                             *)
Destinations(w, p, x, n) ==
    LET open == w.container[p]
        ready == {c \in In(w, p) \cap w.applied : CanHold(w, c, x, n) /\ ~BothMagical(x, c)}
    IN  IF open \notin {NULL, x, w.env[x]}
        THEN {c \in {open} : CanHold(w, c, x, n) \/ BothMagical(x, c)}
        ELSE {IF w.env[x] = c THEN p ELSE c : c \in IF ready = {} THEN {p} ELSE ready}

(* What pick_up() looks for room for, and pick_up_object() takes, where    *)
(* all are asked for by 0.  More than there are becomes what there are; a  *)
(* negative number stays.                                                  *)
Asked(w, x, n) == IF n = 0 THEN (IF x \in Piles THEN w.nrof[x] ELSE 0) ELSE ToInt(n)
Clipped(w, x, count) ==
    LET all == IF x \in Piles THEN w.nrof[x] ELSE 1
    IN  IF count > all \/ count = 0 THEN all ELSE count

(* pick_up(): asked for by the client or by the take command, which reads  *)
(* the open container wherever it is and may find an older count.          *)
(* object_stack_get_removed() takes the number for one without a sign.     *)
PickUp(p, x, n) ==
    LET count == Asked(world, x, n)
        taken == Clipped(world, x, count)
    IN  /\ Present(p) /\ world.env[x] \in {world.env[p], world.container[p]} \ {NULL, p}
        /\ world.carrying[p] + Claimed(world, x, taken) < CanCarry
        /\ \E h \in Destinations(world, p, x, count) :
               world' \in MovedInto(world, x, ToUnsigned(taken), h)

UnappliedNot(w, p, x) == {w}

(* An applied thing can only be unapplied where the player carries it.     *)
Unapplied(w, p, x) ==
    IF x \notin w.applied THEN {w}
    ELSE IF w.env[x] = p THEN {[w EXCEPT !.applied = @ \ {x}]} ELSE {}

(* put_object_in_sack(): asked for by the client, or as a drop while a     *)
(* container is open                                                       *)
PutIn(p, x, n, c) ==
    /\ Present(p) /\ Sees(world, p, x)
    /\ Sees(world, p, c) \/ (c = world.container[p] /\ world.env[x] = p)
    /\ x # c /\ ~BothMagical(x, c) /\ CanHold(world, c, x, n)
    /\ \E w \in Unapplied(world, p, x) : world' \in MovedInto(w, x, n, c)

(* drop_object(), which ends with taking the player off the square and     *)
(* putting him back                                                        *)
Drop(p, x, n) ==
    /\ Present(p) /\ Sees(world, p, x) /\ world.env[x] \notin Squares
    /\ \E w \in Unapplied(world, p, x) :
       \E v \in MovedToMap(w, x, n, world.env[p]) :
           world' = Enter(v, p, world.env[p])

Walk(p, s) == Present(p) /\ world' = Enter(world, p, s)

LogOut(p) == Present(p) /\ world' = [Close(world, p) EXCEPT !.env[p] = NULL]
LogIn(p) == ~Present(p) /\ world' = [WeightSum(world, p) EXCEPT !.env[p] = Home]

---------------------------------------------------------------------------
(* What happens to things that are in the game, in somebody's hands or not *)

InGame(w, x) ==
    \E y \in Around(w, x) : w.env[y] \in Squares \cup {p \in Players : w.env[p] # NULL}
Units(w) == SumFunction(w.nrof)

(* A container or a pile appears on the floor: treasure, a corpse.         *)
Appear(x, n, s) ==
    /\ world.env[x] = NULL
    /\ Units(world) + n <= MaxUnits
    /\ \E w \in IF x \in Piles THEN {[world EXCEPT !.nrof[x] = n]} ELSE {world} :
           world' \in InsertMap(w, x, s)

(* object_decrease()                                                       *)
Decrease(x, n) ==
    /\ InGame(world, x)
    /\ IF n < world.nrof[x]
       THEN world' = [AddWeight(world, world.env[x], -n * Own(x)) EXCEPT !.nrof[x] = @ - n]
       ELSE world' = [Remove(world, x) EXCEPT !.nrof[x] = 0]

(* object_remove() and object_destroy(), with all that is inside: what is  *)
(* in a container is taken from its weight, and destroyed before it is.    *)
Destroyed(w, c) ==
    LET v == Remove(w, c)
        gone == Inside(w, c)
        left(g) == Stored(v, g) - Contents(v, g)
    IN  [Forget(v, UNION {Listed(v, g) : g \in gone \cap Containers}) EXCEPT
             !.env = [x \in Things \cup Players |-> IF x \in gone THEN NULL ELSE @[x]],
             !.nrof = [o \in Piles |-> IF o \in gone THEN 0 ELSE @[o]],
             !.carrying = [h \in Holders |-> IF h \in gone THEN Reduced(h, left(h)) ELSE @[h]],
             !.sum = [g \in Magical |-> IF g \in gone THEN left(g) ELSE @[g]],
             !.applied = {g \in @ : g \in gone => v.newest[g] = NULL},
             !.newest = [g \in Containers |-> IF g \in gone THEN NULL ELSE @[g]]]
Destroy(c) ==
    /\ InGame(world, c)
    /\ world' = Destroyed(world, c)

(* object_stack_get_reinsert(), which inserts without merging              *)
SplitOff(x, n) ==
    /\ InGame(world, x) /\ n < world.nrof[x]
    /\ \E new \in Unused(world) :
           LET w == Split(world, x, n, new)
           IN  world' = [AddWeight(w, w.env[x], n * Own(x)) EXCEPT !.env[new] = w.env[x]]

(* object_merge()                                                          *)
Merge(x) ==
    /\ InGame(world, x)
    /\ \E o \in Mergeable(world, x, world.env[x]) :
           world' = [world EXCEPT !.nrof = [@ EXCEPT ![o] = world.nrof[o] + world.nrof[x],
                                                    ![x] = 0],
                                  !.env[x] = NULL]

PlayerActs(p) ==
    \/ \E c \in Containers : Apply(p, c)
    \/ \E x \in Things, n \in Counts : PickUp(p, x, n)
    \/ \E x \in Things : \E n \in Amounts(world, x) :
           \/ Drop(p, x, n)
           \/ \E c \in Containers : PutIn(p, x, n, c)
    \/ \E s \in Squares : Walk(p, s)
    \/ LogOut(p)
    \/ LogIn(p)

Next ==
    \/ \E p \in Players : PlayerActs(p)
    \/ \E c \in Containers, s \in Squares : Appear(c, 0, s)
    \/ \E o \in Piles, n \in 1 .. MaxUnits, s \in Squares : Appear(o, n, s)
    \/ \E o \in Piles : \E n \in Amounts(world, o) : Decrease(o, n) \/ SplitOff(o, n)
    \/ \E c \in Containers : Destroy(c)
    \/ \E o \in Piles : Merge(o)

Spec == Init /\ [][Next]_world

---------------------------------------------------------------------------
(* Properties                                                              *)

(* Type correctness; no weight ever wraps below zero.                      *)
TypeOK ==
    /\ world \in World
    /\ \A o \in Piles : world.nrof[o] = 0 <=> world.env[o] = NULL

(* Following env from any thing leads to a square, or to a player: nothing *)
(* is inside itself, whatever is put into what while containers are open   *)
(* (object_weight_add() would run in a circle).                            *)
NothingInItself ==
    \A S \in SUBSET Containers : S # {} => \E c \in S : world.env[c] \notin S

(* carrying is the weight of the contents, reduced once for every magical  *)
(* container around them, and the sum that it is computed from is exact    *)
(* (object_weight_add(), object_weight_sub(), object_weight_sum()).        *)
WeightsRight ==
    \A h \in Holders :
        /\ world.carrying[h] = Reduced(h, Contents(world, h))
        /\ h \in Magical => world.sum[h] = Contents(world, h)

(* Both ends agree on who looks into what: the list that starts at a       *)
(* container is doubly linked and has exactly the players who have it open,*)
(* who are in the game; and a container is open only where it exists       *)
(* (container_open(), container_close()).                                  *)
ViewersAgree ==
    /\ \A c \in Containers :
           /\ {p \in Players : world.container[p] = c} = Listed(world, c)
           /\ world.newest[c] # NULL => /\ world.below[world.newest[c]] = NULL
                                        /\ c \in world.applied /\ world.env[c] # NULL
    /\ \A p, q \in Players : world.above[p] = q <=> world.below[q] = p
    /\ \A p \in Players : world.container[p] # NULL => Present(p)

(* What is in a container, but for magical containers in a magical one,    *)
(* is not beyond its limit.                                                *)
Peeled(w) ==
    [w EXCEPT !.env = [x \in Things \cup Players |->
                           IF x \in Magical /\ w.env[x] \in Magical THEN NULL ELSE w.env[x]]]
Within(w, c) == Limit[c] # 0 => Reduced(c, Filled(Peeled(w), w.carrying, c)) <= Limit[c]

(* A count that is negative as an int picks up a pile as if it were one.   *)
CountWraps(p, x, n, c) ==
    /\ n > IntMax /\ world.nrof[x] > 1
    /\ PickUp(p, x, n) /\ c \in Destinations(world, p, x, ToInt(n))

(* No step fills a container beyond its limit, by any of the ways a thing  *)
(* may get into it (pick_up(), put_object_in_sack(), merging), but one:    *)
(* a pile that is picked up into it with a count beyond an int.  (Where    *)
(* what it carries is not beyond its limit, nothing needs to be added up.) *)
LimitKept ==
    [][\A c \in Containers :
           world'.carrying[c] > Limit[c] /\ ~Within(world', c) =>
               \/ ~Within(world, c)
               \/ \E p \in Players, x \in Piles, n \in Counts : CountWraps(p, x, n, c)]_world
=============================================================================
