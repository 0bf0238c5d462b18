# A verification of the Atrinik game server

The server (`src/src`) is one C process with one game thread. Its main loop
(`server/main.c`, `main()`) repeats a tick: `socket_server_process()` accepts
connections, reads and handles packets; `process_events()` gives a turn to
every object that has a speed; `main_process()` runs the periodic work (cleaning
temporary maps, saving players, statistics); `socket_server_post_process()`
sends each player its updates. Plugins (Python) run inside these calls and can
call back into any of them. Nearly all of the hard behaviour is therefore
*re-entrancy*, that is a handler changing the very structure its caller is in the middle of
walking, and *persistence*, as state lives in many files written at different times.

## 1. Inventory

| component | state it keeps | operations | what is hard | what makes it correct |
|---|---|---|---|---|
| Active list and event loop (`main.c`, `object.c`) | `active_objects`, the marker, `count`, flags of every object | get, copy, insert, remove, destroy, update speed; a pass of `process_events()` | a turn changes the list under the loop; chunks are reused | the list stays well formed, holds only active objects and loses none; every object gets one visit per pass |
| Speed budget (`main.c`, `commands.c`, `socket/request.c`) | `speed`, `speed_left` | credit, charge, clamp, queueing of commands | two ways to spend (per turn, per command), a clamp, float sums | an object acts at the rate of its speed; idling does not hoard turns |
| Sessions (`socket/server.c`, `types/player.c`) | `client_sockets`, `first_player`, state and counters of a socket, its queued commands | accept, read, handle, log in, evict, log out, drop, time out | a read handles commands that move or free sockets; states are overwritten; counters race | a name plays at most once; the dead are freed; commands keep their order |
| Accounts (`server/account.c`) | account files, player files | register, log in, new character, change password, log out | several files, no atomic replace, crashes | a name belongs to one account and its file exists |
| Player files (`types/player.c`) | `player.dat` | load, save, reserve | crash between write and rename; maps on which nothing is saved | a character never rolls back, and its file is whole |
| Map cache and reset (`map.c`, `swap.c`) | maps in memory, swapped and unique files, `in_memory`, `reset_time`, log | ready, swap, flush, reset, recycle | map timeouts against players entering; crash and restart | a map is loaded once, and one with players is never swapped |
| Apartments (`main.c swap_apartments`) | two unique maps | upgrade | a loop over stacks that are being moved | nothing the player owned is lost |
| Inventory and weight (`object.c`) | `env`, `inv`, `carrying`, `nrof` | insert, merge, split, remove | sums kept at every level of nesting | `carrying` is the sum of what is inside |
| Containers (`types/container.c`) | who looks into which container | open, close, the container moves | several players at one container; it moves or is destroyed | both ends of the relation agree |
| Connections (`connection.c`, buttons, gates) | linked objects of a map, states | trigger, push, release | recursive triggering | a button is down exactly when it is pressed |
| Parties (`party.c`, `commands/player/party.c`) | members, leader, looting mode and index | form, join, leave, kick, hand over, share a corpse | leader leaves, player logs out, the index outlives corpses and members | the leader is a member, no party is empty, sharing neither makes nor loses anything |
| Path requests (`pathfinder.c`, `waypoint.c`) | the ring of requests, waypoints | request, take, process, destroy | the requester dies or is given up while queued; the ring wraps | each waypoint is queued at most once, what is still wanted is served in order |
| Bank and shop (`bank.c`, `shop.c`) | money in hand and in the bank | deposit, withdraw, buy, sell | rounding, change, partial payments | no money is created |
| Combat and damage (`attack.c`, `monster.c`, `object_drop_inventory()`) | hp, enemies, corpses and their locks | hit, kill, drop, rot | an enemy that logged out and whose memory is another player's; several who fight for one monster | the bounty is for somebody who fought for it |
| Experience, skills (`exp.c`, `skill_util.c`) | experience per skill, level | add, drain | bounds and sums | level and experience agree; a kill is not paid twice |
| Plugins (`plugins.c`, `plugin_python`) | hooks, events | any | re-entrancy | modelled through what their calls may do |
| Bans, kicks, commands (`ban.c`, `commands/*`) | ban list | kick, ban | acts on a player inside its own turn | see Sessions |
| Treasure, artifacts, random maps, spells, readable books | generated content | generate | randomness, data driven | not modelled |
| Archetypes, loaders (`loaders/*`, generated lexers) | prototypes | parse | formats | not modelled |
| Metaserver (`socket/metaserver.c`) | the current request, a lock, the key file | update, one-time password, stop | callbacks in threads of their own that free what the game thread looks at | a key is only removed by the update that used it; a stop ends |
| HTTP server, images, sounds | threads and sockets of their own | send, serve | shares no state with the game | not modelled |
| Toolkit (git submodule) | memory pools, packets, sockets | | its code is not in the repository | external |

How the parts meet: the main loop calls `socket_server_process()` (Sessions),
`process_events()` (ActiveList), `check_active_maps()` and `do_specials()` (Maps,
PathRequests), and `socket_server_post_process()` (Sessions), in this order. A
session begins and ends with the files of an account and of a character (Accounts),
puts the player on a map and takes it off (Maps), and the player object joins the
active list like any other. A monster that has its turn in the active list makes the
path requests. The modules share no variables: each leaves open, as arbitrary
steps, what the others may do to its state.

## 2. Plan

In the order of importance. The first eight are done.

1. **ActiveList**, implementing the abstract **TurnOrder**: everything in the game
   happens in a turn, and a mistake in this list is a crash.
2. **Sessions**: who is connected, who plays, who is freed, and that nothing a
   player did is lost at the end of a session.
3. **Accounts**: the same promise across crashes and failed writes.
4. **Maps**: the same promise for what lies on maps, and that memory is given back.
5. **PathRequests**, implementing the abstract **RequestQueue**.
6. **Items**: nested things with their cached weights, and who looks into what.
7. **Metaserver**: the one place where other threads touch the game's state.
8. **Parties**, and **Bounty** on top of it: who gets what from a monster.
9. *Next*: **SpeedBudget** (credit, clamp and charges scaled to integers, with the
   abstract promise "at most so many actions in a second", and its composition with
   the queue of commands of Sessions); **Apartments** (the loop of
   `swap_apartments()`, checked for every small stack); buttons that trigger each
   other; coins of bank and shop as operators checked over bounded purses; the pool of
   map structures beside Maps (magic mirrors).
10. *Compositions*: Sessions with Accounts, so that a login is the read of a file that
   a crash may have left behind; Maps with ActiveList, so that a swap takes the
   objects of the map off the list; Bounty with Items.

Theorems still to come: that Sessions implements an abstract "at most one session for each
name", and that Items implements an abstract tree of things without cached weights.

## 3. The modules and the code

Comments in the modules name the function at each action; `PROJECT.json` ("map")
gives the lines. Definitions whose comment says "Wrong:", and those that stand just
before a definition of a similar name (`FullWithoutWrap` before `Full`), are plausible
mistakes used to show that a property can fail; nothing else uses them.

**ActiveList** (`server/main.c` `process_events()`, `server/object.c`).
`list` is `active_objects` with `active_next` and `active_prev` of every chunk;
`count` is the tag of the object in a chunk, so that a chunk can be freed and given
to another object while `op` and `tag`, the locals of the loop, still name the old one.
`StartPass`, `Visit*` and `EndPass` are the loop, cut where it calls
`object_process()`; between that call and `Return` any handler runs any number of times
on any object: `ObjectGet`, `SetSpeed`, `Insert`, `Remove`, `Destroy`, and the change of
its type by a script, to a spawn point mob (`BecomeSpawnMob`) and away from it
(`CeaseSpawnMob`); the settings of a type in a file that is loaded come before the object
is put anywhere and are not followed. The same handlers run between passes. *TurnOrder* is what this
promises about turns: `ActiveList!TurnsSpec` is `TurnOrder!Spec` with the set of
listed objects for `active` and the ones behind the marker for `waiting`.

**Sessions** (`socket/server.c`, `types/player.c`). `conn` is a `socket_struct` with
its counters, state, name and queue; `waiting` is `client_sockets`; the players are
those with a name. `phase` and `todo` are the place in the iteration, so every read,
time-out, error and login may fall between any two visits of a loop. `Evict`,
`RefuseLogin` and `EnterGame` are the steps of `player_login()`; `PacketHandled` the
packets; `PlayerActs` commands, kicks and bans inside a turn; `SweepWaiting`,
`SweepPlayer`, `Drop`, `Post` the places where connections are freed. `fresh` says
whose file holds the latest state. Who kicks himself is freed while the function that
took his command still uses him: either nothing more happens (`Kick`) or the process ends
(`KickHimself`), and is started again.

**Accounts** (`server/account.c`, saving in `types/player.c`). Files are records
and versions, written in separate steps, each of which can fail or be the last before
the server is killed (`Crash`). `saving` and `storing` are what the command that runs
has still to write; commands do not interleave, as the code has one thread. A write to
`player.dat.tmp` may fail and not be noticed, as only `fclose()` is looked at: the torn
file is then renamed. A torn `player.dat` loads as a damaged character (`live` is `Torn`),
which is followed under its own name; what else may stand in such a file is not.

**Maps** (`server/map.c`, `server/swap.c`, `server/main.c`, `object_enter_map()`).
A map is a record of its place (absent, in memory, swapped), its timeout, the seconds to
its reset time and what its files hold. What a function makes of one map is an
operator on the record (`Ready`, `Swap`, `Checked`, `Flushed`, `Logged`); actions
apply them: `Enter`, `WalkTo`, `LogOut`, `CheckActive`, `FlushOld`, `Second`,
`ForceReset`, `Shutdown` (with and without recycling). Unique items are sets.

**PathRequests** (`server/pathfinder.c`, `server/main.c`, `types/waypoint.c`,
`types/monster.c`). The ring with its two indices, and waypoints with a tag, the flag
and whether they are active and have a path. `Move` is `waypoint_move()`, with the
geometry reduced to "far", "ended" and "stuck"; `Dequeue` is one round of
`dequeue_path_requests()`, which computes a path or finds none. *RequestQueue* is a
bounded queue; `InOrder` says that the ring implements it.

**Items** (`server/object.c`, `types/container.c`, `types/player.c`,
`socket/item.c`). `world` holds for every thing what it lies in, how many units it
is, whether it is applied, and for every container the cached `carrying`;
the players who look into a container form a list through `container_above` and
`container_below`, headed by `attacked_by`. An operator turns one world into the next
(`Remove`, `InsertInto`, `Split`, `Merge`, `CloseAll`, `Destroy`), and the actions
chain them in the order of the code (`PickUp`, `PutIn`, `Drop`, `Apply`, `Walk`, `LogOut`).
What the code finds by following pointers (`Reached`) is the smallest set that the pointers
do not lead out of, and the loops of `object_weight_add()` and `object_weight_sum()` are
functions, not recursive operators, so that all of it can be proved about.
The count that a client asks for is an unsigned number beyond what an int can hold
(`IntMax`), and is converted as in the code: `Claimed` is what the tests of a container and of
the player see, `Clipped` and `ToUnsigned` what is taken. Things weigh 1 in the model, so
that the product of count and weight does not wrap as well; in the code a count from
2^32 divided by the weight on does so, to the same effect.
A trapped container may kill, and so move, the player in the middle of opening it. A
magical container reduces weights by a rounded product, as `object_weight_add()` does.

**Metaserver** (`socket/metaserver.c`). Every request has a thread (running, answered,
in its callback, past it); the game thread has a program counter (`pc`) through the
start, the update and `metaserver_deinit()`. `alive` says which requests are not freed, so
that what a callback reads from a freed request is any value. `file` is the key file.

**Parties** (`server/party.c`, `commands/player/party.c`). `party` is the pointer of each
player, `struct` the structures of the pool with their lists; every command and the
log-out is an action that changes both ends as the code does, one after the other.
**Bounty** extends it by a monster, its enemy and its corpse. The pointer to the enemy
has what is now in the memory it points to (`type`, `who`) and whether the stored tag
still fits (`same`): `Exit` leaves it dangling, `Enter` and `OtherObject` may give the memory to
somebody else. `Kill` is `attack_hit()` and `attack_kill()` with `share_kill_exp()` and
`object_drop_inventory()`; `Open` is the part of `apply_func()` of a container
that looks at the lock, with `party_handle_corpse()`; `Rot` is the decay. `given` (who was
credited with the kill, and what the step handed to whom: experience, things, coins, and
arrows that went `back`) and `fought` are history variables. What `SplitStart`, `SplitNext` and `SplitOne` do to the index
and to the place in the list is `party_loot_split()` step by step; `SplitAll` is its loop over
the things, and `Split` adds the coins.

## 4. What is checked

| run | instance | shows |
|---|---|---|
| `active_list` | 2 chunks, 4 objects ever | list well formed, holds only active objects and no operation loses one (but a script that changes a type, below), the loop never touches an object it did not visit, turns are those of TurnOrder; every pass ends; an active object is visited |
| `sessions` | 2 sockets, 2 characters | one list, unique names, what leaves is saved unless the save was refused or the process ended, the given up never come back; dead and zombie connections are freed, silent players leave |
| `accounts` | 2 accounts, connections, names, passwords | listed characters have their file and one owner; player files only get newer, and become torn only by a save that did not notice a failed write; a write of an account that goes through loses no character and no password (with one exception, below) |
| `items` | 3 viewers, a magical bag, a trapped box, 2 piles of 3 units, ints up to 3 and counts up to 4 | weights exact at every level, nothing in itself, both ends of the lists of viewers agree, no step breaks a limit but a count beyond an int, below |
| `maps` | 2 linked maps, 2 players | no map is swapped under a player, nothing is reset early, an abandoned map is reset |
| `unique_items` | 2 maps with unique floors, recycling, 1 item | the item exists exactly once |
| `path_requests` | 2 waypoints at a time, ring of 3 cells | the ring is the queue, a waypoint is queued once, every request leaves |
| `metaserver` | 3 requests, 2 keys | a key is only removed by the update that used it; a stop ends |
| `bounty` | 3 players, 1 party, all looting modes, a thing, an arrow and 2 coins | membership and leadership agree, the bounty is for one who fought, every thing and coin of a corpse is accounted for when it is shared, and splitting is even |
| `forgotten_requests`, `metaserver_freed`, `locked_corpse` | small | disagreements of code and documentation, below |

Bounds. Two list elements with the marker are the fewest for which an inner
element has two neighbours of which one is the marker, and two more objects than chunks
let each chunk be used twice. Two sockets are a session and the one that evicts it; `ZombieTicks` and `KeepaliveTimeout` of 1 reach every
comparison. Two accounts and two names are needed for a name to be in two places;
`MaxVersion = 1` gives an old and a new state of a character. Two maps can be linked
and an item can be moved between them; `Timeout = 2` and `ResetTime = 3` let each
expire before the other. Three cells hold two requests, so that the indices wrap while
the ring is full, with entries of waypoints that are gone; the tags are an identity
only and are used again when nothing refers to them. The clocks and counters saturate
one step behind the last comparison. Three viewers are the fewest with one in the
middle of a list; three units make a pile that is split and merged with a rest. `IntMax = 3` is an int
that counts every pile, and `MaxCount = 4` goes one beyond it: a count is 0 (all), up to all
units, or one that is negative as an int, and any other such count is clipped and converted
to the same. Three
requests are the first and the second request of an update and one that overlaps. Three
members are the fewest for which the index of a party can point past one who left or
walked away; `Gain = 11` is shared by two members (10 shares) and not by three (15), and
exceeds the limit of `add_exp()` (8); two coins do not divide by three. The monster
carries one thing and at most one arrow (`MaxArrows`), and one player looks into the
corpse at a time (`MaxViewers`), to keep the instance small; one party structure and
one name are used again and again, and that two parties never share a
name is proved for any number of them.

Fairness. One thread runs the main loop, and what each phase does is finite, so
the steps of the loop are weakly fair: the pass of ActiveList with the return of a
handler, `Progress` and the last packet of a buffer in Sessions (select() has a
timeout), `CheckActive`, `FlushOld` and the clock in Maps, `Dequeue` in PathRequests. In
Metaserver the threads of the requests are fair too, as requests have time-outs.
Nothing that a player, a script or the network does is fair. `AbandonedResets`
therefore says: or players, mirrors or scripts come back again and again.

### Disagreements found

* `forgotten_requests`: a request dropped because its waypoint was inactive leaves the
  "has requested path" flag set (pathfinder.c:321). That waypoint never asks again: a
  monster whose enemy vanished in the wrong tick runs straight at walls from then on, a
  patrol stands still. The other properties hold with the flag left as it is.
* `metaserver_freed`: a request has its answer before its callback has run. The game
  thread takes the answer for the end and frees the request (metaserver.c:145, 597) while
  the callback waits for the lock and then works with it, and frees it again.
* `locked_corpse`: locking a corpse changes its sub_type, so that the code which would
  unlock it, and keep it while somebody looks into it, does not apply (process.c:132):
  it is removed, still locked, with all its loot.

Three more are steps of the models, and the properties of the runs name them as the only
exception:

* a script that turns a spawn point mob into something else leaves it off the list of
  active objects (atrinik_object.c:2434): it keeps its speed and gets no turns until its
  speed is set again. `ActiveListed` says that no other step does this.
* a write to the temporary file that fails before the last flush is not noticed, and the
  torn file replaces `player.dat` (player.c:2432, below a comment "Make sure the write
  succeeded"). `NeverOlder` says that `player.dat` becomes torn in no other way.
* a count of 2^31 or more is negative as an int (player.c:2046): the test of the limit
  sees one unit, and the whole pile is taken, though doc/fields/field_container.dox:15
  promises a maximum. `LimitKept` says that nothing else breaks the limit.
  (Magical containers in a magical one are not counted, see below.)

Met while modelling, and described by the models without a property that names them:
`write_map_log()` writes the seconds left and `read_map_log()` takes them for a time
(swap.c:92), so that maps preserved for a restart are reset by the first flush after it
(`NoEarlyReset` fails with `Recycle = TRUE`); who kicks himself is freed while his command
is still at work (kick.c:57, server.c:537); an account in the old format whose save with a
new password was not done loses its password with the next save for something else, as
account_load() reads the old one into a field that account_save() does not write; on a map without a unique floor, taking the last
unique item removes the file of unique items (map.c:1441) and the original gives
the item again; a connection that is idle in the login is never dropped, although
newserver.h:112 says so; picking up with a magical container open puts a magical container
into it (player.c:2060), which player.c:2143 refuses elsewhere; a player who
is killed by a rune while he opens a container looks into it from afar until he moves;
a party corpse is locked for the *name* of a party, so that a later party of that
name may open it; a thing whose turn is a member who is elsewhere stays in the
corpse (party.c:388), so that "evenly" holds of what is handed out only; a `kick`
of a member reads the list node after it was freed (commands/player/party.c:184).

## 5. What is proved

The proofs (modules `*Proofs`) hold for any sets and bounds allowed by the named
assumptions on constants.

* **ActiveListProofs**. `IInv` adds to the checked invariants that what is not on
  the list points nowhere (`ListInv`: without it, "on the list" could not be told
  from the pointers, as the code does) and that the locals of `process_events()`
  belong to the object that has its turn (`VisitInv`). Lemmas on `PushFront`, `Unlink`
  and the move of the marker carry the argument; acyclicity is stated with subsets, so
  that no induction is needed. From it: `TypeCorrect`, `ListIsWellFormed`,
  `ListHoldsActive` (`ListedActive` is part of `IInv`; that no step makes the list miss an
  object follows action by action, `CeaseSpawnMob` excepted), `MarkerSeparates`, `NoStaleTouch` and the refinement
  `ImplementsTurnOrder`.
* **SessionsProofs**. `Places` is the strengthening: what a loop has still to visit is
  on the list it walks, and a socket being read, or logged in, is alive. From it:
  `TypeCorrect`, `AlwaysOneList`, `AlwaysUniqueName`, `NothingRolledBack` (which excepts
  saves that were refused and a process that ended with who kicked himself), `GivenUpForGood`.
* **AccountsProofs**. `StoreSound` (what a command has yet to write is as sound as
  the files), `MemoryNewer` (a character in memory is as new as its file) and `Seats`
  (a player is logged in to an account, and plays once). From it: `TypeCorrect`,
  `AlwaysHasFile`, `AlwaysOneOwner`, and `FilesOnlyNewer`: a player.dat never goes away nor
  becomes older, and is torn by a save with an unnoticed failure only. `AccountsKept`
  needs a second invariant on top. `NothingDropped`: the copy of an account that a command
  is about to write has all characters that the file has, and its password unless it is to
  set one or the save that was to replace an old password was missed; `Remembered`: who is
  logged in to an account that is still in the old format, is so because of such a save.
  What goes through therefore loses nothing, with these two exceptions: a write that was cut
  short (`cut`), and the password of an account in the old format after a missed save.
* **MapsProofs**. Lemmas about one record (`Fit`: exactly swapped maps have a file,
  only maps in memory change), then map by map; `InTheirTime` says that the time
  left and the time without players add up to the reset time. From it: `TypeCorrect`,
  `AlwaysInMemory`, and `ResetsInTime`, which assumes `~Recycle`, as with recycling
  the property is false. `ExactlyOnce` (a unique item is in exactly one place, `OnePlace`)
  rests on `AllSaved`, that a vault which was swapped out has its file of unique items, and on
  what each operator on a record of a map leaves to be seen (`Shown`). It assumes that no
  map has a fixed reset time, that none is reset by hand, and that the vault has a unique
  floor: without each of them the code loses or doubles the item (section 4), and the run
  `unique_items` has the instance where they hold.
* **ItemsProofs**. `Sound` is the invariant, and every operator on worlds gets a lemma that
  it keeps it: `Lists` and `Opened` (the lists of viewers are linked both ways, none is a
  ring, and what is open is applied, exists, and lies on a square or in the hands of a
  player), `Places` (every set of containers has one that lies outside of it, which
  says that nothing is in itself without counting), `Counted` and `Right` (all weights are
  right). That an applied container is in no other one is why nothing gets into itself, and
  why the limit of a container can only be broken by what is put into that very one. The loop of
  `object_weight_add()` is followed with the invariant `Owed`: all weights are right but for
  the holder it is at, who is short of what is passed on, and by `TurnsEnd` it is out of all
  containers when it ends. Sums are unfolded from the fold of the community modules
  (`SumIsFold`, `SumSplit`, `SumChange`, `SumAtMost`), by the smallest set for which a
  statement would fail in place of an induction; `Innermost` does the same for what
  is computed from the inside out, as by `object_weight_sum()` (`LoadIsCarrying`:
  there is only one load that is right). From it: `NeverInItself`, `AlwaysRight`, `ListsAgree`.
  `Numbered` adds that a pile exists as long as it has units, of which there are not more than
  there may be, for `TypeCorrect`. `LimitKept` is about steps: what is in a
  container, without the magical containers that lie in magical ones (`Peeled`), is not
  brought beyond the limit (`Within`). They are left out of the sum, and not only excused, as
  taking one out would otherwise show what they hid. `KeptNext` goes through
  the steps with `Lighter` (what has nothing new in it weighs no more, at any depth) and the
  rounding of the test in `sack_can_hold()`. `ClaimedIsWeight` and `HoldsAsked` say that
  what is tested is at least what is taken as long as the count is an int, so that `PickedKept` is left with `CountWraps`, the
  one exception of `LimitsKept`.
* **MetaserverProofs**. `KeyInv`: while there is no key file, no update is on its way, and
  a key that is new was sent with one update only, as who reads the key clears
  `key_is_new`. From it `KeyIsOwn`, for any number of requests and whatever a freed one
  is read as.
* **PathRequestsProofs**. Four lemmas of ring arithmetic; then `TypeCorrect`,
  `OnceQueued` and the refinement `RequestsInOrder`, for every size of the ring.
* **BountyProofs**. Lemmas say what taking a place out of a list, and putting a member
  at its head, does to who occurs in it; `Whole` describes one structure and `Linked` both ends
  of the relation. Every step of Bounty is a step of Parties or leaves parties alone
  (`GameStep`), so that `MembershipAgrees` holds of the whole game, for any number of
  players, parties and names. `Fought` (a pointer to an enemy that is good, is to one
  who fought) is the invariant behind `BountyIsEarned`. `GameInv` is the invariant of the
  rest: beside the types, `Hunted` (the enemy and the owners of arrows are in the game),
  `Lying` (who looks into the corpse is there, and its lock is a name of the kind
  its type says) and `Single` (a monster that lives has left no corpse). From it
  `TypesAreRight`, and `GameHasParties`: the game is a refinement of Parties, so what is true of
  parties on their own stays true in it, which needs that the index is always a number.
  `HandedOutOnce` is about what one opening does: `Shared` says of a way of sharing that
  what is handed out and what is left are all there was, and holds of `Random` and of `Split`;
  `ReturnedIs` says that the arrows that go back to their owners and what is left of the
  corpse before it is shared are all of it.
  For `Split` the loop is followed with `Walking` (the index and the place are so far from their
  ends that the walk does not leave the list, though members came and went since the
  index was set), and for `SplitIsFair` with `Fair`: as long as everything could be given away,
  those between where the walk began and where it is now (`Round`) got one thing more than
  the others. Experience is bounded by `SharesIs`, with `SumScaled` for what the others get.
  The assumption is that the set of players is finite. A loop is a recursive function in
  the model; that it exists is `LoopExists`, and what it computes follows by the first
  step that would go wrong (`SmallestNumber`), in place of an induction.

Only model-checked: liveness, as fairness and ENABLED are out of the prover's reach
(`PassEnds`, `ActiveVisited`, `GivenUpFreed`, `SilentPlayerLeaves`, `AbandonedResets`,
`EveryRequestLeaves`, `StopEnds`). Every other property of a passing run is the statement of
a theorem.

## 6. What is not modelled, and why

Contents of packets, names and objects appear only as far as a property needs them.
How much damage a hit does, spells, treasure and generated content are formulas over random
numbers without a state that outlives a call; archetypes and loaders parse files at the start. The
toolkit (memory pools, sockets, packets) is a git submodule that is not in the
repository: it appears as what `src/` relies on, a pool that may give a chunk again
after it was returned, and a socket that may fail at any call. Python scripts are
represented by letting a turn do whatever a script may do. In Maps: failed saves,
random maps, maps of one player and the reset event are left out. In Sessions: the
contents of the output queue, the account files, which Accounts has, which copy of its
file a session has read, and what else freed memory may turn into after somebody kicked
himself. In Accounts: what may stand in a torn player file beyond that it is damaged. In
ActiveList: object_load() and set_variable(), which let a script set anything by a text. In
PathRequests: the search and the walk along a path. In Items: god-given, unpaid and
locked things, which only refuse, quivers, what monsters and scripts carry, weights
other than 1 and so the product of a count and a weight that wraps, and the count that the
command `take` reads. In
Metaserver: what an update says of the server, and the statistics. In Bounty: pets
(what is not a player has no owner), the passwords of parties, quest containers, and
the experience of levels beyond the limit of one kill. Compiler and integer widths: the
tags are 32-bit numbers that are taken never to come round while an old one is
remembered. The components of section 1 that have no module are listed in
`PROJECT.json` with the reason or the plan.
