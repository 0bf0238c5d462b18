------------------------------- MODULE Maps -------------------------------
(***************************************************************************)
(* The cache of maps: server/map.c, server/swap.c, and the parts of        *)
(* server/main.c and object_enter_map() that drive it.                     *)
(*                                                                         *)
(* A map is absent (the original is loaded when it is next needed), in     *)
(* memory, or swapped, that is saved to a temporary file.  A map nobody is *)
(* on is swapped when its timeout ends, and a swapped map is reset, its    *)
(* temporary file deleted, when its reset time comes.  Unique items are    *)
(* kept in a file of their own, the .v00 file, which resets do not touch.  *)
(*                                                                         *)
(* Times are relative: `timeout' counts the passes of check_active_maps()  *)
(* and `due' the seconds to reset_time.                                    *)
(***************************************************************************)
EXTENDS Integers, FiniteSets

CONSTANTS
    Maps, Players,
    Items,          \* unique items,
    Vault,          \*   and the map whose original has all of them
    Linked,         \* sets of maps that are tiles of one another
    Fixed,          \* maps with MAP_FLAG_FIXED_RTIME
    Floors,         \* maps with a unique floor, so something is always saved
    Forced,         \* maps that operators and scripts reset
    Timeout,        \* MAP_DEFAULTTIMEOUT
    ResetTime,      \* MAP_DEFAULTRESET
    Recycle,        \* settings.recycle_tmp_maps
    NULL

ASSUME ConstantsAssumption ==
    /\ Vault \in Maps /\ Linked \subseteq SUBSET Maps
    /\ Fixed \subseteq Maps /\ Floors \subseteq Maps /\ Forced \subseteq Maps
    /\ Timeout \in Nat \ {0} /\ ResetTime \in Nat \ {0}
    /\ Recycle \in BOOLEAN
    /\ Maps \cap Players = {}
    /\ NULL \notin Maps /\ NULL \notin BOOLEAN /\ \A S \in SUBSET Items : S # NULL

VARIABLES
    map,        \* every map: its mapstruct and its files
    on,         \* the map of every player, NULL when not playing
    carried,    \* the unique items with every player
    since       \* history: seconds a map has been without players

vars == <<map, on, carried, since>>

Never == ResetTime + 1      \* a reset_time that is decades away

(* tmp tells if the temporary file holds anything that is not in the       *)
(* original, `changed' the same of the map in memory.                      *)
Map == [mem : {"absent", "swapped", "memory"}, timeout : 0 .. Timeout,
        due : -1 .. Never, tmp : {NULL} \cup BOOLEAN, changed : BOOLEAN,
        lying : SUBSET Items, v00 : {NULL} \cup SUBSET Items]
Absent(v00) == [mem |-> "absent", timeout |-> 0, due |-> 0, tmp |-> NULL,
                changed |-> FALSE, lying |-> {}, v00 |-> v00]

Init ==
    /\ map = [m \in Maps |-> Absent(NULL)]
    /\ on = [p \in Players |-> NULL] /\ carried = [p \in Players |-> {}]
    /\ since = [m \in Maps |-> 0]

Occupied(m) == \E p \in Players : on[p] = m
Near(m) == {m} \cup UNION {g \in Linked : m \in g}
Visited(m) == \E n \in Near(m) : Occupied(n)
Overdue(r) == r.due <= 0

---------------------------------------------------------------------------
(* Loading and saving                                                      *)

Original(m) == IF m = Vault THEN Items ELSE {}

(* load_original_map(), then load_unique_objects(), which replaces the     *)
(* unique items of the original if there is a file                         *)
LoadOriginal(m, r) ==
    [Absent(r.v00) EXCEPT !.mem = "memory", !.timeout = Timeout, !.due = ResetTime,
                          !.lying = IF r.v00 = NULL THEN Original(m) ELSE r.v00]

(* load_temporary_map() has no unique items, all come from their file.     *)
LoadTemporary(r) ==
    [r EXCEPT !.mem = "memory", !.changed = r.tmp, !.tmp = NULL,
              !.lying = IF r.v00 = NULL THEN {} ELSE r.v00]

ReadyNoOriginal(m, r) ==
    CASE r.mem = "memory" -> r
      [] r.mem = "swapped" -> LoadTemporary(r)
      [] r.mem = "absent" -> [LoadOriginal(m, r) EXCEPT !.lying = Original(m)]

Ready(m, r) ==
    CASE r.mem = "memory" -> r
      [] r.mem = "swapped" /\ r.tmp # NULL -> LoadTemporary(r)
      [] OTHER -> LoadOriginal(m, r)

Delete(r) == Absent(r.v00)

SaveUnique(m, r) == IF r.lying = {} /\ m \notin Floors THEN NULL ELSE r.lying

SwapStale(m, r) ==
    IF Overdue(r)
    THEN Delete(r)
    ELSE [r EXCEPT !.mem = "swapped", !.timeout = 0, !.tmp = r.changed,
                   !.changed = FALSE, !.v00 = SaveUnique(m, r), !.lying = {}]

(* The end of swap_map(), when no player prevents it                       *)
Swap(m, r) ==
    LET due == IF m \in Fixed THEN r.due ELSE ResetTime
    IN  IF due <= 0
        THEN Delete(r)
        ELSE [r EXCEPT !.mem = "swapped", !.timeout = 0, !.due = due,
                       !.tmp = r.changed, !.changed = FALSE,
                       !.v00 = SaveUnique(m, r), !.lying = {}]

SetTimeout(r) == [r EXCEPT !.timeout = Timeout]

---------------------------------------------------------------------------
(* Players                                                                 *)

(* object_enter_map(), by an exit, a spell or a login                      *)
Enter(p, m) ==
    /\ on' = [on EXCEPT ![p] = m]
    /\ map' = [x \in Maps |->
                 CASE x = m -> [Ready(m, map[m]) EXCEPT !.timeout = 0]
                   [] x # m /\ on[p] = x /\ (\A q \in Players \ {p} : on[q] # x) ->
                        SetTimeout(map[x])
                   [] OTHER -> map[x]]
    /\ since' = [since EXCEPT ![m] = 0]
    /\ UNCHANGED carried

(* Over the border to a linked map: no timeout is stopped or started.      *)
WalkTo(p, m) ==
    /\ on[p] # NULL /\ m \in Near(on[p])
    /\ on' = [on EXCEPT ![p] = m]
    /\ map' = [map EXCEPT ![m] = Ready(m, map[m])]
    /\ since' = [since EXCEPT ![m] = 0]
    /\ UNCHANGED carried

(* leave_map(), when a player logs out                                     *)
LogOut(p) ==
    /\ on[p] # NULL
    /\ on' = [on EXCEPT ![p] = NULL]
    /\ map' = IF \A q \in Players \ {p} : on[q] # on[p]
              THEN [map EXCEPT ![on[p]] = SetTimeout(@)]
              ELSE map
    /\ UNCHANGED <<carried, since>>

Take(p, i) ==
    /\ on[p] # NULL /\ i \in map[on[p]].lying
    /\ map' = [map EXCEPT ![on[p]].lying = @ \ {i}]
    /\ carried' = [carried EXCEPT ![p] = @ \cup {i}]
    /\ UNCHANGED <<on, since>>

Drop(p, i) ==
    /\ on[p] # NULL /\ i \in carried[p]
    /\ map' = [map EXCEPT ![on[p]].lying = @ \cup {i}]
    /\ carried' = [carried EXCEPT ![p] = @ \ {i}]
    /\ UNCHANGED <<on, since>>

(* Somebody kills a monster, opens a door, drops an ordinary item.         *)
Change(m) ==
    /\ map[m].mem = "memory"
    /\ map' = [map EXCEPT ![m].changed = TRUE]
    /\ UNCHANGED <<on, carried, since>>

(* A map is made ready with no player: as a tile of a linked map, as the   *)
(* target of a waypoint or a mirror, for a script.                         *)
Touch(m) ==
    /\ map[m].mem # "memory"
    /\ map' = [map EXCEPT ![m] = Ready(m, map[m])]
    /\ UNCHANGED <<on, carried, since>>

(* magic_mirror_get_map(): a mirror keeps the map that it shows.           *)
Look(m) ==
    /\ map[m].mem = "memory"
    /\ map' = [map EXCEPT ![m] = SetTimeout(@)]
    /\ UNCHANGED <<on, carried, since>>

---------------------------------------------------------------------------
(* The main loop                                                           *)

CheckedForced(m, r, held) ==
    CASE r.mem # "memory" -> r
      [] r.mem = "memory" /\ r.timeout = 0 -> IF Occupied(m) THEN r ELSE SetTimeout(r)
      [] r.mem = "memory" /\ r.timeout > 1 -> [r EXCEPT !.timeout = @ - 1]
      [] r.mem = "memory" /\ r.timeout = 1 -> Swap(m, r)

CheckedWrapping(m, r, held) ==
    CASE r.mem # "memory" -> r
      [] r.mem = "memory" /\ r.timeout # 1 -> [r EXCEPT !.timeout = @ - 1]
      [] r.mem = "memory" /\ r.timeout = 1 ->
           IF Occupied(m) \/ m \in held THEN [r EXCEPT !.timeout = 0] ELSE Swap(m, r)

CheckedAnew(m, r, held) ==
    IF r.mem = "memory" /\ ~Occupied(m) THEN SetTimeout(r) ELSE r

(* What check_active_maps() makes of a map.  Players on it, or on linked   *)
(* maps for `held', refuse the swap, and the timeout has ended all the same.*)
Checked(m, r, held) ==
    CASE r.mem # "memory" -> r
      [] r.mem = "memory" /\ r.timeout = 0 -> IF Occupied(m) THEN r ELSE SetTimeout(r)
      [] r.mem = "memory" /\ r.timeout > 1 -> [r EXCEPT !.timeout = @ - 1]
      [] r.mem = "memory" /\ r.timeout = 1 ->
           IF Occupied(m) \/ m \in held THEN [r EXCEPT !.timeout = 0] ELSE Swap(m, r)

(* Whether a link has been made since both maps were loaded is not modelled,*)
(* so a map may be held by a visitor nearby or not.                        *)
CheckActive ==
    /\ \E held \in SUBSET {m \in Maps : Visited(m)} :
         map' = [m \in Maps |-> Checked(m, map[m], held)]
    /\ UNCHANGED <<on, carried, since>>

(* What flush_old_maps() makes of a map                                    *)
Flushed(m, r) ==
    CASE r.mem = "memory" /\ r.timeout = 0 /\ ~Occupied(m) -> SetTimeout(r)
      [] r.mem = "swapped" /\ r.tmp # NULL /\ Overdue(r) -> Delete(r)
      [] OTHER -> r

FlushOld ==
    /\ map' = [m \in Maps |-> Flushed(m, map[m])]
    /\ UNCHANGED <<on, carried, since>>

Countdown(due) == IF due = Never \/ due = -1 THEN due ELSE due - 1

Second ==
    /\ map' = [m \in Maps |-> [map[m] EXCEPT !.due = Countdown(@)]]
    /\ since' = [m \in Maps |-> IF Occupied(m) \/ since[m] = ResetTime
                                THEN since[m] ELSE since[m] + 1]
    /\ UNCHANGED <<on, carried>>

(* map_force_reset(): the map is loaded from the original at once, and the *)
(* players on it are put back.                                             *)
ForceReset(m) ==
    /\ m \in Forced /\ map[m].mem # "absent"
    /\ map' = [map EXCEPT ![m] = LoadOriginal(m, Delete(@))]
    /\ UNCHANGED <<on, carried, since>>

(* write_map_log() notes the time that is left, and read_map_log() takes it*)
(* for a reset_time: one long past, unless it is negative and wraps.       *)
Logged(r) == [r EXCEPT !.timeout = Timeout, !.due = IF @ < 0 \/ @ = Never THEN Never ELSE -1]

Recycled(m, r) ==
    LET swapped == IF r.mem = "memory" THEN Swap(m, r) ELSE r
    IN  IF swapped.mem = "swapped" /\ swapped.tmp # NULL THEN Logged(swapped) ELSE swapped

Discarded(m, r) ==
    Absent(IF r.mem = "memory" THEN SaveUnique(m, r) ELSE r.v00)

(* server_shutdown(): everybody is logged out and clean_tmp_files() runs;  *)
(* then the server is started again.                                       *)
Shutdown ==
    /\ on' = [p \in Players |-> NULL]
    /\ map' = [m \in Maps |-> IF Recycle THEN Recycled(m, map[m]) ELSE Discarded(m, map[m])]
    /\ UNCHANGED <<carried, since>>

Next ==
    \/ \E p \in Players, m \in Maps : Enter(p, m) \/ WalkTo(p, m)
    \/ \E p \in Players : LogOut(p)
    \/ \E p \in Players, i \in Items : Take(p, i) \/ Drop(p, i)
    \/ \E m \in Maps : Change(m) \/ Touch(m) \/ Look(m) \/ ForceReset(m)
    \/ CheckActive
    \/ FlushOld
    \/ Second
    \/ Shutdown

Spec == Init /\ [][Next]_vars

(* The main loop runs on whatever players do, and so does the clock.       *)
FairSpec == Spec /\ WF_vars(CheckActive) /\ WF_vars(FlushOld) /\ WF_vars(Second)

---------------------------------------------------------------------------
(* Type correctness; only maps that are swapped have a temporary file, and *)
(* all of them have one, so load_temporary_map() never has to fall back.   *)
TypeOK ==
    /\ map \in [Maps -> Map]
    /\ on \in [Players -> {NULL} \cup Maps]
    /\ carried \in [Players -> SUBSET Items]
    /\ since \in [Maps -> 0 .. ResetTime]
    /\ \A m \in Maps : map[m].mem = "swapped" <=> map[m].tmp # NULL

(* The map of every player is in memory: no timeout that runs on after a   *)
(* player has walked in, no reset and no periodic work takes it away       *)
(* (swap_map(), check_active_maps(), map_force_reset()).                   *)
PlayersInMemory == \A p \in Players : on[p] # NULL => map[on[p]].mem = "memory"

(* What is left of the changes made to a map                               *)
Altered(m) == map[m].changed \/ map[m].tmp = TRUE

(* Nothing that happened on a map is lost before ResetTime has passed since*)
(* a player was there, except when the server restarts without recycling   *)
(* or somebody resets the map (swap_map(), flush_old_maps(), read_map_log()).*)
Resets(m) == Altered(m) /\ ~Altered(m)'
InTime(m) == since[m] >= ResetTime
NoEarlyReset ==
    [][\A m \in Maps \ (Fixed \cup Forced) :
         Resets(m) => InTime(m) \/ (~Recycle /\ Shutdown)]_vars

(* Where a unique item is: with a player, or on the map that would show it *)
(* if it were made ready now                                               *)
Places(i) == {p \in Players : i \in carried[p]}
             \cup {m \in Maps : i \in Ready(m, map[m]).lying}

(* A unique item exists exactly once, however maps are swapped, reset and  *)
(* saved at a shutdown around it (load_unique_objects(), new_save_map()).  *)
UniqueOnce == \A i \in Items : Cardinality(Places(i)) = 1

(* A map that is left alone is reset in the end: it is absent again and    *)
(* again, unless players keep coming, or it is touched, seen in a mirror or*)
(* reset by hand again and again.                                          *)
AbandonedResets ==
    \A m \in Maps : \/ []<>(map[m].mem = "absent")
                    \/ []<>Visited(m)
                    \/ []<><<Touch(m) \/ Look(m) \/ ForceReset(m)>>_vars
=============================================================================
