---------------------------- MODULE MapsProofs ----------------------------
(***************************************************************************)
(* Theorems about Maps, for any maps, players, items and times.  What      *)
(* loading, swapping and the periodic work make of one map is stated in    *)
(* lemmas about records; the invariants follow map by map.                 *)
(***************************************************************************)
EXTENDS Maps, FiniteSetTheorems, TLAPS

(* What is true of the record of every map                                 *)
Fit(r) ==
    /\ r \in Map
    /\ r.mem = "swapped" <=> r.tmp # NULL
    /\ r.changed => r.mem = "memory"

(* What is left of the changes made to a map, as a record                  *)
Marked(r) == r.changed \/ r.tmp = TRUE

(* A swapped map is not due before ResetTime has passed without players.   *)
Late(r, s) == r.mem = "swapped" => s = ResetTime \/ r.due + s >= ResetTime

---------------------------------------------------------------------------
(* Lemmas about one map                                                    *)

LEMMA Bounds ==
    /\ {0, Timeout} \subseteq 0 .. Timeout
    /\ {-1, 0, ResetTime, Never} \subseteq -1 .. Never
    /\ NULL # TRUE /\ NULL # FALSE
<1>1. Timeout \in Nat /\ ResetTime \in Nat BY ConstantsAssumption
<1>2. {0, Timeout} \subseteq 0 .. Timeout BY <1>1
<1>3. {-1, 0, ResetTime, Never} \subseteq -1 .. Never BY <1>1 DEF Never
<1>4. NULL # TRUE /\ NULL # FALSE BY ConstantsAssumption
<1> QED BY <1>2, <1>3, <1>4

LEMMA AbsentFit ==
    ASSUME NEW v \in {NULL} \cup SUBSET Items
    PROVE  Fit(Absent(v)) /\ ~Marked(Absent(v)) /\ Absent(v).mem = "absent"
<1>1. Absent(v) \in Map BY Bounds DEF Absent, Map
<1> QED BY <1>1, Bounds DEF Fit, Marked, Absent

(* Made ready, a map is in memory and keeps what was changed on it.        *)
LEMMA ReadyFit ==
    ASSUME NEW m \in Maps, NEW r, Fit(r)
    PROVE  /\ Fit(Ready(m, r)) /\ Ready(m, r).mem = "memory"
           /\ Marked(r) => Marked(Ready(m, r))
<1>1. r \in Map BY DEF Fit
<1>2. CASE r.mem = "memory"
  BY <1>2 DEF Ready
<1>3. CASE r.mem = "swapped"
  <2>1. r.tmp # NULL BY <1>3 DEF Fit
  <2>2. Ready(m, r) = LoadTemporary(r) BY <1>3, <2>1 DEF Ready
  <2>3. r.tmp \in BOOLEAN /\ ~r.changed BY <1>1, <1>3, <2>1 DEF Map, Fit
  <2> DEFINE lying == IF r.v00 = NULL THEN {} ELSE r.v00
  <2>4. lying \in SUBSET Items BY <1>1 DEF Map
  <2>5. Ready(m, r) = [r EXCEPT !.mem = "memory", !.changed = r.tmp, !.tmp = NULL, !.lying = lying]
    BY <2>2 DEF LoadTemporary
  <2> HIDE DEF lying
  <2>6. Ready(m, r) \in Map BY <1>1, <2>3, <2>4, <2>5 DEF Map
  <2>7. Ready(m, r).mem = "memory" /\ Ready(m, r).tmp = NULL /\ Ready(m, r).changed = r.tmp
    BY <1>1, <2>5 DEF Map
  <2>8. Fit(Ready(m, r)) BY <2>6, <2>7 DEF Fit
  <2>9. Marked(r) => Marked(Ready(m, r)) BY <2>3, <2>7 DEF Marked
  <2> QED BY <2>7, <2>8, <2>9
<1>4. CASE r.mem = "absent"
  <2>1. Ready(m, r) = LoadOriginal(m, r) BY <1>4 DEF Ready
  <2>2. ~Marked(r) BY <1>1, <1>4, ConstantsAssumption DEF Fit, Map, Marked
  <2> DEFINE lying == IF r.v00 = NULL THEN Original(m) ELSE r.v00
  <2>3. lying \in SUBSET Items /\ r.v00 \in {NULL} \cup SUBSET Items
    BY <1>1 DEF Map, Original
  <2>4. LoadOriginal(m, r) = [Absent(r.v00) EXCEPT !.mem = "memory", !.timeout = Timeout,
                                                   !.due = ResetTime, !.lying = lying]
    BY DEF LoadOriginal
  <2> HIDE DEF lying
  <2>5. LoadOriginal(m, r) \in Map BY <2>3, <2>4, Bounds DEF Absent, Map
  <2>6. /\ LoadOriginal(m, r).mem = "memory" /\ LoadOriginal(m, r).tmp = NULL
        /\ LoadOriginal(m, r).changed = FALSE
    BY <2>4 DEF Absent
  <2>7. Fit(LoadOriginal(m, r)) BY <2>5, <2>6 DEF Fit
  <2> QED BY <2>1, <2>2, <2>6, <2>7
<1> QED BY <1>1, <1>2, <1>3, <1>4 DEF Map

LEMMA DeleteFit ==
    ASSUME NEW r, Fit(r)
    PROVE  Fit(Delete(r)) /\ Delete(r).mem = "absent"
<1>1. r.v00 \in {NULL} \cup SUBSET Items BY DEF Fit, Map
<1> QED BY <1>1, AbsentFit DEF Delete

LEMMA OriginalFit ==
    ASSUME NEW m \in Maps, NEW r, Fit(r)
    PROVE  /\ Fit(LoadOriginal(m, Delete(r)))
           /\ LoadOriginal(m, Delete(r)).mem = "memory"
<1>1. Fit(Delete(r)) /\ Delete(r).mem = "absent" BY DeleteFit
<1>2. Ready(m, Delete(r)) = LoadOriginal(m, Delete(r)) BY <1>1 DEF Ready
<1> QED BY <1>1, <1>2, ReadyFit

(* Only a map with a fixed reset time can be thrown away by a swap.        *)
LEMMA SwapFit ==
    ASSUME NEW m \in Maps, NEW r, Fit(r)
    PROVE  /\ Fit(Swap(m, r))
           /\ m \notin Fixed => /\ Swap(m, r).mem = "swapped"
                                /\ Swap(m, r).due = ResetTime
                                /\ r.mem = "memory" /\ Marked(r) => Marked(Swap(m, r))
<1> DEFINE due == IF m \in Fixed THEN r.due ELSE ResetTime
<1> DEFINE saved == [r EXCEPT !.mem = "swapped", !.timeout = 0, !.due = due,
                              !.tmp = r.changed, !.changed = FALSE,
                              !.v00 = SaveUnique(m, r), !.lying = {}]
<1>1. r \in Map /\ due \in -1 .. Never /\ r.changed \in BOOLEAN
  BY ConstantsAssumption DEF Fit, Map, Never
<1>2. SaveUnique(m, r) \in {NULL} \cup SUBSET Items BY <1>1 DEF SaveUnique, Map
<1>3. Swap(m, r) = IF due <= 0 THEN Delete(r) ELSE saved BY DEF Swap
<1>4. NULL # r.changed BY <1>1, ConstantsAssumption
<1>5. /\ saved \in Map /\ saved.mem = "swapped" /\ saved.due = due
      /\ saved.tmp = r.changed /\ saved.changed = FALSE
  <2> HIDE DEF due
  <2> QED BY <1>1, <1>2, Bounds DEF Map
<1>6. Fit(saved) BY <1>4, <1>5 DEF Fit
<1>7. Fit(Delete(r)) BY DeleteFit
<1>8. ASSUME m \notin Fixed PROVE due = ResetTime /\ ~(due <= 0)
  BY <1>8, ConstantsAssumption
<1>9. ASSUME r.mem = "memory", Marked(r) PROVE Marked(saved)
  <2>1. r.tmp = NULL BY <1>9 DEF Fit
  <2>2. r.changed BY <2>1, <1>9, ConstantsAssumption DEF Marked
  <2> QED BY <2>2, <1>1, <1>5 DEF Marked
<1> HIDE DEF due, saved
<1> QED BY <1>3, <1>5, <1>6, <1>7, <1>8, <1>9

LEMMA SetTimeoutFit ==
    ASSUME NEW r, Fit(r)
    PROVE  /\ Fit(SetTimeout(r)) /\ SetTimeout(r).mem = r.mem
           /\ SetTimeout(r).due = r.due /\ (Marked(r) => Marked(SetTimeout(r)))
  BY ConstantsAssumption DEF Fit, Marked, SetTimeout, Map

(* check_active_maps() keeps maps with players, loses no change of a map   *)
(* without a fixed reset time and gives those it swaps their full time.    *)
LEMMA CheckedFit ==
    ASSUME NEW m \in Maps, NEW r, NEW held, NEW s \in 0 .. ResetTime, Fit(r)
    PROVE  /\ Fit(Checked(m, r, held))
           /\ Occupied(m) => Checked(m, r, held).mem = r.mem
           /\ m \notin Fixed => /\ Marked(r) => Marked(Checked(m, r, held))
                                /\ Late(r, s) => Late(Checked(m, r, held), s)
<1>1. r \in Map /\ r.timeout \in Nat BY ConstantsAssumption DEF Fit, Map
<1>2. CASE r.mem # "memory"
  BY <1>2 DEF Checked
<1>3. CASE r.mem = "memory" /\ r.timeout = 0
  <2>1. Checked(m, r, held) = IF Occupied(m) THEN r ELSE SetTimeout(r)
    BY <1>3 DEF Checked
  <2> QED BY <1>3, <2>1, SetTimeoutFit DEF Late
<1>4. CASE r.mem = "memory" /\ r.timeout > 1
  <2>1. Checked(m, r, held) = [r EXCEPT !.timeout = r.timeout - 1]
    BY <1>1, <1>4 DEF Checked
  <2> QED BY <1>1, <1>4, <2>1, ConstantsAssumption DEF Late, Fit, Map, Marked
<1>5. CASE r.mem = "memory" /\ r.timeout = 1
  <2>1. Checked(m, r, held) = IF Occupied(m) \/ m \in held
                              THEN [r EXCEPT !.timeout = 0] ELSE Swap(m, r)
    BY <1>5 DEF Checked
  <2>2. CASE Occupied(m) \/ m \in held
    <3>1. Checked(m, r, held) = [r EXCEPT !.timeout = 0] BY <2>1, <2>2
    <3> QED BY <1>1, <1>5, <3>1, ConstantsAssumption DEF Late, Fit, Map, Marked
  <2>3. CASE ~(Occupied(m) \/ m \in held)
    <3>1. Checked(m, r, held) = Swap(m, r) BY <2>1, <2>3
    <3> QED BY <1>5, <2>3, <3>1, SwapFit, ConstantsAssumption DEF Late
  <2> QED BY <2>2, <2>3
<1> QED BY <1>1, <1>2, <1>3, <1>4, <1>5

(* flush_old_maps() keeps maps in memory; what it deletes was due.         *)
LEMMA FlushedFit ==
    ASSUME NEW m \in Maps, NEW r, NEW s \in 0 .. ResetTime, Fit(r)
    PROVE  /\ Fit(Flushed(m, r))
           /\ r.mem = "memory" => Flushed(m, r).mem = "memory"
           /\ Late(r, s) => /\ Late(Flushed(m, r), s)
                            /\ Marked(r) => Marked(Flushed(m, r)) \/ s >= ResetTime
<1>1. r \in Map BY DEF Fit
<1>2. CASE r.mem = "memory" /\ r.timeout = 0 /\ ~Occupied(m)
  <2>1. Flushed(m, r) = SetTimeout(r) BY <1>2 DEF Flushed
  <2> QED BY <1>2, <2>1, SetTimeoutFit DEF Late
<1>3. CASE r.mem = "swapped" /\ r.tmp # NULL /\ Overdue(r)
  <2>1. Flushed(m, r) = Delete(r) BY <1>3 DEF Flushed
  <2>2. r.due \in Int /\ r.due <= 0 BY <1>1, <1>3, ConstantsAssumption DEF Map, Overdue, Never
  <2>3. ASSUME Late(r, s) PROVE s >= ResetTime
    BY <1>3, <2>2, <2>3, ConstantsAssumption DEF Late
  <2> QED BY <1>3, <2>1, <2>3, DeleteFit DEF Late
<1>4. CASE /\ ~(r.mem = "memory" /\ r.timeout = 0 /\ ~Occupied(m))
           /\ ~(r.mem = "swapped" /\ r.tmp # NULL /\ Overdue(r))
  <2>1. Flushed(m, r) = r BY <1>4 DEF Flushed
  <2> QED BY <2>1
<1> QED BY <1>2, <1>3, <1>4

LEMMA ShutdownFit ==
    ASSUME NEW m \in Maps, NEW r, Fit(r)
    PROVE  /\ Fit(Recycled(m, r)) /\ Fit(Discarded(m, r))
           /\ Discarded(m, r).mem = "absent"
<1> DEFINE swapped == IF r.mem = "memory" THEN Swap(m, r) ELSE r
<1>1. Fit(swapped) BY SwapFit
<1>2. Fit(Logged(swapped))
  <2> HIDE DEF swapped
  <2> DEFINE due == IF swapped.due < 0 \/ swapped.due = Never THEN Never ELSE -1
  <2>1. due \in -1 .. Never BY Bounds
  <2>2. Logged(swapped) = [swapped EXCEPT !.timeout = Timeout, !.due = due] BY DEF Logged
  <2> HIDE DEF due
  <2>3. swapped \in Map BY <1>1 DEF Fit
  <2>4. Logged(swapped) \in Map BY <2>1, <2>2, <2>3, Bounds DEF Map
  <2>5. /\ Logged(swapped).mem = swapped.mem /\ Logged(swapped).tmp = swapped.tmp
        /\ Logged(swapped).changed = swapped.changed
    BY <2>2, <2>3 DEF Map
  <2> QED BY <1>1, <2>4, <2>5 DEF Fit
<1>3. Fit(Recycled(m, r))
  <2>1. Recycled(m, r) = IF swapped.mem = "swapped" /\ swapped.tmp # NULL
                         THEN Logged(swapped) ELSE swapped
    BY DEF Recycled
  <2> HIDE DEF swapped
  <2> QED BY <2>1, <1>1, <1>2
<1>4. (IF r.mem = "memory" THEN SaveUnique(m, r) ELSE r.v00) \in {NULL} \cup SUBSET Items
  BY DEF SaveUnique, Fit, Map
<1> QED BY <1>3, <1>4, AbsentFit DEF Discarded

---------------------------------------------------------------------------
(* The invariant                                                           *)

Variables ==
    /\ map \in [Maps -> Map]
    /\ on \in [Players -> {NULL} \cup Maps]
    /\ carried \in [Players -> SUBSET Items]
    /\ since \in [Maps -> 0 .. ResetTime]

AllFit == \A m \in Maps : Fit(map[m])
IInv == Variables /\ AllFit /\ PlayersInMemory

LEMMA InitInv == Init => IInv
<1> SUFFICES ASSUME Init PROVE IInv OBVIOUS
<1>1. Fit(Absent(NULL)) /\ Absent(NULL) \in Map BY AbsentFit DEF Fit
<1>2. 0 \in 0 .. ResetTime BY ConstantsAssumption
<1> QED BY <1>1, <1>2 DEF Init, IInv, Variables, AllFit, PlayersInMemory

LEMMA NextInv == IInv /\ [Next]_vars => IInv'
<1> SUFFICES ASSUME IInv, [Next]_vars PROVE IInv' OBVIOUS
<1> USE DEF IInv
<1>0. Variables /\ AllFit /\ PlayersInMemory OBVIOUS
<1>r. 0 \in 0 .. ResetTime BY ConstantsAssumption
<1>f. \A m \in Maps : Fit(map[m]) BY DEF AllFit
<1>1. ASSUME NEW p \in Players, NEW m \in Maps, Enter(p, m) PROVE IInv'
  <2>1. \A x \in Maps : /\ Fit(map'[x])
                        /\ x = m \/ map[x].mem = "memory" => map'[x].mem = "memory"
    <3> SUFFICES ASSUME NEW x \in Maps
                 PROVE  /\ Fit(map'[x])
                        /\ x = m \/ map[x].mem = "memory" => map'[x].mem = "memory"
      OBVIOUS
    <3>1. CASE x = m
      <4> DEFINE r == Ready(m, map[m])
      <4>1. Fit(r) /\ r.mem = "memory" BY <1>f, ReadyFit
      <4>2. map'[x] = [r EXCEPT !.timeout = 0] BY <1>1, <3>1 DEF Enter
      <4> HIDE DEF r
      <4>3. map'[x] \in Map /\ map'[x].mem = r.mem /\ map'[x].tmp = r.tmp
            /\ map'[x].changed = r.changed
        BY <4>1, <4>2, Bounds DEF Fit, Map
      <4> QED BY <4>1, <4>3 DEF Fit
    <3>2. CASE x # m
      <4>1. map'[x] = map[x] \/ map'[x] = SetTimeout(map[x]) BY <1>1, <3>2 DEF Enter
      <4> QED BY <4>1, <3>2, <1>f, SetTimeoutFit
    <3> QED BY <3>1, <3>2
  <2>2. map' \in [Maps -> Map]
    <3>1. map' = [x \in Maps |-> map'[x]] BY <1>1 DEF Enter
    <3>2. \A x \in Maps : map'[x] \in Map BY <2>1 DEF Fit
    <3> QED BY <3>1, <3>2
  <2>n. /\ on' = [on EXCEPT ![p] = m] /\ since' = [since EXCEPT ![m] = 0]
        /\ carried' = carried
    BY <1>1 DEF Enter
  <2>3. Variables' BY <1>0, <1>r, <2>2, <2>n DEF Variables
  <2>4. PlayersInMemory'
    <3> SUFFICES ASSUME NEW q \in Players, on'[q] # NULL PROVE map'[on'[q]].mem = "memory"
      BY DEF PlayersInMemory
    <3>1. on'[q] \in Maps BY <2>3 DEF Variables
    <3>2. on'[q] = m \/ map[on'[q]].mem = "memory"
      BY <1>0, <2>n DEF PlayersInMemory, Variables
    <3> QED BY <2>1, <3>1, <3>2
  <2> QED BY <2>1, <2>3, <2>4 DEF AllFit
<1>2. ASSUME NEW p \in Players, NEW m \in Maps, WalkTo(p, m) PROVE IInv'
  <2>1. Fit(Ready(m, map[m])) /\ Ready(m, map[m]).mem = "memory" BY <1>f, ReadyFit
  <2>2. map' = [map EXCEPT ![m] = Ready(m, map[m])] BY <1>2 DEF WalkTo
  <2>3. Variables' /\ AllFit' BY <1>2, <1>r, <2>1, <2>2 DEF Variables, AllFit, Fit, WalkTo
  <2>4. PlayersInMemory' BY <1>2, <2>1, <2>2 DEF PlayersInMemory, Variables, WalkTo
  <2> QED BY <2>3, <2>4
<1>3. ASSUME NEW p \in Players, LogOut(p) PROVE IInv'
  <2>1. on[p] \in Maps BY <1>3 DEF LogOut, Variables
  <2>2. Fit(SetTimeout(map[on[p]])) /\ SetTimeout(map[on[p]]).mem = map[on[p]].mem
    BY <2>1, <1>f, SetTimeoutFit
  <2>3. map' = map \/ map' = [map EXCEPT ![on[p]] = SetTimeout(map[on[p]])]
    BY <1>3 DEF LogOut
  <2>4. Variables' BY <1>3, <2>1, <2>2, <2>3 DEF Variables, Fit, LogOut
  <2>5. \A x \in Maps : Fit(map'[x]) /\ map'[x].mem = map[x].mem
    BY <2>1, <2>2, <2>3, <1>f DEF Variables
  <2>6. PlayersInMemory' BY <1>3, <2>5 DEF PlayersInMemory, Variables, LogOut
  <2> QED BY <2>4, <2>5, <2>6 DEF AllFit
<1>4. ASSUME NEW p \in Players, NEW i \in Items, Take(p, i) \/ Drop(p, i) PROVE IInv'
  <2>1. on[p] \in Maps BY <1>4 DEF Take, Drop, Variables
  <2>r. map[on[p]] \in Map BY <2>1, <1>f DEF Fit
  <2>l. map[on[p]].lying \in SUBSET Items BY <2>r DEF Map
  <2>2. PICK lying \in SUBSET Items :
          map' = [map EXCEPT ![on[p]] = [map[on[p]] EXCEPT !.lying = lying]]
    BY <1>4, <2>l DEF Take, Drop
  <2>3. carried' \in [Players -> SUBSET Items] BY <1>4 DEF Take, Drop, Variables
  <2>4. UNCHANGED <<on, since>> BY <1>4 DEF Take, Drop
  <2> DEFINE r == [map[on[p]] EXCEPT !.lying = lying]
  <2>n. r \in Map /\ r.mem = map[on[p]].mem /\ r.tmp = map[on[p]].tmp
        /\ r.changed = map[on[p]].changed
    BY <2>r DEF Map
  <2>m. map' = [map EXCEPT ![on[p]] = r] BY <2>2
  <2> HIDE DEF r
  <2>5. map' \in [Maps -> Map] BY <1>0, <2>m, <2>n DEF Variables
  <2>6. \A x \in Maps : /\ map'[x].mem = map[x].mem /\ map'[x].tmp = map[x].tmp
                        /\ map'[x].changed = map[x].changed
    BY <1>0, <2>1, <2>m, <2>n DEF Variables
  <2>7. AllFit' BY <1>f, <2>5, <2>6 DEF AllFit, Fit
  <2>8. PlayersInMemory' BY <1>0, <2>4, <2>6 DEF PlayersInMemory, Variables
  <2> QED BY <1>0, <2>3, <2>4, <2>5, <2>7, <2>8 DEF Variables
<1>5. ASSUME NEW m \in Maps, Change(m) \/ Look(m) \/ Touch(m) \/ ForceReset(m) PROVE IInv'
  <2>1. PICK r : map' = [map EXCEPT ![m] = r] /\ Fit(r) /\ r.mem = "memory"
    <3>1. CASE Change(m)
      <4>1. Fit([map[m] EXCEPT !.changed = TRUE]) /\ [map[m] EXCEPT !.changed = TRUE].mem = "memory"
        BY <3>1, <1>f DEF Change, Fit, Map
      <4> QED BY <3>1, <4>1 DEF Change, Variables
    <3>2. CASE Look(m) BY <3>2, <1>f, SetTimeoutFit DEF Look
    <3>3. CASE Touch(m) BY <3>3, <1>f, ReadyFit DEF Touch
    <3>4. CASE ForceReset(m) BY <3>4, <1>f, OriginalFit DEF ForceReset
    <3> QED BY <1>5, <3>1, <3>2, <3>3, <3>4
  <2>2. UNCHANGED <<on, carried, since>> BY <1>5 DEF Change, Look, Touch, ForceReset
  <2>3. Variables' /\ AllFit' BY <1>f, <2>1, <2>2 DEF Variables, AllFit, Fit
  <2>4. PlayersInMemory' BY <2>1, <2>2 DEF PlayersInMemory, Variables
  <2> QED BY <2>3, <2>4
<1>6. CASE CheckActive
  <2>1. PICK held : map' = [m \in Maps |-> Checked(m, map[m], held)] BY <1>6 DEF CheckActive
  <2>2. \A m \in Maps : Fit(map'[m]) /\ (Occupied(m) => map'[m].mem = map[m].mem)
    BY <1>f, <1>r, <2>1, CheckedFit
  <2>3. UNCHANGED <<on, carried, since>> BY <1>6 DEF CheckActive
  <2>4. Variables' /\ AllFit' BY <2>1, <2>2, <2>3 DEF Variables, AllFit, Fit
  <2>5. PlayersInMemory' BY <2>2, <2>3 DEF PlayersInMemory, Occupied, Variables
  <2> QED BY <2>4, <2>5
<1>7. CASE FlushOld
  <2>1. \A m \in Maps : Fit(map'[m]) /\ (map[m].mem = "memory" => map'[m].mem = "memory")
    BY <1>7, <1>f, <1>r, FlushedFit DEF FlushOld
  <2>2. UNCHANGED <<on, carried, since>> BY <1>7 DEF FlushOld
  <2>3. Variables' /\ AllFit' BY <1>7, <2>1, <2>2 DEF Variables, AllFit, Fit, FlushOld
  <2>4. PlayersInMemory' BY <2>1, <2>2 DEF PlayersInMemory, Variables
  <2> QED BY <2>3, <2>4
<1>8. CASE Second
  <2>1. \A m \in Maps : Countdown(map[m].due) \in -1 .. Never
    BY ConstantsAssumption DEF Countdown, Variables, Map, Never
  <2>2. \A m \in Maps : map'[m] = [map[m] EXCEPT !.due = Countdown(map[m].due)]
    BY <1>8 DEF Second
  <2>3. ASSUME NEW m \in Maps
        PROVE  /\ map'[m] \in Map /\ map'[m].mem = map[m].mem
               /\ map'[m].tmp = map[m].tmp /\ map'[m].changed = map[m].changed
    <3>1. PICK due \in -1 .. Never : map'[m] = [map[m] EXCEPT !.due = due] BY <2>1, <2>2
    <3>2. map[m] \in Map BY <1>f DEF Fit
    <3> QED BY <3>1, <3>2 DEF Map
  <2>4. AllFit' BY <1>f, <2>3 DEF AllFit, Fit
  <2>5. map' = [m \in Maps |-> map'[m]] BY <1>8 DEF Second
  <2>6. map' \in [Maps -> Map] BY <2>3, <2>5
  <2>7. since' \in [Maps -> 0 .. ResetTime]
    <3>1. \A m \in Maps : since[m] \in 0 .. ResetTime BY <1>0 DEF Variables
    <3>2. \A m \in Maps : since[m] # ResetTime => since[m] + 1 \in 0 .. ResetTime
      BY <3>1, ConstantsAssumption
    <3> QED BY <3>1, <3>2, <1>8 DEF Second
  <2>8. UNCHANGED <<on, carried>> BY <1>8 DEF Second
  <2>9. PlayersInMemory' BY <2>3, <2>8 DEF PlayersInMemory, Variables
  <2> QED BY <2>4, <2>6, <2>7, <2>8, <2>9 DEF Variables
<1>9. CASE Shutdown
  <2>1. \A m \in Maps : Fit(map'[m]) BY <1>9, <1>f, ShutdownFit DEF Shutdown
  <2>2. Variables' /\ AllFit' BY <1>9, <2>1 DEF Variables, AllFit, Fit, Shutdown
  <2>3. PlayersInMemory' BY <1>9 DEF PlayersInMemory, Shutdown
  <2> QED BY <2>2, <2>3
<1>10. CASE UNCHANGED vars
  BY <1>0, <1>10 DEF vars, Variables, AllFit, PlayersInMemory
<1> QED
  BY <1>1, <1>2, <1>3, <1>4, <1>5, <1>6, <1>7, <1>8, <1>9, <1>10 DEF Next

(* Maps is type correct, and a temporary file exists exactly for the maps  *)
(* that are swapped, for any maps, players, items and times.               *)
THEOREM TypeCorrect == Spec => []TypeOK
<1>1. IInv => TypeOK BY DEF IInv, Variables, AllFit, Fit, TypeOK
<1> QED BY <1>1, InitInv, NextInv, PTL DEF Spec

(* No player is ever on a map that is not in memory.                       *)
THEOREM AlwaysInMemory == Spec => []PlayersInMemory
<1>1. IInv => PlayersInMemory BY DEF IInv
<1> QED BY <1>1, InitInv, NextInv, PTL DEF Spec

---------------------------------------------------------------------------
(* Without recycling, no map is reset before its time.                     *)

InTheirTime == \A m \in Maps \ Fixed : Late(map[m], since[m])

LEMMA InitTime == Init => InTheirTime
  BY DEF Init, InTheirTime, Late, Absent

(* A map in memory, or absent, is not due at all.                          *)
LEMMA NotSwapped ==
    ASSUME NEW r, NEW s, r.mem # "swapped"
    PROVE  Late(r, s)
  BY DEF Late

(* A step keeps this invariant, and a map that nobody resets by hand keeps *)
(* its changes unless its time has come.                                   *)
LEMMA StepTime ==
    ASSUME ~Recycle, IInv, InTheirTime, [Next]_vars,
           NEW x \in Maps \ Fixed
    PROVE  /\ Late(map'[x], since'[x])
           /\ x \notin Forced /\ Marked(map[x]) =>
                Marked(map'[x]) \/ since[x] >= ResetTime \/ Shutdown
<1> DEFINE Kept == Marked(map[x]) => Marked(map'[x]) \/ since[x] >= ResetTime \/ Shutdown
<1> SUFFICES Late(map'[x], since'[x]) /\ (x \notin Forced => Kept) OBVIOUS
<1>0. Variables /\ AllFit /\ PlayersInMemory BY DEF IInv
<1>f. \A m \in Maps : Fit(map[m]) BY <1>0 DEF AllFit
<1>l. Late(map[x], since[x]) BY DEF InTheirTime
<1>s. since[x] \in 0 .. ResetTime BY <1>0 DEF Variables
<1>1. ASSUME NEW p \in Players, NEW m \in Maps, Enter(p, m)
      PROVE  Late(map'[x], since'[x]) /\ Kept
  <2>1. CASE x = m
    <3> DEFINE r == Ready(m, map[m])
    <3>1. Fit(r) /\ r.mem = "memory" /\ (Marked(map[m]) => Marked(r)) BY <1>f, ReadyFit
    <3>2. map'[x] = [r EXCEPT !.timeout = 0] BY <1>1, <2>1 DEF Enter
    <3> HIDE DEF r
    <3>3. map'[x].mem = r.mem /\ map'[x].tmp = r.tmp /\ map'[x].changed = r.changed
      BY <3>1, <3>2 DEF Fit, Map
    <3> QED BY <2>1, <3>1, <3>3, NotSwapped DEF Marked
  <2>2. CASE x # m
    <3>1. map'[x] = map[x] \/ map'[x] = SetTimeout(map[x]) BY <1>1, <2>2 DEF Enter
    <3>2. since'[x] = since[x] BY <1>0, <1>1, <2>2 DEF Enter, Variables
    <3> QED BY <1>f, <1>l, <3>1, <3>2, SetTimeoutFit DEF Late
  <2> QED BY <2>1, <2>2
<1>2. ASSUME NEW p \in Players, NEW m \in Maps, WalkTo(p, m)
      PROVE  Late(map'[x], since'[x]) /\ Kept
  <2> DEFINE r == Ready(m, map[m])
  <2>1. r.mem = "memory" /\ (Marked(map[m]) => Marked(r)) BY <1>f, ReadyFit
  <2>2. map' = [map EXCEPT ![m] = r] /\ since' = [since EXCEPT ![m] = 0] BY <1>2 DEF WalkTo
  <2> HIDE DEF r
  <2>3. CASE x = m
    <3>1. map'[x] = r BY <1>0, <2>2, <2>3 DEF Variables
    <3> QED BY <2>1, <2>3, <3>1, NotSwapped
  <2>4. CASE x # m
    <3>1. map'[x] = map[x] /\ since'[x] = since[x] BY <1>0, <2>2, <2>4 DEF Variables
    <3> QED BY <1>l, <3>1
  <2> QED BY <2>3, <2>4
<1>3. ASSUME NEW p \in Players, LogOut(p) PROVE Late(map'[x], since'[x]) /\ Kept
  <2>1. map'[x] = map[x] \/ map'[x] = SetTimeout(map[x])
    BY <1>0, <1>3 DEF LogOut, Variables
  <2>2. since'[x] = since[x] BY <1>3 DEF LogOut
  <2> QED BY <1>f, <1>l, <2>1, <2>2, SetTimeoutFit DEF Late
<1>4. ASSUME NEW p \in Players, NEW i \in Items, Take(p, i) \/ Drop(p, i)
      PROVE  Late(map'[x], since'[x]) /\ Kept
  <2>1. PICK lying : \/ map' = [map EXCEPT ![on[p]] = [map[on[p]] EXCEPT !.lying = lying]]
                     \/ map' = map
    BY <1>4 DEF Take, Drop
  <2>2. since'[x] = since[x] BY <1>4 DEF Take, Drop
  <2>3. \/ map'[x] = map[x]
        \/ map'[x] = [map[x] EXCEPT !.lying = lying]
    BY <1>0, <2>1 DEF Variables
  <2>4. map[x] \in Map BY <1>f DEF Fit
  <2>5. map'[x].mem = map[x].mem /\ map'[x].tmp = map[x].tmp
        /\ map'[x].changed = map[x].changed /\ map'[x].due = map[x].due
    BY <2>3, <2>4 DEF Map
  <2> QED BY <1>l, <2>2, <2>5 DEF Late, Marked
<1>5. ASSUME NEW m \in Maps, Change(m) \/ Look(m) \/ Touch(m)
      PROVE  Late(map'[x], since'[x]) /\ Kept
  <2>1. since'[x] = since[x] BY <1>5 DEF Change, Look, Touch
  <2>2. PICK r : /\ map' = [map EXCEPT ![m] = r] /\ r.mem = "memory"
                 /\ Marked(map[m]) => Marked(r)
    <3>1. CASE Change(m)
      <4>1. map[m] \in Map BY <1>f DEF Fit
      <4>2. /\ [map[m] EXCEPT !.changed = TRUE].mem = "memory"
            /\ Marked([map[m] EXCEPT !.changed = TRUE])
        BY <3>1, <4>1 DEF Change, Marked, Map
      <4> QED BY <3>1, <4>2 DEF Change
    <3>2. CASE Look(m) BY <3>2, <1>f, SetTimeoutFit DEF Look
    <3>3. CASE Touch(m) BY <3>3, <1>f, ReadyFit DEF Touch
    <3> QED BY <1>5, <3>1, <3>2, <3>3
  <2>3. CASE x = m
    <3>1. map'[x] = r BY <1>0, <2>2, <2>3 DEF Variables
    <3> QED BY <2>2, <2>3, <3>1, NotSwapped
  <2>4. CASE x # m
    <3>1. map'[x] = map[x] BY <1>0, <2>2, <2>4 DEF Variables
    <3> QED BY <1>l, <2>1, <3>1
  <2> QED BY <2>3, <2>4
<1>6. ASSUME NEW m \in Maps, ForceReset(m)
      PROVE  Late(map'[x], since'[x]) /\ (x \notin Forced => Kept)
  <2>1. since'[x] = since[x] /\ m \in Forced BY <1>6 DEF ForceReset
  <2> DEFINE r == LoadOriginal(m, Delete(map[m]))
  <2>2. r.mem = "memory" BY <1>f, OriginalFit
  <2>3. map' = [map EXCEPT ![m] = r] BY <1>6 DEF ForceReset
  <2> HIDE DEF r
  <2>4. CASE x = m
    <3>1. map'[x] = r BY <1>0, <2>3, <2>4 DEF Variables
    <3> QED BY <2>1, <2>2, <2>4, <3>1, NotSwapped
  <2>5. CASE x # m
    <3>1. map'[x] = map[x] BY <1>0, <2>3, <2>5 DEF Variables
    <3> QED BY <1>l, <2>1, <3>1
  <2> QED BY <2>4, <2>5
<1>7. CASE CheckActive
  <2>1. PICK held : map' = [m \in Maps |-> Checked(m, map[m], held)] BY <1>7 DEF CheckActive
  <2>2. map'[x] = Checked(x, map[x], held) BY <2>1
  <2>3. since'[x] = since[x] BY <1>7 DEF CheckActive
  <2> QED BY <1>f, <1>l, <1>s, <2>2, <2>3, CheckedFit
<1>8. CASE FlushOld
  <2>1. map'[x] = Flushed(x, map[x]) /\ since'[x] = since[x] BY <1>8 DEF FlushOld
  <2> QED BY <1>f, <1>l, <1>s, <2>1, FlushedFit
<1>9. CASE Second
  <2>1. map[x] \in Map BY <1>f DEF Fit
  <2>2. map'[x] = [map[x] EXCEPT !.due = Countdown(map[x].due)] BY <1>9 DEF Second
  <2>3. /\ map'[x].mem = map[x].mem /\ map'[x].tmp = map[x].tmp
        /\ map'[x].changed = map[x].changed /\ map'[x].due = Countdown(map[x].due)
    BY <2>1, <2>2 DEF Map
  <2>4. ASSUME map[x].mem = "swapped" PROVE ~Occupied(x)
    BY <1>0, <2>4, ConstantsAssumption DEF PlayersInMemory, Occupied, Variables
  <2>5. ASSUME map[x].mem = "swapped", ~(since[x] = ResetTime)
        PROVE  map'[x].due + since'[x] >= ResetTime
    <3>1. since'[x] = since[x] + 1 BY <1>9, <2>4, <2>5 DEF Second
    <3>2. map[x].due \in Int /\ map[x].due + since[x] >= ResetTime
      BY <1>l, <2>1, <2>5, ConstantsAssumption DEF Late, Map, Never
    <3>3. Countdown(map[x].due) >= map[x].due - 1 BY <3>2 DEF Countdown
    <3>4. Countdown(map[x].due) \in Int BY <3>2 DEF Countdown
    <3> QED BY <1>s, <2>3, <3>1, <3>2, <3>3, <3>4, ConstantsAssumption
  <2>6. ASSUME since[x] = ResetTime PROVE since'[x] = ResetTime BY <1>9, <2>6 DEF Second
  <2> QED BY <2>3, <2>5, <2>6 DEF Late, Marked
<1>10. CASE Shutdown
  <2>1. map'[x] = Discarded(x, map[x]) BY <1>10 DEF Shutdown
  <2>2. map'[x].mem = "absent" BY <1>f, <2>1, ShutdownFit
  <2> QED BY <1>10, <2>2, NotSwapped
<1>11. CASE UNCHANGED vars
  BY <1>l, <1>11 DEF vars
<1> HIDE DEF Kept
<1> QED
  BY <1>1, <1>2, <1>3, <1>4, <1>5, <1>6, <1>7, <1>8, <1>9, <1>10, <1>11 DEF Next

(* Without recycling, what happened on a map that has no fixed reset time  *)
(* and is not reset by hand is kept until nobody has been there for the    *)
(* reset time, or the server restarts.                                     *)
THEOREM ResetsInTime == ASSUME ~Recycle PROVE Spec => NoEarlyReset
<1>1. IInv /\ InTheirTime /\ [Next]_vars => InTheirTime'
  BY StepTime DEF InTheirTime
<1> DEFINE Kept == \A m \in Maps \ (Fixed \cup Forced) :
                     Resets(m) => InTime(m) \/ (~Recycle /\ Shutdown)
<1>2. IInv /\ InTheirTime /\ [Next]_vars => [Kept]_vars
  <2> SUFFICES ASSUME IInv, InTheirTime, [Next]_vars, NEW m \in Maps \ (Fixed \cup Forced),
                      Resets(m)
               PROVE  InTime(m) \/ (~Recycle /\ Shutdown)
    OBVIOUS
  <2>1. Marked(map[m]) /\ ~Marked(map'[m]) BY DEF Resets, Altered, Marked
  <2> QED BY <2>1, StepTime DEF InTime
<1> QED BY <1>1, <1>2, InitInv, NextInv, InitTime, PTL DEF Spec, NoEarlyReset

---------------------------------------------------------------------------
(* Unique items.  What a map would show if it were made ready now is what  *)
(* every step but Take and Drop leaves alone.                              *)

Shown(m, r) == Ready(m, r).lying

(* The vault has a file of its unique items once it has been saved.        *)
Saved(m, r) == m = Vault /\ r.mem = "swapped" => r.v00 # NULL

LEMMA ReadyShows ==
    ASSUME NEW m \in Maps, NEW r, Fit(r)
    PROVE  /\ Shown(m, Ready(m, r)) = Shown(m, r) /\ Saved(m, Ready(m, r))
           /\ r.mem = "memory" => Shown(m, r) = r.lying
<1>1. Ready(m, r).mem = "memory" BY ReadyFit
<1>2. Ready(m, Ready(m, r)) = Ready(m, r) BY <1>1 DEF Ready
<1> QED BY <1>1, <1>2 DEF Shown, Saved, Ready

(* What an absent and a swapped map would show                             *)
LEMMA AbsentShows ==
    ASSUME NEW m \in Maps, NEW v
    PROVE  Shown(m, Absent(v)) = IF v = NULL THEN Original(m) ELSE v
<1>1. Absent(v).mem = "absent" /\ Absent(v).v00 = v BY DEF Absent
<1>2. Ready(m, Absent(v)) = LoadOriginal(m, Absent(v)) BY <1>1 DEF Ready
<1>3. LoadOriginal(m, Absent(v)).lying = IF v = NULL THEN Original(m) ELSE v
  BY <1>1 DEF LoadOriginal, Absent
<1> QED BY <1>2, <1>3 DEF Shown

LEMMA SwappedShows ==
    ASSUME NEW m \in Maps, NEW r, Fit(r), r.mem = "swapped"
    PROVE  Shown(m, r) = IF r.v00 = NULL THEN {} ELSE r.v00
<1>1. r \in Map /\ r.tmp # NULL BY DEF Fit
<1>2. Ready(m, r) = LoadTemporary(r) BY <1>1 DEF Ready
<1>3. LoadTemporary(r).lying = IF r.v00 = NULL THEN {} ELSE r.v00
  BY <1>1 DEF LoadTemporary, Map
<1> QED BY <1>2, <1>3 DEF Shown

(* A reset of a swapped map takes nothing from the file of unique items.   *)
LEMMA DeleteShows ==
    ASSUME NEW m \in Maps, NEW r, Fit(r), r.mem = "swapped", Saved(m, r)
    PROVE  Shown(m, Delete(r)) = Shown(m, r) /\ Saved(m, Delete(r))
<1>1. Shown(m, Delete(r)) = IF r.v00 = NULL THEN Original(m) ELSE r.v00
  BY AbsentShows DEF Delete
<1>2. Shown(m, r) = IF r.v00 = NULL THEN {} ELSE r.v00 BY SwappedShows
<1>3. Delete(r).mem = "absent" BY DeleteFit
<1> QED BY <1>1, <1>2, <1>3 DEF Saved, Original

(* What is saved of a map is what lay on it.                               *)
LEMMA SaveShows ==
    ASSUME Vault \in Floors, NEW m \in Maps, NEW r, Fit(r)
    PROVE  /\ m = Vault => SaveUnique(m, r) # NULL
           /\ r.lying = IF SaveUnique(m, r) = NULL THEN {} ELSE SaveUnique(m, r)
<1>1. r.lying # NULL BY ConstantsAssumption DEF Fit, Map
<1> QED BY <1>1 DEF SaveUnique

LEMMA SwapShows ==
    ASSUME Fixed = {}, Vault \in Floors,
           NEW m \in Maps, NEW r, Fit(r), r.mem = "memory"
    PROVE  Shown(m, Swap(m, r)) = Shown(m, r) /\ Saved(m, Swap(m, r))
<1>1. Fit(Swap(m, r)) /\ Swap(m, r).mem = "swapped" BY SwapFit
<1>2. r \in Map /\ ~(ResetTime <= 0) BY ConstantsAssumption DEF Fit
<1>3. Swap(m, r).v00 = SaveUnique(m, r) BY <1>2 DEF Swap, Map
<1>4. Shown(m, r) = r.lying BY ReadyShows
<1> QED BY <1>1, <1>3, <1>4, SwappedShows, SaveShows DEF Saved

(* Fields that do not matter for what a map shows                          *)
LEMMA SameShows ==
    ASSUME NEW m \in Maps, NEW r, NEW q, Fit(r), Fit(q),
           q.mem = r.mem, q.v00 = r.v00, q.lying = r.lying
    PROVE  Shown(m, q) = Shown(m, r) /\ (Saved(m, r) => Saved(m, q))
<1>1. Saved(m, r) => Saved(m, q) BY DEF Saved
<1>2. CASE r.mem = "memory" BY <1>2, <1>1, ReadyShows
<1>3. CASE r.mem = "swapped" BY <1>3, <1>1, SwappedShows
<1>4. CASE r.mem = "absent"
  <2>1. Ready(m, r) = LoadOriginal(m, r) /\ Ready(m, q) = LoadOriginal(m, q)
    BY <1>4 DEF Ready
  <2>2. LoadOriginal(m, r) = LoadOriginal(m, q) BY DEF LoadOriginal
  <2> QED BY <2>1, <2>2, <1>1 DEF Shown
<1> QED BY <1>2, <1>3, <1>4 DEF Fit, Map

LEMMA SetTimeoutShows ==
    ASSUME NEW m \in Maps, NEW r, Fit(r)
    PROVE  Shown(m, SetTimeout(r)) = Shown(m, r) /\ (Saved(m, r) => Saved(m, SetTimeout(r)))
<1>1. SetTimeout(r).v00 = r.v00 /\ SetTimeout(r).lying = r.lying
  BY DEF SetTimeout, Fit, Map
<1> QED BY <1>1, SetTimeoutFit, SameShows

LEMMA CheckedShows ==
    ASSUME Fixed = {}, Vault \in Floors,
           NEW m \in Maps, NEW r, NEW held, Fit(r), Saved(m, r)
    PROVE  Shown(m, Checked(m, r, held)) = Shown(m, r) /\ Saved(m, Checked(m, r, held))
<1>1. r \in Map /\ r.timeout \in Nat BY ConstantsAssumption DEF Fit, Map
<1>2. \/ Checked(m, r, held) = r
      \/ Checked(m, r, held) = SetTimeout(r)
      \/ r.timeout > 1 /\ Checked(m, r, held) = [r EXCEPT !.timeout = r.timeout - 1]
      \/ Checked(m, r, held) = [r EXCEPT !.timeout = 0]
      \/ r.mem = "memory" /\ Checked(m, r, held) = Swap(m, r)
  BY <1>1 DEF Checked, Map
<1>3. CASE \/ r.timeout > 1 /\ Checked(m, r, held) = [r EXCEPT !.timeout = r.timeout - 1]
           \/ Checked(m, r, held) = [r EXCEPT !.timeout = 0]
  <2>1. PICK t \in 0 .. Timeout : Checked(m, r, held) = [r EXCEPT !.timeout = t]
    BY <1>1, <1>3, ConstantsAssumption DEF Map
  <2> DEFINE q == [r EXCEPT !.timeout = t]
  <2>2. /\ q \in Map /\ q.mem = r.mem /\ q.v00 = r.v00 /\ q.lying = r.lying
        /\ q.tmp = r.tmp /\ q.changed = r.changed
    BY <1>1 DEF Map
  <2>3. Fit(q) BY <2>2 DEF Fit
  <2> HIDE DEF q
  <2>4. Shown(m, q) = Shown(m, r) /\ Saved(m, q) BY <2>2, <2>3, SameShows
  <2> QED BY <2>1, <2>4 DEF q
<1> QED BY <1>2, <1>3, SetTimeoutShows, SwapShows

LEMMA FlushedShows ==
    ASSUME NEW m \in Maps, NEW r, Fit(r), Saved(m, r)
    PROVE  Shown(m, Flushed(m, r)) = Shown(m, r) /\ Saved(m, Flushed(m, r))
<1>1. \/ Flushed(m, r) = r \/ Flushed(m, r) = SetTimeout(r)
      \/ r.mem = "swapped" /\ Flushed(m, r) = Delete(r)
  BY DEF Flushed
<1> QED BY <1>1, SetTimeoutShows, DeleteShows

(* A shutdown keeps them, with or without the recycling of maps.           *)
LEMMA ShutdownShows ==
    ASSUME Fixed = {}, Vault \in Floors,
           NEW m \in Maps, NEW r, Fit(r), Saved(m, r)
    PROVE  /\ Shown(m, Recycled(m, r)) = Shown(m, r) /\ Saved(m, Recycled(m, r))
           /\ Shown(m, Discarded(m, r)) = Shown(m, r) /\ Saved(m, Discarded(m, r))
<1> DEFINE swapped == IF r.mem = "memory" THEN Swap(m, r) ELSE r
<1>1. Fit(swapped) /\ Shown(m, swapped) = Shown(m, r) /\ Saved(m, swapped)
  BY SwapFit, SwapShows
<1>2. Shown(m, Recycled(m, r)) = Shown(m, r) /\ Saved(m, Recycled(m, r))
  <2>1. Recycled(m, r) = swapped \/ Recycled(m, r) = Logged(swapped) BY DEF Recycled
  <2> HIDE DEF swapped
  <2>2. CASE Recycled(m, r) = Logged(swapped)
    <3>1. /\ Logged(swapped).mem = swapped.mem /\ Logged(swapped).v00 = swapped.v00
          /\ Logged(swapped).lying = swapped.lying
      BY <1>1 DEF Logged, Fit, Map
    <3>2. Fit(Recycled(m, r)) BY ShutdownFit
    <3> QED BY <1>1, <2>2, <3>1, <3>2, SameShows
  <2> QED BY <1>1, <2>1, <2>2
<1>3. Discarded(m, r).mem = "absent" BY ShutdownFit
<1>4. Shown(m, Discarded(m, r)) = Shown(m, r)
  <2>1. CASE r.mem = "memory"
    <3>1. Discarded(m, r) = Absent(SaveUnique(m, r)) BY <2>1 DEF Discarded
    <3>2. SaveUnique(m, r) = NULL => Original(m) = {} /\ r.lying = {}
      BY SaveShows DEF Original
    <3> QED BY <2>1, <3>1, <3>2, AbsentShows, SaveShows, ReadyShows
  <2>2. CASE r.mem = "swapped"
    <3>1. Discarded(m, r) = Delete(r) BY <2>2 DEF Discarded, Delete
    <3> QED BY <2>2, <3>1, DeleteShows
  <2>3. CASE r.mem = "absent"
    <3>1. Discarded(m, r) = Absent(r.v00) BY <2>3 DEF Discarded
    <3>2. Ready(m, r) = LoadOriginal(m, r) BY <2>3 DEF Ready
    <3>3. LoadOriginal(m, r).lying = IF r.v00 = NULL THEN Original(m) ELSE r.v00
      BY DEF LoadOriginal, Absent
    <3> QED BY <3>1, <3>2, <3>3, AbsentShows DEF Shown
  <2> QED BY <2>1, <2>2, <2>3 DEF Fit, Map
<1> QED BY <1>2, <1>3, <1>4 DEF Saved
AllSaved == \A m \in Maps : Saved(m, map[m])
OnePlace == \A i \in Items : \E x \in Players \cup Maps : Places(i) = {x}

(* Where a unique item is, in terms of what maps would show                *)
LEMMA PlacesShown ==
    ASSUME NEW i \in Items, NEW x
    PROVE  x \in Places(i) <=> \/ x \in Players /\ i \in carried[x]
                               \/ x \in Maps /\ i \in Shown(x, map[x])
  BY DEF Places, Shown

LEMMA InitOnce == Init => AllSaved /\ OnePlace
<1> SUFFICES ASSUME Init PROVE AllSaved /\ OnePlace OBVIOUS
<1>1. ASSUME NEW m \in Maps
      PROVE  Shown(m, map[m]) = Original(m) /\ Saved(m, map[m])
  BY AbsentFit, AbsentShows DEF Init, Saved
<1>2. ASSUME NEW i \in Items PROVE Places(i) = {Vault}
  <2>1. \A x : x \in Places(i) <=> x \in Maps /\ i \in Original(x)
    BY <1>1, PlacesShown, ConstantsAssumption DEF Init
  <2> QED BY <2>1, ConstantsAssumption DEF Original
<1> QED BY <1>1, <1>2, ConstantsAssumption DEF AllSaved, OnePlace

(* Only Take and Drop change what players carry or maps would show.        *)
LEMMA StepShows ==
    ASSUME Fixed = {}, Forced = {}, Vault \in Floors,
           IInv, AllSaved, [Next]_vars,
           ~\E p \in Players, i \in Items : Take(p, i) \/ Drop(p, i)
    PROVE  /\ carried' = carried
           /\ \A x \in Maps : Shown(x, map'[x]) = Shown(x, map[x]) /\ Saved(x, map'[x])
<1> DEFINE Same(x) == Shown(x, map'[x]) = Shown(x, map[x]) /\ Saved(x, map'[x])
<1> SUFFICES ASSUME NEW x \in Maps PROVE carried' = carried /\ Same(x)
  BY ConstantsAssumption
<1>0. Variables /\ AllFit /\ PlayersInMemory BY DEF IInv
<1>f. \A m \in Maps : Fit(map[m]) BY <1>0 DEF AllFit
<1>s. Saved(x, map[x]) BY DEF AllSaved
<1>1. ASSUME NEW p \in Players, NEW m \in Maps, Enter(p, m) PROVE carried' = carried /\ Same(x)
  <2>1. CASE x = m
    <3> DEFINE r == Ready(m, map[m])
    <3>1. Fit(r) /\ Shown(x, r) = Shown(x, map[x]) /\ Saved(x, r)
      BY <1>f, <2>1, ReadyFit, ReadyShows
    <3>2. map'[x] = [r EXCEPT !.timeout = 0] BY <1>1, <2>1 DEF Enter
    <3> HIDE DEF r
    <3>3. /\ map'[x] \in Map /\ map'[x].mem = r.mem /\ map'[x].tmp = r.tmp
          /\ map'[x].changed = r.changed /\ map'[x].v00 = r.v00 /\ map'[x].lying = r.lying
      BY <3>1, <3>2, Bounds DEF Fit, Map
    <3>4. Fit(map'[x]) BY <3>1, <3>3 DEF Fit
    <3> QED BY <1>1, <3>1, <3>3, <3>4, SameShows DEF Enter
  <2>2. CASE x # m
    <3>1. map'[x] = map[x] \/ map'[x] = SetTimeout(map[x]) BY <1>1, <2>2 DEF Enter
    <3> QED BY <1>1, <1>f, <1>s, <3>1, SetTimeoutShows DEF Enter
  <2> QED BY <2>1, <2>2
<1>2. ASSUME NEW p \in Players, NEW m \in Maps, WalkTo(p, m) PROVE carried' = carried /\ Same(x)
  <2>1. map'[x] = map[x] \/ map'[x] = Ready(x, map[x])
    BY <1>0, <1>2 DEF WalkTo, Variables
  <2> QED BY <1>2, <1>f, <1>s, <2>1, ReadyShows DEF WalkTo
<1>3. ASSUME NEW p \in Players, LogOut(p) PROVE carried' = carried /\ Same(x)
  <2>1. map'[x] = map[x] \/ map'[x] = SetTimeout(map[x])
    BY <1>0, <1>3 DEF LogOut, Variables
  <2> QED BY <1>3, <1>f, <1>s, <2>1, SetTimeoutShows DEF LogOut
<1>4. ASSUME NEW m \in Maps, Change(m) PROVE carried' = carried /\ Same(x)
  <2>1. CASE x = m
    <3>1. map'[x] = [map[x] EXCEPT !.changed = TRUE] /\ map[x].mem = "memory"
      BY <1>0, <1>4, <2>1 DEF Change, Variables
    <3>2. /\ Fit(map'[x]) /\ map'[x].mem = map[x].mem /\ map'[x].v00 = map[x].v00
          /\ map'[x].lying = map[x].lying
      BY <1>f, <3>1 DEF Fit, Map
    <3> QED BY <1>4, <1>f, <1>s, <3>2, SameShows DEF Change
  <2>2. CASE x # m
    <3>1. map'[x] = map[x] BY <1>0, <1>4, <2>2 DEF Change, Variables
    <3> QED BY <1>4, <1>s, <3>1 DEF Change
  <2> QED BY <2>1, <2>2
<1>5. ASSUME NEW m \in Maps, Touch(m) \/ Look(m) PROVE carried' = carried /\ Same(x)
  <2>1. map'[x] \in {map[x], Ready(x, map[x]), SetTimeout(map[x])}
    BY <1>0, <1>5 DEF Touch, Look, Variables
  <2> QED BY <1>5, <1>f, <1>s, <2>1, ReadyShows, SetTimeoutShows DEF Touch, Look
<1>6. CASE CheckActive
  <2>1. PICK held : map' = [m \in Maps |-> Checked(m, map[m], held)] BY <1>6 DEF CheckActive
  <2> QED BY <1>6, <1>f, <1>s, <2>1, CheckedShows DEF CheckActive
<1>7. CASE FlushOld
  BY <1>7, <1>f, <1>s, FlushedShows DEF FlushOld
<1>8. CASE Second
  <2>1. map[x] \in Map BY <1>f DEF Fit
  <2>2. map'[x] = [map[x] EXCEPT !.due = Countdown(map[x].due)] BY <1>8 DEF Second
  <2>3. map'[x].mem = map[x].mem /\ map'[x].v00 = map[x].v00 /\ map'[x].lying = map[x].lying
    BY <2>1, <2>2 DEF Map
  <2>4. Fit(map'[x]) BY NextInv DEF IInv, AllFit
  <2> QED BY <1>8, <1>f, <1>s, <2>3, <2>4, SameShows DEF Second
<1>9. CASE Shutdown
  <2>1. map'[x] = Recycled(x, map[x]) \/ map'[x] = Discarded(x, map[x])
    BY <1>9 DEF Shutdown
  <2> QED BY <1>9, <1>f, <1>s, <2>1, ShutdownShows DEF Shutdown
<1>10. CASE UNCHANGED vars
  BY <1>s, <1>10 DEF vars
<1> HIDE DEF Same
<1> QED
  BY <1>1, <1>2, <1>3, <1>4, <1>5, <1>6, <1>7, <1>8, <1>9, <1>10 DEF Next, ForceReset

(* An item that is taken or dropped is in one place before and after.      *)
LEMMA StepOnce ==
    ASSUME Fixed = {}, Forced = {}, Vault \in Floors,
           IInv, AllSaved, OnePlace, [Next]_vars
    PROVE  AllSaved' /\ OnePlace'
<1>0. Variables /\ AllFit /\ PlayersInMemory BY DEF IInv
<1>f. \A m \in Maps : Fit(map[m]) BY <1>0 DEF AllFit
<1>p. \A i \in Items : \A x : x \in Places(i)' <=> \/ x \in Players /\ i \in carried'[x]
                                                   \/ x \in Maps /\ i \in Shown(x, map'[x])
  BY DEF Places, Shown
<1>d. Players \cap Maps = {} /\ NULL \notin Maps BY ConstantsAssumption
<1>1. CASE ~\E p \in Players, i \in Items : Take(p, i) \/ Drop(p, i)
  <2>1. /\ carried' = carried
        /\ \A x \in Maps : Shown(x, map'[x]) = Shown(x, map[x]) /\ Saved(x, map'[x])
    BY <1>1, StepShows
  <2>2. \A i \in Items : Places(i)' = Places(i) BY <1>p, <2>1, PlacesShown
  <2> QED BY <2>1, <2>2 DEF AllSaved, OnePlace
<1>2. ASSUME NEW p \in Players, NEW i \in Items, Take(p, i) \/ Drop(p, i)
      PROVE  AllSaved' /\ OnePlace'
  <2> DEFINE m == on[p]
  <2>1. m \in Maps /\ map[m].mem = "memory"
    BY <1>0, <1>2 DEF Take, Drop, Variables, PlayersInMemory
  <2>2. map[m] \in Map /\ map[m].lying \in SUBSET Items BY <1>f, <2>1 DEF Fit, Map
  <2>3. PICK lying : /\ map' = [map EXCEPT ![m].lying = lying]
                     /\ \/ /\ Take(p, i) /\ i \in map[m].lying
                           /\ lying = map[m].lying \ {i}
                           /\ carried' = [carried EXCEPT ![p] = @ \cup {i}]
                        \/ /\ Drop(p, i) /\ i \in carried[p]
                           /\ lying = map[m].lying \cup {i}
                           /\ carried' = [carried EXCEPT ![p] = @ \ {i}]
    BY <1>2, <2>1, <2>2 DEF Take, Drop
  <2>m. /\ map'[m] = [map[m] EXCEPT !.lying = lying]
        /\ \A x \in Maps \ {m} : map'[x] = map[x]
    BY <1>0, <2>1, <2>3 DEF Variables
  <2>4. map'[m].mem = "memory" /\ map'[m].lying = lying BY <2>1, <2>2, <2>m DEF Map
  <2>5. Shown(m, map[m]) = map[m].lying /\ Shown(m, map'[m]) = lying
    BY <2>1, <2>4 DEF Shown, Ready
  <2>6. AllSaved' BY <2>4, <2>m DEF AllSaved, Saved
  <2> HIDE DEF m
  <2>7. ASSUME NEW j \in Items, NEW x, j # i
        PROVE  x \in Places(j)' <=> x \in Places(j)
    <3>1. x \in Players => (j \in carried'[x] <=> j \in carried[x])
      BY <1>0, <2>3, <2>7 DEF Variables
    <3>2. x \in Maps => (j \in Shown(x, map'[x]) <=> j \in Shown(x, map[x]))
      BY <2>3, <2>5, <2>7, <2>m
    <3> QED BY <1>p, <3>1, <3>2, PlacesShown
  <2>8. \E x \in Players \cup Maps : Places(i)' = {x}
    <3>1. PICK y \in Players \cup Maps : Places(i) = {y} BY DEF OnePlace
    <3>2. CASE Take(p, i) /\ i \in map[m].lying /\ lying = map[m].lying \ {i}
               /\ carried' = [carried EXCEPT ![p] = @ \cup {i}]
      <4>1. m \in Places(i) BY <2>1, <2>5, <3>2, PlacesShown
      <4>2. Places(i) = {m} BY <3>1, <4>1
      <4>3. \A x : x \in Places(i)' <=> x = p
        BY <1>0, <1>d, <1>p, <2>1, <2>5, <2>m, <3>2, <4>2, PlacesShown DEF Variables
      <4> QED BY <4>3
    <3>3. CASE Drop(p, i) /\ i \in carried[p] /\ lying = map[m].lying \cup {i}
               /\ carried' = [carried EXCEPT ![p] = @ \ {i}]
      <4>1. p \in Places(i) BY <3>3, PlacesShown
      <4>2. Places(i) = {p} BY <3>1, <4>1
      <4>3. \A x : x \in Places(i)' <=> x = m
        BY <1>0, <1>d, <1>p, <2>1, <2>5, <2>m, <3>3, <4>2, PlacesShown DEF Variables
      <4> QED BY <2>1, <4>3
    <3> QED BY <2>3, <3>2, <3>3
  <2>9. OnePlace'
    <3> SUFFICES ASSUME NEW j \in Items PROVE \E x \in Players \cup Maps : Places(j)' = {x}
      BY DEF OnePlace
    <3>1. CASE j = i BY <2>8, <3>1
    <3>2. CASE j # i
      <4>1. Places(j)' = Places(j) BY <2>7, <3>2
      <4> QED BY <4>1 DEF OnePlace
    <3> QED BY <3>1, <3>2
  <2> QED BY <2>6, <2>9
<1> QED BY <1>1, <1>2

(* Every unique item exists exactly once, with or without the recycling of *)
(* maps: as long as the map that has them has a unique floor, no map is    *)
(* reset by hand and none has a fixed reset time.  Such a reset throws away*)
(* what lies on the map in memory and takes the file of unique items as it *)
(* was; without the floor a vault from which all was taken is saved with no*)
(* file, and its original is shown again.                                  *)
THEOREM ExactlyOnce ==
    ASSUME Fixed = {}, Forced = {}, Vault \in Floors
    PROVE  Spec => []UniqueOnce
<1>1. Init => AllSaved /\ OnePlace BY InitOnce
<1>2. IInv /\ AllSaved /\ OnePlace /\ [Next]_vars => AllSaved' /\ OnePlace' BY StepOnce
<1>3. OnePlace => UniqueOnce
  BY FS_Singleton DEF OnePlace, UniqueOnce
<1> QED BY <1>1, <1>2, <1>3, InitInv, NextInv, PTL DEF Spec
=============================================================================
