-------------------------- MODULE AccountsProofs --------------------------
(***************************************************************************)
(* Proofs about Accounts, for any accounts, characters and connections.    *)
(***************************************************************************)
EXTENDS Accounts, TLAPS

(* What the command that is running has still to write gives the account no
   character without a file and none of another account. *)
StoreSound ==
    storing # NULL =>
        \A n \in storing.file.chars :
            /\ n = touching \/ dat[n] # NULL
            /\ \A a \in Accounts \ {storing.account} : n \notin account[a].chars

(* A version in memory is as new as the file, unless the file is torn. *)
NotOlder(v, file) == file # NULL /\ (file \in Nat => v \in Nat /\ v >= file)

(* What is played, and what is being saved, is as new as its file, and the
   temporary file to be renamed is it, unless a failed write was not noticed. *)
MemoryNewer ==
    /\ \A n \in Names : playing[n] # NULL => NotOlder(live[n], dat[n])
    /\ saving # NULL => /\ NotOlder(saving.state, dat[saving.name])
                        /\ playing[saving.name] # NULL => live[saving.name] = saving.state
    /\ written => /\ saving # NULL
                  /\ \/ tmp[saving.name] = saving.state
                     \/ unnoticed /\ tmp[saving.name] = Torn
    /\ unnoticed => written
    /\ touching # NULL => dat[touching] = NULL

(* A connection that plays is logged in to an account, and plays one character. *)
Seats ==
    \A n \in Names : playing[n] # NULL =>
        /\ session[playing[n]] # NULL
        /\ \A m \in Names : playing[m] = playing[n] => m = n

IInv == TypeOK /\ ListedHaveFile /\ OneOwner /\ StoreSound /\ MemoryNewer /\ Seats

LEMMA FileType ==
    ASSUME NEW p \in Passwords \cup {Blank}, NEW chars \in SUBSET Names
    PROVE  File(p, chars) \in Files /\ File(p, chars).chars = chars
BY DEF File, Files

LEMMA InitIInv == Init => IInv
<1>1. \A p \in Passwords : OldFile(p) \in Files /\ OldFile(p).chars = {}
  BY DEF OldFile, File, Files
<1>2. NoFile \in Files /\ NoFile.chars = {}
  BY DEF NoFile, Files
<1>3. ASSUME Init PROVE IInv
  <2>1. \A a \in Accounts : account[a] \in Files /\ account[a].chars = {}
    BY <1>1, <1>2, <1>3 DEF Init
  <2>2. account \in [Accounts -> Files] /\ 0 \in Versions
    BY <1>1, <1>2, <1>3, ConstantsAssumption DEF Init, Versions
  <2>3. TypeOK
    BY <1>3, <2>2 DEF Init, TypeOK
  <2> QED
    BY <1>3, <2>1, <2>3 DEF Init, IInv, ListedHaveFile, OneOwner, StoreSound, MemoryNewer,
                            Seats
<1> QED
  BY <1>3

---------------------------------------------------------------------------
(* Commands                                                                *)

(* A command that has an account to write, with the characters it has. *)
LEMMA StoreStep ==
    ASSUME IInv, Idle, NEW a \in Accounts, NEW p \in Passwords \cup {Blank},
           NEW chars \in SUBSET Names,
           NEW sets \in BOOLEAN, NEW owner \in Clients \cup {NULL},
           Store(a, p, chars, sets, owner)
    PROVE  /\ storing' \in Stores
           /\ storing'.account = a /\ storing'.file.chars = chars
BY FileType DEF Store, Stores

LEMMA LoadType ==
    ASSUME IInv, NEW a \in Accounts
    PROVE  /\ Load(a).pass \in Passwords \cup {Blank}
           /\ Load(a).chars = account[a].chars /\ Load(a).chars \in SUBSET Names
BY DEF Load, IInv, TypeOK, Files

(* A command that adds no character and changes no file by itself. *)
LEMMA CommandStep ==
    ASSUME IInv, Idle,
           UNCHANGED account, UNCHANGED dat, UNCHANGED tmp, UNCHANGED touching,
           UNCHANGED history,
           session' \in [Clients -> Accounts \cup {NULL}],
           playing' \in [Names -> Clients \cup {NULL}],
           live' \in [Names -> Versions \cup {Torn}],
           saving' \in Saves \cup {NULL}, written' = FALSE,
           storing' \in Stores \cup {NULL},
           storing' # NULL => storing'.file.chars \subseteq account[storing'.account].chars,
           \A n \in Names : playing'[n] # NULL => NotOlder(live'[n], dat[n]),
           saving' # NULL => /\ NotOlder(saving'.state, dat[saving'.name])
                             /\ playing'[saving'.name] # NULL =>
                                    live'[saving'.name] = saving'.state,
           Seats'
    PROVE  IInv'
<1>1. TypeOK'
  BY DEF IInv, TypeOK, history
<1>2. ListedHaveFile' /\ OneOwner'
  BY DEF IInv, ListedHaveFile, OneOwner
<1>3. StoreSound'
  BY DEF IInv, StoreSound, Stores, ListedHaveFile, OneOwner
<1>4. MemoryNewer'
  BY DEF IInv, MemoryNewer, Idle, history
<1> QED
  BY <1>1, <1>2, <1>3, <1>4 DEF IInv

LEMMA RegisterStep ==
    ASSUME IInv, NEW c \in Clients, NEW a \in Accounts, NEW p \in Passwords, Register(c, a, p)
    PROVE  IInv'
<1>1. storing' \in Stores /\ storing'.file.chars = {} /\ Idle
  BY StoreStep DEF Register
<1> QED
  BY <1>1, CommandStep DEF Register, IInv, TypeOK, MemoryNewer, Seats, Idle

LEMMA LoginStep ==
    ASSUME IInv, NEW c \in Clients, NEW a \in Accounts, NEW p \in Passwords, Login(c, a, p)
    PROVE  IInv'
<1> DEFINE pass == IF account[a].old THEN p ELSE Load(a).pass
<1>1. pass \in Passwords \cup {Blank} /\ account[a].old \in BOOLEAN
  BY LoadType DEF IInv, TypeOK, Files
<1>2. Store(a, pass, Load(a).chars, account[a].old, NULL) /\ Idle
  BY DEF Login
<1> HIDE DEF pass
<1>3. storing' \in Stores /\ storing'.account = a /\ storing'.file.chars = account[a].chars
  BY <1>1, <1>2, LoadType, StoreStep
<1>4. session' \in [Clients -> Accounts \cup {NULL}]
  BY DEF Login, IInv, TypeOK
<1> QED
  BY <1>2, <1>3, <1>4, CommandStep DEF Login, IInv, TypeOK, MemoryNewer, Seats, Idle

LEMMA SetPasswordStep ==
    ASSUME IInv, NEW a \in Accounts, NEW p \in Passwords, SetPassword(a, p)
    PROVE  IInv'
<1>1. storing' \in Stores /\ storing'.account = a /\ storing'.file.chars = account[a].chars
      /\ Idle
  BY LoadType, StoreStep DEF SetPassword
<1> QED
  BY <1>1, CommandStep DEF SetPassword, IInv, TypeOK, MemoryNewer, Seats, Idle

LEMMA NewCharStep ==
    ASSUME IInv, NEW c \in Clients, NEW n \in Names, NewChar(c, n)
    PROVE  IInv'
<1> DEFINE a == session[c]
<1>1. /\ a \in Accounts /\ Idle /\ dat[n] = NULL /\ touching' = n
      /\ Store(a, Load(a).pass, Load(a).chars \cup {n}, FALSE, NULL)
      /\ UNCHANGED account /\ UNCHANGED dat /\ UNCHANGED tmp /\ UNCHANGED session
      /\ UNCHANGED playing /\ UNCHANGED live /\ UNCHANGED saving /\ UNCHANGED written
      /\ UNCHANGED cut /\ UNCHANGED missed /\ UNCHANGED unnoticed
  BY DEF NewChar, IInv, TypeOK, history
<1> HIDE DEF a
<1>2. /\ storing' \in Stores /\ storing'.account = a
      /\ storing'.file.chars = account[a].chars \cup {n}
  <2>1. Load(a).chars \cup {n} \in SUBSET Names
    BY <1>1, LoadType
  <2>2. Load(a).pass \in Passwords \cup {Blank} /\ Load(a).chars = account[a].chars
    BY <1>1, LoadType
  <2> DEFINE chars == Load(a).chars \cup {n}
             pass == Load(a).pass
  <2>3. Store(a, pass, chars, FALSE, NULL)
    BY <1>1
  <2>4. chars = account[a].chars \cup {n}
    BY <2>2
  <2> HIDE DEF chars, pass
  <2>5. chars \in SUBSET Names /\ pass \in Passwords \cup {Blank}
    BY <2>1, <2>2 DEF chars, pass
  <2> QED
    BY <1>1, <2>3, <2>4, <2>5, StoreStep
<1>3. \A b \in Accounts : n \notin account[b].chars
  BY <1>1 DEF IInv, ListedHaveFile
<1>4. TypeOK'
  BY <1>1, <1>2 DEF IInv, TypeOK
<1>5. ListedHaveFile' /\ OneOwner'
  BY <1>1 DEF IInv, ListedHaveFile, OneOwner
<1>6. StoreSound'
  BY <1>1, <1>2, <1>3 DEF IInv, StoreSound, ListedHaveFile, OneOwner
<1>7. MemoryNewer' /\ Seats'
  BY <1>1 DEF IInv, MemoryNewer, Seats, Idle
<1> QED
  BY <1>4, <1>5, <1>6, <1>7 DEF IInv

(* A save is of the character that is played. *)
LEMMA SaveType ==
    ASSUME IInv, NEW n \in Names, playing[n] # NULL
    PROVE  /\ Save(n) \in Saves
           /\ NotOlder(Save(n).state, dat[Save(n).name])
           /\ Save(n).name = n /\ Save(n).state = live[n]
BY DEF Save, Saves, IInv, TypeOK, MemoryNewer

LEMMA PlayingStep ==
    ASSUME IInv, NEW n \in Names,
           \/ Play(n) \/ Autosave(n)
           \/ \E c \in Clients : LoginChar(c, n)
    PROVE  IInv'
<1>1. CASE Play(n)
  <2>1. live[n] \in Nat /\ live[n] + 1 \in Versions /\ NotOlder(live[n], dat[n])
    BY <1>1, ConstantsAssumption DEF Play, IInv, TypeOK, MemoryNewer, Versions
  <2>2. live' \in [Names -> Versions \cup {Torn}] /\ NotOlder(live'[n], dat[n])
        /\ \A m \in Names \ {n} : live'[m] = live[m]
    BY <1>1, <2>1 DEF Play, IInv, TypeOK, NotOlder
  <2>3. /\ Idle /\ UNCHANGED account /\ UNCHANGED dat /\ UNCHANGED tmp
        /\ UNCHANGED session /\ UNCHANGED playing /\ UNCHANGED touching
        /\ UNCHANGED saving /\ UNCHANGED written /\ UNCHANGED storing
        /\ UNCHANGED history
    BY <1>1 DEF Play, todo
  <2> QED
    BY <2>2, <2>3, CommandStep DEF IInv, TypeOK, MemoryNewer, Seats, Idle
<1>2. CASE Autosave(n)
  <2>1. /\ Idle /\ playing[n] # NULL /\ saving' = Save(n) /\ written' = FALSE
        /\ UNCHANGED account /\ UNCHANGED dat /\ UNCHANGED tmp /\ UNCHANGED session
        /\ UNCHANGED playing /\ UNCHANGED live /\ UNCHANGED touching
        /\ UNCHANGED storing /\ UNCHANGED history
    BY <1>2 DEF Autosave
  <2>2. /\ saving' \in Saves /\ NotOlder(saving'.state, dat[saving'.name])
        /\ live'[saving'.name] = saving'.state
    BY <2>1, SaveType
  <2> QED
    BY <2>1, <2>2, CommandStep DEF IInv, TypeOK, MemoryNewer, Seats, Idle
<1>3. ASSUME NEW c \in Clients, LoginChar(c, n) PROVE IInv'
  <2>1. PICK v \in Loaded(dat[n]) : live' = [live EXCEPT ![n] = v]
    BY <1>3 DEF LoginChar
  <2>2. v \in Versions \cup {Torn} /\ NotOlder(v, dat[n])
    BY <1>3, <2>1, ConstantsAssumption DEF LoginChar, Loaded, IInv, TypeOK, NotOlder, Versions
  <2>3. /\ live' \in [Names -> Versions \cup {Torn}] /\ NotOlder(live'[n], dat[n])
        /\ playing' \in [Names -> Clients \cup {NULL}]
        /\ \A m \in Names \ {n} : live'[m] = live[m] /\ playing'[m] = playing[m]
    BY <1>3, <2>1, <2>2 DEF LoginChar, IInv, TypeOK
  <2>4. /\ Idle /\ session[c] # NULL /\ \A m \in Names : playing[m] # c
        /\ playing' = [playing EXCEPT ![n] = c]
        /\ UNCHANGED account /\ UNCHANGED dat /\ UNCHANGED tmp /\ UNCHANGED session
        /\ UNCHANGED touching /\ UNCHANGED saving /\ UNCHANGED written
        /\ UNCHANGED storing /\ UNCHANGED history
    BY <1>3 DEF LoginChar, todo
  <2>5. Seats'
    BY <2>4 DEF IInv, TypeOK, Seats
  <2>6. \A m \in Names : playing'[m] # NULL => NotOlder(live'[m], dat[m])
    BY <2>3 DEF IInv, MemoryNewer
  <2> QED
    BY <2>3, <2>4, <2>5, <2>6, CommandStep DEF IInv, TypeOK, MemoryNewer, Idle
<1> QED
  BY <1>1, <1>2, <1>3

LEMMA LogoutCharStep ==
    ASSUME IInv, NEW n \in Names, LogoutChar(n)
    PROVE  IInv'
<1> DEFINE a == session[playing[n]]
<1>1. /\ Idle /\ playing[n] \in Clients /\ playing[n] # NULL
      /\ saving' \in {Save(n), NULL} /\ written' = FALSE
      /\ playing' = [playing EXCEPT ![n] = NULL] /\ live' = [live EXCEPT ![n] = 0]
      /\ session' = [session EXCEPT ![playing[n]] = NULL]
      /\ UNCHANGED account /\ UNCHANGED dat /\ UNCHANGED tmp
      /\ UNCHANGED touching /\ UNCHANGED history
      /\ a \in Accounts \cup {NULL}
      /\ Store(a, Load(a).pass, Load(a).chars, FALSE, NULL) \/ UNCHANGED storing
  BY DEF LogoutChar, IInv, TypeOK
<1>2. a \in Accounts
  BY <1>1 DEF IInv, Seats, a
<1> HIDE DEF a
<1>3. /\ storing' \in Stores \cup {NULL}
      /\ storing' # NULL => storing'.file.chars \subseteq account[storing'.account].chars
  <2>1. CASE UNCHANGED storing
    BY <1>1, <2>1 DEF Idle
  <2>2. CASE Store(a, Load(a).pass, Load(a).chars, FALSE, NULL)
    <3>1. /\ Load(a).pass \in Passwords \cup {Blank} /\ Load(a).chars \in SUBSET Names
          /\ Load(a).chars = account[a].chars
      BY <1>2, LoadType
    <3>2. /\ storing' \in Stores /\ storing'.account = a
          /\ storing'.file.chars = Load(a).chars
      BY <1>1, <1>2, <2>2, <3>1, StoreStep
    <3> QED BY <3>1, <3>2
  <2> QED BY <1>1, <2>1, <2>2
<1>4. /\ playing' \in [Names -> Clients \cup {NULL}]
      /\ session' \in [Clients -> Accounts \cup {NULL}]
      /\ \A m \in Names : playing'[m] # NULL => /\ m # n /\ playing'[m] = playing[m]
                                                /\ live'[m] = live[m]
  BY <1>1 DEF IInv, TypeOK
<1>5. Seats'
  BY <1>1, <1>4 DEF IInv, TypeOK, Seats
<1>6. \A m \in Names : playing'[m] # NULL => NotOlder(live'[m], dat[m])
  BY <1>1, <1>4 DEF IInv, MemoryNewer
<1>7. /\ saving' # NULL => /\ NotOlder(saving'.state, dat[saving'.name])
                           /\ playing'[saving'.name] = NULL
      /\ saving' \in Saves \cup {NULL}
  BY <1>1, SaveType DEF IInv, TypeOK
<1>8. live' \in [Names -> Versions \cup {Torn}]
  BY <1>1, ConstantsAssumption DEF IInv, TypeOK, Versions
<1> QED
  BY <1>1, <1>3, <1>4, <1>5, <1>6, <1>7, <1>8, CommandStep

LEMMA DisconnectStep ==
    ASSUME IInv, NEW c \in Clients, Disconnect(c)
    PROVE  IInv'
BY CommandStep DEF Disconnect, IInv, TypeOK, MemoryNewer, Seats, Idle, todo

---------------------------------------------------------------------------
(* File operations                                                         *)

LEMMA TouchPlayerStep ==
    ASSUME IInv, TouchPlayer
    PROVE  IInv'
<1>1. /\ touching \in Names /\ touching' = NULL /\ dat[touching] = NULL /\ 0 \in Versions
      /\ UNCHANGED <<account, tmp, session, playing, live, saving, written, cut, missed,
                     unnoticed>>
  BY ConstantsAssumption DEF TouchPlayer, IInv, TypeOK, MemoryNewer, Versions, history
<1>2. \/ dat' = [dat EXCEPT ![touching] = 0] /\ UNCHANGED storing
      \/ UNCHANGED dat /\ storing' = NULL
  BY DEF TouchPlayer
<1>3. /\ dat' \in [Names -> Versions \cup {NULL, Torn}]
      /\ \A n \in Names : n # touching => dat'[n] = dat[n]
  BY <1>1, <1>2 DEF IInv, TypeOK
<1>4. TypeOK'
  BY <1>1, <1>2, <1>3 DEF IInv, TypeOK
<1>5. ListedHaveFile' /\ OneOwner'
  BY <1>1, <1>3 DEF IInv, TypeOK, Files, ListedHaveFile, OneOwner
<1>6. StoreSound'
  <2>1. CASE storing' = NULL
    BY <2>1 DEF StoreSound
  <2>2. CASE dat' = [dat EXCEPT ![touching] = 0] /\ UNCHANGED storing
    <3>1. dat'[touching] # NULL
      BY <1>1, <2>2, ConstantsAssumption DEF IInv, TypeOK
    <3> QED
      BY <1>1, <1>3, <2>2, <3>1 DEF IInv, TypeOK, Stores, Files, StoreSound
  <2> QED
    BY <1>2, <2>1, <2>2
<1>7. /\ \A n \in Names : NotOlder(live[n], dat[n]) => dat'[n] = dat[n]
      /\ saving # NULL => dat'[saving.name] = dat[saving.name]
  <2>1. saving # NULL => saving.name # touching
    BY <1>1 DEF IInv, MemoryNewer, NotOlder
  <2> QED BY <1>1, <1>3, <2>1 DEF NotOlder, IInv, TypeOK, Saves
<1>8. MemoryNewer' /\ Seats'
  BY <1>1, <1>3, <1>7 DEF IInv, TypeOK, MemoryNewer, Seats
<1> QED
  BY <1>4, <1>5, <1>6, <1>8 DEF IInv

LEMMA WritePlayerStep ==
    ASSUME IInv, WritePlayer
    PROVE  IInv'
<1>1. /\ saving \in Saves /\ saving # NULL /\ ~written
      /\ saving.name \in Names /\ saving.state \in Versions \cup {Torn}
      /\ UNCHANGED <<account, dat, session, playing, live, touching, storing, cut, missed>>
  BY DEF WritePlayer, IInv, TypeOK, Saves
<1>2. \/ /\ tmp' = [tmp EXCEPT ![saving.name] = saving.state] /\ unnoticed' = FALSE
         /\ written' = TRUE /\ UNCHANGED saving
      \/ /\ tmp' = [tmp EXCEPT ![saving.name] = Torn] /\ unnoticed' = TRUE
         /\ written' = TRUE /\ UNCHANGED saving
      \/ /\ tmp' \in {tmp, [tmp EXCEPT ![saving.name] = NULL]}
         /\ saving' = NULL /\ UNCHANGED <<written, unnoticed>>
  BY DEF WritePlayer
<1>3. TypeOK'
  BY <1>1, <1>2 DEF IInv, TypeOK
<1>4. ListedHaveFile' /\ OneOwner' /\ StoreSound' /\ Seats'
  BY <1>1 DEF IInv, ListedHaveFile, OneOwner, StoreSound, Seats
<1>5. MemoryNewer'
  BY <1>1, <1>2 DEF IInv, TypeOK, MemoryNewer
<1> QED
  BY <1>3, <1>4, <1>5 DEF IInv

(* A rename puts what was saved in the place of the file, or a torn one. *)
LEMMA RenameFacts ==
    ASSUME IInv, RenamePlayer
    PROVE  /\ saving # NULL /\ saving.name \in Names
           /\ saving.state \in Versions \cup {Torn}
           /\ NotOlder(saving.state, dat[saving.name])
           /\ \/ tmp[saving.name] = saving.state
              \/ unnoticed /\ tmp[saving.name] = Torn
           /\ \A n \in Names \ {saving.name} : dat'[n] = dat[n]
           /\ dat'[saving.name] \in {dat[saving.name], tmp[saving.name]}
           /\ dat' \in [Names -> Versions \cup {NULL, Torn}]
           /\ tmp[saving.name] # NULL
<1>1. /\ saving # NULL /\ saving.name \in Names
      /\ saving.state \in Versions \cup {Torn}
      /\ NotOlder(saving.state, dat[saving.name])
      /\ \/ tmp[saving.name] = saving.state
         \/ unnoticed /\ tmp[saving.name] = Torn
  BY DEF RenamePlayer, IInv, TypeOK, Saves, MemoryNewer
<1>2. tmp[saving.name] \in Versions \cup {Torn} /\ tmp[saving.name] # NULL
  BY <1>1, ConstantsAssumption DEF Versions
<1>3. dat' \in {dat, [dat EXCEPT ![saving.name] = tmp[saving.name]]}
  BY DEF RenamePlayer
<1> QED
  BY <1>1, <1>2, <1>3 DEF IInv, TypeOK

LEMMA RenamePlayerStep ==
    ASSUME IInv, RenamePlayer
    PROVE  IInv'
<1>1. /\ saving' = NULL /\ written' = FALSE /\ unnoticed' = FALSE
      /\ tmp' = [tmp EXCEPT ![saving.name] = NULL]
      /\ UNCHANGED <<account, session, playing, live, touching, storing, cut, missed>>
      /\ touching # NULL => dat[touching] = NULL
      /\ \A n \in Names : playing[n] # NULL => NotOlder(live[n], dat[n])
      /\ playing[saving.name] # NULL => live[saving.name] = saving.state
  BY RenameFacts, ConstantsAssumption DEF RenamePlayer, IInv, MemoryNewer, NotOlder
<1>2. /\ \A n \in Names : dat[n] # NULL => dat'[n] # NULL
      /\ \A n \in Names : dat[n] = NULL => dat'[n] = NULL
      /\ dat' \in [Names -> Versions \cup {NULL, Torn}]
  BY RenameFacts DEF NotOlder
<1>3. TypeOK'
  BY <1>1, <1>2 DEF IInv, TypeOK
<1>4. ListedHaveFile' /\ OneOwner'
  BY <1>1, <1>2 DEF IInv, TypeOK, Files, ListedHaveFile, OneOwner
<1>5. StoreSound'
  BY <1>1, <1>2 DEF IInv, TypeOK, Stores, Files, StoreSound
<1>6. Seats'
  BY <1>1 DEF IInv, Seats
<1>7. \A n \in Names : playing[n] # NULL => NotOlder(live[n], dat'[n])
  <2> SUFFICES ASSUME NEW n \in Names, playing[n] # NULL
               PROVE  NotOlder(live[n], dat'[n])
    OBVIOUS
  <2>1. CASE dat'[n] = dat[n]
    BY <1>1, <2>1
  <2>2. CASE n = saving.name /\ dat'[n] = saving.state
    <3>1. live[n] = saving.state /\ saving.state # NULL
          /\ saving.state \in Versions \cup {Torn}
      BY <1>1, <2>2, RenameFacts, ConstantsAssumption DEF Versions
    <3> QED BY <2>2, <3>1, ConstantsAssumption DEF NotOlder, Versions
  <2>3. CASE dat'[n] = Torn
    BY <2>3, ConstantsAssumption DEF NotOlder
  <2> QED BY <2>1, <2>2, <2>3, RenameFacts
<1>8. MemoryNewer'
  BY <1>1, <1>2, <1>7 DEF IInv, TypeOK, MemoryNewer
<1> QED
  BY <1>3, <1>4, <1>5, <1>6, <1>8 DEF IInv

(* What can be left of an account file has no character that the file has not. *)
LEMMA CutShortType ==
    ASSUME NEW f \in Files, NEW g \in CutShort(f)
    PROVE  g \in Files /\ g.chars \subseteq f.chars
<1>1. CASE g = File(Blank, {})
  BY <1>1, FileType
<1>2. ASSUME NEW chars \in SUBSET f.chars, g = File(f.pass, chars)
      PROVE  g \in Files /\ g.chars \subseteq f.chars
  <2>1. chars \in SUBSET Names /\ f.pass \in Passwords \cup {Blank}
    BY DEF Files
  <2> QED
    BY <1>2, <2>1, FileType
<1> QED
  BY <1>1, <1>2 DEF CutShort

(* An account file that gets no more characters than the command meant it to
   have keeps what holds of all accounts. *)
LEMMA AccountWritten ==
    ASSUME IInv, storing # NULL, touching = NULL, NEW f \in Files,
           f.chars \subseteq storing.file.chars,
           account' = [account EXCEPT ![storing.account] = f], UNCHANGED dat
    PROVE  account' \in [Accounts -> Files] /\ ListedHaveFile' /\ OneOwner'
<1>1. /\ storing.account \in Accounts
      /\ storing.file.chars \subseteq Names /\ NULL \notin Names
  BY ConstantsAssumption DEF IInv, TypeOK, Stores, Files
<1>2. \A n \in f.chars : /\ dat[n] # NULL
                         /\ \A a \in Accounts \ {storing.account} : n \notin account[a].chars
  BY <1>1 DEF IInv, StoreSound
<1>3. /\ account' \in [Accounts -> Files] /\ account'[storing.account] = f
      /\ \A a \in Accounts : a # storing.account => account'[a] = account[a]
  BY <1>1 DEF IInv, TypeOK
<1>4. ListedHaveFile'
  BY <1>2, <1>3 DEF IInv, ListedHaveFile
<1>5. OneOwner'
  BY <1>2, <1>3 DEF IInv, OneOwner
<1> QED
  BY <1>3, <1>4, <1>5

LEMMA WriteAccountStep ==
    ASSUME IInv, WriteAccount \/ CannotWriteAccount
    PROVE  IInv'
<1>1. /\ storing \in Stores /\ storing.file \in Files /\ storing.account \in Accounts
      /\ storing # NULL /\ touching = NULL /\ saving = NULL /\ storing' = NULL
      /\ UNCHANGED <<dat, tmp, playing, live, touching, saving, written>>
  BY DEF WriteAccount, CannotWriteAccount, IInv, TypeOK, Stores
<1>2. /\ session' \in [Clients -> Accounts \cup {NULL}]
      /\ \A c \in Clients : session[c] # NULL => session'[c] # NULL
      /\ cut' \subseteq Accounts /\ missed' \subseteq Accounts /\ UNCHANGED unnoticed
  <2>1. \/ session' = session
        \/ /\ storing.owner # NULL
           /\ session' = [session EXCEPT ![storing.owner] = storing.account]
    BY DEF WriteAccount, CannotWriteAccount
  <2>2. storing.owner \in Clients \cup {NULL} /\ NULL # storing.account
    BY <1>1, ConstantsAssumption DEF Stores
  <2> QED
    BY <1>1, <2>1, <2>2 DEF WriteAccount, CannotWriteAccount, IInv, TypeOK
<1>3. account' \in [Accounts -> Files] /\ ListedHaveFile' /\ OneOwner'
  <2>1. CASE UNCHANGED account
    BY <1>1, <2>1 DEF IInv, TypeOK, ListedHaveFile, OneOwner
  <2>2. ASSUME NEW f \in CutShort(storing.file) \cup {storing.file},
               account' = [account EXCEPT ![storing.account] = f]
        PROVE  account' \in [Accounts -> Files] /\ ListedHaveFile' /\ OneOwner'
    <3>1. f \in Files /\ f.chars \subseteq storing.file.chars
      BY <1>1, <2>2, CutShortType
    <3> QED
      BY <1>1, <2>2, <3>1, AccountWritten
  <2> QED
    BY <2>1, <2>2 DEF WriteAccount, CannotWriteAccount
<1>4. TypeOK'
  BY <1>1, <1>2, <1>3 DEF IInv, TypeOK
<1>5. StoreSound' /\ MemoryNewer' /\ Seats'
  BY <1>1, <1>2 DEF IInv, TypeOK, StoreSound, MemoryNewer, Seats
<1> QED
  BY <1>3, <1>4, <1>5 DEF IInv

LEMMA CrashStep ==
    ASSUME IInv, Crash
    PROVE  IInv'
<1>1. /\ session' = [c \in Clients |-> NULL]
      /\ playing' = [n \in Names |-> NULL] /\ live' = [n \in Names |-> 0]
      /\ touching' = NULL /\ saving' = NULL /\ written' = FALSE /\ storing' = NULL
      /\ unnoticed' = FALSE /\ missed' = {}
      /\ UNCHANGED dat /\ 0 \in Versions
  BY ConstantsAssumption DEF Crash, Versions
<1>2. tmp' \in [Names -> Versions \cup {NULL, Torn}] /\ cut' \subseteq Accounts
  BY DEF Crash, IInv, TypeOK, Stores, Saves
<1>3. account' \in [Accounts -> Files] /\ ListedHaveFile' /\ OneOwner'
  <2>1. CASE UNCHANGED account
    BY <1>1, <2>1 DEF IInv, TypeOK, ListedHaveFile, OneOwner
  <2>2. ASSUME storing # NULL, touching = NULL, NEW f \in CutShort(storing.file),
               account' = [account EXCEPT ![storing.account] = f]
        PROVE  account' \in [Accounts -> Files] /\ ListedHaveFile' /\ OneOwner'
    <3>1. f \in Files /\ f.chars \subseteq storing.file.chars
      BY <2>2, CutShortType DEF IInv, TypeOK, Stores
    <3> QED
      BY <1>1, <2>2, <3>1, AccountWritten
  <2> QED
    BY <2>1, <2>2 DEF Crash
<1>4. TypeOK'
  BY <1>1, <1>2, <1>3 DEF IInv, TypeOK
<1>5. StoreSound' /\ MemoryNewer' /\ Seats'
  BY <1>1 DEF StoreSound, MemoryNewer, Seats
<1> QED
  BY <1>3, <1>4, <1>5 DEF IInv

LEMMA NextIInv ==
    ASSUME IInv, [Next]_vars
    PROVE  IInv'
<1>1. CASE UNCHANGED vars
  BY <1>1 DEF IInv, TypeOK, ListedHaveFile, OneOwner, StoreSound, MemoryNewer, Seats,
              vars, todo, history
<1>2. CASE Next
  BY <1>2, RegisterStep, LoginStep, NewCharStep, PlayingStep, SetPasswordStep,
     LogoutCharStep, DisconnectStep, TouchPlayerStep, WritePlayerStep, RenamePlayerStep,
     WriteAccountStep, CrashStep DEF Next
<1> QED
  BY <1>1, <1>2

---------------------------------------------------------------------------
(* Files of characters only become newer                                   *)

LEMMA SameNotOlder ==
    ASSUME TypeOK, UNCHANGED dat
    PROVE  OnlyNewer
BY ConstantsAssumption DEF OnlyNewer, TypeOK, Versions

LEMMA NextOnlyNewer ==
    ASSUME IInv, [Next]_vars
    PROVE  [OnlyNewer]_vars
<1>1. TypeOK
  BY DEF IInv
<1>2. CASE TouchPlayer
  <2>1. touching \in Names /\ dat[touching] = NULL
    BY <1>2 DEF TouchPlayer, IInv, TypeOK, MemoryNewer
  <2>2. CASE UNCHANGED dat
    BY <1>1, <2>2, SameNotOlder
  <2>3. CASE dat' = [dat EXCEPT ![touching] = 0]
    <3>1. \A n \in Names : dat'[n] = dat[n] \/ (dat[n] = NULL /\ dat'[n] = 0)
      <4>1. dat \in [Names -> Versions \cup {NULL, Torn}]
        BY <1>1 DEF TypeOK
      <4> QED BY <2>1, <2>3, <4>1
    <3>2. ASSUME NEW n \in Names
          PROVE  /\ dat[n] # NULL => dat'[n] # NULL
                 /\ dat[n] \in Nat /\ dat'[n] \in Nat => dat'[n] >= dat[n]
                 /\ dat'[n] = Torn => dat[n] = Torn \/ SpoiledSave(n)
      BY <3>1, ConstantsAssumption
    <3> QED
      BY <3>2 DEF OnlyNewer
  <2> QED
    BY <1>2, <2>2, <2>3 DEF TouchPlayer
<1>3. CASE RenamePlayer
  <2>1. ASSUME NEW n \in Names
        PROVE  /\ dat[n] # NULL => dat'[n] # NULL
               /\ dat[n] \in Nat /\ dat'[n] \in Nat => dat'[n] >= dat[n]
               /\ dat'[n] = Torn => dat[n] = Torn \/ SpoiledSave(n)
    <3>1. CASE dat'[n] = dat[n]
      BY <1>1, <3>1, ConstantsAssumption DEF TypeOK, Versions
    <3>2. CASE n = saving.name /\ dat'[n] = tmp[n] /\ tmp[n] = saving.state
      <4>1. tmp[n] = Torn => dat[n] = Torn
        BY <1>1, <1>3, <3>2, RenameFacts, ConstantsAssumption DEF NotOlder, TypeOK, Versions
      <4> QED BY <1>3, <3>2, <4>1, RenameFacts DEF NotOlder
    <3>3. CASE n = saving.name /\ dat'[n] = tmp[n] /\ unnoticed /\ tmp[n] = Torn
      BY <1>3, <3>3, RenameFacts, ConstantsAssumption DEF SpoiledSave
    <3> QED
      BY <1>3, <3>1, <3>2, <3>3, RenameFacts
  <2> QED
    BY <2>1 DEF OnlyNewer
<1>4. CASE Next /\ ~TouchPlayer /\ ~RenamePlayer
  <2>1. UNCHANGED dat
    BY <1>4 DEF Next, Register, Login, NewChar, LoginChar, SetPassword, Play, Autosave,
                LogoutChar, Disconnect, WritePlayer, WriteAccount, CannotWriteAccount, Crash
  <2> QED
    BY <1>1, <2>1, SameNotOlder
<1> QED
  BY <1>2, <1>3, <1>4

---------------------------------------------------------------------------
(* What an account holds is kept                                           *)

(* The command that is running has a new password for the account. *)
Replacing(a) == storing # NULL /\ storing.account = a /\ storing.sets

(* Who is logged in to an account in the old format has replaced its password, or
   is about to, or has missed to. *)
Remembered ==
    \A c \in Clients : session[c] # NULL /\ account[session[c]].old =>
        session[c] \in missed \/ Replacing(session[c])

(* What the command that is running has still to write has all characters of
   the account, and its password unless the command sets one or it was missed. An
   account that does not exist has no characters. *)
NothingDropped ==
    /\ \A a \in Accounts : account[a].exists \/ account[a].chars = {}
    /\ storing # NULL =>
          /\ storing.file.exists /\ ~storing.file.old
          /\ account[storing.account].chars \subseteq storing.file.chars
          /\ \/ storing.sets
             \/ account[storing.account].old /\ storing.account \in missed
             \/ storing.file.pass = account[storing.account].pass
    /\ touching # NULL => storing # NULL /\ ~storing.sets
    /\ Remembered

(* What AccountKept says of one account *)
Kept(a) ==
    a \notin cut' =>
        /\ account[a].chars \subseteq account'[a].chars
        /\ \/ account'[a].pass = account[a].pass
           \/ storing # NULL /\ storing.account = a /\ storing.sets
           \/ account[a].old /\ a \in missed

LEMMA InitNothingDropped == Init => NothingDropped
<1>1. \A p \in Passwords : OldFile(p).chars = {}
  BY DEF OldFile, File
<1>2. NoFile.chars = {}
  BY DEF NoFile
<1> QED
  BY <1>1, <1>2 DEF Init, NothingDropped, Remembered

(* A command that starts, and changes no account file yet. *)
LEMMA CommandKeeps ==
    ASSUME NothingDropped, Idle, UNCHANGED account, UNCHANGED missed,
           \A c \in Clients : session'[c] # NULL =>
               \/ session'[c] = session[c] \/ ~account[session'[c]].old
               \/ Replacing(session[c])',
           touching' # NULL => storing' # NULL /\ ~storing'.sets,
           \/ UNCHANGED storing
           \/ \E a, pass, chars, sets, owner :
                 /\ a \in Accounts
                 /\ Store(a, pass, chars, sets, owner)
                 /\ account[a].chars \subseteq chars
                 /\ sets \/ (account[a].old /\ a \in missed) \/ pass = account[a].pass
    PROVE  NothingDropped' /\ \A a \in Accounts : Kept(a)
<1>1. \A a \in Accounts : Kept(a)
  BY DEF Kept
<1>2. Remembered'
  BY DEF NothingDropped, Remembered, Replacing, Idle
<1>3. CASE UNCHANGED storing
  BY <1>1, <1>2, <1>3 DEF NothingDropped
<1>4. ASSUME NEW a \in Accounts, NEW pass, NEW chars, NEW sets, NEW owner,
             Store(a, pass, chars, sets, owner), account[a].chars \subseteq chars,
             sets \/ (account[a].old /\ a \in missed) \/ pass = account[a].pass
      PROVE  NothingDropped'
  <2>1. /\ storing'.account = a /\ storing'.sets = sets /\ storing'.file = File(pass, chars)
    BY <1>4 DEF Store
  <2>2. File(pass, chars).exists /\ File(pass, chars).chars = chars
        /\ File(pass, chars).pass = pass /\ ~File(pass, chars).old
    BY DEF File
  <2> QED
    BY <1>2, <1>4, <2>1, <2>2 DEF NothingDropped
<1> QED
  BY <1>1, <1>3, <1>4

(* Steps with the files of characters; a new character that could not be reserved
   is not written to its account. *)
LEMMA PlayerFileKeeps ==
    ASSUME NothingDropped, UNCHANGED <<account, missed, session>>,
           \/ UNCHANGED storing /\ touching' \in {touching, NULL}
           \/ touching # NULL /\ touching' = NULL /\ storing' = NULL
    PROVE  NothingDropped' /\ \A a \in Accounts : Kept(a)
<1>1. \A a \in Accounts : Kept(a)
  BY DEF Kept
<1>2. Remembered'
  BY DEF NothingDropped, Remembered, Replacing
<1> QED
  BY <1>1, <1>2 DEF NothingDropped

(* account_save() by a command that finishes, or does not *)
LEMMA WriteKeeps ==
    ASSUME IInv, NothingDropped, WriteAccount \/ CannotWriteAccount \/ Crash
    PROVE  NothingDropped' /\ \A a \in Accounts : Kept(a)
<1>1. storing' = NULL /\ touching' = NULL
  BY DEF WriteAccount, CannotWriteAccount, Crash
<1>2. Remembered'
  <2>1. CASE Crash
    BY <2>1 DEF Crash, Remembered
  <2>2. CASE CannotWriteAccount
    BY <2>2 DEF CannotWriteAccount, NothingDropped, Remembered, Replacing
  <2>3. CASE WriteAccount
    <3>1. storing # NULL /\ storing.account \in Accounts /\ ~storing.file.old
          /\ missed' = missed \ {storing.account}
      BY <2>3 DEF WriteAccount, IInv, TypeOK, Stores, NothingDropped
    <3>2. PICK f \in CutShort(storing.file) \cup {storing.file} :
              account' = [account EXCEPT ![storing.account] = f]
      BY <2>3 DEF WriteAccount
    <3>3. ~f.old
      BY <3>1, <3>2 DEF CutShort, File
    <3>4. /\ ~account'[storing.account].old
          /\ \A a \in Accounts \ {storing.account} : account'[a] = account[a]
      BY <3>1, <3>2, <3>3 DEF IInv, TypeOK
    <3>5. \A c \in Clients : session'[c] \in {session[c], storing.account}
      BY <2>3, <3>1 DEF WriteAccount, IInv, TypeOK
    <3> QED
      BY <3>1, <3>4, <3>5 DEF NothingDropped, Remembered, Replacing, IInv, TypeOK
  <2> QED BY <2>1, <2>2, <2>3
<1>3. CASE UNCHANGED account
  BY <1>1, <1>2, <1>3 DEF NothingDropped, Kept
<1>4. ASSUME NEW f, storing # NULL, account' = [account EXCEPT ![storing.account] = f],
             f = storing.file \/ (f \in CutShort(storing.file) /\ storing.account \in cut')
      PROVE  NothingDropped' /\ \A a \in Accounts : Kept(a)
  <2>1. storing.account \in Accounts /\ storing.file.exists
    BY <1>4 DEF IInv, TypeOK, Stores, NothingDropped
  <2>2. f.exists
    BY <1>4, <2>1 DEF CutShort, File
  <2>3. /\ account'[storing.account] = f
        /\ \A a \in Accounts \ {storing.account} : account'[a] = account[a]
    BY <1>4, <2>1 DEF IInv, TypeOK
  <2>4. NothingDropped'
    BY <1>1, <1>2, <2>2, <2>3 DEF NothingDropped
  <2>5. Kept(storing.account)
    BY <1>4, <2>3 DEF Kept, NothingDropped
  <2>6. \A a \in Accounts \ {storing.account} : Kept(a)
    BY <2>3 DEF Kept
  <2> QED
    BY <2>4, <2>5, <2>6
<1>5. \/ UNCHANGED account
      \/ /\ storing # NULL
         /\ \E f : /\ account' = [account EXCEPT ![storing.account] = f]
                   /\ \/ f = storing.file
                      \/ f \in CutShort(storing.file) /\ storing.account \in cut'
  BY DEF WriteAccount, CannotWriteAccount, Crash
<1> QED
  BY <1>3, <1>4, <1>5

LEMMA NextKeeps ==
    ASSUME IInv, NothingDropped, [Next]_vars
    PROVE  NothingDropped' /\ \A a \in Accounts : Kept(a)
<1>l. ASSUME NEW a \in Accounts
      PROVE  /\ Load(a).chars = account[a].chars
             /\ account[a].old \/ Load(a).pass = account[a].pass
  BY DEF Load
(* While no command runs, who is logged in to an old account has missed it. *)
<1>i. ASSUME Idle, NEW c \in Clients, session[c] # NULL
      PROVE  account[session[c]].old => session[c] \in missed
  BY <1>i DEF Idle, NothingDropped, Remembered, Replacing
<1>1. ASSUME NEW c \in Clients, NEW a \in Accounts, NEW p \in Passwords, Register(c, a, p)
      PROVE  NothingDropped' /\ \A b \in Accounts : Kept(b)
  <2>1. /\ account[a].chars = {} /\ Store(a, p, {}, TRUE, c) /\ UNCHANGED account
        /\ UNCHANGED missed /\ UNCHANGED session /\ Idle /\ touching' = NULL
    BY <1>1 DEF Register, NothingDropped, Idle, history
  <2> QED
    BY <2>1, CommandKeeps
<1>2. ASSUME NEW c \in Clients, NEW a \in Accounts, NEW p \in Passwords, Login(c, a, p)
      PROVE  NothingDropped' /\ \A b \in Accounts : Kept(b)
  <2> DEFINE pass == IF account[a].old THEN p ELSE Load(a).pass
  <2>1. /\ Store(a, pass, Load(a).chars, account[a].old, NULL) /\ UNCHANGED account
        /\ UNCHANGED missed /\ session' = [session EXCEPT ![c] = a]
        /\ Idle /\ touching' = NULL
    BY <1>2 DEF Login, Idle, history
  <2>2. account[a].old \/ pass = account[a].pass
    BY <1>l
  <2> HIDE DEF pass
  <2>3. storing' # NULL /\ storing'.account = a /\ storing'.sets = account[a].old
    <3>1. Load(a).chars \in SUBSET Names /\ pass \in Passwords \cup {Blank}
          /\ account[a].old \in BOOLEAN
      BY LoadType DEF pass, IInv, TypeOK, Files
    <3>2. storing' \in Stores
      BY <2>1, <3>1, StoreStep
    <3>3. storing' = [account |-> a, file |-> File(pass, Load(a).chars),
                      sets |-> account[a].old, owner |-> NULL]
      BY <2>1 DEF Store
    <3> QED BY <3>2, <3>3, StoresAssumption
  <2>4. \A d \in Clients : session'[d] # NULL =>
            \/ session'[d] = session[d] \/ ~account[session'[d]].old
            \/ Replacing(session[d])'
    BY <2>1, <2>3 DEF Replacing, IInv, TypeOK
  <2> QED
    BY <1>l, <2>1, <2>2, <2>4, CommandKeeps
<1>3. ASSUME NEW c \in Clients, NEW n \in Names, NewChar(c, n)
      PROVE  NothingDropped' /\ \A b \in Accounts : Kept(b)
  <2> DEFINE a == session[c]
             chars == Load(a).chars \cup {n}
  <2>1. /\ a \in Accounts /\ Store(a, Load(a).pass, chars, FALSE, NULL) /\ UNCHANGED account
        /\ UNCHANGED missed /\ UNCHANGED session /\ Idle /\ session[c] # NULL
    BY <1>3 DEF NewChar, IInv, TypeOK, history
  <2>2. account[a].chars \subseteq chars
    BY <1>l, <2>1
  <2>3. account[a].old => a \in missed
    BY <1>i, <2>1
  <2> HIDE DEF a, chars
  <2>4. storing' # NULL /\ ~storing'.sets
    <3>1. storing' = [account |-> a, file |-> File(Load(a).pass, chars), sets |-> FALSE,
                      owner |-> NULL]
      BY <2>1 DEF Store
    <3>2. storing' \in Stores
      <4> DEFINE pass == Load(a).pass
      <4>1. pass \in Passwords \cup {Blank} /\ chars \in SUBSET Names
        BY <2>1, LoadType DEF chars
      <4>2. Store(a, pass, chars, FALSE, NULL)
        BY <2>1
      <4> HIDE DEF pass
      <4> QED BY <2>1, <4>1, <4>2, StoreStep
    <3> QED BY <3>1, <3>2, StoresAssumption
  <2> QED
    BY <1>l, <2>1, <2>2, <2>3, <2>4, CommandKeeps
<1>4. ASSUME NEW a \in Accounts, NEW p \in Passwords, SetPassword(a, p)
      PROVE  NothingDropped' /\ \A b \in Accounts : Kept(b)
  <2>1. /\ Store(a, p, Load(a).chars, TRUE, NULL) /\ UNCHANGED account
        /\ UNCHANGED missed /\ UNCHANGED session /\ Idle /\ touching' = NULL
    BY <1>4 DEF SetPassword, Idle, history
  <2> QED
    BY <1>l, <2>1, CommandKeeps
<1>5. ASSUME NEW n \in Names, LogoutChar(n)
      PROVE  NothingDropped' /\ \A b \in Accounts : Kept(b)
  <2> DEFINE a == session[playing[n]]
  <2>1. /\ UNCHANGED account /\ UNCHANGED missed /\ Idle /\ touching' = NULL
        /\ session' = [session EXCEPT ![playing[n]] = NULL]
        /\ Store(a, Load(a).pass, Load(a).chars, FALSE, NULL) \/ UNCHANGED storing
    BY <1>5 DEF LogoutChar, Idle, history
  <2>2. a \in Accounts /\ playing[n] \in Clients /\ session[playing[n]] # NULL
    BY <1>5 DEF LogoutChar, IInv, TypeOK, Seats
  <2>3. account[a].old => a \in missed
    BY <1>i, <2>1, <2>2
  <2>4. \A c \in Clients : session'[c] # NULL => session'[c] = session[c]
    BY <2>1 DEF IInv, TypeOK
  <2> HIDE DEF a
  <2> QED
    BY <1>l, <2>1, <2>2, <2>3, <2>4, CommandKeeps
<1>6. CASE WriteAccount \/ CannotWriteAccount \/ Crash
  BY <1>6, WriteKeeps
<1>7. CASE \/ \E c \in Clients, n \in Names : LoginChar(c, n)
           \/ \E n \in Names : Play(n) \/ Autosave(n)
           \/ \E c \in Clients : Disconnect(c)
  <2>1. /\ UNCHANGED account /\ UNCHANGED storing /\ UNCHANGED missed /\ Idle
        /\ touching' = NULL
    BY <1>7 DEF LoginChar, Play, Autosave, Disconnect, todo, history, Idle
  <2>2. \A c \in Clients : session'[c] # NULL => session'[c] = session[c]
    BY <1>7 DEF LoginChar, Play, Autosave, Disconnect, IInv, TypeOK
  <2> QED
    BY <2>1, <2>2, CommandKeeps
<1>8. CASE TouchPlayer \/ WritePlayer \/ RenamePlayer \/ UNCHANGED vars
  <2>1. /\ UNCHANGED <<account, missed, session>>
        /\ \/ UNCHANGED storing /\ touching' \in {touching, NULL}
           \/ touching # NULL /\ touching' = NULL /\ storing' = NULL
    BY <1>8 DEF TouchPlayer, WritePlayer, RenamePlayer, vars, todo, history
  <2> QED
    BY <2>1, PlayerFileKeeps
<1> QED
  BY <1>1, <1>2, <1>3, <1>4, <1>5, <1>6, <1>7, <1>8 DEF Next

---------------------------------------------------------------------------
(* The theorems                                                            *)

(* The inductive invariant holds in every state of every behaviour. *)
THEOREM Invariance == Spec => []IInv
BY InitIInv, NextIInv, PTL DEF Spec

(* Every variable has its type; in particular, no account is written from a copy
   with a field that nobody set. *)
THEOREM TypeCorrect == Spec => []TypeOK
<1>1. IInv => TypeOK
  BY DEF IInv
<1> QED
  BY <1>1, Invariance, PTL

(* Whatever fails and wherever the server is killed, a character that an
   account lists can be loaded. *)
THEOREM AlwaysHasFile == Spec => []ListedHaveFile
<1>1. IInv => ListedHaveFile
  BY DEF IInv
<1> QED
  BY <1>1, Invariance, PTL

(* Two accounts never share a character, whatever fails. *)
THEOREM AlwaysOneOwner == Spec => []OneOwner
<1>1. IInv => OneOwner
  BY DEF IInv
<1> QED
  BY <1>1, Invariance, PTL

(* player.dat never goes away, nor becomes older, and becomes torn only by a save in
   which a write failed unnoticed: not by one that noticed its failure or was killed,
   nor by what either left behind. *)
THEOREM FilesOnlyNewer == Spec => NeverOlder
BY Invariance, NextOnlyNewer, PTL DEF Spec, NeverOlder

(* A write of an account that is not cut short loses none of its characters, and
   changes its password only if it is to set it, or if the account is in the old format
   and a save with a new password was not done since the server was started. So no
   command writes back a copy that lacks what an earlier one stored, whatever failed
   or was killed between them. *)
THEOREM AccountsKept == Spec => AccountKept
<1>1. IInv /\ NothingDropped /\ [Next]_vars => NothingDropped'
  BY NextKeeps
<1>2. IInv /\ NothingDropped /\ [Next]_vars => [\A a \in Accounts : Kept(a)]_vars
  BY NextKeeps
<1>3. (\A a \in Accounts : Kept(a)) <=>
         \A a \in Accounts : a \notin cut' =>
            /\ account[a].chars \subseteq account'[a].chars
            /\ \/ account'[a].pass = account[a].pass
               \/ storing # NULL /\ storing.account = a /\ storing.sets
               \/ account[a].old /\ a \in missed
  BY DEF Kept
<1> QED
  BY <1>1, <1>2, <1>3, Invariance, InitNothingDropped, PTL DEF Spec, AccountKept
=============================================================================
