----------------------------- MODULE Accounts -----------------------------
(***************************************************************************)
(* Accounts and the files of their characters: server/account.c and the    *)
(* saving and loading of characters in types/player.c.                     *)
(*                                                                         *)
(* Every account command loads the account, changes its copy and writes    *)
(* the copy back.  Commands do not interleave, as there is one thread, but *)
(* the server may be killed between any two of the file operations that a  *)
(* command performs, and each of them may fail.  `touching', `saving' and  *)
(* `storing' are the operations that the command which is running has yet  *)
(* to perform; the next command waits for all three.                       *)
(***************************************************************************)
EXTENDS Naturals, FiniteSets

CONSTANTS
    Accounts, Clients, Names, Passwords,
    NULL,
    Blank,          \* a password of which only zeros are known: none matches
    Torn,           \* what is in a file that was not written to its end
    CharsLimit,     \* ACCOUNT_CHARACTERS_LIMIT
    MaxVersion      \* bound on the states of a character that are told apart

ASSUME ConstantsAssumption ==
    /\ NULL \notin Clients \cup Names \cup Accounts /\ Blank \notin Passwords
    /\ CharsLimit \in Nat /\ MaxVersion \in Nat
    /\ NULL \notin Nat /\ Torn \notin Nat /\ NULL # Torn

VARIABLES
    account,    \* account files
    dat, tmp,   \* player.dat and player.dat.tmp: NULL, Torn or a version
    session,    \* ns->account of every connection
    playing,    \* the connection that plays a character
    live,       \* the version of a character that is played, Torn if it was damaged
    touching,   \* name whose player.dat is to be created
    saving,     \* what player_save() is at work on: a name and its version
    written,    \*   and whether it wrote and closed the temporary file
    storing,    \* the account_save() to be done
    unnoticed,  \* history: a failed write to the file to be renamed was not noticed
    cut,        \* history: the account that the last write to one has cut short
    missed      \* history: old accounts that a save with a new password has missed

todo == <<touching, saving, written, storing>>
history == <<unnoticed, cut, missed>>
vars == <<account, dat, tmp, session, playing, live, todo, history>>

Versions == 0 .. MaxVersion     \* an empty player.dat is version 0
NoFile == [exists |-> FALSE, old |-> FALSE, pass |-> Blank, chars |-> {}]
File(pass, chars) == [exists |-> TRUE, old |-> FALSE, pass |-> pass, chars |-> chars]
OldFile(pass) == [File(pass, {}) EXCEPT !.old = TRUE]

(* Some accounts may be as an older version of the server has left them. *)
Init ==
    /\ account \in [Accounts -> {NoFile} \cup {OldFile(p) : p \in Passwords}]
    /\ dat = [n \in Names |-> NULL] /\ tmp = [n \in Names |-> NULL]
    /\ session = [c \in Clients |-> NULL]
    /\ playing = [n \in Names |-> NULL] /\ live = [n \in Names |-> 0]
    /\ touching = NULL /\ saving = NULL /\ written = FALSE /\ storing = NULL
    /\ unnoticed = FALSE /\ cut = {} /\ missed = {}

Idle == touching = NULL /\ saving = NULL /\ storing = NULL

---------------------------------------------------------------------------
(* account_load() and account_save()                                       *)

(* Wrong: the password is not read. *)
LoadNoPassword(a) ==
    [pass |-> Blank, chars |-> account[a].chars,
     password_old |-> IF account[a].old THEN account[a].pass ELSE Blank]

(* Wrong: the fields of the copy are not cleared first. *)
LoadUncleared(a) ==
    [pass |-> IF account[a].old THEN NULL ELSE account[a].pass,
     chars |-> account[a].chars,
     password_old |-> IF account[a].old THEN account[a].pass ELSE Blank]

(* A password in the old format is read into a field of its own. *)
Load(a) ==
    [pass |-> IF account[a].old THEN Blank ELSE account[a].pass,
     chars |-> account[a].chars,
     password_old |-> IF account[a].old THEN account[a].pass ELSE Blank]

CheckPassword(copy, p) ==
    IF copy.password_old # Blank THEN copy.password_old = p ELSE copy.pass = p

(* The copy is to be written: on success, `owner' is logged in. *)
Store(a, pass, chars, sets, owner) ==
    storing' = [account |-> a, file |-> File(pass, chars), sets |-> sets,
                owner |-> owner]

---------------------------------------------------------------------------
(* Commands of a connection                                                *)

Register(c, a, p) ==
    /\ Idle /\ session[c] = NULL /\ ~account[a].exists
    /\ Store(a, p, {}, TRUE, c)
    /\ UNCHANGED <<account, dat, tmp, session, playing, live, touching, saving,
                   written, history>>

(* An old password is replaced by a new one in the copy. *)
Login(c, a, p) ==
    /\ Idle /\ session[c] = NULL /\ account[a].exists
    /\ CheckPassword(Load(a), p)
    /\ session' = [session EXCEPT ![c] = a]
    /\ Store(a, IF account[a].old THEN p ELSE Load(a).pass, Load(a).chars,
             account[a].old, NULL)
    /\ UNCHANGED <<account, dat, tmp, playing, live, touching, saving, written, history>>

(* Wrong: nobody looks whether the name is taken. *)
NewCharTaken(c, n) ==
    /\ Idle /\ session[c] # NULL
    /\ Cardinality(account[session[c]].chars) < CharsLimit
    /\ touching' = n
    /\ Store(session[c], Load(session[c]).pass, Load(session[c]).chars \cup {n},
             FALSE, NULL)
    /\ UNCHANGED <<account, dat, tmp, session, playing, live, saving, written, history>>

(* player.dat reserves the name; it is created before the account is saved. *)
NewChar(c, n) ==
    /\ Idle /\ session[c] # NULL /\ dat[n] = NULL
    /\ Cardinality(account[session[c]].chars) < CharsLimit
    /\ touching' = n
    /\ Store(session[c], Load(session[c]).pass, Load(session[c]).chars \cup {n},
             FALSE, NULL)
    /\ UNCHANGED <<account, dat, tmp, session, playing, live, saving, written, history>>

(* account_password_change(), and account_password_force() for any account. *)
SetPassword(a, p) ==
    /\ Idle /\ account[a].exists
    /\ Store(a, p, Load(a).chars, TRUE, NULL)
    /\ UNCHANGED <<account, dat, tmp, session, playing, live, touching, saving,
                   written, history>>

(* What player_login() makes of a player.dat: it takes what a torn one has, and a
   new character if that is nothing. *)
Loaded(file) == IF file = Torn THEN {Torn, 0} ELSE {file}

(* Whoever plays the character is logged out first, by LogoutChar. *)
LoginChar(c, n) ==
    /\ Idle /\ session[c] # NULL /\ \A m \in Names : playing[m] # c
    /\ n \in account[session[c]].chars
    /\ playing[n] = NULL
    /\ dat[n] # NULL
    /\ playing' = [playing EXCEPT ![n] = c]
    /\ \E v \in Loaded(dat[n]) : live' = [live EXCEPT ![n] = v]
    /\ UNCHANGED <<account, dat, tmp, session, todo, history>>

Play(n) ==
    /\ playing[n] # NULL /\ Idle
    /\ live[n] \in Versions /\ live[n] < MaxVersion
    /\ live' = [live EXCEPT ![n] = @ + 1]
    /\ UNCHANGED <<account, dat, tmp, session, playing, todo, history>>

Save(n) == [name |-> n, state |-> live[n]]

(* process_func(), or a bed to reality. *)
Autosave(n) ==
    /\ playing[n] # NULL /\ Idle
    /\ saving' = Save(n) /\ written' = FALSE
    /\ UNCHANGED <<account, dat, tmp, session, playing, live, touching, storing, history>>

(* player_logout(): the character is saved where its map allows it, then the
   level and the region of it are noted in the account. *)
LogoutChar(n) ==
    /\ playing[n] # NULL /\ Idle
    /\ saving' \in {Save(n), NULL} /\ written' = FALSE
    /\ LET a == session[playing[n]]
       IN  \/ Store(a, Load(a).pass, Load(a).chars, FALSE, NULL)
           \/ UNCHANGED storing        \* the account could not be read
    /\ playing' = [playing EXCEPT ![n] = NULL] /\ live' = [live EXCEPT ![n] = 0]
    /\ session' = [session EXCEPT ![playing[n]] = NULL]
    /\ UNCHANGED <<account, dat, tmp, touching, history>>

(* A connection that plays no character goes away. *)
Disconnect(c) ==
    /\ Idle /\ session[c] # NULL /\ \A n \in Names : playing[n] # c
    /\ session' = [session EXCEPT ![c] = NULL]
    /\ UNCHANGED <<account, dat, tmp, playing, live, todo, history>>

---------------------------------------------------------------------------
(* File operations of the command that is running                          *)

(* path_touch(); when it fails, the command ends. *)
TouchPlayer ==
    /\ touching # NULL
    /\ \/ dat' = [dat EXCEPT ![touching] = 0] /\ UNCHANGED storing
       \/ storing' = NULL /\ UNCHANGED dat
    /\ touching' = NULL
    /\ UNCHANGED <<account, tmp, session, playing, live, saving, written, history>>

(* Wrong: player.dat itself is written. *)
WritePlayerInPlace ==
    /\ saving # NULL /\ ~written
    /\ dat' \in {[dat EXCEPT ![saving.name] = v] : v \in {saving.state, Torn}}
    /\ saving' = NULL
    /\ UNCHANGED <<account, tmp, session, playing, live, touching, written, storing, history>>

(* The temporary file is written and closed; on an error it is removed.  Only what
   fclose() has still to write is looked at: when an earlier write fails, and the
   last one does not, the file is torn and nobody knows. *)
WritePlayer ==
    /\ saving # NULL /\ ~written
    /\ \/ /\ \/ tmp' = [tmp EXCEPT ![saving.name] = saving.state] /\ unnoticed' = FALSE
             \/ tmp' = [tmp EXCEPT ![saving.name] = Torn] /\ unnoticed' = TRUE
          /\ written' = TRUE /\ UNCHANGED saving
       \/ /\ tmp' \in {tmp, [tmp EXCEPT ![saving.name] = NULL]}
          /\ saving' = NULL /\ UNCHANGED <<written, unnoticed>>
    /\ UNCHANGED <<account, dat, session, playing, live, touching, storing, cut, missed>>

RenamePlayer ==
    /\ saving # NULL /\ written
    /\ dat' \in {dat, [dat EXCEPT ![saving.name] = tmp[saving.name]]}
    /\ tmp' = [tmp EXCEPT ![saving.name] = NULL]
    /\ saving' = NULL /\ written' = FALSE /\ unnoticed' = FALSE
    /\ UNCHANGED <<account, session, playing, live, touching, storing, cut, missed>>

(* What a file holds when the end of what was written to it is missing. *)
CutShort(f) ==
    {File(Blank, {})} \cup {File(f.pass, chars) : chars \in SUBSET f.chars}

(* Wrong: the account is written as soon as the command has it. *)
WriteAccountAtOnce ==
    /\ storing # NULL
    /\ account' = [account EXCEPT ![storing.account] = storing.file]
    /\ session' = IF storing.owner = NULL THEN session
                  ELSE [session EXCEPT ![storing.owner] = storing.account]
    /\ storing' = NULL
    /\ UNCHANGED <<dat, tmp, playing, live, touching, saving, written, history>>

(* account_save() truncates the file and writes it anew, without looking
   whether this worked; only an error of fopen() is noticed. *)
WriteAccount ==
    /\ storing # NULL /\ touching = NULL /\ saving = NULL
    /\ \/ /\ account' = [account EXCEPT ![storing.account] = storing.file]
          /\ cut' = {}
       \/ /\ \E f \in CutShort(storing.file) :
                 account' = [account EXCEPT ![storing.account] = f]
          /\ cut' = {storing.account}
    /\ missed' = missed \ {storing.account}
    /\ session' = IF storing.owner = NULL THEN session
                  ELSE [session EXCEPT ![storing.owner] = storing.account]
    /\ storing' = NULL
    /\ UNCHANGED <<dat, tmp, playing, live, touching, saving, written, unnoticed>>

CannotWriteAccount ==
    /\ storing # NULL /\ touching = NULL /\ saving = NULL
    /\ storing' = NULL
    /\ missed' = IF storing.sets /\ account[storing.account].old
                 THEN missed \cup {storing.account} ELSE missed
    /\ cut' = {}
    /\ UNCHANGED <<account, dat, tmp, session, playing, live, touching, saving,
                   written, unnoticed>>

(* The server is killed, in the middle of a file operation perhaps, and is
   started again. *)
Crash ==
    /\ \/ UNCHANGED <<account, tmp>> /\ cut' = {}
       \/ /\ storing # NULL /\ touching = NULL /\ saving = NULL
          /\ \E f \in CutShort(storing.file) :
                 account' = [account EXCEPT ![storing.account] = f]
          /\ cut' = {storing.account}
          /\ UNCHANGED tmp
       \/ /\ saving # NULL /\ ~written
          /\ tmp' = [tmp EXCEPT ![saving.name] = Torn]
          /\ cut' = {} /\ UNCHANGED account
    /\ unnoticed' = FALSE /\ missed' = {}
    /\ session' = [c \in Clients |-> NULL]
    /\ playing' = [n \in Names |-> NULL] /\ live' = [n \in Names |-> 0]
    /\ touching' = NULL /\ saving' = NULL /\ written' = FALSE /\ storing' = NULL
    /\ UNCHANGED dat

---------------------------------------------------------------------------
Next ==
    \/ \E c \in Clients, a \in Accounts, p \in Passwords :
           Register(c, a, p) \/ Login(c, a, p)
    \/ \E c \in Clients, n \in Names : NewChar(c, n) \/ LoginChar(c, n)
    \/ \E a \in Accounts, p \in Passwords : SetPassword(a, p)
    \/ \E n \in Names : Play(n) \/ Autosave(n) \/ LogoutChar(n)
    \/ \E c \in Clients : Disconnect(c)
    \/ TouchPlayer \/ WritePlayer \/ RenamePlayer \/ WriteAccount \/ CannotWriteAccount
    \/ Crash

Spec == Init /\ [][Next]_vars

---------------------------------------------------------------------------
(* Properties                                                              *)

Files == [exists : BOOLEAN, old : BOOLEAN, pass : Passwords \cup {Blank},
          chars : SUBSET Names]
Saves == [name : Names, state : Versions \cup {Torn}]
Stores == [account : Accounts, file : Files, sets : BOOLEAN, owner : Clients \cup {NULL}]
ASSUME StoresAssumption == NULL \notin Stores

(* Type invariant. *)
TypeOK ==
    /\ account \in [Accounts -> Files]
    /\ dat \in [Names -> Versions \cup {NULL, Torn}]
    /\ tmp \in [Names -> Versions \cup {NULL, Torn}]
    /\ session \in [Clients -> Accounts \cup {NULL}]
    /\ playing \in [Names -> Clients \cup {NULL}]
    /\ live \in [Names -> Versions \cup {Torn}]
    /\ touching \in Names \cup {NULL} /\ saving \in Saves \cup {NULL}
    /\ written \in BOOLEAN /\ unnoticed \in BOOLEAN
    /\ storing \in Stores \cup {NULL}
    /\ cut \subseteq Accounts /\ missed \subseteq Accounts

(* "This shouldn't happen, because creating a new character creates an empty
   file": every character of an account has its player.dat, whatever failed
   and wherever the server was killed. *)
ListedHaveFile == \A a \in Accounts : \A n \in account[a].chars : dat[n] # NULL

(* A character belongs to one account. *)
OneOwner ==
    \A a, b \in Accounts : a # b => account[a].chars \cap account[b].chars = {}

(* player.dat never goes away, nor becomes older: only a session which the server
   did not survive leaves it behind what that session reached.  And it becomes torn
   only by a save in which a write failed unnoticed (the check that is to "make sure
   the write succeeded" sees the last one only), never by one that was killed, or
   that noticed its failure, nor by the torn file that either left behind. *)
SpoiledSave(n) == saving # NULL /\ saving.name = n /\ unnoticed
OnlyNewer ==
    \A n \in Names : /\ dat[n] # NULL => dat'[n] # NULL
                     /\ dat[n] \in Nat /\ dat'[n] \in Nat => dat'[n] >= dat[n]
                     /\ dat'[n] = Torn => dat[n] = Torn \/ SpoiledSave(n)
NeverOlder == [][OnlyNewer]_vars

(* No write of an account that goes through loses any of its characters, nor
   changes its password, but for one that is to set it: no command writes back a copy
   that lacks what an earlier one stored.  There are two exceptions: the write that is
   cut short, and an account in the old format one of whose saves with a new password
   (by account_login(), say) was not done since the server was started. *)
AccountKept ==
    [][\A a \in Accounts : a \notin cut' =>
          /\ account[a].chars \subseteq account'[a].chars
          /\ \/ account'[a].pass = account[a].pass
             \/ storing # NULL /\ storing.account = a /\ storing.sets
             \/ account[a].old /\ a \in missed]_vars
=============================================================================
