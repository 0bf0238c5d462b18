---------------------------- MODULE MCAccounts ----------------------------
(* Small instances of Accounts for TLC. *)
EXTENDS Accounts, TLC

Symmetry == Permutations(Accounts) \cup Permutations(Clients) \cup Permutations(Names)
            \cup Permutations(Passwords)
=============================================================================
