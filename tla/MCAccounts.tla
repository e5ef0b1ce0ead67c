----------------------------- MODULE MCAccounts -----------------------------
(* Accounts on a small instance: see the .cfg files for the bounds. *)
EXTENDS Accounts, TLC

Symmetry == Permutations(Users) \cup Permutations(Sessions) \cup Permutations(Requests)
=============================================================================
