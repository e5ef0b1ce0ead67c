------------------------------ MODULE MCEmails ------------------------------
(* Emails on a small instance: see the .cfg file for the bounds. *)
EXTENDS Emails, TLC

Symmetry == Permutations(Users) \cup Permutations(Emails) \cup Permutations(Requests)
=============================================================================
