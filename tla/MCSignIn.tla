------------------------------ MODULE MCSignIn ------------------------------
(* SignIn on a small instance: see the .cfg file for the bounds. *)
EXTENDS SignIn, TLC

Symmetry == Permutations(Secrets) \cup Permutations(Codes) \cup Permutations(Subnets)
              \cup Permutations(Rows) \cup Permutations(Requests)
=============================================================================
