----------------------------- MODULE MCApiKeys -----------------------------
(* ApiKeys on a small instance: see the .cfg files for the bounds. *)
EXTENDS ApiKeys, TLC

\* A request asks for no scope, or for all there are.
MCWideWishes == {Scopes}
MCNarrowWishes == {{}, {Everything}}

Symmetry == Permutations(Users) \cup Permutations(Keys) \cup Permutations(Requests)
=============================================================================
