------------------------------ MODULE MCRoles ------------------------------
(* An instance of Roles for TLC; no two of the names are alike but for case. *)
EXTENDS Roles, TLC

CONSTANTS n1, n2

MCNames == {n1, n2}
MCSpellings == [n \in MCNames |-> {n}]

Symmetry == UNION {Permutations(Roles), Permutations(Names), Permutations(Groups),
                   Permutations(Scopes), Permutations(Requests)}
=============================================================================
