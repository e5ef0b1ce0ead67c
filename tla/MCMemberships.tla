--------------------------- MODULE MCMemberships ---------------------------
(* Memberships on a small instance: see the .cfg files for the bounds. *)
EXTENDS Memberships, TLC

\* ADMIN is never compared with in these handlers, so MEMBER stands for both.
MCRoles == {"OWNER", "MEMBER"}

Symmetry == Permutations(Users) \cup Permutations(Requests)
=============================================================================
