----------------------------- MODULE MCRequests -----------------------------
(* An instance of Requests for TLC: four groups, each the parent of the next. *)
EXTENDS Requests

CONSTANTS g1, g2, g3, g4

MCGroups == {g1, g2, g3, g4}
MCParent == [g \in MCGroups |-> CASE g = g1 -> None [] g = g2 -> g1 [] g = g3 -> g2 [] g = g4 -> g3]
MCJoinable == {g1, g3}
MCPoints == [c \in {"public", "user", "api-key"} |->
               CASE c = "public" -> 25 [] c = "user" -> 1 [] c = "api-key" -> 2]
MCPointsAlike == [c \in {"public", "user", "api-key"} |-> 25]
=============================================================================
