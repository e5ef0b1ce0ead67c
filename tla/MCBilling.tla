------------------------------ MODULE MCBilling ------------------------------
(* An instance of Billing for TLC. *)
EXTENDS Billing, TLC

Symmetry == Permutations(BillingGroups) \cup Permutations(Customers) \cup Permutations(Calls)
=============================================================================
