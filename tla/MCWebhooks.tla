----------------------------- MODULE MCWebhooks -----------------------------
(* Webhooks on a small instance: see the .cfg files for the bounds. *)
EXTENDS Webhooks
=============================================================================
