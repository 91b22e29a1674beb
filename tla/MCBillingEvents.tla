--------------------------- MODULE MCBillingEvents ---------------------------
(* One subscription for TLC. *)
EXTENDS BillingEvents
=============================================================================
