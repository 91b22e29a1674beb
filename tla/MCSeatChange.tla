----------------------------- MODULE MCSeatChange -----------------------------
(* One company and its seat changes for TLC. *)
EXTENDS SeatChange

=============================================================================
