----------------------------- MODULE MCGuestEntry -----------------------------
(* Small times, two submissions at once and three guest accounts for TLC.      *)
EXTENDS GuestEntry

=============================================================================
