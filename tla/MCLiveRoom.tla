----------------------------- MODULE MCLiveRoom -----------------------------
(* A host and one student for TLC. *)
EXTENDS LiveRoom
=============================================================================
