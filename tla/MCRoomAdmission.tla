--------------------------- MODULE MCRoomAdmission ---------------------------
(* One room, its owner, a member and a guest for TLC. *)
EXTENDS RoomAdmission

=============================================================================
