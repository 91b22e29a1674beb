------------------------------ MODULE MCRoomLife ------------------------------
(* Two tokens and one fault for TLC. *)
EXTENDS RoomLife, TLC

AnyToken == Permutations(Tokens)

=============================================================================
