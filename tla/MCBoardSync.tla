------------------------------ MODULE MCBoardSync ------------------------------
(* Two tabs on a board with one old element and room for a new one, the       *)
(* second tab still to open it; the room's client id is below or above theirs. *)
EXTENDS BoardSync

MCRanks == {<<2, 3>> @@ (0 :> r) : r \in {1, 4}}

=============================================================================
