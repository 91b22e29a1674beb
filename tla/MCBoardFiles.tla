--------------------------- MODULE MCBoardFiles ---------------------------
(* BoardFiles for TLC: two tabs, one picture.                                *)
EXTENDS BoardFiles
=============================================================================
