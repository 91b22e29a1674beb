----------------------------- MODULE MCBoardFlush -----------------------------
(* Small boards for TLC. *)
EXTENDS BoardFlush, TLC

CONSTANT MaxTrouble  \* bound on what goes wrong once a big stroke is drawn

\* The big strokes have never been drawn.
OnlySmall ==
    \A e \in Big :
        /\ mem.doc # None => mem.doc[e] = "never"
        /\ disk.snap # None => disk.snap[e] = "never"

\* A small board is followed through every failure, a big one through few.  A
\* state beyond the bound is checked, and has no successors.
InBounds == OnlySmall \/ crashes + failures + drops <= MaxTrouble

=============================================================================
