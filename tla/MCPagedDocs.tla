----------------------------- MODULE MCPagedDocs -----------------------------
(* Two documents, one of two pages and one long one of which a page is taken; *)
(* the owner and an editor, whose change wins a tie.                           *)
EXTENDS PagedDocs

MCLength == [f \in Files |-> IF f \in Long THEN 1 ELSE 2]

=============================================================================
