------------------------------ MODULE MCCompany ------------------------------
(* Small companies for TLC. *)
EXTENDS Company, TLC

\* Nobody is told apart by name; neither are invites, companies or operations.
Names == Permutations(Accounts) \cup Permutations(Invites)

=============================================================================
