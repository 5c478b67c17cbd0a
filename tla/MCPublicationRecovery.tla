----------------------- MODULE MCPublicationRecovery -----------------------
(* One checkout, a room file that may be edited between runs, and three      *)
(* capabilities: two minted at the start, one later.                         *)
EXTENDS PublicationRecovery, TLC

CONSTANTS lead, full, small, h1, h2, h3

MCRolesOf == full :> {lead} @@ small :> {lead}
MCIssued  == [h \in Caps |-> IF h = h3 THEN 1 ELSE 0]

Interchangeable == Permutations(Terminals) \cup Permutations(Ids)
=============================================================================
