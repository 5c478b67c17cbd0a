--------------------------- MODULE MCMemoryStore ---------------------------
(* MemoryStore with two keys, two capabilities minted at different times    *)
(* and two payloads of which the second drops a role.                       *)
EXTENDS MemoryStore, TLC

CONSTANTS lead, dev, full, small, h1, h2

MCRolesOf == full :> {lead, dev} @@ small :> {lead}
MCIssued  == h1 :> 0 @@ h2 :> 2
=============================================================================
