------------------------- MODULE MCBrowserPublication -------------------------
(* Tabs of which one may be a copy of another, and capabilities minted one   *)
(* after the other, with windows that overlap; one room file drops a role.   *)
EXTENDS BrowserPublication, TLC

CONSTANTS lead, dev, full, small, h1, h2

MCRolesOf == [p \in Payloads |-> IF p = full THEN Roles ELSE {lead}]
MCIssued  == [h \in Caps |-> IF h = h1 THEN 0 ELSE 1]

Interchangeable == Permutations(Tabs) \cup Permutations(Ids)
=============================================================================
