------------------------- MODULE MCContractFinalize -------------------------
(* Two terminals and two drafts: prose with new types, and the same prose    *)
(* again with the types preserved.                                           *)
EXTENDS ContractFinalize, TLC

CONSTANTS typed, again, prose, types

MCProseOf == typed :> prose @@ again :> prose
MCTypesOf == typed :> types @@ again :> "preserve"

\* A checkout without a contract, and one whose contract nobody recorded.
MCLegacySets == {{}, {"CONTRACT.md", "contract.ts", "CHANGES"}}

\* Either draft first, and then the other.
MCMade == Proposals \cap
    {[parent |-> <<>>, draft |-> typed], [parent |-> <<>>, draft |-> again],
     [parent |-> <<typed>>, draft |-> again], [parent |-> <<again>>, draft |-> typed]}
=============================================================================
