------------------------- MODULE MCRoomTransactions -------------------------
(* Three connections and the calls that meet on one room: two workers with   *)
(* the same capability, a claim against a republish that drops its role,     *)
(* each against the host's deletion and maintenance.                         *)
EXTENDS RoomTransactions, TLC

CONSTANTS lead, dev, full, small, ana, h1, k1, i1, i2

MCRolesOf == full :> {lead, dev} @@ small :> {lead}
MCIssued  == h1 :> 0

Calls == {[fn |-> "publish", cap |-> h1, payload |-> full],
          [fn |-> "publish", cap |-> h1, payload |-> small],
          [fn |-> "create", payload |-> full],
          [fn |-> "claim", key |-> k1, role |-> dev, name |-> ana],
          [fn |-> "republish", key |-> k1, token |-> i1, payload |-> small],
          [fn |-> "delete", key |-> k1, token |-> i1],
          [fn |-> "purge"]}

Connections == Permutations(Txns)
=============================================================================
