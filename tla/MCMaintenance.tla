---------------------------- MODULE MCMaintenance ----------------------------
(* Batches of one row per table: two rows of a table are already a backlog.  *)
(* The rows others hold stand for every other transaction, a second run's    *)
(* batches among them.                                                       *)
EXTENDS Maintenance, TLC

CONSTANTS a1, a2, p1, p2

MCTableOf == [r \in Rows |-> IF r \in {a1, a2} THEN "rooms" ELSE "publication_requests"]
MCLimit   == [t \in ToSet(Tables) |-> 1]
=============================================================================
