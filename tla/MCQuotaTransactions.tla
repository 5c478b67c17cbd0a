------------------------ MODULE MCQuotaTransactions ------------------------
(* One or two servers, two clients and maintenance, over windows             *)
(* that counters outlive by one window: as in the code, where both last an   *)
(* hour.                                                                     *)
EXTENDS QuotaTransactions, TLC

Interchangeable == Permutations(Servers) \cup Permutations(Clients)
=============================================================================
