------------------------- MODULE MCRequestExchange -------------------------
(* Two clients whose budgets together exceed the global one, over windows of *)
(* two instants; two posts.                                                  *)
EXTENDS RequestExchange

Body(declared, chunks, readable, valid) ==
    [declared |-> declared, chunks |-> chunks, readable |-> readable, valid |-> valid]

MCWhole  == Body(1, 1, TRUE, TRUE)
MCBodies == { MCWhole,
              Body(2, 1, TRUE, TRUE),       \* too long, and says so
              Body(0, 2, TRUE, TRUE),       \* too long, and does not
              Body(0, 1, FALSE, TRUE),
              Body(0, 1, TRUE, FALSE),
              Body(0, 0, TRUE, FALSE) }
=============================================================================
