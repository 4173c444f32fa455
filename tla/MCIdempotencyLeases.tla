------------------------- MODULE MCIdempotencyLeases -------------------------
(* Three calls with one payload, or two and a third with another.            *)
EXTENDS IdempotencyLeases, TLC
CONSTANTS a, b, d

MCCalls == {a, b, d}
MCPrintOf == (a :> "one") @@ (b :> "one") @@ (d :> "two")
=============================================================================
