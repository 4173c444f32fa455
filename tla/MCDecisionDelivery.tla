------------------------- MODULE MCDecisionDelivery -------------------------
(* A decision with its amendment, and two isolates that deliver its work. *)
EXTENDS DecisionDelivery

CONSTANTS w1, w2

MCWorkers == {w1, w2}
=============================================================================
