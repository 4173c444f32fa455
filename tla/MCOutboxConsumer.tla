--------------------------- MODULE MCOutboxConsumer ---------------------------
(* OutboxConsumer with two isolates and one job. *)
EXTENDS OutboxConsumer

CONSTANTS j1, w1, w2
=============================================================================
