------------------------- MODULE MCAgendaCoordinator -------------------------
(* AgendaCoordinator with three calls of one event, two of them made in one *)
(* isolate.                                                                *)
EXTENDS AgendaCoordinator

CONSTANTS o1, o2, o3, i1, i2

Calls == {o1, o2, o3}
MCIsolateOf == [o \in Calls |-> IF o = o2 THEN i2 ELSE i1]
=============================================================================
