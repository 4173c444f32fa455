------------------------ MODULE MCAgendaPublication ------------------------
(* AgendaPublication with three operations of one event: a publication, an *)
(* edit or a publication, and one that may also refresh or restore.        *)
EXTENDS AgendaPublication

CONSTANTS o1, o2, o3

MixedKinds == [o \in {o1, o2, o3} |-> CASE o = o1 -> {"publish"}
                                        [] o = o2 -> {"edit", "publish"}
                                        [] o = o3 -> {"publish", "refresh", "restore"}]
=============================================================================
