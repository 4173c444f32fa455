-------------------------- MODULE MCEvaluationExport --------------------------
(* EvaluationExport on small instances. *)
EXTENDS EvaluationExport, TLC

WorkerSymmetry == Permutations(Workers)
=============================================================================
