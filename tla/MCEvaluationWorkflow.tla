------------------------ MODULE MCEvaluationWorkflow ------------------------
(* Instances of EvaluationWorkflow for TLC. *)
EXTENDS EvaluationWorkflow, TLC

\* Every item has an id of its own.
OwnIds == [i \in Items |-> i]

SlotSymmetry == Permutations(Slots)
=============================================================================
