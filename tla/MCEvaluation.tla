---------------------------- MODULE MCEvaluation ----------------------------
(* Instances of Evaluation. *)
EXTENDS Evaluation
=============================================================================
