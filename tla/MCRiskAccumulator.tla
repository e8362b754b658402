-------------------------- MODULE MCRiskAccumulator --------------------------
(* Instances of RiskAccumulator: contributions that cross the score or the  *)
(* tactics threshold together, and layers with less room and without        *)
(* accumulator.                                                             *)
EXTENDS RiskAccumulator

MCScore == [k \in Kinds |-> IF k = "high" THEN 2 ELSE 1]
MCTactics == [k \in Kinds |-> IF k = "high" THEN {} ELSE {"execution"}]

MCLayers ==
  {[accumulates |-> TRUE, score |-> 3, tactics |-> 1, maxOpen |-> 2],
   [accumulates |-> TRUE, score |-> 3, tactics |-> 2, maxOpen |-> 1],
   [accumulates |-> FALSE, score |-> 0, tactics |-> 0, maxOpen |-> 0]}
=============================================================================
