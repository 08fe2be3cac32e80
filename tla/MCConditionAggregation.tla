------------------------ MODULE MCConditionAggregation ------------------------
(* Control-plane machines and node names for the aggregation passes: more  *)
(* node names than machines, so that a listed node can have no machine     *)
(* while every machine has its node.                                       *)
EXTENDS ConditionAggregation, TLC

CONSTANTS m1, m2, n1, n2, n3

MCMachines == {m1, m2}
MCOneMachine == {m1}
MCNodes == {n1, n2, n3}

\* Machines and node names are interchangeable: no definition names one.
MCSymmetry == Permutations(MCMachines) \cup Permutations(MCNodes)
MCNodeSymmetry == Permutations(MCNodes)
====
