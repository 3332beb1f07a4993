---------------------------- MODULE MCSolverSync ----------------------------
(* Instances of SolverSync for TLC. *)
EXTENDS SolverSync, TLC

CONSTANTS m1, m2

MCOneModel == {m1}
MCTwoModels == {m1, m2}
Symmetry == Permutations(MCTwoModels)
=============================================================================
