-------------------------- MODULE MC_TaskRegistry --------------------------
(* The registry with three ids and a cap of two, so that starts overflow it. *)
EXTENDS TaskRegistry, TLC

CONSTANTS a, b, c

MCIds == {a, b, c}
MCPercents == {50}
Symmetry == Permutations(MCIds)
=============================================================================
