---------------------------- MODULE MC_BuildRun ----------------------------
(* Two builds over a registry that keeps one task: a canceled build that is   *)
(* still unwinding can be evicted by the other, and canceled a second time.   *)
EXTENDS BuildRun, TLC

CONSTANTS b1, b2

MCBuilds == {b1, b2}
Symmetry == Permutations(MCBuilds)
=============================================================================
