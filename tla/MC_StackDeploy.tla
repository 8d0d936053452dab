-------------------------- MODULE MC_StackDeploy --------------------------
(* One stack, two operations at a time, two claims or three: enough for a     *)
(* claim that overlaps another, and one made while a canceled one unwinds.    *)
EXTENDS StackDeploy, TLC

CONSTANTS s1, p1, p2

MCStacks == {s1}
MCProcs == {p1, p2}
Symmetry == Permutations(MCProcs)
=============================================================================
