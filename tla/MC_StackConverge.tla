------------------------- MODULE MC_StackConverge -------------------------
(* A service of two replicas, two services of one, or one that may be given a *)
(* container_name; two definitions, so that an edit can change one; one or    *)
(* two networks, and a resource that is external.                             *)
EXTENDS StackConverge, TLC

CONSTANTS d1, d2, n1, n2, v1

MCShapes == {<<2>>, <<1, 1>>, <<1>>}
TwoReplicas == {<<2>>}
One == {<<1>>}
MCDefinitions == {d1, d2}
OneNetwork == {n1}
TwoNetworks == {n1, n2}
NoVolume == {}
OneVolume == {v1}
ExternalNetwork == {n2}
ExternalVolume == {v1}
NoShape == {}
Symmetry == Permutations(MCDefinitions)
=============================================================================
