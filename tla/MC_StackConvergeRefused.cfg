SPECIFICATION Spec
CONSTANTS
  d1 = d1
  d2 = d2
  n1 = n1
  n2 = n2
  v1 = v1
  Shapes <- One
  Definitions <- MCDefinitions
  Networks <- OneNetwork
  Volumes <- OneVolume
  External <- ExternalVolume
  Named <- NoShape
INVARIANT
  RefusedLeavesNothing
