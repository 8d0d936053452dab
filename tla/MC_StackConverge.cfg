SPECIFICATION Spec
CONSTANTS
  d1 = d1
  d2 = d2
  n1 = n1
  n2 = n2
  v1 = v1
  Shapes <- MCShapes
  Definitions <- MCDefinitions
  Networks <- TwoNetworks
  Volumes <- NoVolume
  External <- ExternalNetwork
  Named <- One
SYMMETRY Symmetry
INVARIANTS
  TypeOK
  Converged
  UpToDateKept
  OthersUntouched
  DependencyFirst
  DownLeavesNothing
PROPERTIES
  OnlyKnownTouched
