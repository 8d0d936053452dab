SPECIFICATION FairSpec
CONSTANTS
  Capacity = 2
  Events = 5
INVARIANTS
  TypeOK
  OutcomeSeen
  BuildNotHeld
PROPERTIES
  StreamEnds
