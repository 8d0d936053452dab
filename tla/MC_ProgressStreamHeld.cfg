SPECIFICATION Spec
CONSTANTS
  Capacity = 2
  Events = 5
INVARIANTS
  StackNotHeld
