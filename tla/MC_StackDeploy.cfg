SPECIFICATION FairSpec
CONSTANTS
  s1 = s1
  p1 = p1
  p2 = p2
  Stacks <- MCStacks
  Procs <- MCProcs
  MaxTasks = 1
  Retention = 0
  MaxStarts = 2
  MaxTime = 1
INVARIANTS
  TypeOK
  BusyIsOwned
  DeployingIsOwned
PROPERTIES
  DeletedIsFinal
  OperationsEnd
  DeployingEnds
