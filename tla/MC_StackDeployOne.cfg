SPECIFICATION Spec
CONSTANTS
  s1 = s1
  p1 = p1
  p2 = p2
  Stacks <- MCStacks
  Procs <- MCProcs
  MaxTasks = 1
  Retention = 0
  MaxStarts = 3
  MaxTime = 1
SYMMETRY Symmetry
INVARIANT
  OneDeployAtATime
