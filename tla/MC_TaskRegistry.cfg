SPECIFICATION Spec
CONSTANTS
  a = a
  b = b
  c = c
  Ids <- MCIds
  MaxTasks = 2
  Retention = 1
  Percents <- MCPercents
  MaxStarts = 4
  MaxTime = 3
SYMMETRY Symmetry
INVARIANTS
  TypeOK
  CanceledIffTerminal
PROPERTIES
  RunningIsKept
  FinishedIsFinal
  CapHolds
  RecentIsKept
