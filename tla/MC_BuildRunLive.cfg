SPECIFICATION FairSpec
CONSTANTS
  b1 = b1
  b2 = b2
  Builds <- MCBuilds
  MaxTasks = 1
  Retention = 0
  MaxTime = 0
  MaxStarts = 2
  ReconcileLimit = 2
PROPERTY
  BuildsEnd
