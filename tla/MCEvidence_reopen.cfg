SPECIFICATION Spec
CONSTANTS
  Result <- FourReads
  Directory <- MCDirectory
  Batch = 2
  MaxRefs = 4
  KeepRefs = 3
  MaxSources = 4
  KeepSources = 2
  MaxSteps = 6
INVARIANT ContinuationResolves
CHECK_DEADLOCK FALSE
