SPECIFICATION Spec
CONSTANTS
  Result <- Mixed
  Directory <- MCDirectory
  Batch = 2
  MaxRefs = 4
  KeepRefs = 3
  MaxSources = 4
  KeepSources = 2
  MaxSteps = 5
INVARIANTS TypeOK NoDuplicates 
PROPERTY CompactionKeepsBest
CHECK_DEADLOCK FALSE
