CONSTANTS
  w1 = w1
  c1 = c1
  k1 = k1
  k2 = k2
  prefer = prefer
  Worker <- MCWorker
  Cleaner <- MCCleaner
  Key <- MCKey
  Word <- MCWord
  Pattern <- MCPattern
  Keep = 1
  Limit = 2
  MaxWork = 4
  MaxClock = 2
SYMMETRY Symmetry
SPECIFICATION Spec
INVARIANTS TypeOK RecentKept SearchExact
PROPERTY KnowledgeGrows
CHECK_DEADLOCK FALSE
