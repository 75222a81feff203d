CONSTANTS
  Capacity = 1
  Background = {"obedient", "stubborn", "escaped"}
SPECIFICATION FairSpec
INVARIANTS TypeOK SignalsOwnChild CancelTruthful
PROPERTIES StopReturnsAlone
CHECK_DEADLOCK FALSE
