CONSTANTS
  Capacity = 1
  Background = {"obedient"}
SPECIFICATION FairSpec
PROPERTIES StopReturns
CHECK_DEADLOCK FALSE
