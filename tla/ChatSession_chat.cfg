SPECIFICATION FairSpec
CONSTANTS
  MaxTasks = 2
  MaxTyped = 2
INVARIANTS TypeOK PromptKept OneWorker IdleWhenDone
PROPERTIES StopHeard OutcomeShown
CHECK_DEADLOCK FALSE
