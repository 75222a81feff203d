SPECIFICATION Spec
CONSTANTS
  k1 = k1  c = c  t1 = t1  t2 = t2  look = look  check = check 
  Kernel = {k1}
  Cleaner = {}
  Text = {t1}
  Goal <- OneGoal
  Act = {look, check}
  Kind <- LookAndCheck
  Output = {"out"}
  Window = 5
  MaxRuns = 5
INVARIANT ReflexEarned
CHECK_DEADLOCK FALSE
