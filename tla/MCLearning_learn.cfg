SPECIFICATION Spec
CONSTANTS
  k1 = k1  c = c  t1 = t1  t2 = t2  look = look  check = check
  Kernel = {k1}
  Cleaner = {c}
  Text = {t1, t2}
  Goal <- OneGoal
  Act = {check}
  Kind <- JustCheck
  Output = {"out"}
  Window = 3
  MaxRuns = 4
SYMMETRY Texts
INVARIANTS TypeOK ReflexBacked PromotionsReachCache
CHECK_DEADLOCK FALSE
