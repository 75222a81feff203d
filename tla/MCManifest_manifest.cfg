CONSTANTS
  r1 = r1
  r2 = r2
  c1 = c1
  v1 = v1
  Runner <- MCRunner
  Chat <- MCChat
  Visitor <- MCVisitor
  MaxStarts = 3
SYMMETRY Symmetry
SPECIFICATION Spec
INVARIANTS TypeOK ManifestTruthful RunReported
CHECK_DEADLOCK FALSE
