SPECIFICATION Spec
CHECK_DEADLOCK FALSE
CONSTANTS
  p1 = p1
  p2 = p2
  p3 = p3
  Proc = {p1, p2, p3}
  Inputs <- TwoInputs
  Candidates <- OneAnswer
  Coverages <- OneCoverage
  MayStall = FALSE
SYMMETRY Symmetry
INVARIANTS
  LockDiscipline
  LedgersFromOneRun
  PairAgrees
PROPERTIES
  ReviewedLedgersPreserved
