SPECIFICATION Spec
CHECK_DEADLOCK FALSE
CONSTANTS
  p1 = p1
  p2 = p2
  p3 = p3
  Proc = {p1, p2}
  Inputs <- ThreeInputs
  Candidates <- TwoAnswers
  Coverages <- OneCoverage
  MayStall = TRUE
SYMMETRY Symmetry
INVARIANTS
  CleanVerdictWasConfirmed
PROPERTIES
  KeepsPromise
