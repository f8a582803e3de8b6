SPECIFICATION Spec
CHECK_DEADLOCK FALSE
CONSTANTS
  Instances <- AllInstances
INVARIANTS
  CleanVerdictIsExhaustive
  ConclusionsRestOnHeadEvidence
  ComparisonConserves
PROPERTIES
  ConfirmationOnlyUnlocks
