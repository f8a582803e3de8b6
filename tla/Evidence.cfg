SPECIFICATION ReviewSpec
CONSTANTS
  Contents = {c1, c2}
  test = test
  attest = attest
  None = None
  Commands <- MCCommands
  TestCommands <- MCTestCommands
  Records <- MCRecords
  Reports <- MCReports
  NumChecks = 3
  MaxVisible = 2
  MaxCases = 2
  MaxParsed = 1
  MaxRuns = 2
  Acids <- ScAcids
  GroupOf <- ScGroup
  BaseSpec <- ScBase
  SourceFiles <- ScSources
  AreaOf <- ScArea
  RoleOf <- ScRole
  SpecFile <- ScSpecFile
  GivenStatuses <- ScGiven
  MaxEdits = 2
  Files <- EvFiles
  Role <- EvRole
  InGroup <- EvInGroup
  Absent = "absent"
  Requirements <- EvRequirements
  ReportCases <- EvCases
  Candidates <- EvCandidates
  MaxReportCases = 1
  MaxCandidates = 2
  MaxEvidence = 4
  MaxBudget = 1
  ReviewFiles <- QFiles
  ChangedFiles <- QChanged
  FileRole <- QRole
  FileArea <- QArea
  FileRank <- QRank
  IsContract <- QContract
  LinesChanged <- QLines
  FocusScore <- QFocus
  TestedBeside <- QTested
  CoverageOf <- QCoverage
  RiskShapes <- QShapes
  Suppressions <- QSuppressions
  Overrides <- QOverrides
  Memories <- QMemories
  Facts <- QFacts
  MaxRisks = 2
  MaxSuppressions = 2
  MaxInputs = 3
  MaxQueue = 2
  MaxFallback = 2
  Budgets <- QBudgets
  Paths <- PkPaths
  BasePaths <- PkBase
  PathRank <- PkRank
  MovedFrom <- PkFrom
  PathRole <- PkRole
  PathAreas <- PkAreas
  PathLines <- PkLines
  Surfaces <- PkSurfaces
  ExplicitContract <- PkContract
  RootRank <- PkRootRank
  KeywordsOf <- PkKeywords
  OtherForm <- PkOther
  RunCommands <- PkCommands
  TestAreas <- PkTestAreas
  Reviews <- PkReviews
  RuleEvidence = 1
  FileCap = 3
  LineCap = 5
  MaxTreeSteps = 3
  MaxCommits = 3
  MaxRecorded = 1
SYMMETRY MCSymmetry
INVARIANTS
  SafeAfterRun
  BlockIsCurrent
  FailureNotHidden
  MissingCheckNamed
  PartsTypeOK
  SatisfiedIsEarned
  KeptRequirementsCompareWithThemselves
  NothingIsHidden
  PlanHonoursBudget
  PrRisksAreComplete
  AnchorsAreTrue
CHECK_DEADLOCK FALSE
