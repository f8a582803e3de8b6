SPECIFICATION InputsSpec
CONSTANTS
  Conversations <- AuConversations
  ChangedFiles <- AuChanged
  ChunkSize = 2
  MaxBatches = 2
  ItemCap = 2
  FindingCap = 2
  PickCap = 2
  ListCap = 3
  AboutTests = {2, 4}
  Providers <- AuProviders
  AuditAnswers <- AuAnswers
  GapAnswers <- AuGaps
  Replies <- AuReplies
  MaxRuns = 2
  Recorders <- ReRecorders
  ChunkLengths = {2}
  MaxChunks <- ReChunks
  RawCap = 3
  ExcerptLimit = 2
  Blocks <- ReBlocks
  Handwritten <- ReHandwritten
  NoChange <- SuNoChange
  MaxEdits = 1
  MaxCommands = 3
  RepoFiles <- CoFiles
  Specs <- CoSpecs
  NameRank <- CoRank
  Ignored <- CoIgnored
  Artifact <- CoArtifact
  Histories <- CoHistories
  Trees <- CoTrees
  Modes <- CoModes
  MayEdit <- CoEdited
  MayDelete <- CoDeleted
  MayMove <- CoMoved
  UntrackedCap = 1
  MaxTouches = 2
  MaxCollections = 2
INVARIANTS
  InputsTypeOK
  CommandsAreRead
  ConversationIsRead
  TranscriptIsWhole
  AuditIsEarned
  CollectionIsTrue
  SurfacesAgree
  PromptsFollowFindings
  RoundsAddUp
  TrustIsHonest
CHECK_DEADLOCK FALSE
