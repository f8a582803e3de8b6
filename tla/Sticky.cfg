SPECIFICATION FairSpec
CHECK_DEADLOCK FALSE
CONSTANTS
  MaxHead = 3
  MaxTitle = 2
  MaxDeletions = 1
  Serialized = TRUE
  MayFail = TRUE
INVARIANTS
  OneSticky
PROPERTIES
  NoNewerStickyLost
  DeltaIsAgainstWhatWasShown
  StickyCatchesUp
