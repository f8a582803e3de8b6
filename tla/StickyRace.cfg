SPECIFICATION Spec
CHECK_DEADLOCK FALSE
CONSTANTS
  MaxHead = 2
  MaxTitle = 2
  MaxDeletions = 0
  Serialized = FALSE
  MayFail = FALSE
PROPERTIES
  NoNewerStickyLost
