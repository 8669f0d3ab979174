SPECIFICATION FairSpec
CONSTANTS
  NSlots = 1
  Requests = {r1, r2}
  Threshold = 2
  Rewind = 2
  ErrorCost = 1
  MaxRetry = 1
  HasBackup = TRUE
  MaxAddr = 4
  MaxUsage = 2
  Free = Free
  Background = Background
INVARIANTS
  TypeOK
  InServiceConfigured
PROPERTIES
  RotatesForward
  StandbyNotLost
  PreparedIsPublished
  EveryRequestAnswered
