SPECIFICATION Spec
CONSTANTS
  NSlots = 2
  Requests = {r1, r2}
  Threshold = 2
  Rewind = 2
  ErrorCost = 1
  MaxRetry = 1
  HasBackup = TRUE
  MaxAddr = 3
  MaxUsage = 2
  Free = Free
  Background = Background
INVARIANT NoOrphan
