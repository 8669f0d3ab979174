SPECIFICATION FairSpec
CONSTANTS
  RawCap = 1
  OutCap = 1
  MaxEvents = 2
PROPERTY EveryStreamEnds
CHECK_DEADLOCK FALSE
