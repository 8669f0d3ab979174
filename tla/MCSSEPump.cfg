SPECIFICATION FairSpec
CONSTANTS
  RawCap = 1
  OutCap = 1
  MaxEvents = 3
INVARIANTS
  TypeOK
  NothingSkipped
  NoInjectionAfterFinish
  WellTerminated
PROPERTIES
  StreamEndsOrBreaks
  CloseEndsAll
CHECK_DEADLOCK FALSE
