SPECIFICATION FairSpec
CONSTANTS
  Size = 4
  Buf = 2
INVARIANTS
  TypeOK
  ReadsNoFurther
  StopsOnDisconnect
  RightBytes
  AbortsCounted
PROPERTY HandlerEnds
CHECK_DEADLOCK FALSE
