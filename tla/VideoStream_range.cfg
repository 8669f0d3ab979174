SPECIFICATION Spec
CONSTANTS
  Size = 3
  Buf = 2
INVARIANT RangeDelivered
CHECK_DEADLOCK FALSE
