SPECIFICATION Spec
CONSTANTS
  Requests = {r1}
  MaxVersion = 3
INVARIANT UpToDate
