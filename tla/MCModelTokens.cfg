SPECIFICATION FairSpec
CONSTANTS
  Requests = {r1, r2}
  MaxVersion = 4
INVARIANTS
  TypeOK
  OnlyGoodTables
PROPERTIES
  InstallsNoOlder
  Converges
