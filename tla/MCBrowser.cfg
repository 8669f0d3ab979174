SPECIFICATION MCSpec
CONSTANTS
  Tabs = {t1, t2}
  Requests = {r1, r2}
  MaxDeployed = 3
  MaxWorker = 2
  Pages = 2
  PerPage = 2
  Ahead = 1
  MaxTurns = 2
  MaxReloads = 1
  Windows = {w1, w2}
  Keys = {k1}
  Values = {v1}
  MaxWrites = 3
  Pictures = 7
  PerSheet = 3
INVARIANTS
  NothingFromBefore
  ShowsPageOnView
  StoresAgree
  WalksInOrder
PROPERTY TimeoutsEnd
CHECK_DEADLOCK FALSE
