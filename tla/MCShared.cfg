SPECIFICATION MCSpec
CONSTANTS
  Posters = {p1, p2, p3}
  Deleters = {d1}
  Readers = {r1}
  Tids = {0, 1, 2}
  MaxNo = 3
  Presses = {b1}
  MaxReleased = 2
  MaxLoads = 2
SYMMETRY PosterSymmetry
INVARIANTS
  TypeOK
  RepliesCounted
  DeletedStaysHidden
  PostedIsReadable
  PageKeepsUp
PROPERTY NeverBack
CHECK_DEADLOCK FALSE
