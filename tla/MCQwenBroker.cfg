SPECIFICATION FairSpec
CONSTANTS
  Agents = {a1}
  Requests = {r1, r2}
  Chats = {c1}
  ChanCap = 1
  MaxChunks = 2
  Slow = TRUE
  NoChat = NoChat
  None = None
INVARIANTS
  TypeOK
  BusyIsWatched
  NoPanic
PROPERTIES
  RelaysAnswers
  AgentFreed
  RequestEnds
  LoopReturns
CHECK_DEADLOCK FALSE
