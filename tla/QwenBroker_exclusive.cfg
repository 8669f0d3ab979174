SPECIFICATION Spec
CONSTANTS
  Agents = {a1}
  Requests = {r1, r2, r3}
  Chats = {c1}
  ChanCap = 1
  MaxChunks = 1
  Slow = FALSE
  NoChat = NoChat
  None = None
INVARIANT OneRequestPerAgent
CHECK_DEADLOCK FALSE
