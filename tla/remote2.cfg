SPECIFICATION FairSpec
CONSTANTS
  c1 = c1 c2 = c2 w1 = w1 w2 = w2 h1 = h1 h2 = h2 p1 = p1 p2 = p2
  closed = closed zero = zero null = null
  Clients = {c1}
  Workers = {w1, w2}
  Handles = {h1, h2}
  Players = {p1}
  Invalid = closed
  Nobody = zero
  None = null
  Loopback = {}
  Account <- SamePlayer
  QueriesFail = TRUE
  MaxPackets = 4
INVARIANTS ReadLoopSingle Watched
PROPERTIES HandoffEnds PeerGoneNoticed
CHECK_DEADLOCK FALSE

