SPECIFICATION Spec
CONSTANTS
  c1 = c1 c2 = c2 w1 = w1 w2 = w2 h1 = h1 h2 = h2 p1 = p1 p2 = p2
  closed = closed zero = zero null = null
  Clients = {c1, c2}
  Workers = {w1, w2}
  Handles = {h1, h2}
  Players = {p1}
  Invalid = closed
  Nobody = zero
  None = null
  Loopback = {c1, c2}
  Account <- SamePlayer
  QueriesFail = FALSE
  MaxPackets = 2
INVARIANTS TypeOK SingleOwner DbExclusive NoDuplicateRow PendingConsistent AcceptLoopSingle SeatsOwn
PROPERTIES LoginDestroysOnlyDead ImplementsRoster
CHECK_DEADLOCK FALSE
SYMMETRY Symmetry
