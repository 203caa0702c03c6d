SPECIFICATION Spec
CONSTANTS
  c1 = c1 c2 = c2 w1 = w1 w2 = w2 p1 = p1 null = null
  Clients = {c1, c2}
  Workers = {w1, w2}
  Encrypted = {c1}
  Players = {p1}
  Account <- SamePlayer
  Messages <- ForPlayers
  JoinKinds <- JoinTwo
  None = null
  MaxStalls = 0
  MaxDatagrams = 2
  MaxKeepAlives = 1
INVARIANT LookupsSuffice
PROPERTY ImplementsDelivery
CHECK_DEADLOCK FALSE
SYMMETRY Symmetry
