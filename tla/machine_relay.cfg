SPECIFICATION FairRelaySpec
CONSTANTS
  k1 = k1
  k2 = k2
  k3 = k3
  c1 = c1
  c2 = c2
  c3 = c3
  a = a
  b = b
  None = None
  Conn = {k1, k2}
  Call = {c1, c2, c3}
  Tool = {a, b}
  Catalogs <- TwoCatalogs
  MaxPending = 2
  MaxFrames = 3
  MaxFaults = 1
  MaxRestarts = 1
CHECK_DEADLOCK FALSE
INVARIANTS RelayTypeOK WaitingAccounted AnswersStayHome CatalogKept
PROPERTIES EveryCallAnswered
