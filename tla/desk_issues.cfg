SPECIFICATION Spec
CONSTANTS
  p1 = p1
  p2 = p2
  p3 = p3
  e1 = e1
  c1 = c1
  t1 = t1
  None = None
  Card = {c1, e1}
  Title = {t1}
  MaxCards = 2
  Proc = {p1, p2, p3}
  MaxAttempts = 2
  MaxClock = 1
  MaxClears = 1
  MaxFaults = 1
  Fingerprint = {e1}
  CardOf <- CardOfPrint
  Writes <- SmallWrites
  MaxIssues = 3
  MaxReports = 2
  MaxWrites = 1
SYMMETRY Symmetry
CHECK_DEADLOCK FALSE
INVARIANTS TypeOK OneIssuePerFingerprint
PROPERTIES KeepsDesk
