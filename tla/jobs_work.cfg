SPECIFICATION Spec
CONSTANTS
  j1 = j1
  j2 = j2
  p1 = p1
  p2 = p2
  p3 = p3
  s1 = s1
  s2 = s2
  k1 = k1
  None = None
  Job = {j1}
  Proc = {p1, p2}
  Session = {s1}
  Deletable = {s1}
  RunKey = {k1}
  Limits = {1, 2}
  MaxActive = 1
  MaxAlarms = 3
  MaxRuns = 3
  MaxLapses = 1
  MaxFaults = 1
  MaxCrashes = 1
SYMMETRY Symmetry
CONSTRAINT Corners
CHECK_DEADLOCK FALSE
INVARIANTS TypeOK RunClaimedOnce RunLimitHonoured KeyedRunOnce FailuresCompensated
PROPERTIES RunsNeverRefunded
