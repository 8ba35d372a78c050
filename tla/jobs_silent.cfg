SPECIFICATION Spec
CONSTANTS
  j1 = j1
  j2 = j2
  p1 = p1
  p2 = p2
  p3 = p3
  s1 = s1
  s2 = s2
  k1 = k1
  None = None
  Job = {j1}
  Proc = {p1}
  Session = {s1}
  Deletable = {}
  RunKey = {}
  Limits = {2}
  MaxActive = 1
  MaxAlarms = 2
  MaxRuns = 1
  MaxLapses = 0
  MaxFaults = 1
  MaxCrashes = 0
CHECK_DEADLOCK FALSE
INVARIANT ActiveJobsTick
