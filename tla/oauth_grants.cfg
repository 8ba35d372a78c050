SPECIFICATION Spec
CONSTANTS
  f1 = f1
  f2 = f2
  c1 = c1
  c2 = c2
  None = None
  Flow = {f1, f2}
  Caller = {c1, c2}
  MaxGrants = 2
  MaxTurns = 3
  MaxAdds = 2
  MaxFaults = 1
SYMMETRY Symmetry
CHECK_DEADLOCK FALSE
INVARIANTS TypeOK RefreshTokenCurrent ClientIdMatches
