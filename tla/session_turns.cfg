SPECIFICATION Spec
CONSTANTS
  m1 = m1
  m2 = m2
  None = None
  Msg = {m1}
  MaxContinuations = 1
  MaxTrouble = 2
CHECK_DEADLOCK FALSE
INVARIANTS TypeOK OneRecoveryPerIncident EndToldOnce
PROPERTIES ComposerUnlocks
