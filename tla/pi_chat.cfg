SPECIFICATION PiSpec
CONSTANTS
  MaxEntries = 3
  MaxOpens = 1
  MaxFaults = 1
  MaxCrashes = 1
CHECK_DEADLOCK FALSE
INVARIANTS PiTypeOK CopyIsPrefix
PROPERTIES StatusSettles
