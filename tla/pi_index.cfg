SPECIFICATION PiSpec
CONSTANTS
  MaxEntries = 3
  MaxOpens = 0
  MaxFaults = 1
  MaxCrashes = 0
CHECK_DEADLOCK FALSE
PROPERTIES EveryEntryIndexed
