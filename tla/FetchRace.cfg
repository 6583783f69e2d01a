SPECIFICATION FairSpec
CONSTANTS
  Last = 3
  Noop <- MCNoop
  Capacity = 2
  MaxFaults = 0
  MaxSwitches = 0
  MaxCrashes = 0
PROPERTY EveryEntryApplied
CHECK_DEADLOCK FALSE
