SPECIFICATION FairSpec
CONSTANTS
  Last = 4
  Noop <- MCNoop
  Capacity = 2
  MaxFaults = 1
  MaxSwitches = 1
  MaxCrashes = 0
PROPERTY SecondaryFollows
CHECK_DEADLOCK FALSE
