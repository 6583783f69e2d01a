SPECIFICATION Spec
CONSTANTS
  Last = 4
  Noop <- MCNoop
  Capacity = 2
  MaxFaults = 2
  MaxSwitches = 1
  MaxCrashes = 1
INVARIANTS TypeOK BufferFollows FetchFollows CheckpointOrdered
PROPERTY AppliedInOrder
CHECK_DEADLOCK FALSE
