SPECIFICATION FairSpec
CONSTANTS
  Sources = {a, b}
  None = none
  Last = 2
  MaxFailures = 2
  MaxSwitches = 2
  MaxRollbacks = 1
INVARIANTS TypeOK RoundOK
PROPERTIES QuietMeansReported SourceLearns
CHECK_DEADLOCK FALSE
