SPECIFICATION Spec
CONSTANTS
  accounts = accounts
  admin = admin
  users = users
  vendors = vendors
  Databases <- MCDatabases
  Admin = admin
  Rank <- MCRank
  Last = 6
  Affected <- MCAffectedAdmin
  Noop <- MCNone
  Mapped <- MCMappedAdmin
  Drops <- MCNone
  StickyFaults = FALSE
  MaxFaults = 1
  MaxCrashes = 0
INVARIANTS
  IntervalsSurvive
