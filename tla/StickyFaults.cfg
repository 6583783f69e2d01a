SPECIFICATION Spec
CONSTANTS
  accounts = accounts
  admin = admin
  users = users
  vendors = vendors
  Databases <- MCDatabases
  Admin = admin
  Rank <- MCRank
  Last = 6
  Affected <- MCAffectedOld
  Noop <- MCNoop
  Mapped <- MCMapped
  Drops <- MCDrops
  StickyFaults = TRUE
  MaxFaults = 2
  MaxCrashes = 1
INVARIANTS
  CompleteMeansApplied
