SPECIFICATION Spec
CONSTANTS
  accounts = accounts
  admin = admin
  users = users
  vendors = vendors
  Databases <- MCDatabases
  Admin = admin
  Rank <- MCRank
  Last = 6
  Affected <- MCAffectedAdmin
  Noop <- MCNone
  Mapped <- MCMappedAdmin
  Drops <- MCNone
  StickyFaults = TRUE
  MaxFaults = 3
  MaxCrashes = 2
INVARIANTS
  NeverRefused
PROPERTIES
  MainKeepsEntries
