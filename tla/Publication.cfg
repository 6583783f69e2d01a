SPECIFICATION Spec
CONSTANTS
  accounts = accounts
  admin = admin
  users = users
  vendors = vendors
  Databases <- MCDatabases
  Admin = admin
  Rank <- MCRank
  Last = 6
  Affected <- MCAffected
  Noop <- MCNoop
  Mapped <- MCMapped
  Drops <- MCDrops
  StickyFaults = FALSE
  MaxFaults = 4
  MaxCrashes = 3
INVARIANTS
  TypeOK
  HeadsExact
  MapsExact
  IntervalsExact
  NeverRefused
  CompleteMeansApplied
  SyncStaysComplete
PROPERTIES
  PublishedOnce
  ImplementsReplica
  AppliedOnce
