SPECIFICATION FairSpec
CONSTANTS
  accounts = accounts
  admin = admin
  users = users
  vendors = vendors
  Databases <- MCDatabases
  Admin = admin
  Rank <- MCRank
  Last = 6
  Affected <- MCAffectedOld
  Noop <- MCNoop
  Mapped <- MCMapped
  Drops <- MCDrops
  StickyFaults = FALSE
  MaxFaults = 2
  MaxCrashes = 1
PROPERTIES
  PublicationResolves
