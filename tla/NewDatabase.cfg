SPECIFICATION FairSpec
CONSTANTS
  accounts = accounts
  admin = admin
  users = users
  vendors = vendors
  Databases <- MCDatabases
  Admin = admin
  Rank <- MCRank
  Last = 6
  Affected <- MCAffected
  Noop <- MCNoop
  Mapped <- MCMapped
  Drops <- MCNone
  StickyFaults = FALSE
  MaxFaults = 1
  MaxCrashes = 0
PROPERTIES
  PublicationResolves
