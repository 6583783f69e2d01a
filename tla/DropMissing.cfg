SPECIFICATION FairSpec
CONSTANTS
  accounts = accounts
  admin = admin
  users = users
  vendors = vendors
  Databases <- MCDatabases
  Admin = admin
  Rank <- MCRank
  Last = 3
  Affected <- MCAffectedMissing
  Noop <- MCNone
  Mapped <- MCNone
  Drops <- MCDropsMissing
  StickyFaults = FALSE
  MaxFaults = 0
  MaxCrashes = 0
PROPERTIES
  PublicationResolves
