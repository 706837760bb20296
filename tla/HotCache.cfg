SPECIFICATION FairSpec
CONSTANTS
  d1 = d1
  d2 = d2
  NoEntry = NoEntry
  a = a
  b = b
  Digests <- MCDigests
  Databases <- MCDatabases
  RefreshAfter = 2
  MaxStale = 4
  Poll = 1
  Hydration = 1
  MaxWrites = 1
  MaxBinds = 2
  MaxFailures = 1
INVARIANTS
  TypeOK
  NoMissedWrite
  Ceiling
  NeverExpires
  ForeignIsBrief
PROPERTY
  EventuallyServed
