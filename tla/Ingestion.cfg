SPECIFICATION FairSpec
CONSTANTS
  x = x
  feed = feed
  c1 = c1
  c2 = c2
  a1 = a1
  a2 = a2
  Sources <- MCX
  XSources <- MCX
  Confs <- MCConfs
  Accounts <- MCAccounts
  Account <- MCAccount
  MaxPost = 1
  MaxRound = 2
  MaxOperator = 2
  MaxCrash = 1
INVARIANTS
  MainCursorCovered
  CollectedIsDeliverable
  RuntimeOwned
  Acknowledged
PROPERTY
  OutboxDrains
CHECK_DEADLOCK FALSE
