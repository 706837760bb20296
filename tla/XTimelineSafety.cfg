SPECIFICATION Spec
CONSTANTS
  f1 = f1
  f2 = f2
  a1 = a1
  a2 = a2
  Accounts <- MCAccounts
  Fetchers <- MCTwo
  PageSize = 1
  Lookback = 1
  Lag = 1
  GapPages = TRUE
  MaxPosts = 2
  MaxTime = 1
  MaxEdits = 1
  MaxFailures = 0
SYMMETRY MCSymmetry
INVARIANTS
  TypeOK
  NothingSkipped
  OwnIdentity
PROPERTIES
  NeverBack
CHECK_DEADLOCK FALSE
