SPECIFICATION FairSpec
CONSTANTS
  f1 = f1
  f2 = f2
  a1 = a1
  a2 = a2
  Accounts <- MCAccount
  Fetchers <- MCTwo
  PageSize = 1
  Lookback = 1
  Lag = 1
  GapPages = FALSE
  MaxPosts = 2
  MaxTime = 0
  MaxEdits = 0
  MaxFailures = 1
PROPERTY
  EventuallyCollected
CHECK_DEADLOCK FALSE
