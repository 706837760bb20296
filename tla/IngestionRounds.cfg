SPECIFICATION Spec
CONSTANTS
  x = x
  feed = feed
  c1 = c1
  c2 = c2
  a1 = a1
  a2 = a2
  Sources <- MCXFeed
  XSources <- MCX
  Confs <- MCConfs
  Accounts <- MCAccounts
  Account <- MCAccount
  MaxPost = 1
  MaxRound = 1
  MaxOperator = 1
  MaxCrash = 1
SYMMETRY MCSymmetry
INVARIANTS
  TypeOK
  ReceiptCoversRound
PROPERTY
  DeliveredInOrderOnce
CHECK_DEADLOCK FALSE
