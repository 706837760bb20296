SPECIFICATION FairSpec
CONSTANTS
  cron = cron
  manual = manual
  Producers <- MCProducers
  None = None
  Torn = Torn
  MaxWrite = 1
  MaxStop = 2
  MaxOrphan = 1
INVARIANTS
  TypeOK
  GivenIsWhole
PROPERTIES
  DoneIsFresh
  RejectionIsCurrent
  Arrives
CHECK_DEADLOCK FALSE
