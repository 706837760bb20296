SPECIFICATION FairSpec
CONSTANTS
  Slots = {p8000, p8001}
  Snapshots = {s0, s1}
  Initial = s0
  Answer <- MCTellsApart
  None = None
  MaxPush = 2
  MaxCrash = 2
  MaxFailure = 2
  MaxUpgrade = 1
INVARIANTS
  TypeOK
  AlwaysServes
  BasisIsServed
  NoManualStop
  OneRetry
PROPERTIES
  ServingUntouched
  BaseNeverLost
  IsReleaseIntake
  ReleaseEnds
CHECK_DEADLOCK FALSE
