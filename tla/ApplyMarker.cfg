SPECIFICATION Spec
CONSTANTS
  Slots = {p8000, p8001}
  Snapshots = {s0, s1}
  Initial = s0
  Answer <- MCTellsApart
  None = None
  MaxPush = 2
  MaxCrash = 1
  MaxFailure = 1
  MaxUpgrade = 1
INVARIANT
  MarkerHasSidecar
CHECK_DEADLOCK FALSE
