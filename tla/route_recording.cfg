\* Three calls at once, a flush at every second waypoint, two crashes.
CONSTANTS
  Positions  = {0, 1, 3}
  Slots      = {s1, s2, s3}
  None       = None
  FlushEvery = 2
  MaxFixes   = 3
  MaxCrashes = 2
SPECIFICATION Spec
INVARIANTS NeverBilledBeyondTheRoute QuietRoutesAreBilledInFull WaypointsSurvive
SYMMETRY Symmetry
CHECK_DEADLOCK FALSE
