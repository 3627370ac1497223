\* One immediate ride, two drivers, two requests at once, one crash.
CONSTANTS
  Clients  = {c1}
  Drivers  = {d1, d2}
  Rides    = {r1}
  Requests = {q1, q2}
  Ticks    = {}
  None     = None
  Kinds    = {"immediate"}
  MaxStarts  = 1
  MaxCompletions = 2
  MaxCrashes = 1
SPECIFICATION Spec
SYMMETRY Symmetry
INVARIANTS TypeOK DriverWonTheRide CompletedOnceIfStartedOnce FeesAreEarned BindingsFollowTheWinner
PROPERTY AwardedAtMostOnce
CHECK_DEADLOCK FALSE
