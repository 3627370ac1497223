\* Two users of one phone, two calls at once, five in all, two quarters of an hour, one failure.
CONSTANTS
  Users       = {u1, u2}
  None        = None
  Calls       = {c1, c2}
  MaxCalls    = 5
  MaxExpiries = 1
  MaxFailures = 1
SPECIFICATION FairSpec
INVARIANTS TypeOK OneRefreshAtATime QueueHasARefresh TokensOfTheUser SessionSurvivesRefreshes
PROPERTY CallsSettle
CHECK_DEADLOCK FALSE
