\* One scheduled ride, two drivers, one request beside two scheduler passes.
CONSTANTS
  Clients  = {c1}
  Drivers  = {d1, d2}
  Rides    = {r1}
  Requests = {q1}
  Ticks    = {t1, t2}
  None     = None
  Kinds    = {"scheduled"}
  MaxStarts  = 1
  MaxCompletions = 2
  MaxCrashes = 1
SPECIFICATION FairSpec
PROPERTY ScheduledRideIsSettled
CHECK_DEADLOCK FALSE
