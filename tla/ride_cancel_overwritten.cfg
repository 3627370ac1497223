\* One immediate ride, two requests at once.
CONSTANTS
  Clients  = {c1}
  Drivers  = {d1, d2}
  Rides    = {r1}
  Requests = {q1, q2}
  Ticks    = {}
  None     = None
  Kinds    = {"immediate"}
  MaxStarts  = 1
  MaxCompletions = 2
  MaxCrashes = 0
SPECIFICATION Spec
PROPERTY CancelNotOverwritten
CHECK_DEADLOCK FALSE
