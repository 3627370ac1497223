\* Two calls at once, plans of one and two days, one day of grace, reminders on the
\* last day and at the end of the grace; a pass may go on until a tick after nine,
\* and one fails.
CONSTANTS
  Slots     = {s1, s2}
  Plans     = {1, 2}
  Day       = 2
  Drift     = 1
  Grace     = 1
  Offsets   <- ReminderOffsets
  Horizon   = 6
  LastCall  = 3
  MaxCalls  = 3
  MaxRows   = 2
  MaxMisses = 1
SPECIFICATION Spec
INVARIANTS TypeOK ActiveWasPaid CoveredMayWork EveryNoticeIsSent NoNoticeTwice
SYMMETRY Symmetry
CHECK_DEADLOCK FALSE
