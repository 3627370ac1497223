\* Two connections that may overlap, and any number of reconnections.
CONSTANTS
  Sockets  = {c1, c2}
  None     = None
  MaxCalls = 1
SPECIFICATION FairSpec
PROPERTIES OnlineDriversStayDispatchable GoneDriversLeaveDispatch
CHECK_DEADLOCK FALSE
