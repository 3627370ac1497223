\* Two connections that may overlap, and any number of reconnections.
CONSTANTS
  Sockets  = {c1, c2}
  None     = None
  MaxCalls = 1
SPECIFICATION RetrySpec
PROPERTY NeverSilentlyOffline
CHECK_DEADLOCK FALSE
