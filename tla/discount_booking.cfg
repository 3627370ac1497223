\* Two rides of one person over two accounts, a code for one use, an edit and a fault.
CONSTANTS
  People = {p1}
  None   = None
  Rides  = {r1, r2}
  MaxUses     = 1
  Fare        = 10
  Worth       <- CodeWorth
  OfferWorth  = 5
  MaxAccounts = 2
  MaxEdits    = 1
  MaxFaults   = 1
SPECIFICATION Spec
SYMMETRY Symmetry
INVARIANTS TypeOK UsesAreCounted LimitIsKept OneOfferPerAccount RidersAreRemembered DriverIsMadeWhole
CHECK_DEADLOCK FALSE
