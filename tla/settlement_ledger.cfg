\* One ride of a solo driver on commission, with a discount, two handlers at once, two intents, one crash.
CONSTANTS
  Rides   = {r1}
  Intents = {i1, i2}
  Slots   = {s1, s2}
  None    = None
  Fares         = {100}
  Absorbed      = {20}
  NewFares      = {0, 100}
  PayoutAmounts = {60}
  Solo       = TRUE
  Pct        = 5
  CardFeePct = 10
  MaxBegun   = 4
  MaxFailures = 1
  MaxCrashes = 1
SPECIFICATION Spec
INVARIANTS TypeOK PayoutsWithinPeak SettledCreditsWerePaid OneCreditPerRide CardFeeTakenOnce CompletedRidesAreCredited
SYMMETRY Symmetry
CHECK_DEADLOCK FALSE
