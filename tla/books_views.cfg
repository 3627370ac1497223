\* Two rides, two of each rate (one % is 0), a discount for half and for all of the price,
\* and half cents of the commission, of a card's fee and of the driver's %.
CONSTANTS
  Rides  = {r1, r2}
  None   = None
  Shares = {0, 75}
  Deals  = {5}
  Fees   = {3, 10}
  LegacyFee = 7
  Prices    = {2010}
  Worths    = {0, 1005, 3000}
  NewFares  = {501}
  SplitDown <- SplitsRoundedDown
  FeeDown   <- FeesRoundedDown
  MaxChanges = 1
  MaxFaults  = 1
SPECIFICATION Spec
INVARIANTS EntriesAddUp FinancesMatchTheWallet OnlyCashDiscountsAreLost
SYMMETRY Symmetry
CHECK_DEADLOCK FALSE
