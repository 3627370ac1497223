\* Three drivers, a table of two rows out of six offered, three changes, one hour that passes.
CONSTANTS
  solo = solo  hired = hired  other = other  van = van
  Drivers    = {solo, hired, other}
  InCompany  = {hired}
  VehicleOf  <- VehiclesOf
  AnyVehicle = AnyVehicle
  Company    = Company
  Platform   = Platform
  Hours      = 3
  Offered    <- OfferedRows
  Routes     <- PlannedRoutes
  Meters     = {900}
  MaxTariffs = 2
  MaxChanges = 3
  MaxTicks   = 1
SPECIFICATION Spec
INVARIANTS SelectionFollowsPriority EstimateIsKept
CHECK_DEADLOCK FALSE
