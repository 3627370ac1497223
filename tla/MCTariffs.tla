------------------------------ MODULE MCTariffs -----------------------------
(***************************************************************************)
(* Instances of Tariffs for TLC: a solo driver with a van, one of the      *)
(* company with a van, and a solo driver whose type of vehicle is not set. *)
(***************************************************************************)
EXTENDS Tariffs, TLC

CONSTANTS solo, hired, other, van

VehiclesOf == solo :> van @@ hired :> van @@ other :> AnyVehicle

Row(owner, vehicle, window, rates) ==
  [owner |-> owner, vehicle |-> vehicle, night |-> window # <<>>, window |-> window,
   rates |-> rates, active |-> TRUE]

DayRates   == [base |-> 100, km |-> 50, min |-> 0, minimum |-> 150, surge |-> 100]
NightRates == [base |-> 100, km |-> 75, min |-> 1, minimum |-> 150, surge |-> 125]

\* Night from two o'clock to one, around midnight.
Late == <<2, 1>>

OfferedRows ==
  {Row(Platform, AnyVehicle, <<>>, DayRates), Row(Company, AnyVehicle, <<>>, DayRates),
   Row(Platform, van, Late, NightRates), Row(Company, AnyVehicle, Late, NightRates),
   Row(solo, van, <<>>, NightRates), Row(solo, AnyVehicle, Late, DayRates)}

PlannedRoutes == {[km |-> 0, min |-> 0], [km |-> 3, min |-> 4]}
=============================================================================
