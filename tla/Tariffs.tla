------------------------------ MODULE Tariffs -------------------------------
(***************************************************************************)
(* Which tariff prices a ride: the table of tariffs with the edits of      *)
(* administrators, companies and solo drivers, and four places of          *)
(* rides.service.ts that choose from it: the estimate of each offer, the   *)
(* acceptance, the running meter and the completion.  The handlers of the  *)
(* ride are taken one after the other; their races are in RideLifecycle.   *)
(* Time is the hour of the day, money counts in cents, a surge in percent. *)
(***************************************************************************)
EXTENDS Integers, Sequences, FiniteSetsExt

CONSTANTS
  Drivers,
  InCompany,     \* drivers of the company; the others are solo drivers
  VehicleOf,     \* drivers.vehicle_type, or AnyVehicle where it is null
  AnyVehicle,
  Company, Platform,
  Hours,         \* hours in a day
  Offered,       \* bound: the rows somebody may save
  Routes,        \* bound: kilometres and minutes of the ride, as estimated or as driven
  Meters,        \* bound: fares the meter of the driver's app may send
  MaxTariffs,    \* bound: rows of the table
  MaxChanges,    \* bound: changes of the table
  MaxTicks       \* bound: hours that pass

None == 0        \* the id of no tariff; ids count from 1
Unknown == -1    \* a NULL amount or distance

Owners == Drivers \cup {Company, Platform}
Window == (0 .. Hours - 1) \X (0 .. Hours - 1)
Rates  == [base : Nat, km : Nat, min : Nat, minimum : Nat, surge : Nat]
Tariff == [owner : Owners, vehicle : {VehicleOf[d] : d \in Drivers} \cup {AnyVehicle},
           night : BOOLEAN, window : Window \cup {<<>>}, rates : Rates, active : BOOLEAN]

\* The DTOs: no price below zero, a surge of at least 1.
ASSUME TariffsAssumption ==
  /\ InCompany \subseteq Drivers /\ Company \notin Drivers /\ Platform \notin Drivers
  /\ Company # Platform
  /\ Hours \in Nat \ {0}
  /\ Offered \subseteq {t \in Tariff : t.active /\ t.rates.surge >= 100}
  /\ Routes \subseteq [km : Nat, min : Nat]
  /\ Meters \subseteq Nat
  /\ MaxTariffs \in Nat /\ MaxChanges \in Nat /\ MaxTicks \in Nat

VARIABLES
  hour,
  tariffs,       \* the table, oldest row first
  ride,
  ticks, changes

vars == <<hour, tariffs, ride, ticks, changes>>
-----------------------------------------------------------------------------
(***************************************************************************)
(* The choice.                                                             *)
(***************************************************************************)
\* Mutant of InNightWindow: a window that ends before it starts is empty.
InNightWindowSameDay(h, start, end) == h >= start /\ h < end

\* isInNightWindow.
InNightWindow(h, start, end) ==
  IF start < end THEN h >= start /\ h < end ELSE h >= start \/ h < end

Covers(id, h) ==
  LET t == tariffs[id]
  IN  t.night /\ t.window # <<>> /\ InNightWindow(h, t.window[1], t.window[2])

\* typed, generic and candidates.
Class(pool, vehicle) ==
  LET typed   == {id \in pool : vehicle # AnyVehicle /\ tariffs[id].vehicle = vehicle}
      generic == {id \in pool : tariffs[id].vehicle = AnyVehicle}
  IN  IF typed # {} THEN typed ELSE IF generic # {} THEN generic ELSE pool

\* pickFromPool, and the end of selectActiveTariff.
PickFromPool(pool, h, vehicle) ==
  LET class == Class(pool, vehicle)
      night == {id \in class : Covers(id, h)}
      day   == {id \in class : ~tariffs[id].night}
  IN  IF class = {} THEN None
      ELSE Min(IF night # {} THEN night ELSE IF day # {} THEN day ELSE class)

ActiveOf(owners) == {id \in DOMAIN tariffs : tariffs[id].active /\ tariffs[id].owner \in owners}

\* companyId IS NULL: the rows of the platform and those of every solo driver.
Global == ActiveOf(Owners \ {Company})

\* selectActiveTariff for a driver.
SelectActiveTariff(d, h) ==
  LET own  == IF d \in InCompany THEN {} ELSE ActiveOf({d})
      pool == IF own # {} THEN own ELSE IF d \in InCompany THEN ActiveOf({Company}) ELSE Global
  IN  PickFromPool(pool, h, VehicleOf[d])

\* computeTariffFare: whole kilometres and minutes, rounded to the cent.
ComputeTariffFare(rates, route) ==
  LET raw == rates.base + route.km * rates.km + route.min * rates.min
  IN  (2 * Max({raw, rates.minimum}) * rates.surge + 100) \div 200
-----------------------------------------------------------------------------
(***************************************************************************)
(* The table.                                                              *)
(***************************************************************************)
Changing == changes < MaxChanges /\ changes' = changes + 1

Insert(row) == Len(tariffs) < MaxTariffs /\ tariffs' = Append(tariffs, row)

\* createTariff, createGlobalTariff: a company does not name a type of vehicle.
CreateTariff(row) ==
  /\ row.owner = Platform \/ (row.owner = Company /\ row.vehicle = AnyVehicle)
  /\ Changing
  /\ Insert(row)
  /\ UNCHANGED <<hour, ride, ticks>>

\* upsertMyTariff: a solo driver replaces his tariff for that type of vehicle.
UpsertMyTariff(row) ==
  LET existing == {id \in ActiveOf({row.owner}) : tariffs[id].vehicle = row.vehicle} IN
  /\ row.owner \in Drivers \ InCompany
  /\ Changing
  /\ IF existing = {} THEN Insert(row)
     ELSE \E id \in existing : tariffs' = [tariffs EXCEPT ![id] = row]
  /\ UNCHANGED <<hour, ride, ticks>>

\* updateTariff, updateGlobalTariff: an administrator reaches every row without company.
UpdateTariff(id, row) ==
  /\ row.owner = tariffs[id].owner
  /\ row.owner = Company => row.vehicle = tariffs[id].vehicle
  /\ Changing
  /\ tariffs' = [tariffs EXCEPT ![id] = [row EXCEPT !.active = tariffs[id].active]]
  /\ UNCHANGED <<hour, ride, ticks>>

\* deactivate, deactivateTariff, deactivateGlobalTariff.
DeactivateTariff(id) ==
  /\ tariffs[id].active
  /\ Changing
  /\ tariffs' = [tariffs EXCEPT ![id].active = FALSE]
  /\ UNCHANGED <<hour, ride, ticks>>

HourPasses ==
  /\ ticks < MaxTicks
  /\ ticks' = ticks + 1
  /\ hour' = (hour + 1) % Hours
  /\ UNCHANGED <<tariffs, ride, changes>>
-----------------------------------------------------------------------------
(***************************************************************************)
(* The ride.                                                               *)
(***************************************************************************)
NoRide == [stage |-> "none",    \* "requested", "accepted", "in_progress", "completed"
           plan |-> <<>>,       \* the route to the dropoff, if there is one
           driver |-> None,     \* who was asked last
           estimate |-> Unknown,                    \* rides.estimated_fare
           tariff |-> None,                         \* rides.tariff_id
           asked |-> Unknown, accepted |-> Unknown, started |-> Unknown,  \* hours
           driven |-> <<>>, fare |-> Unknown,
           since |-> 0, until |-> 0]   \* history: changes before the offer and the fare

Still == UNCHANGED <<hour, tariffs, ticks, changes>>

\* requestRide, which stores no fare.
Request(plan) ==
  /\ ride.stage = "none"
  /\ ride' = [NoRide EXCEPT !.stage = "requested", !.plan = plan]
  /\ Still

\* computeDispatchEstimate.
Estimate(d, plan) ==
  LET t == SelectActiveTariff(d, hour)
  IN  IF plan = <<>> \/ t = None THEN Unknown ELSE ComputeTariffFare(tariffs[t].rates, plan)

\* dispatchToDriver: an estimate that is null leaves the last one in the row.
Dispatch(d) ==
  LET estimate == Estimate(d, ride.plan) IN
  /\ ride.stage = "requested"
  /\ ride' = [ride EXCEPT !.driver = d, !.asked = hour, !.since = changes,
                          !.estimate = IF estimate = Unknown THEN @ ELSE estimate]
  /\ Still

\* acceptRide: the tariff of the hour is noted with the ride.
Accept ==
  /\ ride.stage = "requested" /\ ride.driver # None
  /\ ride' = [ride EXCEPT !.stage = "accepted", !.accepted = hour,
                          !.tariff = SelectActiveTariff(ride.driver, hour)]
  /\ Still

\* startRide.
Start ==
  /\ ride.stage = "accepted"
  /\ ride' = [ride EXCEPT !.stage = "in_progress", !.started = hour]
  /\ Still

\* resolveLiveTariffSnapshot: the rates of the running meter.
LiveTariff ==
  SelectActiveTariff(ride.driver, IF ride.started # Unknown THEN ride.started ELSE ride.accepted)

\* Mutant of BillingTariff: the tariff is chosen anew when the ride ends.
BillingTariffNow == SelectActiveTariff(ride.driver, hour)

\* completeRide: the tariff noted at the acceptance, active or not.
BillingTariff == IF ride.tariff # None THEN ride.tariff ELSE LiveTariff

\* completeRide.  Without a dropoff and without fixes the distance is unknown, and the
\* meter of the app is believed if it shows more; without a tariff it is all there is.
Complete(driven, meter) ==
  LET t    == BillingTariff
      fare == IF t = None THEN Unknown
              ELSE ComputeTariffFare(tariffs[t].rates, [driven EXCEPT !.km = Max({@, 0})])
  IN
  /\ ride.stage = "in_progress"
  /\ driven.km = Unknown => ride.plan = <<>>
  /\ ride' = [ride EXCEPT
       !.stage = "completed", !.driven = driven, !.tariff = t, !.until = changes,
       !.fare = IF t = None \/ (driven.km = Unknown /\ meter > fare) THEN meter ELSE fare]
  /\ Still
-----------------------------------------------------------------------------
Init ==
  /\ hour \in 0 .. Hours - 1
  /\ tariffs = <<>>
  /\ ride = NoRide
  /\ ticks = 0 /\ changes = 0

Driven == Routes \cup {[r EXCEPT !.km = Unknown] : r \in Routes}

Next ==
  \/ \E row \in Offered : CreateTariff(row) \/ UpsertMyTariff(row)
  \/ \E id \in DOMAIN tariffs :
       DeactivateTariff(id) \/ \E row \in Offered : UpdateTariff(id, row)
  \/ HourPasses
  \/ \E plan \in Routes \cup {<<>>} : Request(plan)
  \/ \E d \in Drivers : Dispatch(d)
  \/ Accept
  \/ Start
  \/ \E driven \in Driven, meter \in Meters \cup {Unknown} : Complete(driven, meter)

Spec == Init /\ [][Next]_vars
-----------------------------------------------------------------------------
\* The hours of a night window, counted on from its start; one that ends when it
\* starts is the whole day.
NightHours(window) == {(window[1] + i) % Hours : i \in 0 .. (window[2] - window[1] - 1) % Hours}

IsNight(id) ==
  tariffs[id].night /\ tariffs[id].window # <<>> /\ hour \in NightHours(tariffs[id].window)

\* selectActiveTariff: whoever drives at whatever hour is priced by a tariff in force, at
\* night by one for the night and by day by one for the day if its owner has one for that
\* type of vehicle, wherever midnight falls.
SelectionFollowsPriority ==
  \A d \in Drivers :
    LET t   == SelectActiveTariff(d, hour)
        kin == {id \in DOMAIN tariffs : /\ tariffs[id].active
                                        /\ tariffs[id].owner = tariffs[t].owner
                                        /\ tariffs[id].vehicle = tariffs[t].vehicle}
    IN  t # None =>
          /\ tariffs[t].active
          /\ (\E id \in kin : IsNight(id)) => IsNight(t)
          /\ (\E id \in kin : ~tariffs[id].night) => IsNight(t) \/ ~tariffs[t].night

\* dispatchToDriver, acceptRide, completeRide: what passenger and driver were told with
\* the offer is what a ride costs that goes as planned and was accepted in the hour of
\* the offer, whatever the hour in which it ends, if nobody has touched the tariffs.
EstimateIsKept ==
  (/\ ride.stage = "completed" /\ ride.tariff # None
   /\ ride.since = ride.until /\ ride.asked = ride.accepted
   /\ ride.driven = ride.plan)
  => ride.fare = ride.estimate
=============================================================================
