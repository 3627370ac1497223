--------------------------- MODULE TariffsProofs ----------------------------
(***************************************************************************)
(* SelectionFollowsPriority and EstimateIsKept for any drivers, tables,    *)
(* routes and night windows.                                               *)
(***************************************************************************)
EXTENDS Tariffs, WellFoundedInduction, TLAPS

\* A non-empty set of naturals has a least element, which is what Min chooses.
LEMMA NatMin ==
  ASSUME NEW T \in SUBSET Nat, T # {}
  PROVE  Min(T) \in T
<1>1. PICK R : R = OpToRel(<, Nat)
  OBVIOUS
<1>2. IsWellFoundedOn(R, Nat)
  BY <1>1, NatLessThanWellFounded
<1>3. PICK x \in T : \A y \in T : ~(<<y, x>> \in R)
  BY <1>2, WFMin
<1>4. \A y \in T : y < x => <<y, x>> \in R
  BY <1>1 DEF OpToRel
<1>5. \A y \in T : ~(y < x)
  BY <1>3, <1>4, Zenon
<1>6. \A y \in T : y \in Nat /\ x \in Nat
  OBVIOUS
<1>7. \A y \in T : x <= y
  BY <1>5, <1>6
<1> QED BY <1>3, <1>7 DEF Min

LEMMA MaxOfTwo ==
  ASSUME NEW a \in Nat, NEW b \in Nat
  PROVE  Max({a, b}) \in Nat /\ (b = 0 => Max({a, b}) = a)
<1>1. \E x \in {a, b} : \A y \in {a, b} : x >= y
  OBVIOUS
<1>2. Max({a, b}) \in {a, b} /\ \A y \in {a, b} : Max({a, b}) >= y
  BY <1>1 DEF Max
<1> QED BY <1>2

LEMMA Products == ASSUME NEW a \in Nat, NEW b \in Nat PROVE a * b \in Nat
OBVIOUS

LEMMA FareType ==
  ASSUME NEW rates \in Rates, NEW route \in [km : Nat, min : Nat]
  PROVE  ComputeTariffFare(rates, route) \in Nat
<1>1. /\ rates.base \in Nat /\ rates.minimum \in Nat /\ rates.surge \in Nat
      /\ route.km * rates.km \in Nat /\ route.min * rates.min \in Nat
  BY Products DEF Rates
<1>2. PICK m \in Nat :
        m = Max({rates.base + route.km * rates.km + route.min * rates.min, rates.minimum})
  BY <1>1, MaxOfTwo
<1>3. 2 * m * rates.surge \in Nat
  BY <1>1, Products
<1>4. (2 * m * rates.surge + 100) \div 200 \in Nat
  BY <1>3
<1> QED BY <1>2, <1>4 DEF ComputeTariffFare

\* Whether a driver has any tariff does not depend on the hour.
LEMMA PickedOrNone ==
  ASSUME tariffs \in Seq(Tariff), NEW pool \in SUBSET DOMAIN tariffs, NEW h, NEW v
  PROVE  /\ PickFromPool(pool, h, v) \in DOMAIN tariffs \cup {None}
         /\ PickFromPool(pool, h, v) = None <=> Class(pool, v) = {}
<1>1. DOMAIN tariffs \subseteq Nat /\ None \notin DOMAIN tariffs
  BY DEF None
<1>2. Class(pool, v) \subseteq DOMAIN tariffs
  BY DEF Class
<1>3. CASE Class(pool, v) = {}
  BY <1>3 DEF PickFromPool
<1>4. CASE Class(pool, v) # {}
  <2>1. PICK T \in SUBSET Class(pool, v) : T # {} /\ PickFromPool(pool, h, v) = Min(T)
    BY <1>4 DEF PickFromPool
  <2> QED BY <1>1, <1>2, <1>4, <2>1, NatMin
<1> QED BY <1>3, <1>4

LEMMA SelectedOrNone ==
  ASSUME tariffs \in Seq(Tariff), NEW d, NEW h, NEW g
  PROVE  /\ SelectActiveTariff(d, h) \in DOMAIN tariffs \cup {None}
         /\ SelectActiveTariff(d, h) = None => SelectActiveTariff(d, g) = None
<1>1. PICK pool \in SUBSET DOMAIN tariffs :
        /\ SelectActiveTariff(d, h) = PickFromPool(pool, h, VehicleOf[d])
        /\ SelectActiveTariff(d, g) = PickFromPool(pool, g, VehicleOf[d])
  BY DEF SelectActiveTariff, ActiveOf, Global
<1> QED BY <1>1, PickedOrNone
-----------------------------------------------------------------------------
(***************************************************************************)
(* The invariant.                                                          *)
(***************************************************************************)
Stages == {"none", "requested", "accepted", "in_progress", "completed"}
RideType ==
  [stage : Stages, plan : Routes \cup {<<>>}, driver : Drivers \cup {None},
   estimate : Int, tariff : Nat, asked : Int, accepted : Int, started : Int,
   driven : Driven \cup {<<>>}, fare : Int, since : Nat, until : Nat]

Types ==
  /\ hour \in Nat /\ changes \in Nat
  /\ tariffs \in Seq(Tariff)
  /\ ride \in RideType /\ ride.since <= changes
  /\ ride.tariff \in DOMAIN tariffs \cup {None}

\* As long as nobody changes the table, the estimate is that of the tariff of the hour
\* in which the driver was asked.
OfferStands ==
  \A d \in Drivers, h \in Int :
    (/\ ride.stage = "requested" /\ ride.driver = d /\ d # None /\ ride.asked = h
     /\ ride.since = changes /\ ride.plan # <<>>
     /\ SelectActiveTariff(d, h) # None)
    => ride.estimate = ComputeTariffFare(tariffs[SelectActiveTariff(d, h)].rates, ride.plan)

\* ... which is the tariff of an acceptance in that hour.
AcceptedAsOffered ==
  \A d \in Drivers, h \in Int :
    (/\ ride.stage \in {"accepted", "in_progress"} /\ ride.driver = d /\ ride.asked = h
     /\ ride.accepted = h /\ ride.since = changes)
    => /\ ride.tariff = SelectActiveTariff(d, h)
       /\ ride.plan # <<>> /\ ride.tariff # None =>
            ride.estimate = ComputeTariffFare(tariffs[ride.tariff].rates, ride.plan)

Asked == ride.stage \in {"accepted", "in_progress"} => ride.driver \in Drivers

IInv == Types /\ OfferStands /\ AcceptedAsOffered /\ Asked /\ EstimateIsKept

LEMMA NoRideType == NoRide \in RideType
<1>1. \A e \in {<<>>} :
        [stage |-> "none", plan |-> e, driver |-> 0, estimate |-> -1,
         tariff |-> 0, asked |-> -1, accepted |-> -1, started |-> -1,
         driven |-> e, fare |-> -1, since |-> 0, until |-> 0] \in RideType
  BY DEF RideType, Stages, None
<1> QED BY <1>1, Zenon DEF NoRide, None, Unknown

LEMMA InitIInv == Init => IInv
<1>1. ASSUME Init PROVE IInv
  <2>1. NoRide.stage = "none" /\ NoRide.since = 0 /\ NoRide.tariff = None
    BY DEF NoRide
  <2>2. Types
    <3>1. hour \in Nat
      BY <1>1, TariffsAssumption DEF Init, Unknown
    <3>2. tariffs \in Seq(Tariff)
      BY <1>1 DEF Init
    <3> QED BY <1>1, <2>1, <3>1, <3>2, NoRideType DEF Init, Types
  <2> QED BY <1>1, <2>1, <2>2 DEF Init, IInv, OfferStands, AcceptedAsOffered, Asked, EstimateIsKept
<1> QED BY <1>1

\* Whoever changes the table ends the promise of every offer.
LEMMA TableStep ==
  ASSUME IInv, UNCHANGED <<hour, ride>>, Changing, tariffs' \in Seq(Tariff),
         DOMAIN tariffs \subseteq DOMAIN tariffs'
  PROVE  IInv'
<1>1. changes \in Nat /\ changes' = changes + 1 /\ ride.since \in Nat /\ ride.since <= changes
  BY DEF IInv, Types, RideType, Changing
<1>2. ride.since # changes' /\ ride.since <= changes' /\ changes' \in Nat
  BY <1>1
<1>3. Types'
  BY <1>2 DEF IInv, Types
<1>4. OfferStands' /\ AcceptedAsOffered'
  BY <1>2 DEF OfferStands, AcceptedAsOffered
<1>5. Asked' /\ EstimateIsKept'
  BY DEF IInv, Asked, EstimateIsKept
<1> QED BY <1>3, <1>4, <1>5 DEF IInv

LEMMA RowType ==
  ASSUME NEW row \in Offered
  PROVE  row \in Tariff /\ \A b \in BOOLEAN : [row EXCEPT !.active = b] \in Tariff
BY TariffsAssumption DEF Tariff

LEMMA InsertStep ==
  ASSUME IInv, NEW row \in Offered, Insert(row), Changing, UNCHANGED <<hour, ride>>
  PROVE  IInv'
<1>1. tariffs \in Seq(Tariff) /\ row \in Tariff /\ tariffs' = Append(tariffs, row)
  BY RowType DEF IInv, Types, Insert
<1>2. tariffs' \in Seq(Tariff) /\ DOMAIN tariffs \subseteq DOMAIN tariffs'
  BY <1>1
<1> QED BY <1>2, TableStep

LEMMA ReplaceStep ==
  ASSUME IInv, NEW id \in DOMAIN tariffs, NEW t \in Tariff, tariffs' = [tariffs EXCEPT ![id] = t],
         Changing, UNCHANGED <<hour, ride>>
  PROVE  IInv'
<1>1. tariffs \in Seq(Tariff)
  BY DEF IInv, Types
<1>2. tariffs' \in Seq(Tariff) /\ DOMAIN tariffs \subseteq DOMAIN tariffs'
  BY <1>1
<1> QED BY <1>2, TableStep

LEMMA TableSteps ==
  ASSUME IInv,
         \/ \E row \in Offered : CreateTariff(row) \/ UpsertMyTariff(row)
         \/ \E id \in DOMAIN tariffs :
              DeactivateTariff(id) \/ \E row \in Offered : UpdateTariff(id, row)
  PROVE  IInv'
<1>1. \A id \in DOMAIN tariffs : tariffs[id] \in Tariff
  BY DEF IInv, Types
<1>2. ASSUME NEW row \in Offered, CreateTariff(row) PROVE IInv'
  BY <1>2, InsertStep DEF CreateTariff
<1>3. ASSUME NEW row \in Offered, UpsertMyTariff(row) PROVE IInv'
  <2>1. Changing /\ UNCHANGED <<hour, ride>>
    BY <1>3 DEF UpsertMyTariff
  <2>2. Insert(row) \/ \E id \in DOMAIN tariffs : tariffs' = [tariffs EXCEPT ![id] = row]
    BY <1>3 DEF UpsertMyTariff, ActiveOf
  <2> QED BY <2>1, <2>2, InsertStep, ReplaceStep, RowType
<1>4. ASSUME NEW id \in DOMAIN tariffs, DeactivateTariff(id) PROVE IInv'
  <2>1. [tariffs[id] EXCEPT !.active = FALSE] \in Tariff
    BY <1>1 DEF Tariff
  <2>2. /\ tariffs' = [tariffs EXCEPT ![id] = [tariffs[id] EXCEPT !.active = FALSE]]
        /\ Changing /\ UNCHANGED <<hour, ride>>
    BY <1>4 DEF DeactivateTariff
  <2> QED BY <2>1, <2>2, ReplaceStep
<1>5. ASSUME NEW id \in DOMAIN tariffs, NEW row \in Offered, UpdateTariff(id, row) PROVE IInv'
  <2>1. tariffs[id].active \in BOOLEAN
    BY <1>1 DEF Tariff
  <2>2. [row EXCEPT !.active = tariffs[id].active] \in Tariff
    BY <2>1, RowType
  <2> QED BY <1>5, <2>2, ReplaceStep DEF UpdateTariff
<1> QED BY <1>2, <1>3, <1>4, <1>5
-----------------------------------------------------------------------------
(***************************************************************************)
(* The steps of the ride.                                                  *)
(***************************************************************************)
\* What is chosen from a table that stays as it is.
LEMMA SameTable ==
  ASSUME tariffs' = tariffs
  PROVE  \A d, h : SelectActiveTariff(d, h)' = SelectActiveTariff(d, h)
<1>1. \A owners : ActiveOf(owners)' = ActiveOf(owners)
  BY DEF ActiveOf
<1>2. ASSUME NEW id, NEW h PROVE Covers(id, h)' = Covers(id, h)
  BY DEF Covers, InNightWindow
<1>3. ASSUME NEW pool, NEW vehicle PROVE Class(pool, vehicle)' = Class(pool, vehicle)
  BY DEF Class
<1>4. \A pool, h, vehicle : PickFromPool(pool, h, vehicle)' = PickFromPool(pool, h, vehicle)
  BY <1>2, <1>3 DEF PickFromPool
<1> QED BY <1>1, <1>4 DEF SelectActiveTariff, Global

LEMMA FareOfTable ==
  ASSUME tariffs \in Seq(Tariff), NEW t \in DOMAIN tariffs, NEW route \in Routes
  PROVE  ComputeTariffFare(tariffs[t].rates, route) \in Nat
<1>1. tariffs[t] \in Tariff
  OBVIOUS
<1>2. tariffs[t].rates \in Rates /\ route \in [km : Nat, min : Nat]
  BY <1>1, TariffsAssumption DEF Tariff
<1> QED BY <1>2, FareType

LEMMA HourStep == ASSUME IInv, HourPasses PROVE IInv'
<1>1. hour' \in Nat /\ UNCHANGED <<tariffs, ride, changes>>
  BY TariffsAssumption DEF IInv, Types, HourPasses
<1>2. Types' /\ Asked' /\ EstimateIsKept'
  BY <1>1 DEF IInv, Types, Asked, EstimateIsKept
<1>3. OfferStands' /\ AcceptedAsOffered'
  BY <1>1, SameTable DEF IInv, OfferStands, AcceptedAsOffered
<1> QED BY <1>2, <1>3 DEF IInv

LEMMA RequestStep ==
  ASSUME IInv, NEW plan \in Routes \cup {<<>>}, Request(plan)
  PROVE  IInv'
<1>1. ride' = [NoRide EXCEPT !.stage = "requested", !.plan = plan]
  BY DEF Request
<1>2. /\ ride' \in RideType /\ ride'.stage = "requested" /\ ride'.since = NoRide.since
      /\ ride'.tariff = NoRide.tariff /\ ride'.driver = NoRide.driver
  BY <1>1, NoRideType DEF RideType, Stages
<1>3. NoRide.since = 0 /\ NoRide.tariff = None /\ NoRide.driver = None
  BY DEF NoRide
<1>4. UNCHANGED <<hour, tariffs, changes>>
  BY DEF Request, Still
<1>5. Types'
  BY <1>2, <1>3, <1>4 DEF IInv, Types
<1>6. OfferStands' /\ AcceptedAsOffered' /\ Asked' /\ EstimateIsKept'
  BY <1>2, <1>3 DEF OfferStands, AcceptedAsOffered, Asked, EstimateIsKept
<1> QED BY <1>5, <1>6 DEF IInv

LEMMA DispatchStep == ASSUME IInv, NEW d \in Drivers, Dispatch(d) PROVE IInv'
<1> DEFINE t == SelectActiveTariff(d, hour)
<1>1. /\ tariffs \in Seq(Tariff) /\ ride \in RideType /\ hour \in Nat /\ changes \in Nat
      /\ ride.plan \in Routes \cup {<<>>} /\ ride.estimate \in Int
      /\ ride.tariff \in DOMAIN tariffs \cup {None}
  BY DEF IInv, Types, RideType
<1>2. t \in DOMAIN tariffs \cup {None}
  BY <1>1, SelectedOrNone
<1>3. ride.plan # <<>> /\ t # None =>
        /\ Estimate(d, ride.plan) = ComputeTariffFare(tariffs[t].rates, ride.plan)
        /\ Estimate(d, ride.plan) \in Nat
  BY <1>1, <1>2, FareOfTable DEF Estimate
<1>4. Estimate(d, ride.plan) \in Int
  BY <1>3 DEF Estimate, Unknown
<1>5. PICK e \in Int : /\ ride' = [ride EXCEPT !.driver = d, !.asked = hour, !.since = changes, !.estimate = e]
                       /\ e = IF Estimate(d, ride.plan) = Unknown THEN ride.estimate ELSE Estimate(d, ride.plan)
  BY <1>1, <1>4 DEF Dispatch
<1>6. /\ ride' \in RideType /\ ride'.stage = "requested" /\ ride'.driver = d /\ ride'.asked = hour
      /\ ride'.since = changes /\ ride'.estimate = e /\ ride'.plan = ride.plan /\ ride'.tariff = ride.tariff
  <2>1. hour \in Int /\ d \in Drivers \cup {None} /\ ride.stage = "requested"
    BY <1>1 DEF Dispatch
  <2> QED BY <1>1, <1>5, <2>1 DEF RideType
<1>7. UNCHANGED <<hour, tariffs, changes>>
  BY DEF Dispatch, Still
<1>8. Types'
  BY <1>1, <1>6, <1>7 DEF IInv, Types
<1>9. OfferStands'
  <2> SUFFICES ASSUME ride.plan # <<>>, t # None
               PROVE  e = ComputeTariffFare(tariffs[t].rates, ride.plan)
    BY <1>6, <1>7, SameTable DEF OfferStands
  <2> QED BY <1>3, <1>5 DEF Unknown
<1>10. AcceptedAsOffered' /\ Asked' /\ EstimateIsKept'
  BY <1>6 DEF AcceptedAsOffered, Asked, EstimateIsKept
<1> QED BY <1>8, <1>9, <1>10 DEF IInv

LEMMA AcceptStep == ASSUME IInv, Accept PROVE IInv'
<1> DEFINE t == SelectActiveTariff(ride.driver, hour)
<1>1. /\ tariffs \in Seq(Tariff) /\ ride \in RideType /\ hour \in Nat /\ ride.since <= changes
      /\ ride.driver \in Drivers \cup {None}
  BY DEF IInv, Types, RideType
<1>2. t \in DOMAIN tariffs \cup {None} /\ t \in Nat
  BY <1>1, SelectedOrNone DEF None
<1>3. /\ ride.stage = "requested" /\ ride.driver \in Drivers /\ ride.driver # None
      /\ ride' = [ride EXCEPT !.stage = "accepted", !.accepted = hour, !.tariff = t]
      /\ UNCHANGED <<hour, tariffs, changes>>
  BY <1>1 DEF Accept, Still
<1> HIDE DEF t
<1>4. /\ ride' \in RideType /\ ride'.stage = "accepted" /\ ride'.driver = ride.driver
      /\ ride'.asked = ride.asked /\ ride'.accepted = hour /\ ride'.tariff = t
      /\ ride'.since = ride.since /\ ride'.plan = ride.plan /\ ride'.estimate = ride.estimate
  <2>1. hour \in Int /\ "accepted" \in Stages
    BY <1>1 DEF Stages
  <2> QED BY <1>1, <1>2, <1>3, <2>1 DEF RideType
<1>5. Types'
  BY <1>1, <1>2, <1>3, <1>4 DEF IInv, Types
<1>6. AcceptedAsOffered'
  <2>1. ASSUME ride.asked = hour, ride.since = changes
        PROVE  ride.plan # <<>> /\ t # None =>
                 ride.estimate = ComputeTariffFare(tariffs[t].rates, ride.plan)
    BY <1>1, <1>3, <2>1 DEF IInv, OfferStands, t
  <2>2. t = SelectActiveTariff(ride.driver, hour)
    BY DEF t
  <2> QED BY <1>3, <1>4, <2>1, <2>2, SameTable DEF AcceptedAsOffered
<1>7. OfferStands' /\ Asked' /\ EstimateIsKept'
  BY <1>3, <1>4 DEF OfferStands, Asked, EstimateIsKept
<1> QED BY <1>5, <1>6, <1>7 DEF IInv

LEMMA StartStep == ASSUME IInv, Start PROVE IInv'
<1>1. /\ ride \in RideType /\ hour \in Int /\ ride.stage = "accepted"
      /\ ride' = [ride EXCEPT !.stage = "in_progress", !.started = hour]
      /\ UNCHANGED <<hour, tariffs, changes>>
  BY DEF IInv, Types, Start, Still
<1>2. /\ ride' \in RideType /\ ride'.stage = "in_progress" /\ ride'.driver = ride.driver
      /\ ride'.asked = ride.asked /\ ride'.accepted = ride.accepted /\ ride'.tariff = ride.tariff
      /\ ride'.since = ride.since /\ ride'.plan = ride.plan /\ ride'.estimate = ride.estimate
  <2>1. "in_progress" \in Stages
    BY DEF Stages
  <2> QED BY <1>1, <2>1 DEF RideType
<1>3. Types' /\ Asked'
  BY <1>1, <1>2 DEF IInv, Types, Asked
<1>4. AcceptedAsOffered'
  BY <1>1, <1>2, SameTable DEF IInv, AcceptedAsOffered
<1>5. OfferStands' /\ EstimateIsKept'
  BY <1>2 DEF OfferStands, EstimateIsKept
<1> QED BY <1>3, <1>4, <1>5 DEF IInv

\* What was driven as planned is billed as it was estimated.
LEMMA DrivenKm ==
  ASSUME NEW driven \in Driven
  PROVE  /\ driven.km \in Int /\ driven # <<>>
         /\ [driven EXCEPT !.km = Max({@, 0})] \in [km : Nat, min : Nat]
         /\ driven \in Routes =>
              driven.km # Unknown /\ [driven EXCEPT !.km = Max({@, 0})] = driven
<1>1. PICK km \in Nat \cup {Unknown}, min \in Nat : driven = [km |-> km, min |-> min]
  BY TariffsAssumption DEF Driven
<1>2. [km |-> km, min |-> min] # <<>>
  <2>1. "km" \in DOMAIN [km |-> km, min |-> min]
    OBVIOUS
  <2>2. "km" \notin DOMAIN <<>>
    OBVIOUS
  <2> QED BY <2>1, <2>2
<1>3. Max({Unknown, 0}) = 0
  <2>1. \E x \in {-1, 0} : \A y \in {-1, 0} : x >= y
    OBVIOUS
  <2>2. Max({-1, 0}) \in {-1, 0} /\ \A y \in {-1, 0} : Max({-1, 0}) >= y
    BY <2>1 DEF Max
  <2> QED BY <2>2 DEF Unknown
<1>4. km \in Nat => Max({km, 0}) = km
  BY MaxOfTwo
<1>5. [driven EXCEPT !.km = Max({@, 0})] = [km |-> Max({km, 0}), min |-> min]
  BY <1>1
<1>6. driven \in Routes => km \in Nat
  BY <1>1, TariffsAssumption
<1>7. km = Unknown \/ km \in Nat
  BY <1>1
<1>8. [driven EXCEPT !.km = Max({@, 0})] \in [km : Nat, min : Nat]
  BY <1>1, <1>3, <1>4, <1>5, <1>7
<1>9. driven.km \in Int
  BY <1>1 DEF Unknown
<1>10. driven \in Routes => driven.km # Unknown /\ [driven EXCEPT !.km = Max({@, 0})] = driven
  BY <1>1, <1>4, <1>5, <1>6 DEF Unknown
<1> QED BY <1>1, <1>2, <1>8, <1>9, <1>10

LEMMA CompleteStep ==
  ASSUME IInv, NEW driven \in Driven, NEW meter \in Meters \cup {Unknown}, Complete(driven, meter)
  PROVE  IInv'
<1>1. /\ tariffs \in Seq(Tariff) /\ ride \in RideType /\ changes \in Nat /\ ride.since <= changes
      /\ ride.tariff \in DOMAIN tariffs \cup {None} /\ ride.stage = "in_progress"
      /\ ride.driver \in Drivers /\ ride.asked \in Int /\ ride.plan \in Routes \cup {<<>>}
      /\ meter \in Int
  BY TariffsAssumption DEF IInv, Types, Complete, Asked, RideType, Unknown
<1>2. PICK t : t = BillingTariff
  OBVIOUS
<1>3. t \in DOMAIN tariffs \cup {None} /\ t \in Nat
  BY <1>1, <1>2, SelectedOrNone DEF BillingTariff, LiveTariff, None
<1>4. PICK route \in [km : Nat, min : Nat] : route = [driven EXCEPT !.km = Max({@, 0})]
  BY DrivenKm
<1>5. t # None => ComputeTariffFare(tariffs[t].rates, route) \in Nat
  <2>1. ASSUME t # None PROVE tariffs[t] \in Tariff
    BY <1>1, <1>3, <2>1
  <2> QED BY <2>1, FareType DEF Tariff
<1>6. PICK fare : fare = IF t = None THEN Unknown ELSE ComputeTariffFare(tariffs[t].rates, route)
  OBVIOUS
<1>7. PICK f : f = IF t = None \/ (driven.km = Unknown /\ meter > fare) THEN meter ELSE fare
  OBVIOUS
<1>8. f \in Int
  BY <1>1, <1>5, <1>6, <1>7 DEF Unknown
<1>9. ride' = [ride EXCEPT !.stage = "completed", !.driven = driven, !.tariff = t,
                           !.until = changes, !.fare = f]
  BY <1>2, <1>4, <1>6, <1>7 DEF Complete
<1>10. UNCHANGED <<hour, tariffs, changes>>
  BY DEF Complete, Still
<1>11. /\ ride' \in RideType /\ ride'.stage = "completed" /\ ride'.driven = driven /\ ride'.tariff = t
       /\ ride'.until = changes /\ ride'.fare = f /\ ride'.since = ride.since
       /\ ride'.asked = ride.asked /\ ride'.accepted = ride.accepted
       /\ ride'.plan = ride.plan /\ ride'.estimate = ride.estimate
  <2>1. "completed" \in Stages /\ driven \in Driven \cup {<<>>}
    BY DEF Stages
  <2> QED BY <1>1, <1>3, <1>8, <1>9, <2>1 DEF RideType
<1>12. Types'
  BY <1>1, <1>3, <1>10, <1>11 DEF IInv, Types
<1>13. OfferStands' /\ AcceptedAsOffered' /\ Asked'
  BY <1>11 DEF OfferStands, AcceptedAsOffered, Asked
<1>14. EstimateIsKept'
  <2> SUFFICES ASSUME t # None, ride.since = changes, ride.asked = ride.accepted, driven = ride.plan
               PROVE  f = ride.estimate
    BY <1>11 DEF EstimateIsKept
  <2>1. ride.plan # <<>> /\ ride.plan \in Routes
    BY <1>1, DrivenKm
  <2>2. driven.km # Unknown /\ route = ride.plan
    BY <1>4, <2>1, DrivenKm
  <2>3. ride.tariff = SelectActiveTariff(ride.driver, ride.asked)
    BY <1>1 DEF IInv, AcceptedAsOffered
  <2>4. ride.tariff # None
    <3>1. ASSUME ride.tariff = None PROVE FALSE
      <4>1. PICK h : t = SelectActiveTariff(ride.driver, h)
        BY <1>2, <3>1 DEF BillingTariff, LiveTariff
      <4> QED BY <1>1, <2>3, <3>1, <4>1, SelectedOrNone
    <3> QED BY <3>1
  <2>5. t = ride.tariff
    BY <1>2, <2>4 DEF BillingTariff
  <2>6. ride.estimate = ComputeTariffFare(tariffs[t].rates, ride.plan)
    BY <1>1, <2>1, <2>4, <2>5 DEF IInv, AcceptedAsOffered
  <2> QED BY <1>6, <1>7, <2>2, <2>6
<1> QED BY <1>12, <1>13, <1>14 DEF IInv
-----------------------------------------------------------------------------
LEMMA NextIInv == IInv /\ [Next]_vars => IInv'
<1> SUFFICES ASSUME IInv, [Next]_vars PROVE IInv'
  OBVIOUS
<1>1. CASE UNCHANGED vars
  <2>1. UNCHANGED <<hour, tariffs, ride, changes>>
    BY <1>1 DEF vars
  <2>2. Types' /\ Asked' /\ EstimateIsKept'
    BY <2>1 DEF IInv, Types, Asked, EstimateIsKept
  <2>3. OfferStands' /\ AcceptedAsOffered'
    BY <2>1, SameTable DEF IInv, OfferStands, AcceptedAsOffered
  <2> QED BY <2>2, <2>3 DEF IInv
<1>2. CASE Next
  BY <1>2, TableSteps, HourStep, RequestStep, DispatchStep, AcceptStep, StartStep, CompleteStep
     DEF Next
<1> QED BY <1>1, <1>2
-----------------------------------------------------------------------------
(***************************************************************************)
(* The choice by night and by day.                                         *)
(***************************************************************************)
HourOfDay == hour \in 0 .. Hours - 1

LEMMA HoursOfDay == Spec => []HourOfDay
<1>1. Init => HourOfDay
  BY DEF Init, HourOfDay
<1>2. HourOfDay /\ [Next]_vars => HourOfDay'
  <2> SUFFICES ASSUME HourOfDay, [Next]_vars PROVE HourOfDay'
    OBVIOUS
  <2>1. (hour + 1) % Hours \in 0 .. Hours - 1
    BY TariffsAssumption DEF HourOfDay
  <2>2. hour' = hour \/ hour' = (hour + 1) % Hours
    BY DEF Next, vars, CreateTariff, UpsertMyTariff, UpdateTariff, DeactivateTariff, HourPasses,
           Request, Dispatch, Accept, Start, Complete, Still
  <2> QED BY <2>1, <2>2 DEF HourOfDay
<1> QED BY <1>1, <1>2, PTL DEF Spec

\* What isInNightWindow says of an hour is whether it is one of those counted on from the
\* start of the window, over midnight or not.
LEMMA NightIsCounted ==
  ASSUME HourOfDay, NEW window \in Window
  PROVE  InNightWindow(hour, window[1], window[2]) <=> hour \in NightHours(window)
<1>1. PICK s \in 0 .. Hours - 1, e \in 0 .. Hours - 1 : window = <<s, e>>
  BY DEF Window
<1>2. Hours \in Nat \ {0} /\ s \in Int /\ e \in Int /\ hour \in Int
  BY <1>1, TariffsAssumption DEF HourOfDay
<1>3. PICK last : last = (e - s - 1) % Hours
  OBVIOUS
<1>4. hour \in NightHours(window) <=> \E i \in 0 .. last : hour = (s + i) % Hours
  BY <1>1, <1>3 DEF NightHours
<1>5. CASE s < e
  <2>1. last = e - s - 1
    BY <1>1, <1>2, <1>3, <1>5
  <2>2. \A i \in 0 .. last : (s + i) % Hours = s + i
    BY <1>1, <1>2, <1>5, <2>1
  <2>3. InNightWindow(hour, s, e) <=> hour - s \in 0 .. last
    BY <1>1, <1>2, <1>5, <2>1 DEF InNightWindow
  <2>4. \A i \in 0 .. last : hour = s + i <=> i = hour - s
    BY <1>2, <2>1
  <2> QED BY <1>1, <1>4, <2>2, <2>3, <2>4
<1>6. CASE e <= s
  <2>1. last = e - s - 1 + Hours
    <3>1. e - s - 1 \in -Hours .. -1
      BY <1>1, <1>2, <1>6
    <3> QED BY <1>2, <1>3, <3>1
  <2>2. \A i \in 0 .. last : (s + i) % Hours = IF s + i < Hours THEN s + i ELSE s + i - Hours
    <3> SUFFICES ASSUME NEW i \in 0 .. last
                 PROVE  (s + i) % Hours = IF s + i < Hours THEN s + i ELSE s + i - Hours
      OBVIOUS
    <3>1. i \in Int /\ s + i \in 0 .. 2 * Hours - 1
      BY <1>1, <1>2, <2>1
    <3> QED BY <1>2, <3>1
  <2>3. InNightWindow(hour, s, e) <=> hour >= s \/ hour < e
    BY <1>2, <1>6 DEF InNightWindow
  <2>4. ASSUME hour >= s PROVE hour - s \in 0 .. last /\ hour = (s + (hour - s)) % Hours
    BY <1>1, <1>2, <2>1, <2>2, <2>4 DEF HourOfDay
  <2>5. ASSUME hour < e
        PROVE  hour + Hours - s \in 0 .. last /\ hour = (s + (hour + Hours - s)) % Hours
    BY <1>1, <1>2, <2>1, <2>2, <2>5 DEF HourOfDay
  <2>6. ASSUME NEW i \in 0 .. last, hour = (s + i) % Hours PROVE hour >= s \/ hour < e
    BY <1>1, <1>2, <2>1, <2>2, <2>6
  <2> QED BY <1>1, <1>4, <2>3, <2>4, <2>5, <2>6
<1> QED BY <1>2, <1>5, <1>6

LEMMA NightIsCovered ==
  ASSUME HourOfDay, tariffs \in Seq(Tariff), NEW id \in DOMAIN tariffs
  PROVE  IsNight(id) <=> Covers(id, hour)
<1>1. tariffs[id] \in Tariff
  OBVIOUS
<1>2. tariffs[id].window \in Window \cup {<<>>}
  BY <1>1 DEF Tariff
<1> QED BY <1>2, NightIsCounted DEF IsNight, Covers

LEMMA PickedByHour ==
  ASSUME tariffs \in Seq(Tariff), NEW pool \in SUBSET DOMAIN tariffs, NEW v,
         NEW t, t = PickFromPool(pool, hour, v), t # None
  PROVE  /\ t \in Class(pool, v) /\ t \in DOMAIN tariffs
         /\ (\E id \in Class(pool, v) : Covers(id, hour)) => Covers(t, hour)
         /\ (\E id \in Class(pool, v) : ~tariffs[id].night)
              => Covers(t, hour) \/ ~tariffs[t].night
<1>1. PICK class : class = Class(pool, v)
  OBVIOUS
<1>2. class \subseteq DOMAIN tariffs /\ DOMAIN tariffs \subseteq Nat
  BY <1>1 DEF Class
<1>3. PICK night \in SUBSET class, day \in SUBSET class :
        /\ night = {id \in class : Covers(id, hour)}
        /\ day = {id \in class : ~tariffs[id].night}
  OBVIOUS
<1>4. class # {} /\ t = Min(IF night # {} THEN night ELSE IF day # {} THEN day ELSE class)
  BY <1>1, <1>3 DEF PickFromPool
<1>5. CASE night # {}
  BY <1>1, <1>2, <1>3, <1>4, <1>5, NatMin
<1>6. CASE night = {} /\ day # {}
  BY <1>1, <1>2, <1>3, <1>4, <1>6, NatMin
<1>7. CASE night = {} /\ day = {}
  BY <1>1, <1>2, <1>3, <1>4, <1>7, NatMin
<1> QED BY <1>5, <1>6, <1>7

LEMMA KinAreOfTheClass ==
  ASSUME NEW pool, NEW v, NEW t \in Class(pool, v), NEW id \in pool,
         tariffs[id].vehicle = tariffs[t].vehicle
  PROVE  id \in Class(pool, v)
BY DEF Class

LEMMA ChoiceIsRight ==
  ASSUME HourOfDay, tariffs \in Seq(Tariff)
  PROVE  SelectionFollowsPriority
<1> SUFFICES ASSUME NEW d \in Drivers, NEW t, t = SelectActiveTariff(d, hour), t # None,
                    NEW kin, kin = {id \in DOMAIN tariffs : /\ tariffs[id].active
                                           /\ tariffs[id].owner = tariffs[t].owner
                                           /\ tariffs[id].vehicle = tariffs[t].vehicle}
             PROVE  /\ tariffs[t].active
                    /\ (\E id \in kin : IsNight(id)) => IsNight(t)
                    /\ (\E id \in kin : ~tariffs[id].night) => IsNight(t) \/ ~tariffs[t].night
  BY DEF SelectionFollowsPriority
<1>1. PICK owners : t = PickFromPool(ActiveOf(owners), hour, VehicleOf[d])
  <2>1. \/ t = PickFromPool({}, hour, VehicleOf[d])
        \/ \E owners : t = PickFromPool(ActiveOf(owners), hour, VehicleOf[d])
    BY DEF SelectActiveTariff, Global
  <2>2. ActiveOf({}) = {}
    BY DEF ActiveOf
  <2> QED BY <2>1, <2>2
<1>2. PICK pool \in SUBSET DOMAIN tariffs : pool = ActiveOf(owners)
  BY DEF ActiveOf
<1>3. /\ t \in Class(pool, VehicleOf[d]) /\ t \in DOMAIN tariffs
      /\ (\E id \in Class(pool, VehicleOf[d]) : Covers(id, hour)) => Covers(t, hour)
      /\ (\E id \in Class(pool, VehicleOf[d]) : ~tariffs[id].night)
           => Covers(t, hour) \/ ~tariffs[t].night
  BY <1>1, <1>2, PickedByHour
<1>4. t \in pool /\ kin \subseteq pool
  <2>1. t \in pool
    BY <1>3 DEF Class
  <2> QED BY <1>2, <2>1 DEF ActiveOf
<1>5. kin \subseteq Class(pool, VehicleOf[d])
  BY <1>3, <1>4, KinAreOfTheClass
<1>6. kin \subseteq DOMAIN tariffs /\ tariffs[t].active
  BY <1>2, <1>4 DEF ActiveOf
<1> QED BY <1>3, <1>5, <1>6, NightIsCovered
-----------------------------------------------------------------------------
\* dispatchToDriver, acceptRide, completeRide: for any table, drivers and night windows,
\* what was said with the offer is what a ride costs that goes as planned.
THEOREM OfferedFareIsCharged == Spec => []EstimateIsKept
<1>1. Spec => []IInv
  BY InitIInv, NextIInv, PTL DEF Spec
<1> QED BY <1>1, PTL DEF IInv

\* selectActiveTariff: for any table, drivers, vehicles and windows, the tariff of whoever
\* drives is in force, and one for the night by night and one for the day by day.
THEOREM TariffFollowsTheClock == Spec => []SelectionFollowsPriority
<1>1. Spec => []IInv
  BY InitIInv, NextIInv, PTL DEF Spec
<1>2. IInv /\ HourOfDay => SelectionFollowsPriority
  BY ChoiceIsRight DEF IInv, Types
<1> QED BY <1>1, <1>2, HoursOfDay, PTL
=============================================================================
