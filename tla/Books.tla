------------------------------- MODULE Books --------------------------------
(***************************************************************************)
(* The books of one driver: what money-split.ts and the wallet make of a   *)
(* completed ride, and what the statement of company-billing, the pages of *)
(* company-finances and admin-finances and the wallet say of it later,     *)
(* each from tables of its own, while percentages, contracts and fees are  *)
(* changed.  The handlers of one ride come one after the other here, their *)
(* races are in Settlement; what they fire without await happens later, or *)
(* never if the process dies.  Amounts are cents.                          *)
(***************************************************************************)
EXTENDS Integers, FiniteSets, FiniteSetsExt

CONSTANTS
  Rides,
  None,
  Shares,        \* a driver's % under a company
  Deals,         \* % of a commission contract
  Fees,          \* cardFeePct
  LegacyFee,     \* LEGACY_CARD_FEE_PCT
  Prices,        \* fares by tariff or meter
  Worths,        \* what a code or the first-ride offer is worth; 0: there is none
  NewFares,      \* fares a driver corrects to
  SplitDown,     \* half cents, <<amount, %>>, that the doubles of splitRide round down
  FeeDown,       \* and those of markRidePaymentMethod
  MaxChanges,    \* bound: changes of percentages, contracts and fees
  MaxFaults      \* bound: restarts, and statements that fail

ASSUME BooksAssumption ==
  /\ IsFiniteSet(Rides)
  /\ None \notin Int
  /\ Shares \subseteq 0 .. 100 /\ Deals \subseteq 1 .. 50 /\ Fees \subseteq 0 .. 50 /\ LegacyFee \in Nat
  /\ Prices \subseteq Nat /\ Worths \subseteq Nat /\ NewFares \subseteq Nat
  /\ MaxChanges \in Nat /\ MaxFaults \in Nat

VARIABLES
  pct,           \* the driver's % in force, his own or the company's; None: no company
  deal,          \* platform_commission_pct of the contract of the driver or his company
  cardFee,       \* platform_settings: cardFeePct
  ride,          \* rows of rides
  credit,        \* platform_credits by ride
  entry,         \* the credit of a ride in driver_ledger, or None
  fired,         \* what was fired for a ride and has not happened yet
  booting,       \* the start of the process has yet to classify entries
  changes, faults,
  forgotten,     \* history: rides whose discount was left out, or an effect of which came to nothing
  feeless        \* history: entries that a start has classified

rates == <<pct, deal, cardFee>>
books == <<ride, credit, entry, fired>>
vars  == <<rates, books, booting, changes, faults, forgotten, feeless>>
-----------------------------------------------------------------------------
Effects == {"log", "credit", "backfill", "mark"}

Ride == [status : {"in_progress", "completed"}, fare : Nat, discount : Nat,
         commission : Deals \cup {None}, cardFee : Fees \cup {None}, paid : {"no", "cash", "card"}]
Entry == [amount : Int, gross : Nat, pct : Shares \cup {None}, method : {"pending", "cash", "card"}]

OrZero(percent) == IF percent = None THEN 0 ELSE percent

\* ROUND of Postgres, which calculates in decimals: half a cent is rounded up.
Part(amount, percent) == (amount * percent + 50) \div 100

\* 1 for half a cent.
Tie(amount, percent) == IF (amount * percent) % 100 = 50 THEN 1 ELSE 0

\* Math.round in doubles, in which half a cent may come out just below.
Rounded(amount, percent, down) ==
  Part(amount, percent) - IF <<amount, percent>> \in down THEN Tie(amount, percent) ELSE 0

\* r2(gross * pct / 100), and Math.round(charged * feePct) / 100.
SplitPart(amount, percent) == Rounded(amount, percent, SplitDown)
FeePart(amount, percent)   == Rounded(amount, percent, FeeDown)

\* splitRide.
SplitRide(gross, driverPct, commission, fee, charged) ==
  LET platform == SplitPart(gross, OrZero(commission)) + SplitPart(charged, OrZero(fee))
      driver   == IF driverPct = None THEN gross - platform ELSE SplitPart(gross, driverPct)
  IN  [driver |-> driver, platform |-> platform,
       company |-> IF driverPct = None THEN 0 ELSE gross - driver - platform]
-----------------------------------------------------------------------------
(***************************************************************************)
(* Rides.                                                                  *)
(***************************************************************************)
Discount(price, worth) == IF worth < price THEN worth ELSE price

\* completeRide: the passenger's fare, the commission in force, and what it fires.
Complete(r, price, worth) ==
  LET discount == Discount(price, worth) IN
  /\ ride[r].status = "in_progress"
  /\ ride' = [ride EXCEPT ![r].status = "completed", ![r].fare = price - discount,
                          ![r].discount = discount, ![r].commission = deal]
  /\ fired' = [fired EXCEPT ![r] = (IF discount > 0 THEN {"log"} ELSE {}) \cup (IF price > 0 THEN {"credit"} ELSE {})]
  /\ UNCHANGED <<rates, credit, entry, booting, changes, faults, forgotten, feeless>>

\* creditRide, with the driver's % of the moment.
NewEntry(r, gross) ==
  LET share == SplitRide(gross, pct, ride[r].commission, None, 0).driver IN
  IF share > 0 THEN [amount |-> share, gross |-> gross, pct |-> pct, method |-> "pending"] ELSE None

\* editRideFare, which ends a ride still in progress too: no commission is noted then.
\* Nobody has paid, so the entry that replaceCreditForRide deletes is pending.
EditFare(r, fare) ==
  /\ ride[r].paid = "no"
  /\ fired[r] \cap {"credit", "backfill"} = {}
  /\ ride' = [ride EXCEPT ![r].status = "completed", ![r].fare = fare]
  /\ entry' = [entry EXCEPT ![r] = NewEntry(r, fare)]
  /\ forgotten' = IF ride[r].discount > 0 THEN forgotten \cup {r} ELSE forgotten
  /\ UNCHANGED <<rates, credit, fired, booting, changes, faults, feeless>>

\* The same, when the deletion of the entry or the INSERT after it fails and is logged.
EditFareFails(r, fare) ==
  /\ ride[r].paid = "no"
  /\ fired[r] \cap {"credit", "backfill"} = {}
  /\ faults < MaxFaults /\ faults' = faults + 1
  /\ ride' = [ride EXCEPT ![r].status = "completed", ![r].fare = fare]
  /\ entry' \in {entry, [entry EXCEPT ![r] = None]}
  /\ forgotten' = forgotten \cup {r}
  /\ UNCHANGED <<rates, credit, fired, booting, changes, feeless>>

\* confirmCashPayment, and onSucceeded for an intent, which Stripe makes of money only.
Pay(r, method) ==
  /\ ride[r].status = "completed" /\ ride[r].paid = "no"
  /\ method = "card" => ride[r].fare > 0
  /\ ride' = [ride EXCEPT ![r].paid = method]
  /\ fired' = [fired EXCEPT ![r] = @ \cup {"mark"}]
  /\ UNCHANGED <<rates, credit, entry, booting, changes, faults, forgotten, feeless>>
-----------------------------------------------------------------------------
(***************************************************************************)
(* What is fired without await.                                            *)
(***************************************************************************)
Happens(r, e) == e \in fired[r] /\ fired' = [fired EXCEPT ![r] = @ \ {e}]

LogCredit(r) ==
  /\ Happens(r, "log")
  /\ credit' = [credit EXCEPT ![r] = ride[r].discount]
  /\ UNCHANGED <<rates, ride, entry, booting, changes, faults, forgotten, feeless>>

\* Mutant of Credit: the discount the platform absorbs is left out.
CreditPaid(r) ==
  /\ Happens(r, "credit")
  /\ entry' = [entry EXCEPT ![r] = NewEntry(r, ride[r].fare)]
  /\ UNCHANGED <<rates, ride, credit, booting, changes, faults, forgotten, feeless>>

Credit(r) ==
  /\ Happens(r, "credit")
  /\ entry' = [entry EXCEPT ![r] = NewEntry(r, ride[r].fare + ride[r].discount)]
  /\ UNCHANGED <<rates, ride, credit, booting, changes, faults, forgotten, feeless>>

\* The fee that markRidePaymentMethod takes: the one noted with the ride, or today's.
FeeOf(r) == IF ride[r].cardFee = None THEN cardFee ELSE ride[r].cardFee

\* Mutant of Mark: the fee is taken of the gross fare.
MarkGross(r) ==
  LET charges == ride[r].paid = "card" /\ entry[r].method # "card" IN
  /\ Happens(r, "mark")
  /\ IF entry[r] = None THEN UNCHANGED <<ride, entry>>
     ELSE /\ ride' = IF charges THEN [ride EXCEPT ![r].cardFee = FeeOf(r)] ELSE ride
          /\ entry' = [entry EXCEPT ![r].method = ride[r].paid,
                                    ![r].amount = IF charges /\ pct = None THEN @ - FeePart(entry[r].gross, FeeOf(r)) ELSE @]
  /\ UNCHANGED <<rates, credit, booting, changes, faults, forgotten, feeless>>

\* markRidePaymentMethod: a card's fee is noted with the ride, and solo drivers bear it.
Mark(r) ==
  LET charges == ride[r].paid = "card" /\ entry[r].method # "card" IN
  /\ Happens(r, "mark")
  /\ IF entry[r] = None THEN UNCHANGED <<ride, entry>>
     ELSE /\ ride' = IF charges THEN [ride EXCEPT ![r].cardFee = FeeOf(r)] ELSE ride
          /\ entry' = [entry EXCEPT ![r].method = ride[r].paid,
                                    ![r].amount = IF charges /\ pct = None THEN @ - FeePart(ride[r].fare, FeeOf(r)) ELSE @]
  /\ UNCHANGED <<rates, credit, booting, changes, faults, forgotten, feeless>>

\* Any of them fails, and the error is only logged; the fee may have been noted.
Fails(r, e) ==
  /\ Happens(r, e)
  /\ faults < MaxFaults /\ faults' = faults + 1
  /\ \/ ride' = ride
     \/ /\ e = "mark" /\ entry[r] # None /\ ride[r].paid = "card" /\ entry[r].method # "card"
        /\ ride' = [ride EXCEPT ![r].cardFee = FeeOf(r)]
  /\ forgotten' = forgotten \cup {r}
  /\ UNCHANGED <<rates, credit, entry, booting, changes, feeless>>
-----------------------------------------------------------------------------
(***************************************************************************)
(* A restart, and the backfills of onModuleInit.                           *)
(***************************************************************************)
Orphan(r) == ride[r].status = "completed" /\ ride[r].fare > 0 /\ entry[r] = None

Restart ==
  /\ faults < MaxFaults /\ faults' = faults + 1
  /\ booting' = TRUE
  /\ fired' = [r \in Rides |-> IF Orphan(r) THEN {"backfill"} ELSE {}]
  /\ forgotten' = forgotten \cup {r \in Rides : ride[r].discount > 0 /\ (fired[r] # {} \/ Orphan(r))}
  /\ UNCHANGED <<rates, ride, credit, entry, changes, feeless>>

\* backfillMissingCredits, one ride.
BackfillCredit(r) ==
  /\ Happens(r, "backfill")
  /\ entry' = [entry EXCEPT ![r] = NewEntry(r, ride[r].fare)]
  /\ UNCHANGED <<rates, ride, credit, booting, changes, faults, forgotten, feeless>>

\* backfillPaymentMethods, one UPDATE.
BackfillMethods ==
  LET unresolved == {r \in Rides : entry[r] # None /\ entry[r].method = "pending" /\ ride[r].paid # "no"} IN
  /\ booting /\ booting' = FALSE
  /\ entry' = [r \in Rides |-> IF r \in unresolved THEN [entry[r] EXCEPT !.method = ride[r].paid] ELSE entry[r]]
  /\ feeless' = feeless \cup {r \in unresolved : ride[r].paid = "card"}
  /\ UNCHANGED <<rates, ride, credit, fired, changes, faults, forgotten>>
-----------------------------------------------------------------------------
(***************************************************************************)
(* Changes of the rates.                                                   *)
(***************************************************************************)
Change ==
  /\ changes < MaxChanges /\ changes' = changes + 1
  /\ UNCHANGED <<books, booting, faults, forgotten, feeless>>

\* setDriverCommission of the company for its driver, or setCommission for all.
SetDriverPct(p) == Change /\ pct # None /\ pct' = p /\ UNCHANGED <<deal, cardFee>>

\* setContract for a company, setDriverContract for a solo driver.
SetContract(d) == Change /\ deal' = d /\ UNCHANGED <<pct, cardFee>>

\* PlatformFeesService.update.
SetCardFee(f) == Change /\ cardFee' = f /\ UNCHANGED <<pct, deal>>
-----------------------------------------------------------------------------
Init ==
  /\ pct \in Shares \cup {None}
  /\ deal \in Deals \cup {None}
  /\ cardFee \in Fees
  /\ ride = [r \in Rides |-> [status |-> "in_progress", fare |-> 0, discount |-> 0,
                              commission |-> None, cardFee |-> None, paid |-> "no"]]
  /\ credit = [r \in Rides |-> 0]
  /\ entry = [r \in Rides |-> None]
  /\ fired = [r \in Rides |-> {}]
  /\ booting = FALSE
  /\ changes = 0 /\ faults = 0
  /\ forgotten = {} /\ feeless = {}

Handler(r) ==
  \/ \E price \in Prices, worth \in Worths : Complete(r, price, worth)
  \/ \E fare \in NewFares : EditFare(r, fare) \/ EditFareFails(r, fare)
  \/ \E method \in {"cash", "card"} : Pay(r, method)

Effect(r) ==
  \/ LogCredit(r) \/ Credit(r) \/ Mark(r) \/ BackfillCredit(r)
  \/ \E e \in Effects : Fails(r, e)

Rates ==
  \/ \E p \in Shares : SetDriverPct(p)
  \/ \E d \in Deals \cup {None} : SetContract(d)
  \/ \E f \in Fees : SetCardFee(f)

Next ==
  \/ \E r \in Rides : Handler(r) \/ Effect(r)
  \/ Restart \/ BackfillMethods
  \/ Rates

Spec == Init /\ [][Next]_vars
-----------------------------------------------------------------------------
(***************************************************************************)
(* What the services tell.                                                 *)
(***************************************************************************)
IsCard(r) == entry[r].method = "card"
Fee(r)    == IF ride[r].cardFee = None THEN LegacyFee ELSE ride[r].cardFee

\* toDto of the wallet: the breakdown of an entry.
Breakdown(r) ==
  SplitRide(entry[r].gross, entry[r].pct, ride[r].commission,
            IF IsCard(r) THEN Fee(r) ELSE None, IF IsCard(r) THEN ride[r].fare ELSE 0)

\* The gross fare by the tables of rides and of platform credits.
Gross(r) == ride[r].fare + credit[r]

\* Mutant of Commission: of what the passenger pays.
CommissionOfFare(r) == Part(ride[r].fare, OrZero(ride[r].commission))

\* commissionTotals: the commission of a ride, and what of it the platform has kept.
Commission(r) == Part(Gross(r), OrZero(ride[r].commission))

\* Mutant of Withheld: that of cash rides too.
WithheldAll(r) == IF pct = None THEN Commission(r) ELSE 0

Withheld(r) == IF pct = None /\ IsCard(r) THEN Commission(r) ELSE 0

\* The rides of the pages of company-finances and admin-finances.
Listed == {r \in Rides : ride[r].status = "completed" /\ entry[r] # None /\ entry[r].method # "pending"}

CardFee(r) == IF IsCard(r) THEN Part(ride[r].fare, Fee(r)) ELSE 0

\* getDrivers, splitAggregate: the driver's earning in hundredths of a cent, which is
\* rounded once for all rides, and the platform's.
DriverEarning ==
  MapThenSumSet(LAMBDA r : IF pct = None THEN 100 * (Gross(r) - Commission(r) - CardFee(r)) ELSE Gross(r) * pct, Listed)

PlatformEarning == MapThenSumSet(LAMBDA r : Commission(r) + CardFee(r), Listed)

\* In hundredths of a cent: cashOwedToCompany of the company's page, which takes the
\* company's part of the cash, and the balance of the statement of a solo driver.
OwedToCompany(r)  == IF pct = None \/ IsCard(r) THEN 0 ELSE ride[r].fare * (100 - pct)
OwedToPlatform(r) == IF pct = None THEN 100 * (Commission(r) - Withheld(r)) ELSE 0

\* balanceOwed of the wallet.
OwedToDriver(r) == IF entry[r].method = "cash" THEN 0 ELSE 100 * entry[r].amount

Cash(r) == IF entry[r].method = "cash" THEN 100 * ride[r].fare ELSE 0

\* The driver's part of the discount of a ride that counts as paid in cash: nothing owes it.
Unowed(r) == IF entry[r].method = "cash" THEN credit[r] * (IF pct = None THEN 100 ELSE pct) ELSE 0

\* Half cents, which one place may round up and another down: of the card's fee, and of
\* the commission and the fee.
FeeTie(r)   == IF IsCard(r) THEN Tie(ride[r].fare, Fee(r)) ELSE 0
HalfCents(r) == Tie(Gross(r), OrZero(ride[r].commission)) + FeeTie(r)

\* What the driver's part may differ by, in hundredths of a cent.
Slack(r) == IF pct = None THEN 100 * HalfCents(r) ELSE 50
-----------------------------------------------------------------------------
(***************************************************************************)
(* Properties.                                                             *)
(***************************************************************************)
Within(a, b, tolerance) == a - b \in -tolerance .. tolerance

\* Every variable holds a value of its type; nobody pays less than nothing.
TypeOK ==
  /\ pct \in Shares \cup {None} /\ deal \in Deals \cup {None} /\ cardFee \in Fees
  /\ ride \in [Rides -> Ride]
  /\ credit \in [Rides -> Nat]
  /\ entry \in [Rides -> Entry \cup {None}]
  /\ fired \in [Rides -> SUBSET Effects]
  /\ booting \in BOOLEAN
  /\ changes \in 0 .. MaxChanges /\ faults \in 0 .. MaxFaults
  /\ forgotten \subseteq Rides /\ feeless \subseteq Rides

\* The amount an entry was written with, and reduced by when the card was charged, is
\* the driver's part in the breakdown that is computed anew from what was noted with
\* the ride, whatever has become of the rates since and whatever has failed.  It differs
\* by a cent where the fee of a solo driver's card ride is half a cent, for which the
\* reduction and the breakdown have expressions of their own; and by the fee where a
\* start of the process has classified that ride.
EntriesAddUp ==
  \A r \in Rides : entry[r] # None =>
    \/ Within(entry[r].amount, Breakdown(r).driver, IF pct = None THEN FeeTie(r) ELSE 0)
    \/ pct = None /\ r \in feeless

Quiet(r) == fired[r] = {} /\ r \notin forgotten \cup feeless

\* Nothing about the ride is under way or was lost, and the driver's % is still that of
\* the entry.
Settled(r) == Quiet(r) /\ entry[r].pct = pct

\* money-split.ts: "Single source of truth for the wallet and the finance screens".  The
\* screens compute it in SQL from other tables, and until the driver's % is changed they
\* agree with the wallet: to half a cent a ride for what a company's driver earns, and but
\* for half cents, a cent for each, for what a solo driver and the platform do.
FinancesMatchTheWallet ==
  (\A r \in Listed : Settled(r)) =>
    /\ Within(DriverEarning, MapThenSumSet(LAMBDA r : 100 * entry[r].amount, Listed), MapThenSumSet(Slack, Listed))
    /\ Within(PlatformEarning, MapThenSumSet(LAMBDA r : Breakdown(r).platform, Listed), MapThenSumSet(HalfCents, Listed))

\* FirstRideOfferCard: "The platform covers the discount; drivers are paid in full".  Cash,
\* wallet, company page and statement together leave the driver with his part of the
\* gross fare, less exactly his part of the discount where the ride counts as paid in
\* cash, for which the wallet owes nothing.
OnlyCashDiscountsAreLost ==
  \A r \in Listed : Settled(r) =>
    Within(Cash(r) + OwedToDriver(r) - OwedToCompany(r) - OwedToPlatform(r) + Unowed(r), 100 * entry[r].amount, Slack(r))
=============================================================================
