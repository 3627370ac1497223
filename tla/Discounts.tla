----------------------------- MODULE Discounts -----------------------------
(***************************************************************************)
(* What makes a ride cheaper: one promo code and the first-ride offer, from *)
(* the booking (requestRide) to the completion (completeRide) in           *)
(* rides.service.ts, with first-ride-offer.service.ts, the deletion of an  *)
(* account in auth.controller.ts and the administration of the code.       *)
(* A handler is a sequence of steps between awaits; effects that are fired *)
(* without await happen later, in any order, or never if the process dies   *)
(* or, where the code only logs the error, if their statement fails.        *)
(***************************************************************************)
EXTENDS Integers, FiniteSets

CONSTANTS
  People,        \* a person keeps phone, e-mail and Google account over accounts
  None,
  Rides,
  MaxUses,       \* the limit of the code
  Fare,          \* the fare of a ride by its tariff, in cents
  Worth,         \* what the code may be worth for that fare, in cents
  OfferWorth,    \* what the first-ride offer is worth for that fare
  MaxAccounts,   \* bound: accounts a person opens one after the other
  MaxEdits,      \* bound: edits of the code
  MaxFaults      \* bound: failed statements and crashes

ASSUME DiscountsAssumption ==
  /\ None \notin People /\ None \notin Nat
  /\ IsFiniteSet(Rides)
  /\ MaxUses \in Nat /\ Fare \in Nat \ {0} /\ Worth \subseteq Nat
  /\ OfferWorth \in 1 .. Fare
  /\ MaxAccounts \in Nat /\ MaxEdits \in Nat /\ MaxFaults \in Nat

VARIABLES
  account,       \* accounts a person has opened; the last is the one in use
  leaving,       \* the deletion in progress of that account, or "gone"
  ridden,        \* clients.total_rides of every account
  fingerprints,  \* people whose identities are in promo_fingerprints
  promo,         \* the row of promo_codes
  edit,          \* usedCount in the entity that an edit has read
  ride,          \* rows of rides with the request that works on them
  fired,         \* effects fired without await that have not happened yet
  credit,        \* platform_credits by ride
  earned,        \* gross credited to the driver by ride
  edits,
  faults,
  overlapped,    \* history: bookings that read usedCount before another was counted
  raced,         \* history: rides whose completion overlapped another of the account
  late,          \* history: accounts with a ride counted after their deletion began
  lost,          \* history: credits and earnings whose INSERT failed, which is only logged
  unrecorded,    \* history: accounts whose identities could not be remembered
  muddled        \* history: a count was overwritten by an edit, or a request broke off

people == <<account, leaving, ridden, fingerprints>>
money  == <<credit, earned>>
failures == <<lost, unrecorded>>
past   == <<overlapped, raced, late, failures, muddled>>
vars   == <<people, promo, edit, ride, fired, money, edits, faults, past>>
-----------------------------------------------------------------------------
Promo == [used : Int, active : BOOLEAN, worth : Worth, ofCompany : BOOLEAN]

PCs == {"none", "look", "save", "count", "booked", "fare", "store", "clean", "over"}
Ride == [pc : PCs, client : People \cup {None}, account : 0 .. MaxAccounts, coded : BOOLEAN,
         open : BOOLEAN, pays : 0 .. Fare, discount : 0 .. Fare,
         reason : {"", "promo", "company", "offer", "refused"}]
NoRide == [pc |-> "none", client |-> None, account |-> 0, coded |-> FALSE,
           open |-> FALSE, pays |-> Fare, discount |-> 0, reason |-> ""]

Effects == {"refund", "credit", "count", "earn"}

At(r, pc)   == ride[r].pc = pc
Of(r, p, n) == ride[r].client = p /\ ride[r].account = n
Booked      == {r \in Rides : ride[r].pc \notin {"none", "look", "save"}}

Fault == faults < MaxFaults /\ faults' = faults + 1

\* Completions of an account that have passed the claim and are not counted yet.
Uncounted(p, n) == {r \in Rides : Of(r, p, n) /\ (ride[r].pc \in {"fare", "store", "clean"} \/ <<r, "count">> \in fired)}
-----------------------------------------------------------------------------
(***************************************************************************)
(* Accounts.  An account is deleted in three steps: read totalRides,       *)
(* remember the identities, erase them in a transaction.                   *)
(***************************************************************************)
SignedIn(p) == account[p] > 0 /\ leaving[p] # "gone"

Register(p) ==
  /\ ~SignedIn(p) /\ account[p] < MaxAccounts
  /\ account' = [account EXCEPT ![p] = @ + 1]
  /\ leaving' = [leaving EXCEPT ![p] = "no"]
  /\ UNCHANGED <<ridden, fingerprints, promo, edit, ride, fired, money, edits, faults, past>>

\* Mutant of DeleteAccount: forgets who has ridden once.
DeleteAccountOnce(p) ==
  /\ SignedIn(p) /\ leaving[p] = "no"
  /\ leaving' = [leaving EXCEPT ![p] = IF ridden[p][account[p]] > 1 THEN "record" ELSE "erase"]
  /\ UNCHANGED <<account, ridden, fingerprints, promo, edit, ride, fired, money, edits, faults, past>>

DeleteAccount(p) ==
  /\ SignedIn(p) /\ leaving[p] = "no"
  /\ leaving' = [leaving EXCEPT ![p] = IF ridden[p][account[p]] > 0 THEN "record" ELSE "erase"]
  /\ UNCHANGED <<account, ridden, fingerprints, promo, edit, ride, fired, money, edits, faults, past>>

\* FirstRideOfferService.recordUsage with the whole user.
Record(p) ==
  /\ leaving[p] = "record"
  /\ fingerprints' = fingerprints \cup {p}
  /\ leaving' = [leaving EXCEPT ![p] = "erase"]
  /\ UNCHANGED <<account, ridden, promo, edit, ride, fired, money, edits, faults, past>>

\* Its INSERT fails, which is only logged: the deletion goes on.
RecordFails(p) ==
  /\ leaving[p] = "record" /\ Fault
  /\ unrecorded' = unrecorded \cup {<<p, account[p]>>}
  /\ leaving' = [leaving EXCEPT ![p] = "erase"]
  /\ UNCHANGED <<account, ridden, fingerprints, promo, edit, ride, fired, money, edits, overlapped, raced, late, lost, muddled>>

\* The rides that are still open are cancelled with the account.
Erase(p) ==
  /\ leaving[p] = "erase"
  /\ leaving' = [leaving EXCEPT ![p] = "gone"]
  /\ ride' = [r \in Rides |-> IF Of(r, p, account[p]) THEN [ride[r] EXCEPT !.open = FALSE] ELSE ride[r]]
  /\ UNCHANGED <<account, ridden, fingerprints, promo, edit, fired, money, edits, faults, past>>

\* The transaction is rolled back and the account stays in use.
EraseFails(p) ==
  /\ leaving[p] = "erase" /\ Fault
  /\ leaving' = [leaving EXCEPT ![p] = "no"]
  /\ UNCHANGED <<account, ridden, fingerprints, promo, edit, ride, fired, money, edits, past>>
-----------------------------------------------------------------------------
(***************************************************************************)
(* Booking: requestRide.                                                   *)
(***************************************************************************)
\* checkConcurrentRide reads the rows, so a booking in progress does not count.
Request(r, p) ==
  /\ At(r, "none") /\ SignedIn(p)
  /\ \A s \in Rides : Of(s, p, account[p]) => ~ride[s].open
  /\ \E coded \in BOOLEAN :
       ride' = [ride EXCEPT ![r] = [NoRide EXCEPT !.pc = IF coded THEN "look" ELSE "save",
                                                  !.client = p, !.account = account[p], !.coded = coded]]
  /\ UNCHANGED <<people, promo, edit, fired, money, edits, faults, past>>

\* Mutant of Valid: one use too many.
ValidPlusOne == promo.active /\ promo.used <= MaxUses

\* findValidPromo; an expired code is one that is no longer active.
Valid == promo.active /\ promo.used < MaxUses

Look(r) ==
  /\ At(r, "look")
  /\ ride' = [ride EXCEPT ![r] = IF Valid THEN [@ EXCEPT !.pc = "save"] ELSE NoRide]
  /\ overlapped' = IF \E s \in Rides \ {r} : ride[s].coded /\ ride[s].pc \in {"save", "count"}
                   THEN overlapped \cup {r} ELSE overlapped
  /\ UNCHANGED <<people, promo, edit, fired, money, edits, faults, raced, late, failures, muddled>>

Save(r) ==
  /\ At(r, "save")
  /\ ride' = [ride EXCEPT ![r].pc = IF ride[r].coded THEN "count" ELSE "booked", ![r].open = TRUE]
  /\ UNCHANGED <<people, promo, edit, fired, money, edits, faults, past>>

\* Mutant of CountUse: writes the number of one use.
CountUseOnce(r) ==
  /\ At(r, "count")
  /\ promo' = [promo EXCEPT !.used = 1]
  /\ ride' = [ride EXCEPT ![r].pc = "booked"]
  /\ UNCHANGED <<people, edit, fired, money, edits, faults, past>>

\* The increment is done by the database.
CountUse(r) ==
  /\ At(r, "count")
  /\ promo' = [promo EXCEPT !.used = @ + 1]
  /\ ride' = [ride EXCEPT ![r].pc = "booked"]
  /\ UNCHANGED <<people, edit, fired, money, edits, faults, past>>

\* A cancellation, by whomever, leaves usedCount as it is.
Cancel(r) ==
  /\ ride[r].open
  /\ ride' = [ride EXCEPT ![r].open = FALSE]
  /\ UNCHANGED <<people, promo, edit, fired, money, edits, faults, past>>
-----------------------------------------------------------------------------
(***************************************************************************)
(* Completion: completeRide.                                               *)
(***************************************************************************)
\* claimStatus, and what the tariff makes of the ride: Fare.
Claim(r) ==
  /\ At(r, "booked") /\ ride[r].open
  /\ ride' = [ride EXCEPT ![r].pc = "fare", ![r].open = FALSE]
  /\ raced' = IF Uncounted(ride[r].client, ride[r].account) # {}
              THEN raced \cup {r} \cup Uncounted(ride[r].client, ride[r].account) ELSE raced
  /\ UNCHANGED <<people, promo, edit, fired, money, edits, faults, overlapped, late, failures, muddled>>

\* Mutant of ComputeDiscount: not capped at the fare.
ComputeDiscountUncapped(worth) == worth

ComputeDiscount(worth) == IF worth < Fare THEN worth ELSE Fare

Discounted(j, amount, reason) ==
  [j EXCEPT !.pc = "store", !.discount = amount, !.pays = Fare - amount, !.reason = reason]

\* A code of a company counts only with a driver of that company; else its use is given back.
ApplyPromo(r) ==
  /\ At(r, "fare") /\ ride[r].coded
  /\ \/ /\ ~promo.active
        /\ ride' = [ride EXCEPT ![r].pc = "store"]
        /\ UNCHANGED fired
     \/ /\ promo.active
        /\ ride' = [ride EXCEPT ![r] = Discounted(@, ComputeDiscount(promo.worth),
                                                  IF promo.ofCompany THEN "company" ELSE "promo")]
        /\ UNCHANGED fired
     \/ /\ promo.active /\ promo.ofCompany
        /\ ride' = [ride EXCEPT ![r].pc = "store", ![r].reason = "refused"]
        /\ fired' = fired \cup {<<r, "refund">>}
  /\ UNCHANGED <<people, promo, edit, money, edits, faults, past>>

\* The user as getClientUser loads it, and the identities that fingerprints finds in it.
ClientUserColumns == {"id", "fcmToken"}
Identities(p, columns) == IF columns \cap {"phone", "email", "googleSub", "appleSub"} = {} THEN {} ELSE {p}

\* Mutant of Eligible: whoever has ridden before gets the offer too.
EligibleAlways(p, n) == Identities(p, ClientUserColumns) \cap fingerprints = {}

\* FirstRideOfferService.isEligible.
Eligible(p, n) == ridden[p][n] = 0 /\ Identities(p, ClientUserColumns) \cap fingerprints = {}

ApplyOffer(r) ==
  LET p == ride[r].client  n == ride[r].account IN
  /\ At(r, "fare") /\ ~ride[r].coded
  /\ \/ /\ Eligible(p, n)
        /\ ride' = [ride EXCEPT ![r] = Discounted(@, OfferWorth, "offer")]
        /\ fingerprints' = fingerprints \cup Identities(p, ClientUserColumns)
     \/ \* not eligible, or farther than maxKm
        /\ ride' = [ride EXCEPT ![r].pc = "store"]
        /\ UNCHANGED fingerprints
  /\ UNCHANGED <<account, leaving, ridden, promo, edit, fired, money, edits, faults, past>>

\* What the platform pays for the passenger.
Absorbed(r) == IF ride[r].reason \in {"promo", "offer"} THEN ride[r].discount ELSE 0

Store(r) ==
  /\ At(r, "store")
  /\ ride' = [ride EXCEPT ![r].pc = "clean"]
  /\ fired' = fired \cup (IF Absorbed(r) > 0 THEN {<<r, "credit">>} ELSE {})
  /\ UNCHANGED <<people, promo, edit, money, edits, faults, past>>

\* Mutant of CleanUp: the driver's share follows what the passenger pays.
CleanUpUnpaid(r) ==
  /\ At(r, "clean")
  /\ ride' = [ride EXCEPT ![r].pc = "over"]
  /\ fired' = fired \cup {<<r, "count">>} \cup (IF ride[r].pays > 0 THEN {<<r, "earn">>} ELSE {})
  /\ UNCHANGED <<people, promo, edit, money, edits, faults, past>>

\* After the keys in Redis are deleted.
CleanUp(r) ==
  /\ At(r, "clean")
  /\ ride' = [ride EXCEPT ![r].pc = "over"]
  /\ fired' = fired \cup {<<r, "count">>} \cup (IF ride[r].pays + Absorbed(r) > 0 THEN {<<r, "earn">>} ELSE {})
  /\ UNCHANGED <<people, promo, edit, money, edits, faults, past>>
-----------------------------------------------------------------------------
(***************************************************************************)
(* Effects fired without await.                                            *)
(***************************************************************************)
Happens(r, e) == <<r, e>> \in fired /\ fired' = fired \ {<<r, e>>}

Refund(r) ==
  /\ Happens(r, "refund")
  /\ promo' = [promo EXCEPT !.used = @ - 1]
  /\ UNCHANGED <<people, edit, ride, money, edits, faults, past>>

LogCredit(r) ==
  /\ Happens(r, "credit")
  /\ credit' = [credit EXCEPT ![r] = Absorbed(r)]
  /\ UNCHANGED <<people, promo, edit, ride, earned, edits, faults, past>>

CountRide(r) ==
  LET p == ride[r].client  n == ride[r].account IN
  /\ Happens(r, "count")
  /\ ridden' = [ridden EXCEPT ![p][n] = @ + 1]
  /\ late' = IF n < account[p] \/ leaving[p] # "no" THEN late \cup {<<p, n>>} ELSE late
  /\ UNCHANGED <<account, leaving, fingerprints, promo, edit, ride, money, edits, faults, overlapped, raced, failures, muddled>>

Earn(r) ==
  /\ Happens(r, "earn")
  /\ earned' = [earned EXCEPT ![r] = ride[r].pays + Absorbed(r)]
  /\ UNCHANGED <<people, promo, edit, ride, credit, edits, faults, past>>

\* The INSERT of a credit or an earning fails, which is only logged.  A count that fails
\* has no such handler and takes the process with it.
Fails(r, e) ==
  /\ e \in {"credit", "earn"} /\ Happens(r, e) /\ Fault
  /\ lost' = lost \cup {<<r, e>>}
  /\ UNCHANGED <<people, promo, edit, ride, money, edits, overlapped, raced, late, unrecorded, muddled>>
-----------------------------------------------------------------------------
(***************************************************************************)
(* The administrator's edit reads the row and saves all its columns; and a *)
(* request may break off, alone or with the whole process.                 *)
(***************************************************************************)
ReadPromo ==
  /\ edit = None /\ edits < MaxEdits
  /\ edit' = promo.used /\ edits' = edits + 1
  /\ UNCHANGED <<people, promo, ride, fired, money, faults, past>>

SavePromo ==
  /\ edit # None
  /\ \E active \in BOOLEAN, worth \in Worth :
       promo' = [promo EXCEPT !.used = edit, !.active = active, !.worth = worth]
  /\ muddled' = (muddled \/ promo.used # edit)
  /\ edit' = None
  /\ UNCHANGED <<people, ride, fired, money, edits, faults, overlapped, raced, late, failures>>

Dead(j) == IF j.pc \in {"look", "save"} THEN NoRide
           ELSE IF j.pc = "count" THEN [j EXCEPT !.pc = "booked"]
           ELSE IF j.pc \in {"fare", "store"} THEN [NoRide EXCEPT !.pc = "over", !.client = j.client, !.account = j.account, !.coded = j.coded,
                                                                      !.reason = IF j.reason = "refused" THEN j.reason ELSE ""]
           ELSE IF j.pc = "clean" THEN [j EXCEPT !.pc = "over"] ELSE j

\* A statement that a request awaits fails: the rest of the request does not happen.
Breaks(r) ==
  /\ Dead(ride[r]) # ride[r] /\ Fault
  /\ ride' = [ride EXCEPT ![r] = Dead(@)]
  /\ muddled' = TRUE
  /\ UNCHANGED <<people, promo, edit, fired, money, edits, overlapped, raced, late, failures>>

Crash ==
  /\ Fault
  /\ ride' = [r \in Rides |-> Dead(ride[r])]
  /\ fired' = {} /\ edit' = None
  /\ leaving' = [p \in People |-> IF leaving[p] = "gone" THEN "gone" ELSE "no"]
  /\ muddled' = TRUE
  /\ UNCHANGED <<account, ridden, fingerprints, promo, money, edits, overlapped, raced, late, failures>>
-----------------------------------------------------------------------------
Init ==
  /\ account = [p \in People |-> 0]
  /\ leaving = [p \in People |-> "no"]
  /\ ridden = [p \in People |-> [n \in 1 .. MaxAccounts |-> 0]]
  /\ fingerprints = {}
  /\ promo \in [used : {0}, active : {TRUE}, worth : Worth, ofCompany : BOOLEAN]
  /\ edit = None
  /\ ride = [r \in Rides |-> NoRide]
  /\ fired = {}
  /\ credit = [r \in Rides |-> 0]
  /\ earned = [r \in Rides |-> 0]
  /\ edits = 0 /\ faults = 0
  /\ overlapped = {} /\ raced = {} /\ late = {} /\ lost = {} /\ unrecorded = {} /\ muddled = FALSE

Account(p) == Register(p) \/ DeleteAccount(p) \/ Record(p) \/ RecordFails(p) \/ Erase(p) \/ EraseFails(p)
Booking(r) == (\E p \in People : Request(r, p)) \/ Look(r) \/ Save(r) \/ CountUse(r) \/ Cancel(r)
Completion(r) == Claim(r) \/ ApplyPromo(r) \/ ApplyOffer(r) \/ Store(r) \/ CleanUp(r)
Effect(r) == Refund(r) \/ LogCredit(r) \/ CountRide(r) \/ Earn(r) \/ \E e \in Effects : Fails(r, e)

Next ==
  \/ \E p \in People : Account(p)
  \/ \E r \in Rides : Booking(r) \/ Completion(r) \/ Effect(r) \/ Breaks(r)
  \/ ReadPromo \/ SavePromo
  \/ Crash

Spec == Init /\ [][Next]_vars
-----------------------------------------------------------------------------
(***************************************************************************)
(* Properties.                                                             *)
(***************************************************************************)
\* Every variable holds a value of its type; no ride costs less than nothing.
TypeOK ==
  /\ account \in [People -> 0 .. MaxAccounts]
  /\ leaving \in [People -> {"no", "record", "erase", "gone"}]
  /\ ridden \in [People -> [1 .. MaxAccounts -> Nat]]
  /\ fingerprints \subseteq People
  /\ promo \in Promo
  /\ edit \in Int \cup {None}
  /\ ride \in [Rides -> Ride]
  /\ fired \subseteq Rides \X Effects
  /\ credit \in [Rides -> 0 .. Fare] /\ earned \in [Rides -> 0 .. Fare]
  /\ edits \in 0 .. MaxEdits /\ faults \in 0 .. MaxFaults
  /\ overlapped \subseteq Rides /\ raced \subseteq Rides
  /\ late \subseteq People \X (1 .. MaxAccounts) /\ unrecorded \subseteq People \X (1 .. MaxAccounts)
  /\ lost \subseteq Rides \X {"credit", "earn"} /\ muddled \in BOOLEAN

Holders == {r \in Booked : ride[r].coded /\ ride[r].reason # "refused"}

\* usedCount is the number of rides booked with the code whose use was not given back,
\* however bookings, cancellations, completions and refunds interleave; an edit that
\* overlapped a count, and a crash, may spoil it (increment and decrement, against
\* the save of the whole row).
UsesAreCounted ==
  (~muddled /\ \A r \in Rides : ~At(r, "count") /\ <<r, "refund">> \notin fired)
    => promo.used = Cardinality(Holders)

\* Only bookings that looked at the code while another one was on its way to the
\* counter can exceed the limit, each by one use.
LimitIsKept == ~muddled => Cardinality(Holders) <= MaxUses + Cardinality(Holders \cap overlapped)

\* One account gets the first-ride offer once, unless two of its rides were completed
\* together: the claim of one and the counting of the other overlapped, or a crash
\* lost the count.
OneOfferPerAccount ==
  \A r, s \in Rides :
    ride[r].reason = "offer" /\ ride[s].reason = "offer" /\ Of(s, ride[r].client, ride[r].account)
      => r = s \/ muddled \/ r \in raced

\* The deletion of an account remembers everyone who has ridden with it, so that a new
\* account could be recognised; a ride counted during or after the deletion is missed, and
\* so is everyone whose identities could not be written, whom recordUsage lets go.
RidersAreRemembered ==
  \A p \in People : \A n \in 1 .. account[p] :
    (n < account[p] \/ leaving[p] = "gone") /\ ridden[p][n] > 0 =>
      p \in fingerprints \/ <<p, n>> \in late \cup unrecorded

\* What the driver is due: his own company's gift is not made up for.
Due(r) == IF ride[r].reason = "company" THEN Fare - ride[r].discount ELSE Fare
Lost(r, e, amount) == IF <<r, e>> \in lost THEN amount ELSE 0

\* When a completed ride is settled, the driver has earned what is due to him or, where
\* that INSERT failed, nothing; and the passenger's money and the platform's credit make
\* up what is due, less a discount whose credit was not written.
DriverIsMadeWhole ==
  \A r \in Rides :
    (~muddled /\ At(r, "over") /\ \A e \in Effects : <<r, e>> \notin fired) =>
      /\ earned[r] = Due(r) - Lost(r, "earn", Due(r))
      /\ ride[r].pays >= 0 /\ credit[r] >= 0
      /\ ride[r].pays + credit[r] = Due(r) - Lost(r, "credit", Absorbed(r))
=============================================================================
