-------------------------- MODULE DiscountsProofs --------------------------
(***************************************************************************)
(* Proofs about Discounts: the uses of a code, the first-ride offer, and   *)
(* what the driver gets.                                                   *)
(***************************************************************************)
EXTENDS Discounts, FiniteSetTheorems, TLAPS

(***************************************************************************)
(* The inductive invariant.  A ride that was booked belongs to an account; *)
(* it has a discount only for a reason; and effects are fired, and fail,   *)
(* for rides that have come that far.                                      *)
(***************************************************************************)
RideOK(r) ==
  /\ ride[r].pays + ride[r].discount = Fare
  /\ ride[r].reason \in {"", "refused"} => ride[r].discount = 0
  /\ ride[r].reason = "refused" => ride[r].coded
  /\ ride[r].pc # "none" => ride[r].client \in People /\ ride[r].account \in 1 .. account[ride[r].client]
  /\ ride[r].pc \notin {"store", "clean", "over"} => ride[r].reason = ""
  /\ ride[r].pc \in {"look", "count"} => ride[r].coded

FiredOK(r) ==
  /\ <<r, "refund">> \in fired => ride[r].pc \in {"store", "clean", "over"} /\ ride[r].reason = "refused"
  /\ <<r, "credit">> \in fired => ride[r].pc \in {"clean", "over"}
  /\ <<r, "count">> \in fired => ride[r].pc = "over"
  /\ <<r, "earn">> \in fired => ride[r].pc = "over"
  /\ <<r, "credit">> \in lost => ride[r].pc \in {"clean", "over"} /\ <<r, "credit">> \notin fired
  /\ <<r, "earn">> \in lost => ride[r].pc = "over" /\ <<r, "earn">> \notin fired

\* What has been credited is what the ride has come to, effects that have not happened yet, and
\* those that failed, aside.
MoneyOK(r) ==
  /\ credit[r] = IF ride[r].pc \in {"clean", "over"} /\ <<r, "credit">> \notin fired \cup lost THEN Absorbed(r) ELSE 0
  /\ earned[r] = IF ride[r].pc = "over" /\ <<r, "earn">> \notin fired \cup lost THEN ride[r].pays + Absorbed(r) ELSE 0

\* The deletion knows what it will have to remember.
MemoryInv ==
  /\ RidersAreRemembered
  /\ \A p \in People : leaving[p] # "no" => account[p] # 0
  /\ \A p \in People : leaving[p] = "erase" /\ ridden[p][account[p]] > 0 =>
       p \in fingerprints \/ <<p, account[p]>> \in late \cup unrecorded

Completing(r) == ride[r].pc \in {"fare", "store", "clean"} \/ <<r, "count">> \in fired

SameAccount(r, s) == ride[r].client = ride[s].client /\ ride[r].account = ride[s].account

\* Two completions of an account under way have raced, and one that is no longer under
\* way has been counted.
RacedInv ==
  \A r, s \in Rides :
    r # s /\ Completing(r) /\ Completing(s) /\ SameAccount(r, s) => r \in raced

OfferInv ==
  /\ OneOfferPerAccount
  /\ ~muddled => \A r \in Rides : ride[r].reason = "offer" =>
                    Completing(r) \/ ridden[ride[r].client][ride[r].account] > 0

\* The rides that promo.used counts, and those that have passed the limit alone.
IsCounted(r) == /\ ride[r].coded /\ ride[r].pc \notin {"none", "look", "save", "count"}
                /\ ride[r].reason = "refused" => <<r, "refund">> \in fired
IsPassed(r)  == ride[r].coded /\ ride[r].pc \notin {"none", "look"} /\ ride[r].reason # "refused"

Counted == {r \in Rides : IsCounted(r)}
Passed  == {r \in Rides \ overlapped : IsPassed(r)}

UseInv == ~muddled => promo.used = Cardinality(Counted) /\ Cardinality(Passed) <= MaxUses

IInv ==
  /\ TypeOK
  /\ \A r \in Rides : RideOK(r) /\ FiredOK(r)
  /\ ~muddled => \A r \in Rides : MoneyOK(r)
  /\ MemoryInv
  /\ RacedInv
  /\ OfferInv
  /\ UseInv

-----------------------------------------------------------------------------
(***************************************************************************)
(* Frames: what a step must leave alone for a part of the invariant.       *)
(***************************************************************************)
\* A place for a ride that is free is a record of a ride.
LEMMA NoRideType == NoRide \in Ride
  BY DiscountsAssumption DEF NoRide, Ride, PCs

LEMMA NoRideFields ==
  /\ NoRide.pc = "none" /\ NoRide.client = None /\ NoRide.account = 0 /\ NoRide.coded = FALSE
  /\ NoRide.pays = Fare /\ NoRide.discount = 0 /\ NoRide.reason = ""
  BY DEF NoRide

LEMMA RowType ==
  ASSUME NEW f \in [1 .. MaxAccounts -> Nat], NEW n \in 1 .. MaxAccounts
  PROVE  /\ [f EXCEPT ![n] = @ + 1] \in [1 .. MaxAccounts -> Nat]
         /\ \A m \in 1 .. MaxAccounts : [f EXCEPT ![n] = @ + 1][m] = IF m = n THEN f[m] + 1 ELSE f[m]
<1>1. f[n] + 1 \in Nat
  OBVIOUS
<1>. QED
  BY <1>1

LEMMA Amounts == Fare \in Nat /\ OfferWorth \in 0 .. Fare /\ MaxUses \in Nat /\ MaxAccounts \in Nat
  BY DiscountsAssumption

\* How a fare may be divided into the passenger's price, a gift, what is absorbed of it and
\* what is due to the driver; and what follows for the sums.
Divided(price, gift, absorbed, due) ==
  /\ price \in 0 .. Fare /\ gift \in 0 .. Fare /\ price + gift = Fare
  /\ \/ absorbed = gift /\ due = Fare
     \/ absorbed = 0 /\ due = Fare - gift
     \/ absorbed = 0 /\ gift = 0 /\ due = Fare

Balanced(price, absorbed, due) ==
  /\ due = price + absorbed /\ due - due = 0 /\ due - 0 = due
  /\ price + 0 = due - absorbed /\ price + absorbed = due - 0
  /\ price >= 0 /\ absorbed >= 0 /\ 0 >= 0

LEMMA Balance ==
  \A price, gift, absorbed, due : Divided(price, gift, absorbed, due) => Balanced(price, absorbed, due)
  BY Amounts DEF Divided, Balanced

LEMMA PriceAndDiscount == Fare + 0 = Fare /\ \A a \in 0 .. Fare : (Fare - a) + a = Fare
  BY Amounts

\* A discount leaves a price.
LEMMA DiscountedType ==
  ASSUME NEW j \in Ride, NEW amount \in 0 .. Fare, NEW reason \in {"promo", "company", "offer"}
  PROVE  Discounted(j, amount, reason) \in Ride
<1>1. Fare - amount \in 0 .. Fare
  BY Amounts
<1>. QED
  BY <1>1 DEF Discounted, Ride, PCs

LEMMA PromoType ==
  ASSUME promo \in Promo, NEW n \in Int
  PROVE  [promo EXCEPT !.used = n] \in Promo
  BY DEF Promo

LEMMA EffectType ==
  ASSUME NEW r \in Rides
  PROVE  {<<r, "refund">>, <<r, "credit">>, <<r, "count">>, <<r, "earn">>} \subseteq Rides \X Effects
  BY DEF Effects

\* Counted and Passed are sets of rides.
LEMMA UsesAreFinite ==
  /\ IsFiniteSet(Counted) /\ IsFiniteSet(Passed)
  /\ Cardinality(Counted) \in Nat /\ Cardinality(Passed) \in Nat
<1>1. Counted \subseteq Rides /\ Passed \subseteq Rides
  BY DEF Counted, Passed
<1>. QED
  BY <1>1, DiscountsAssumption, FS_Subset, FS_CardinalityType

\* A step that writes one row of rides.
LEMMA MoveRide ==
  ASSUME TypeOK, NEW r \in Rides, NEW j \in Ride, ride' = [ride EXCEPT ![r] = j]
  PROVE  /\ ride' \in [Rides -> Ride]
         /\ \A s \in Rides : ride'[s] = IF s = r THEN j ELSE ride[s]
  BY DEF TypeOK

LEMMA MemoryFrame ==
  ASSUME MemoryInv, UNCHANGED <<people, late, unrecorded>>
  PROVE  MemoryInv'
  BY DEF MemoryInv, RidersAreRemembered, people

\* Rides that are being completed keep their account, and no other one joins them.
LEMMA RacedFrame ==
  ASSUME RacedInv, raced \subseteq raced',
         \A s \in Rides : Completing(s)' => Completing(s) /\ ride'[s].client = ride[s].client /\ ride'[s].account = ride[s].account
  PROVE  RacedInv'
  BY DEF RacedInv, SameAccount

\* No ride gets the offer, and one that has it goes on or has been counted.
LEMMA OfferFrame ==
  ASSUME OfferInv, raced \subseteq raced', muddled => muddled', muddled \in BOOLEAN, muddled' \in BOOLEAN,
         ridden' = ridden,
         \A s \in Rides : ride'[s].reason = "offer" =>
            /\ ride[s].reason = "offer" /\ (Completing(s) => Completing(s)')
            /\ ride'[s].client = ride[s].client /\ ride'[s].account = ride[s].account
  PROVE  OfferInv'
<1>1. OneOfferPerAccount'
  BY DEF OfferInv, OneOfferPerAccount, Of
<1>2. ~muddled' => \A s \in Rides : ride'[s].reason = "offer" => Completing(s)' \/ ridden'[ride'[s].client][ride'[s].account] > 0
  BY DEF OfferInv
<1>. QED
  BY <1>1, <1>2 DEF OfferInv

\* A ride whose effects happen or not as before and that is worth the same.
LEMMA MoneyFrame ==
  ASSUME NEW r \in Rides, MoneyOK(r), Absorbed(r)' = Absorbed(r),
         ride'[r].pays = ride[r].pays, credit'[r] = credit[r], earned'[r] = earned[r],
         ride'[r].pc \in {"clean", "over"} <=> ride[r].pc \in {"clean", "over"},
         ride'[r].pc = "over" <=> ride[r].pc = "over",
         <<r, "credit">> \in fired' <=> <<r, "credit">> \in fired,
         <<r, "earn">> \in fired' <=> <<r, "earn">> \in fired,
         <<r, "credit">> \in lost' <=> <<r, "credit">> \in lost,
         <<r, "earn">> \in lost' <=> <<r, "earn">> \in lost
  PROVE  MoneyOK(r)'
  BY DEF MoneyOK

\* What the platform pays depends on the reason and the discount.
LEMMA AbsorbedFrame ==
  ASSUME NEW r \in Rides, ride'[r].reason = ride[r].reason, ride'[r].discount = ride[r].discount
  PROVE  Absorbed(r)' = Absorbed(r)
  BY DEF Absorbed

LEMMA AbsorbedType ==
  ASSUME TypeOK, NEW r \in Rides
  PROVE  Absorbed(r) \in 0 .. Fare
<1>1. ride[r].discount \in 0 .. Fare
  BY DEF TypeOK, Ride
<1>. QED
  BY <1>1, Amounts DEF Absorbed

LEMMA RideFrame ==
  ASSUME NEW r \in Rides, RideOK(r), ride'[r] = ride[r], UNCHANGED account
  PROVE  RideOK(r)'
  BY DEF RideOK

LEMMA FiredFrame ==
  ASSUME NEW r \in Rides, FiredOK(r), ride'[r] = ride[r],
         \A e \in Effects : (<<r, e>> \in fired' => <<r, e>> \in fired) /\ (<<r, e>> \in lost' => <<r, e>> \in lost)
  PROVE  FiredOK(r)'
  BY DEF FiredOK, Effects

LEMMA CountedFrame ==
  ASSUME NEW r \in Rides, ride'[r] = ride[r], <<r, "refund">> \in fired' <=> <<r, "refund">> \in fired
  PROVE  (IsCounted(r)' <=> IsCounted(r)) /\ (IsPassed(r)' <=> IsPassed(r))
  BY DEF IsCounted, IsPassed

LEMMA UseFrame ==
  ASSUME UseInv, muddled' = muddled, promo'.used = promo.used, MaxUses \in Nat, overlapped \subseteq overlapped',
         \A r \in Rides : (IsCounted(r)' <=> IsCounted(r)) /\ (IsPassed(r)' => IsPassed(r))
  PROVE  UseInv'
<1>1. Counted' = Counted /\ Passed' \subseteq Passed
  BY DEF Counted, Passed
<1>2. Cardinality(Passed') \in Nat /\ Cardinality(Passed') <= Cardinality(Passed) /\ Cardinality(Passed) \in Nat
  BY <1>1, UsesAreFinite, FS_Subset, FS_CardinalityType
<1>. QED
  BY <1>1, <1>2 DEF UseInv
-----------------------------------------------------------------------------
(***************************************************************************)
(* The steps: one lemma per action, with one step per part of the         *)
(* invariant.                                                              *)
(***************************************************************************)

LEMMA RegisterInv ==
  ASSUME IInv, NEW p \in People, Register(p)
  PROVE  IInv'
<1> USE DEF Register, people, money, past, failures
<1>1. TypeOK /\ UNCHANGED <<ride, fired, raced, muddled, promo>>
  BY DEF IInv
<1>2. TypeOK'
<2>1. account[p] + 1 \in 0 .. MaxAccounts
  BY <1>1, DiscountsAssumption DEF TypeOK
<2>. QED
  BY <1>1, <2>1 DEF TypeOK
<1>3. \A s \in Rides : RideOK(s)'
<2>1. \A q \in People : 1 .. account[q] \subseteq 1 .. account'[q]
  BY <1>1, DiscountsAssumption DEF TypeOK
<2>. QED
  BY <1>1, <2>1 DEF IInv, RideOK
<1>4. \A s \in Rides : FiredOK(s)'
  BY <1>1 DEF IInv, FiredOK, Happens
<1>5. ~muddled' => \A s \in Rides : MoneyOK(s)'
  BY <1>1, MoneyFrame, AbsorbedFrame DEF IInv, Happens, Effects
<1>6. MemoryInv'
<2>1. \A q \in People : account[q] \in Int
  BY <1>1, DiscountsAssumption DEF TypeOK
<2>2. \A q \in People : leaving'[q] # "no" => account'[q] # 0
  BY <1>1 DEF IInv, TypeOK, MemoryInv
<2>3. \A q \in People : leaving'[q] = "erase" /\ ridden'[q][account'[q]] > 0 =>
        q \in fingerprints' \/ <<q, account'[q]>> \in late' \cup unrecorded'
  BY <1>1 DEF IInv, TypeOK, MemoryInv
<2>4. RidersAreRemembered'
<3>1. SUFFICES ASSUME NEW q \in People, NEW n \in 1 .. account'[q],
                      n < account'[q] \/ leaving'[q] = "gone", ridden[q][n] > 0
               PROVE  q \in fingerprints \/ <<q, n>> \in late \cup unrecorded
  BY <1>1 DEF RidersAreRemembered
<3>2. CASE q # p
  BY <1>1, <3>1, <3>2 DEF IInv, TypeOK, MemoryInv, RidersAreRemembered
<3>3. CASE q = p
<4>1. n \in 1 .. account[p] /\ leaving[p] = "gone"
  BY <1>1, <2>1, <3>1, <3>3 DEF TypeOK, SignedIn
<4>. QED
  BY <3>1, <3>3, <4>1 DEF IInv, MemoryInv, RidersAreRemembered
<3>. QED
  BY <3>2, <3>3
<2>. QED
  BY <2>2, <2>3, <2>4 DEF MemoryInv
<1>7. RacedInv'
  BY <1>1, RacedFrame DEF IInv, Completing, Happens
<1>8. OfferInv'
  BY <1>1, OfferFrame DEF IInv, TypeOK, Completing, Happens
<1>9. UseInv'
  BY <1>1, CountedFrame, UseFrame, DiscountsAssumption DEF IInv, TypeOK, Promo, Happens
<1>. QED
  BY <1>2, <1>3, <1>4, <1>5, <1>6, <1>7, <1>8, <1>9 DEF IInv

LEMMA DeleteAccountInv ==
  ASSUME IInv, NEW p \in People, DeleteAccount(p)
  PROVE  IInv'
<1> USE DEF DeleteAccount, people, money, past, failures
<1>1. TypeOK /\ UNCHANGED <<ride, fired, raced, muddled, promo>>
  BY DEF IInv
<1>2. TypeOK'
  BY <1>1 DEF TypeOK, Happens
<1>3. \A s \in Rides : RideOK(s)'
  BY <1>1 DEF IInv, TypeOK, RideOK, SignedIn
<1>4. \A s \in Rides : FiredOK(s)'
  BY <1>1 DEF IInv, FiredOK, Happens
<1>5. ~muddled' => \A s \in Rides : MoneyOK(s)'
  BY <1>1, MoneyFrame, AbsorbedFrame DEF IInv, Happens, Effects
<1>6. MemoryInv'
  BY <1>1, DiscountsAssumption DEF IInv, TypeOK, MemoryInv, RidersAreRemembered, SignedIn
<1>7. RacedInv'
  BY <1>1, RacedFrame DEF IInv, Completing, Happens
<1>8. OfferInv'
  BY <1>1, OfferFrame DEF IInv, TypeOK, Completing, Happens
<1>9. UseInv'
  BY <1>1, CountedFrame, UseFrame, DiscountsAssumption DEF IInv, TypeOK, Promo, Happens
<1>. QED
  BY <1>2, <1>3, <1>4, <1>5, <1>6, <1>7, <1>8, <1>9 DEF IInv

LEMMA RecordInv ==
  ASSUME IInv, NEW p \in People, Record(p)
  PROVE  IInv'
<1> USE DEF Record, people, money, past, failures
<1>1. TypeOK /\ UNCHANGED <<ride, fired, raced, muddled, promo>>
  BY DEF IInv
<1>2. TypeOK'
  BY <1>1 DEF TypeOK, Happens
<1>3. \A s \in Rides : RideOK(s)'
  BY <1>1 DEF IInv, TypeOK, RideOK, SignedIn
<1>4. \A s \in Rides : FiredOK(s)'
  BY <1>1 DEF IInv, FiredOK, Happens
<1>5. ~muddled' => \A s \in Rides : MoneyOK(s)'
  BY <1>1, MoneyFrame, AbsorbedFrame DEF IInv, Happens, Effects
<1>6. MemoryInv'
  BY <1>1 DEF IInv, TypeOK, MemoryInv, RidersAreRemembered
<1>7. RacedInv'
  BY <1>1, RacedFrame DEF IInv, Completing, Happens
<1>8. OfferInv'
  BY <1>1, OfferFrame DEF IInv, TypeOK, Completing, Happens
<1>9. UseInv'
  BY <1>1, CountedFrame, UseFrame, DiscountsAssumption DEF IInv, TypeOK, Promo, Happens
<1>. QED
  BY <1>2, <1>3, <1>4, <1>5, <1>6, <1>7, <1>8, <1>9 DEF IInv

LEMMA RecordFailsInv ==
  ASSUME IInv, NEW p \in People, RecordFails(p)
  PROVE  IInv'
<1> USE DEF RecordFails, Fault, people, money, past, failures
<1>1. TypeOK /\ UNCHANGED <<ride, fired, raced, muddled, promo>>
  BY DEF IInv
<1>2. TypeOK'
<2>1. <<p, account[p]>> \in People \X (1 .. MaxAccounts) /\ faults' \in 0 .. MaxFaults
  BY <1>1, DiscountsAssumption DEF IInv, TypeOK, MemoryInv
<2>. QED
  BY <1>1, <2>1 DEF TypeOK
<1>3. \A s \in Rides : RideOK(s)'
  BY <1>1 DEF IInv, TypeOK, RideOK, SignedIn
<1>4. \A s \in Rides : FiredOK(s)'
  BY <1>1 DEF IInv, FiredOK, Happens
<1>5. ~muddled' => \A s \in Rides : MoneyOK(s)'
  BY <1>1, MoneyFrame, AbsorbedFrame DEF IInv, Happens, Effects
<1>6. MemoryInv'
  BY <1>1 DEF IInv, TypeOK, MemoryInv, RidersAreRemembered
<1>7. RacedInv'
  BY <1>1, RacedFrame DEF IInv, Completing, Happens
<1>8. OfferInv'
  BY <1>1, OfferFrame DEF IInv, TypeOK, Completing, Happens
<1>9. UseInv'
  BY <1>1, CountedFrame, UseFrame, DiscountsAssumption DEF IInv, TypeOK, Promo, Happens
<1>. QED
  BY <1>2, <1>3, <1>4, <1>5, <1>6, <1>7, <1>8, <1>9 DEF IInv

LEMMA EraseFailsInv ==
  ASSUME IInv, NEW p \in People, EraseFails(p)
  PROVE  IInv'
<1> USE DEF EraseFails, Fault, people, money, past, failures
<1>1. TypeOK /\ UNCHANGED <<ride, fired, raced, muddled, promo>>
  BY DEF IInv
<1>2. TypeOK'
<2>1. faults' \in 0 .. MaxFaults
  BY <1>1, DiscountsAssumption DEF IInv, TypeOK, MemoryInv
<2>. QED
  BY <1>1, <2>1 DEF TypeOK
<1>3. \A s \in Rides : RideOK(s)'
  BY <1>1 DEF IInv, TypeOK, RideOK, SignedIn
<1>4. \A s \in Rides : FiredOK(s)'
  BY <1>1 DEF IInv, FiredOK, Happens
<1>5. ~muddled' => \A s \in Rides : MoneyOK(s)'
  BY <1>1, MoneyFrame, AbsorbedFrame DEF IInv, Happens, Effects
<1>6. MemoryInv'
  BY <1>1 DEF IInv, TypeOK, MemoryInv, RidersAreRemembered
<1>7. RacedInv'
  BY <1>1, RacedFrame DEF IInv, Completing, Happens
<1>8. OfferInv'
  BY <1>1, OfferFrame DEF IInv, TypeOK, Completing, Happens
<1>9. UseInv'
  BY <1>1, CountedFrame, UseFrame, DiscountsAssumption DEF IInv, TypeOK, Promo, Happens
<1>. QED
  BY <1>2, <1>3, <1>4, <1>5, <1>6, <1>7, <1>8, <1>9 DEF IInv

LEMMA SaveInv ==
  ASSUME IInv, NEW r \in Rides, Save(r)
  PROVE  IInv'
<1> USE DEF Save, people, money, past, failures
<1> DEFINE j == [ride[r] EXCEPT !.pc = IF ride[r].coded THEN "count" ELSE "booked", !.open = TRUE]
<1>1. TypeOK /\ ride[r] \in Ride /\ RideOK(r) /\ FiredOK(r)
  BY DEF IInv, TypeOK
<1>2. j \in Ride
  BY <1>1 DEF Ride, PCs
<1>3. ride' = [ride EXCEPT ![r] = j]
  BY <1>1 DEF TypeOK
<1>4. ride' \in [Rides -> Ride] /\ \A s \in Rides : ride'[s] = IF s = r THEN j ELSE ride[s]
  BY <1>1, <1>2, <1>3, MoveRide
<1>5. /\ ride'[r].client = ride[r].client
      /\ ride'[r].account = ride[r].account
      /\ ride'[r].coded = ride[r].coded
      /\ ride'[r].open = TRUE
      /\ ride'[r].pays = ride[r].pays
      /\ ride'[r].discount = ride[r].discount
      /\ ride'[r].reason = ride[r].reason
      /\ ride[r].pc = "save"
      /\ ride'[r].pc \in {"count", "booked"}
      /\ ride'[r].pc = "count" <=> ride[r].coded
  BY <1>1, <1>4 DEF Ride, At
<1>6. \A s \in Rides : s # r => ride'[s] = ride[s]
  BY <1>4
<1> HIDE DEF j
<1>7. TypeOK'
  BY <1>1, <1>4, EffectType DEF TypeOK, Happens
<1>8. \A s \in Rides : RideOK(s)'
<2>1. RideOK(r)'
  BY <1>1, <1>5, <1>6 DEF TypeOK, RideOK, At
<2>. QED
  BY <1>6, <2>1, RideFrame DEF IInv
<1>9. \A s \in Rides : FiredOK(s)'
<2>1. FiredOK(r)'
  BY <1>1, <1>5, <1>6 DEF FiredOK, RideOK, At, Happens
<2>. QED
  BY <1>6, <2>1, FiredFrame DEF IInv, Effects, Happens
<1>10. ~muddled' => \A s \in Rides : MoneyOK(s)'
<2> SUFFICES ASSUME ~muddled', NEW s \in Rides PROVE MoneyOK(s)'
  OBVIOUS
<2>1. MoneyOK(s)
  BY DEF IInv
<2>2. CASE s = r
  BY <1>1, <1>5, <1>6, <2>1, <2>2, MoneyFrame, AbsorbedFrame DEF At, Happens
<2>3. CASE s # r
  BY <1>6, <2>1, <2>3, MoneyFrame, AbsorbedFrame DEF Happens
<2>. QED
  BY <2>2, <2>3
<1>11. MemoryInv'
  BY MemoryFrame DEF IInv
<1>12. RacedInv'
  BY <1>1, <1>5, <1>6, RacedFrame DEF IInv, Completing, At, FiredOK, Happens
<1>13. OfferInv'
<2>1. Completing(r)' <=> Completing(r)
  BY <1>5, <1>6 DEF Completing, At, Happens
<2>2. \A s \in Rides : s # r => (Completing(s)' <=> Completing(s))
  BY <1>6 DEF Completing, At, Happens
<2>3. muddled \in BOOLEAN /\ muddled' \in BOOLEAN
  BY <1>1 DEF TypeOK
<2>. QED
  BY <1>5, <1>6, <2>1, <2>2, <2>3, OfferFrame DEF IInv
<1>14. UseInv'
<2>1. (IsCounted(r)' <=> IsCounted(r)) /\ (IsPassed(r)' => IsPassed(r))
  BY <1>1, <1>5, <1>6 DEF IsCounted, IsPassed, At, RideOK, FiredOK, Happens
<2>2. \A s \in Rides \ {r} : (IsCounted(s)' <=> IsCounted(s)) /\ (IsPassed(s)' <=> IsPassed(s))
  BY <1>6, CountedFrame DEF Happens
<2>. QED
  BY <1>1, <2>1, <2>2, UseFrame, DiscountsAssumption DEF IInv, TypeOK, Promo
<1>. QED
  BY <1>7, <1>8, <1>9, <1>10, <1>11, <1>12, <1>13, <1>14 DEF IInv

LEMMA CancelInv ==
  ASSUME IInv, NEW r \in Rides, Cancel(r)
  PROVE  IInv'
<1> USE DEF Cancel, people, money, past, failures
<1> DEFINE j == [ride[r] EXCEPT !.open = FALSE]
<1>1. TypeOK /\ ride[r] \in Ride /\ RideOK(r) /\ FiredOK(r)
  BY DEF IInv, TypeOK
<1>2. j \in Ride
  BY <1>1 DEF Ride, PCs
<1>3. ride' = [ride EXCEPT ![r] = j]
  BY <1>1 DEF TypeOK
<1>4. ride' \in [Rides -> Ride] /\ \A s \in Rides : ride'[s] = IF s = r THEN j ELSE ride[s]
  BY <1>1, <1>2, <1>3, MoveRide
<1>5. /\ ride'[r].pc = ride[r].pc
      /\ ride'[r].client = ride[r].client
      /\ ride'[r].account = ride[r].account
      /\ ride'[r].coded = ride[r].coded
      /\ ride'[r].open = FALSE
      /\ ride'[r].pays = ride[r].pays
      /\ ride'[r].discount = ride[r].discount
      /\ ride'[r].reason = ride[r].reason
  BY <1>1, <1>4 DEF Ride, At
<1>6. \A s \in Rides : s # r => ride'[s] = ride[s]
  BY <1>4
<1> HIDE DEF j
<1>7. TypeOK'
  BY <1>1, <1>4, EffectType DEF TypeOK, Happens
<1>8. \A s \in Rides : RideOK(s)'
<2>1. RideOK(r)'
  BY <1>1, <1>5, <1>6 DEF TypeOK, RideOK, At
<2>. QED
  BY <1>6, <2>1, RideFrame DEF IInv
<1>9. \A s \in Rides : FiredOK(s)'
<2>1. FiredOK(r)'
  BY <1>1, <1>5, <1>6 DEF FiredOK, RideOK, At, Happens
<2>. QED
  BY <1>6, <2>1, FiredFrame DEF IInv, Effects, Happens
<1>10. ~muddled' => \A s \in Rides : MoneyOK(s)'
<2> SUFFICES ASSUME ~muddled', NEW s \in Rides PROVE MoneyOK(s)'
  OBVIOUS
<2>1. MoneyOK(s)
  BY DEF IInv
<2>2. CASE s = r
  BY <1>1, <1>5, <1>6, <2>1, <2>2, MoneyFrame, AbsorbedFrame DEF At, Happens
<2>3. CASE s # r
  BY <1>6, <2>1, <2>3, MoneyFrame, AbsorbedFrame DEF Happens
<2>. QED
  BY <2>2, <2>3
<1>11. MemoryInv'
  BY MemoryFrame DEF IInv
<1>12. RacedInv'
  BY <1>1, <1>5, <1>6, RacedFrame DEF IInv, Completing, At, FiredOK, Happens
<1>13. OfferInv'
<2>1. Completing(r)' <=> Completing(r)
  BY <1>5, <1>6 DEF Completing, At, Happens
<2>2. \A s \in Rides : s # r => (Completing(s)' <=> Completing(s))
  BY <1>6 DEF Completing, At, Happens
<2>3. muddled \in BOOLEAN /\ muddled' \in BOOLEAN
  BY <1>1 DEF TypeOK
<2>. QED
  BY <1>5, <1>6, <2>1, <2>2, <2>3, OfferFrame DEF IInv
<1>14. UseInv'
<2>1. (IsCounted(r)' <=> IsCounted(r)) /\ (IsPassed(r)' => IsPassed(r))
  BY <1>1, <1>5, <1>6 DEF IsCounted, IsPassed, At, RideOK, FiredOK, Happens
<2>2. \A s \in Rides \ {r} : (IsCounted(s)' <=> IsCounted(s)) /\ (IsPassed(s)' <=> IsPassed(s))
  BY <1>6, CountedFrame DEF Happens
<2>. QED
  BY <1>1, <2>1, <2>2, UseFrame, DiscountsAssumption DEF IInv, TypeOK, Promo
<1>. QED
  BY <1>7, <1>8, <1>9, <1>10, <1>11, <1>12, <1>13, <1>14 DEF IInv

LEMMA CountUseInv ==
  ASSUME IInv, NEW r \in Rides, CountUse(r)
  PROVE  IInv'
<1> USE DEF CountUse, people, money, past, failures
<1> DEFINE j == [ride[r] EXCEPT !.pc = "booked"]
<1>1. TypeOK /\ ride[r] \in Ride /\ RideOK(r) /\ FiredOK(r)
  BY DEF IInv, TypeOK
<1>2. j \in Ride
  BY <1>1 DEF Ride, PCs
<1>3. ride' = [ride EXCEPT ![r] = j]
  BY <1>1 DEF TypeOK
<1>4. ride' \in [Rides -> Ride] /\ \A s \in Rides : ride'[s] = IF s = r THEN j ELSE ride[s]
  BY <1>1, <1>2, <1>3, MoveRide
<1>5. /\ ride'[r].pc = "booked"
      /\ ride'[r].client = ride[r].client
      /\ ride'[r].account = ride[r].account
      /\ ride'[r].coded = ride[r].coded
      /\ ride'[r].open = ride[r].open
      /\ ride'[r].pays = ride[r].pays
      /\ ride'[r].discount = ride[r].discount
      /\ ride'[r].reason = ride[r].reason
      /\ ride[r].pc = "count" /\ ride[r].coded
  BY <1>1, <1>4 DEF Ride, At, RideOK
<1>6. \A s \in Rides : s # r => ride'[s] = ride[s]
  BY <1>4
<1> HIDE DEF j
<1>7. TypeOK'
<2>1. promo.used + 1 \in Int /\ promo \in Promo
  BY <1>1 DEF TypeOK, Promo
<2>2. promo' \in Promo
  BY <2>1, PromoType
<2>. QED
  BY <1>1, <1>4, <2>2 DEF TypeOK
<1>8. \A s \in Rides : RideOK(s)'
<2>1. RideOK(r)'
  BY <1>1, <1>5, <1>6 DEF TypeOK, RideOK, At
<2>. QED
  BY <1>6, <2>1, RideFrame DEF IInv
<1>9. \A s \in Rides : FiredOK(s)'
<2>1. FiredOK(r)'
  BY <1>1, <1>5, <1>6 DEF FiredOK, RideOK, At, Happens
<2>. QED
  BY <1>6, <2>1, FiredFrame DEF IInv, Effects, Happens
<1>10. ~muddled' => \A s \in Rides : MoneyOK(s)'
<2> SUFFICES ASSUME ~muddled', NEW s \in Rides PROVE MoneyOK(s)'
  OBVIOUS
<2>1. MoneyOK(s)
  BY DEF IInv
<2>2. CASE s = r
  BY <1>1, <1>5, <1>6, <2>1, <2>2, MoneyFrame, AbsorbedFrame DEF At, Happens
<2>3. CASE s # r
  BY <1>6, <2>1, <2>3, MoneyFrame, AbsorbedFrame DEF Happens
<2>. QED
  BY <2>2, <2>3
<1>11. MemoryInv'
  BY MemoryFrame DEF IInv
<1>12. RacedInv'
  BY <1>1, <1>5, <1>6, RacedFrame DEF IInv, Completing, At, FiredOK, Happens
<1>13. OfferInv'
<2>1. Completing(r)' <=> Completing(r)
  BY <1>5, <1>6 DEF Completing, At, Happens
<2>2. \A s \in Rides : s # r => (Completing(s)' <=> Completing(s))
  BY <1>6 DEF Completing, At, Happens
<2>3. muddled \in BOOLEAN /\ muddled' \in BOOLEAN
  BY <1>1 DEF TypeOK
<2>. QED
  BY <1>5, <1>6, <2>1, <2>2, <2>3, OfferFrame DEF IInv
<1>14. UseInv'
<2>1. r \notin Counted /\ Counted' = Counted \cup {r}
  BY <1>1, <1>5, <1>6, CountedFrame DEF Counted, IsCounted, RideOK
<2>2. Cardinality(Counted') = Cardinality(Counted) + 1
  BY <2>1, UsesAreFinite, FS_AddElement
<2>3. Passed' = Passed
  BY <1>5, <1>6, CountedFrame DEF Passed, IsPassed
<2>4. promo'.used = promo.used + 1
  BY <1>1, PromoType DEF TypeOK
<2>. QED
  BY <1>1, <2>2, <2>3, <2>4 DEF IInv, UseInv
<1>. QED
  BY <1>7, <1>8, <1>9, <1>10, <1>11, <1>12, <1>13, <1>14 DEF IInv

LEMMA RequestInv ==
  ASSUME IInv, NEW r \in Rides, NEW p \in People, NEW coded \in BOOLEAN,
         ride' = [ride EXCEPT ![r] = [NoRide EXCEPT !.pc = IF coded THEN "look" ELSE "save", !.client = p, !.account = account[p], !.coded = coded]], Request(r, p)
  PROVE  IInv'
<1> USE DEF Request, people, money, past, failures
<1> DEFINE j == [NoRide EXCEPT !.pc = IF coded THEN "look" ELSE "save", !.client = p, !.account = account[p], !.coded = coded]
<1>1. TypeOK /\ ride[r] \in Ride /\ RideOK(r) /\ FiredOK(r)
  BY DEF IInv, TypeOK
<1>2. j \in Ride
  BY <1>1, NoRideType DEF Ride, PCs, NoRide, TypeOK
<1>3. ride' = [ride EXCEPT ![r] = j]
  BY <1>1 DEF TypeOK
<1>4. ride' \in [Rides -> Ride] /\ \A s \in Rides : ride'[s] = IF s = r THEN j ELSE ride[s]
  BY <1>1, <1>2, <1>3, MoveRide
<1>5. /\ ride'[r].client = p
      /\ ride'[r].account = account[p]
      /\ ride'[r].coded = coded
      /\ ride'[r].open = FALSE
      /\ ride'[r].pays = Fare
      /\ ride'[r].discount = 0
      /\ ride'[r].reason = ""
      /\ ride[r].pc = "none"
      /\ ride'[r].pc \in {"look", "save"}
      /\ ride'[r].pc = "look" <=> coded
  BY <1>1, <1>4 DEF Ride, At, NoRide
<1>6. \A s \in Rides : s # r => ride'[s] = ride[s]
  BY <1>4
<1> HIDE DEF j
<1>7. TypeOK'
  BY <1>1, <1>4, EffectType DEF TypeOK, Happens
<1>8. \A s \in Rides : RideOK(s)'
<2>1. RideOK(r)'
<3>1. account[p] \in 1 .. account[p]
  BY <1>1, Amounts DEF TypeOK, SignedIn
<3>. QED
  BY <3>1, <1>5, PriceAndDiscount, Amounts DEF RideOK
<2>. QED
  BY <1>6, <2>1, RideFrame DEF IInv
<1>9. \A s \in Rides : FiredOK(s)'
<2>1. FiredOK(r)'
  BY <1>1, <1>5, <1>6 DEF FiredOK, RideOK, At, Happens
<2>. QED
  BY <1>6, <2>1, FiredFrame DEF IInv, Effects, Happens
<1>10. ~muddled' => \A s \in Rides : MoneyOK(s)'
<2> SUFFICES ASSUME ~muddled', NEW s \in Rides PROVE MoneyOK(s)'
  OBVIOUS
<2>1. MoneyOK(s)
  BY DEF IInv
<2>2. CASE s = r
  BY <1>1, <1>5, <2>1, <2>2 DEF MoneyOK
<2>3. CASE s # r
  BY <1>6, <2>1, <2>3, MoneyFrame, AbsorbedFrame DEF Happens
<2>. QED
  BY <2>2, <2>3
<1>11. MemoryInv'
  BY MemoryFrame DEF IInv
<1>12. RacedInv'
  BY <1>1, <1>5, <1>6, RacedFrame DEF IInv, Completing, At, FiredOK, Happens
<1>13. OfferInv'
<2>1. Completing(r)' <=> Completing(r)
  BY <1>5, <1>6 DEF Completing, At, Happens
<2>2. \A s \in Rides : s # r => (Completing(s)' <=> Completing(s))
  BY <1>6 DEF Completing, At, Happens
<2>3. muddled \in BOOLEAN /\ muddled' \in BOOLEAN
  BY <1>1 DEF TypeOK
<2>. QED
  BY <1>5, <1>6, <2>1, <2>2, <2>3, OfferFrame DEF IInv
<1>14. UseInv'
<2>1. (IsCounted(r)' <=> IsCounted(r)) /\ (IsPassed(r)' => IsPassed(r))
  BY <1>1, <1>5, <1>6 DEF IsCounted, IsPassed, At, RideOK, FiredOK, Happens
<2>2. \A s \in Rides \ {r} : (IsCounted(s)' <=> IsCounted(s)) /\ (IsPassed(s)' <=> IsPassed(s))
  BY <1>6, CountedFrame DEF Happens
<2>. QED
  BY <1>1, <2>1, <2>2, UseFrame, DiscountsAssumption DEF IInv, TypeOK, Promo
<1>. QED
  BY <1>7, <1>8, <1>9, <1>10, <1>11, <1>12, <1>13, <1>14 DEF IInv

LEMMA LookGoodInv ==
  ASSUME IInv, NEW r \in Rides, At(r, "look"), Valid,
         ride' = [ride EXCEPT ![r].pc = "save"],
         overlapped' = IF \E s \in Rides \ {r} : ride[s].coded /\ ride[s].pc \in {"save", "count"} THEN overlapped \cup {r} ELSE overlapped,
         UNCHANGED <<people, promo, edit, fired, money, edits, faults, raced, late, failures, muddled>>
  PROVE  IInv'
<1> USE DEF people, money, past, failures
<1> DEFINE j == [ride[r] EXCEPT !.pc = "save"]
<1>1. TypeOK /\ ride[r] \in Ride /\ RideOK(r) /\ FiredOK(r)
  BY DEF IInv, TypeOK
<1>2. j \in Ride
  BY <1>1 DEF Ride, PCs
<1>3. ride' = [ride EXCEPT ![r] = j]
  BY <1>1 DEF TypeOK
<1>4. ride' \in [Rides -> Ride] /\ \A s \in Rides : ride'[s] = IF s = r THEN j ELSE ride[s]
  BY <1>1, <1>2, <1>3, MoveRide
<1>5. /\ ride'[r].pc = "save"
      /\ ride'[r].client = ride[r].client
      /\ ride'[r].account = ride[r].account
      /\ ride'[r].coded = ride[r].coded
      /\ ride'[r].open = ride[r].open
      /\ ride'[r].pays = ride[r].pays
      /\ ride'[r].discount = ride[r].discount
      /\ ride'[r].reason = ride[r].reason
      /\ ride[r].pc = "look" /\ ride[r].coded
  BY <1>1, <1>4 DEF Ride, At, RideOK
<1>6. \A s \in Rides : s # r => ride'[s] = ride[s]
  BY <1>4
<1> HIDE DEF j
<1>7. TypeOK'
  BY <1>1, <1>4, EffectType DEF TypeOK, Happens
<1>8. \A s \in Rides : RideOK(s)'
<2>1. RideOK(r)'
  BY <1>1, <1>5, <1>6 DEF TypeOK, RideOK, At
<2>. QED
  BY <1>6, <2>1, RideFrame DEF IInv
<1>9. \A s \in Rides : FiredOK(s)'
<2>1. FiredOK(r)'
  BY <1>1, <1>5, <1>6 DEF FiredOK, RideOK, At, Happens
<2>. QED
  BY <1>6, <2>1, FiredFrame DEF IInv, Effects, Happens
<1>10. ~muddled' => \A s \in Rides : MoneyOK(s)'
<2> SUFFICES ASSUME ~muddled', NEW s \in Rides PROVE MoneyOK(s)'
  OBVIOUS
<2>1. MoneyOK(s)
  BY DEF IInv
<2>2. CASE s = r
  BY <1>1, <1>5, <1>6, <2>1, <2>2, MoneyFrame, AbsorbedFrame DEF At, Happens
<2>3. CASE s # r
  BY <1>6, <2>1, <2>3, MoneyFrame, AbsorbedFrame DEF Happens
<2>. QED
  BY <2>2, <2>3
<1>11. MemoryInv'
  BY MemoryFrame DEF IInv
<1>12. RacedInv'
  BY <1>1, <1>5, <1>6, RacedFrame DEF IInv, Completing, At, FiredOK, Happens
<1>13. OfferInv'
<2>1. Completing(r)' <=> Completing(r)
  BY <1>5, <1>6 DEF Completing, At, Happens
<2>2. \A s \in Rides : s # r => (Completing(s)' <=> Completing(s))
  BY <1>6 DEF Completing, At, Happens
<2>3. muddled \in BOOLEAN /\ muddled' \in BOOLEAN
  BY <1>1 DEF TypeOK
<2>. QED
  BY <1>5, <1>6, <2>1, <2>2, <2>3, OfferFrame DEF IInv
<1>14. UseInv'
<2>1. Counted' = Counted
  BY <1>5, <1>6, CountedFrame DEF Counted, IsCounted
<2>2. CASE \E s \in Rides \ {r} : ride[s].coded /\ ride[s].pc \in {"save", "count"}
<3>1. Passed' \subseteq Passed
  BY <1>5, <1>6, <2>2, CountedFrame DEF Passed, IsPassed
<3>2. Cardinality(Passed') \in Nat /\ Cardinality(Passed') <= Cardinality(Passed) /\ Cardinality(Passed) \in Nat
  BY <3>1, UsesAreFinite, FS_Subset, FS_CardinalityType
<3>. QED
  BY <2>1, <3>2, DiscountsAssumption DEF IInv, UseInv
<2>3. CASE ~\E s \in Rides \ {r} : ride[s].coded /\ ride[s].pc \in {"save", "count"}
<3>1. Passed \subseteq Counted /\ r \notin Passed /\ Passed' \subseteq Passed \cup {r}
  BY <1>5, <1>6, <2>3, CountedFrame DEF Passed, IsPassed, Counted, IsCounted
<3>2. Cardinality(Passed) <= Cardinality(Counted) /\ Cardinality(Passed \cup {r}) = Cardinality(Passed) + 1
  BY <3>1, UsesAreFinite, FS_Subset, FS_AddElement
<3>3. IsFiniteSet(Passed \cup {r}) /\ Cardinality(Passed') <= Cardinality(Passed \cup {r}) /\ Cardinality(Passed') \in Nat
  BY <3>1, UsesAreFinite, FS_AddElement, FS_Subset, FS_CardinalityType
<3>. QED
  BY <1>1, <2>1, <3>2, <3>3, UsesAreFinite, DiscountsAssumption DEF IInv, UseInv, Valid, TypeOK, Promo
<2>. QED
  BY <2>2, <2>3
<1>. QED
  BY <1>7, <1>8, <1>9, <1>10, <1>11, <1>12, <1>13, <1>14 DEF IInv

LEMMA LookBadInv ==
  ASSUME IInv, NEW r \in Rides, At(r, "look"),
         ride' = [ride EXCEPT ![r] = NoRide], overlapped \subseteq overlapped', overlapped' \subseteq Rides,
         UNCHANGED <<people, promo, edit, fired, money, edits, faults, raced, late, failures, muddled>>
  PROVE  IInv'
<1> USE DEF people, money, past, failures
<1> DEFINE j == NoRide
<1>1. TypeOK /\ ride[r] \in Ride /\ RideOK(r) /\ FiredOK(r)
  BY DEF IInv, TypeOK
<1>2. j \in Ride
  BY <1>1, NoRideType
<1>3. ride' = [ride EXCEPT ![r] = j]
  BY <1>1 DEF TypeOK
<1>4. ride' \in [Rides -> Ride] /\ \A s \in Rides : ride'[s] = IF s = r THEN j ELSE ride[s]
  BY <1>1, <1>2, <1>3, MoveRide
<1>5. /\ ride'[r].pc = "none"
      /\ ride'[r].coded = FALSE
      /\ ride'[r].open = FALSE
      /\ ride'[r].pays = Fare
      /\ ride'[r].discount = 0
      /\ ride'[r].reason = ""
      /\ ride[r].pc = "look"
  BY <1>1, <1>4 DEF Ride, At, NoRide
<1>6. \A s \in Rides : s # r => ride'[s] = ride[s]
  BY <1>4
<1> HIDE DEF j
<1>7. TypeOK'
  BY <1>1, <1>4, EffectType DEF TypeOK, Happens
<1>8. \A s \in Rides : RideOK(s)'
<2>1. RideOK(r)'
  BY <1>1, <1>5, PriceAndDiscount DEF RideOK
<2>. QED
  BY <1>6, <2>1, RideFrame DEF IInv
<1>9. \A s \in Rides : FiredOK(s)'
<2>1. FiredOK(r)'
  BY <1>1, <1>5, <1>6 DEF FiredOK, RideOK, At, Happens
<2>. QED
  BY <1>6, <2>1, FiredFrame DEF IInv, Effects, Happens
<1>10. ~muddled' => \A s \in Rides : MoneyOK(s)'
<2> SUFFICES ASSUME ~muddled', NEW s \in Rides PROVE MoneyOK(s)'
  OBVIOUS
<2>1. MoneyOK(s)
  BY DEF IInv
<2>2. CASE s = r
  BY <1>1, <1>5, <2>1, <2>2 DEF MoneyOK
<2>3. CASE s # r
  BY <1>6, <2>1, <2>3, MoneyFrame, AbsorbedFrame DEF Happens
<2>. QED
  BY <2>2, <2>3
<1>11. MemoryInv'
  BY MemoryFrame DEF IInv
<1>12. RacedInv'
  BY <1>1, <1>5, <1>6, RacedFrame DEF IInv, Completing, At, FiredOK, Happens
<1>13. OfferInv'
<2>1. Completing(r)' <=> Completing(r)
  BY <1>5, <1>6 DEF Completing, At, Happens
<2>2. \A s \in Rides : s # r => (Completing(s)' <=> Completing(s))
  BY <1>6 DEF Completing, At, Happens
<2>3. muddled \in BOOLEAN /\ muddled' \in BOOLEAN
  BY <1>1 DEF TypeOK
<2>. QED
  BY <1>5, <1>6, <2>1, <2>2, <2>3, OfferFrame DEF IInv
<1>14. UseInv'
<2>1. (IsCounted(r)' <=> IsCounted(r)) /\ (IsPassed(r)' => IsPassed(r))
  BY <1>1, <1>5, <1>6 DEF IsCounted, IsPassed, At, RideOK, FiredOK, Happens
<2>2. \A s \in Rides \ {r} : (IsCounted(s)' <=> IsCounted(s)) /\ (IsPassed(s)' <=> IsPassed(s))
  BY <1>6, CountedFrame DEF Happens
<2>. QED
  BY <1>1, <2>1, <2>2, UseFrame, DiscountsAssumption DEF IInv, TypeOK, Promo
<1>. QED
  BY <1>7, <1>8, <1>9, <1>10, <1>11, <1>12, <1>13, <1>14 DEF IInv

LEMMA ClaimInv ==
  ASSUME IInv, NEW r \in Rides, Claim(r)
  PROVE  IInv'
<1> USE DEF Claim, people, money, past, failures
<1> DEFINE j == [ride[r] EXCEPT !.pc = "fare", !.open = FALSE]
<1>1. TypeOK /\ ride[r] \in Ride /\ RideOK(r) /\ FiredOK(r)
  BY DEF IInv, TypeOK
<1>2. j \in Ride
  BY <1>1 DEF Ride, PCs
<1>3. ride' = [ride EXCEPT ![r] = j]
  BY <1>1 DEF TypeOK
<1>4. ride' \in [Rides -> Ride] /\ \A s \in Rides : ride'[s] = IF s = r THEN j ELSE ride[s]
  BY <1>1, <1>2, <1>3, MoveRide
<1>5. /\ ride'[r].pc = "fare"
      /\ ride'[r].client = ride[r].client
      /\ ride'[r].account = ride[r].account
      /\ ride'[r].coded = ride[r].coded
      /\ ride'[r].open = FALSE
      /\ ride'[r].pays = ride[r].pays
      /\ ride'[r].discount = ride[r].discount
      /\ ride'[r].reason = ride[r].reason
      /\ ride[r].pc = "booked"
  BY <1>1, <1>4 DEF Ride, At
<1>6. \A s \in Rides : s # r => ride'[s] = ride[s]
  BY <1>4
<1> HIDE DEF j
<1>7. TypeOK'
  BY <1>1, <1>4, DiscountsAssumption DEF TypeOK, Uncounted
<1>8. \A s \in Rides : RideOK(s)'
<2>1. RideOK(r)'
  BY <1>1, <1>5, <1>6 DEF TypeOK, RideOK, At
<2>. QED
  BY <1>6, <2>1, RideFrame DEF IInv
<1>9. \A s \in Rides : FiredOK(s)'
<2>1. FiredOK(r)'
  BY <1>1, <1>5, <1>6 DEF FiredOK, RideOK, At, Happens
<2>. QED
  BY <1>6, <2>1, FiredFrame DEF IInv, Effects, Happens
<1>10. ~muddled' => \A s \in Rides : MoneyOK(s)'
<2> SUFFICES ASSUME ~muddled', NEW s \in Rides PROVE MoneyOK(s)'
  OBVIOUS
<2>1. MoneyOK(s)
  BY DEF IInv
<2>2. CASE s = r
  BY <1>1, <1>5, <1>6, <2>1, <2>2, MoneyFrame, AbsorbedFrame DEF At, Happens
<2>3. CASE s # r
  BY <1>6, <2>1, <2>3, MoneyFrame, AbsorbedFrame DEF Happens
<2>. QED
  BY <2>2, <2>3
<1>11. MemoryInv'
  BY MemoryFrame DEF IInv
<1>12. RacedInv'
<2> DEFINE others == Uncounted(ride[r].client, ride[r].account)
<2>1. raced' = IF others # {} THEN raced \cup {r} \cup others ELSE raced
  OBVIOUS
<2>2. \A s \in Rides \ {r} : /\ Completing(s)' <=> Completing(s)
                             /\ Completing(s) /\ SameAccount(r, s) => s \in others
  BY <1>6 DEF Completing, SameAccount, Uncounted, Of
<2>3. \A s, t \in Rides : SameAccount(s, t)' <=> SameAccount(s, t)
<3>1. \A s \in Rides : ride'[s].client = ride[s].client /\ ride'[s].account = ride[s].account
  BY <1>5, <1>6
<3>. QED
  BY <3>1 DEF SameAccount
<2>4. \A s, t \in Rides : SameAccount(s, t) => SameAccount(t, s)
  BY DEF SameAccount
<2> HIDE DEF others
<2>5. SUFFICES ASSUME NEW s \in Rides, NEW t \in Rides, s # t, Completing(s)', Completing(t)', SameAccount(s, t)
               PROVE  s \in raced'
  BY <2>3 DEF RacedInv
<2>6. CASE s = r
  BY <2>1, <2>2, <2>5, <2>6
<2>7. CASE t = r
  BY <2>1, <2>2, <2>4, <2>5, <2>7
<2>8. CASE s # r /\ t # r
  BY <2>1, <2>2, <2>5, <2>8 DEF IInv, RacedInv
<2>. QED
  BY <2>6, <2>7, <2>8
<1>13. OfferInv'
  BY <1>1, <1>5, <1>6, OfferFrame DEF IInv, TypeOK, Completing, RideOK, At, FiredOK, Happens
<1>14. UseInv'
<2>1. (IsCounted(r)' <=> IsCounted(r)) /\ (IsPassed(r)' => IsPassed(r))
  BY <1>1, <1>5, <1>6 DEF IsCounted, IsPassed, At, RideOK, FiredOK, Happens
<2>2. \A s \in Rides \ {r} : (IsCounted(s)' <=> IsCounted(s)) /\ (IsPassed(s)' <=> IsPassed(s))
  BY <1>6, CountedFrame DEF Happens
<2>. QED
  BY <1>1, <2>1, <2>2, UseFrame, DiscountsAssumption DEF IInv, TypeOK, Promo
<1>. QED
  BY <1>7, <1>8, <1>9, <1>10, <1>11, <1>12, <1>13, <1>14 DEF IInv

LEMMA PromoOffInv ==
  ASSUME IInv, NEW r \in Rides, At(r, "fare"), ride[r].coded,
         ride' = [ride EXCEPT ![r].pc = "store"], UNCHANGED <<people, promo, edit, fired, money, edits, faults, past>>
  PROVE  IInv'
<1> USE DEF people, money, past, failures
<1> DEFINE j == [ride[r] EXCEPT !.pc = "store"]
<1>1. TypeOK /\ ride[r] \in Ride /\ RideOK(r) /\ FiredOK(r)
  BY DEF IInv, TypeOK
<1>2. j \in Ride
  BY <1>1 DEF Ride, PCs
<1>3. ride' = [ride EXCEPT ![r] = j]
  BY <1>1 DEF TypeOK
<1>4. ride' \in [Rides -> Ride] /\ \A s \in Rides : ride'[s] = IF s = r THEN j ELSE ride[s]
  BY <1>1, <1>2, <1>3, MoveRide
<1>5. /\ ride'[r].pc = "store"
      /\ ride'[r].client = ride[r].client
      /\ ride'[r].account = ride[r].account
      /\ ride'[r].coded = ride[r].coded
      /\ ride'[r].open = ride[r].open
      /\ ride'[r].pays = ride[r].pays
      /\ ride'[r].discount = ride[r].discount
      /\ ride'[r].reason = ride[r].reason
      /\ ride[r].pc = "fare"
  BY <1>1, <1>4 DEF Ride, At
<1>6. \A s \in Rides : s # r => ride'[s] = ride[s]
  BY <1>4
<1> HIDE DEF j
<1>7. TypeOK'
  BY <1>1, <1>4, EffectType DEF TypeOK, Happens
<1>8. \A s \in Rides : RideOK(s)'
<2>1. RideOK(r)'
  BY <1>1, <1>5, <1>6 DEF TypeOK, RideOK, At
<2>. QED
  BY <1>6, <2>1, RideFrame DEF IInv
<1>9. \A s \in Rides : FiredOK(s)'
<2>1. FiredOK(r)'
  BY <1>1, <1>5, <1>6 DEF FiredOK, RideOK, At, Happens
<2>. QED
  BY <1>6, <2>1, FiredFrame DEF IInv, Effects, Happens
<1>10. ~muddled' => \A s \in Rides : MoneyOK(s)'
<2> SUFFICES ASSUME ~muddled', NEW s \in Rides PROVE MoneyOK(s)'
  OBVIOUS
<2>1. MoneyOK(s)
  BY DEF IInv
<2>2. CASE s = r
  BY <1>1, <1>5, <1>6, <2>1, <2>2, MoneyFrame, AbsorbedFrame DEF At, Happens
<2>3. CASE s # r
  BY <1>6, <2>1, <2>3, MoneyFrame, AbsorbedFrame DEF Happens
<2>. QED
  BY <2>2, <2>3
<1>11. MemoryInv'
  BY MemoryFrame DEF IInv
<1>12. RacedInv'
  BY <1>1, <1>5, <1>6, RacedFrame DEF IInv, Completing, At, FiredOK, Happens
<1>13. OfferInv'
<2>1. Completing(r)' <=> Completing(r)
  BY <1>5, <1>6 DEF Completing, At, Happens
<2>2. \A s \in Rides : s # r => (Completing(s)' <=> Completing(s))
  BY <1>6 DEF Completing, At, Happens
<2>3. muddled \in BOOLEAN /\ muddled' \in BOOLEAN
  BY <1>1 DEF TypeOK
<2>. QED
  BY <1>5, <1>6, <2>1, <2>2, <2>3, OfferFrame DEF IInv
<1>14. UseInv'
<2>1. (IsCounted(r)' <=> IsCounted(r)) /\ (IsPassed(r)' => IsPassed(r))
  BY <1>1, <1>5, <1>6 DEF IsCounted, IsPassed, At, RideOK, FiredOK, Happens
<2>2. \A s \in Rides \ {r} : (IsCounted(s)' <=> IsCounted(s)) /\ (IsPassed(s)' <=> IsPassed(s))
  BY <1>6, CountedFrame DEF Happens
<2>. QED
  BY <1>1, <2>1, <2>2, UseFrame, DiscountsAssumption DEF IInv, TypeOK, Promo
<1>. QED
  BY <1>7, <1>8, <1>9, <1>10, <1>11, <1>12, <1>13, <1>14 DEF IInv

LEMMA PromoGivenInv ==
  ASSUME IInv, NEW r \in Rides, At(r, "fare"), ride[r].coded,
         NEW amount \in 0 .. Fare, NEW reason \in {"promo", "company"},
         ride' = [ride EXCEPT ![r] = Discounted(@, amount, reason)], UNCHANGED <<people, promo, edit, fired, money, edits, faults, past>>
  PROVE  IInv'
<1> USE DEF people, money, past, failures
<1> DEFINE j == Discounted(ride[r], amount, reason)
<1>1. TypeOK /\ ride[r] \in Ride /\ RideOK(r) /\ FiredOK(r)
  BY DEF IInv, TypeOK
<1>2. j \in Ride
  BY <1>1, DiscountedType, Amounts
<1>3. ride' = [ride EXCEPT ![r] = j]
  BY <1>1 DEF TypeOK
<1>4. ride' \in [Rides -> Ride] /\ \A s \in Rides : ride'[s] = IF s = r THEN j ELSE ride[s]
  BY <1>1, <1>2, <1>3, MoveRide
<1>5. /\ ride'[r].pc = "store"
      /\ ride'[r].client = ride[r].client
      /\ ride'[r].account = ride[r].account
      /\ ride'[r].coded = ride[r].coded
      /\ ride'[r].open = ride[r].open
      /\ ride'[r].pays = Fare - amount
      /\ ride'[r].discount = amount
      /\ ride'[r].reason = reason
      /\ ride[r].pc = "fare"
  BY <1>1, <1>4 DEF Ride, At, Discounted
<1>6. \A s \in Rides : s # r => ride'[s] = ride[s]
  BY <1>4
<1> HIDE DEF j
<1>7. TypeOK'
  BY <1>1, <1>4, EffectType DEF TypeOK, Happens
<1>8. \A s \in Rides : RideOK(s)'
<2>1. RideOK(r)'
  BY <1>1, <1>5, PriceAndDiscount, Amounts DEF RideOK
<2>. QED
  BY <1>6, <2>1, RideFrame DEF IInv
<1>9. \A s \in Rides : FiredOK(s)'
<2>1. FiredOK(r)'
  BY <1>1, <1>5, <1>6 DEF FiredOK, RideOK, At, Happens
<2>. QED
  BY <1>6, <2>1, FiredFrame DEF IInv, Effects, Happens
<1>10. ~muddled' => \A s \in Rides : MoneyOK(s)'
<2> SUFFICES ASSUME ~muddled', NEW s \in Rides PROVE MoneyOK(s)'
  OBVIOUS
<2>1. MoneyOK(s)
  BY DEF IInv
<2>2. CASE s = r
  BY <1>1, <1>5, <2>1, <2>2 DEF MoneyOK
<2>3. CASE s # r
  BY <1>6, <2>1, <2>3, MoneyFrame, AbsorbedFrame DEF Happens
<2>. QED
  BY <2>2, <2>3
<1>11. MemoryInv'
  BY MemoryFrame DEF IInv
<1>12. RacedInv'
  BY <1>1, <1>5, <1>6, RacedFrame DEF IInv, Completing, At, FiredOK, Happens
<1>13. OfferInv'
<2>1. Completing(r)' <=> Completing(r)
  BY <1>5, <1>6 DEF Completing, At, Happens
<2>2. \A s \in Rides : s # r => (Completing(s)' <=> Completing(s))
  BY <1>6 DEF Completing, At, Happens
<2>3. muddled \in BOOLEAN /\ muddled' \in BOOLEAN
  BY <1>1 DEF TypeOK
<2>. QED
  BY <1>5, <1>6, <2>1, <2>2, <2>3, OfferFrame DEF IInv
<1>14. UseInv'
<2>1. (IsCounted(r)' <=> IsCounted(r)) /\ (IsPassed(r)' => IsPassed(r))
  BY <1>1, <1>5, <1>6 DEF IsCounted, IsPassed, At, RideOK, FiredOK, Happens
<2>2. \A s \in Rides \ {r} : (IsCounted(s)' <=> IsCounted(s)) /\ (IsPassed(s)' <=> IsPassed(s))
  BY <1>6, CountedFrame DEF Happens
<2>. QED
  BY <1>1, <2>1, <2>2, UseFrame, DiscountsAssumption DEF IInv, TypeOK, Promo
<1>. QED
  BY <1>7, <1>8, <1>9, <1>10, <1>11, <1>12, <1>13, <1>14 DEF IInv

LEMMA PromoRefusedInv ==
  ASSUME IInv, NEW r \in Rides, At(r, "fare"), ride[r].coded,
         ride' = [ride EXCEPT ![r].pc = "store", ![r].reason = "refused"],
         fired' = fired \cup {<<r, "refund">>},
         UNCHANGED <<people, promo, edit, money, edits, faults, past>>
  PROVE  IInv'
<1> USE DEF people, money, past, failures
<1> DEFINE j == [ride[r] EXCEPT !.pc = "store", !.reason = "refused"]
<1>1. TypeOK /\ ride[r] \in Ride /\ RideOK(r) /\ FiredOK(r)
  BY DEF IInv, TypeOK
<1>2. j \in Ride
  BY <1>1 DEF Ride, PCs
<1>3. ride' = [ride EXCEPT ![r] = j]
  BY <1>1 DEF TypeOK
<1>4. ride' \in [Rides -> Ride] /\ \A s \in Rides : ride'[s] = IF s = r THEN j ELSE ride[s]
  BY <1>1, <1>2, <1>3, MoveRide
<1>5. /\ ride'[r].pc = "store"
      /\ ride'[r].client = ride[r].client
      /\ ride'[r].account = ride[r].account
      /\ ride'[r].coded = ride[r].coded
      /\ ride'[r].open = ride[r].open
      /\ ride'[r].pays = ride[r].pays
      /\ ride'[r].discount = ride[r].discount
      /\ ride'[r].reason = "refused"
      /\ ride[r].pc = "fare"
  BY <1>1, <1>4 DEF Ride, At
<1>6. \A s \in Rides : s # r => ride'[s] = ride[s]
  BY <1>4
<1> HIDE DEF j
<1>7. TypeOK'
  BY <1>1, <1>4, EffectType DEF TypeOK, Happens
<1>8. \A s \in Rides : RideOK(s)'
<2>1. RideOK(r)'
  BY <1>1, <1>5, <1>6 DEF TypeOK, RideOK, At
<2>. QED
  BY <1>6, <2>1, RideFrame DEF IInv
<1>9. \A s \in Rides : FiredOK(s)'
<2>1. FiredOK(r)'
  BY <1>1, <1>5, <1>6 DEF FiredOK, RideOK, At, Happens
<2>. QED
  BY <1>6, <2>1, FiredFrame DEF IInv, Effects, Happens
<1>10. ~muddled' => \A s \in Rides : MoneyOK(s)'
<2> SUFFICES ASSUME ~muddled', NEW s \in Rides PROVE MoneyOK(s)'
  OBVIOUS
<2>1. MoneyOK(s)
  BY DEF IInv
<2>2. CASE s = r
  BY <1>1, <1>5, <2>1, <2>2 DEF MoneyOK
<2>3. CASE s # r
  BY <1>6, <2>1, <2>3, MoneyFrame, AbsorbedFrame DEF Happens
<2>. QED
  BY <2>2, <2>3
<1>11. MemoryInv'
  BY MemoryFrame DEF IInv
<1>12. RacedInv'
  BY <1>1, <1>5, <1>6, RacedFrame DEF IInv, Completing, At, FiredOK, Happens
<1>13. OfferInv'
<2>1. Completing(r)' <=> Completing(r)
  BY <1>5, <1>6 DEF Completing, At, Happens
<2>2. \A s \in Rides : s # r => (Completing(s)' <=> Completing(s))
  BY <1>6 DEF Completing, At, Happens
<2>3. muddled \in BOOLEAN /\ muddled' \in BOOLEAN
  BY <1>1 DEF TypeOK
<2>. QED
  BY <1>5, <1>6, <2>1, <2>2, <2>3, OfferFrame DEF IInv
<1>14. UseInv'
<2>1. (IsCounted(r)' <=> IsCounted(r)) /\ (IsPassed(r)' => IsPassed(r))
  BY <1>1, <1>5, <1>6 DEF IsCounted, IsPassed, At, RideOK, FiredOK, Happens
<2>2. \A s \in Rides \ {r} : (IsCounted(s)' <=> IsCounted(s)) /\ (IsPassed(s)' <=> IsPassed(s))
  BY <1>6, CountedFrame DEF Happens
<2>. QED
  BY <1>1, <2>1, <2>2, UseFrame, DiscountsAssumption DEF IInv, TypeOK, Promo
<1>. QED
  BY <1>7, <1>8, <1>9, <1>10, <1>11, <1>12, <1>13, <1>14 DEF IInv

LEMMA OfferMissedInv ==
  ASSUME IInv, NEW r \in Rides, At(r, "fare"), ~ride[r].coded,
         ride' = [ride EXCEPT ![r].pc = "store"], UNCHANGED <<people, promo, edit, fired, money, edits, faults, past>>
  PROVE  IInv'
<1> USE DEF people, money, past, failures
<1> DEFINE j == [ride[r] EXCEPT !.pc = "store"]
<1>1. TypeOK /\ ride[r] \in Ride /\ RideOK(r) /\ FiredOK(r)
  BY DEF IInv, TypeOK
<1>2. j \in Ride
  BY <1>1 DEF Ride, PCs
<1>3. ride' = [ride EXCEPT ![r] = j]
  BY <1>1 DEF TypeOK
<1>4. ride' \in [Rides -> Ride] /\ \A s \in Rides : ride'[s] = IF s = r THEN j ELSE ride[s]
  BY <1>1, <1>2, <1>3, MoveRide
<1>5. /\ ride'[r].pc = "store"
      /\ ride'[r].client = ride[r].client
      /\ ride'[r].account = ride[r].account
      /\ ride'[r].coded = ride[r].coded
      /\ ride'[r].open = ride[r].open
      /\ ride'[r].pays = ride[r].pays
      /\ ride'[r].discount = ride[r].discount
      /\ ride'[r].reason = ride[r].reason
      /\ ride[r].pc = "fare"
  BY <1>1, <1>4 DEF Ride, At
<1>6. \A s \in Rides : s # r => ride'[s] = ride[s]
  BY <1>4
<1> HIDE DEF j
<1>7. TypeOK'
  BY <1>1, <1>4, EffectType DEF TypeOK, Happens
<1>8. \A s \in Rides : RideOK(s)'
<2>1. RideOK(r)'
  BY <1>1, <1>5, <1>6 DEF TypeOK, RideOK, At
<2>. QED
  BY <1>6, <2>1, RideFrame DEF IInv
<1>9. \A s \in Rides : FiredOK(s)'
<2>1. FiredOK(r)'
  BY <1>1, <1>5, <1>6 DEF FiredOK, RideOK, At, Happens
<2>. QED
  BY <1>6, <2>1, FiredFrame DEF IInv, Effects, Happens
<1>10. ~muddled' => \A s \in Rides : MoneyOK(s)'
<2> SUFFICES ASSUME ~muddled', NEW s \in Rides PROVE MoneyOK(s)'
  OBVIOUS
<2>1. MoneyOK(s)
  BY DEF IInv
<2>2. CASE s = r
  BY <1>1, <1>5, <1>6, <2>1, <2>2, MoneyFrame, AbsorbedFrame DEF At, Happens
<2>3. CASE s # r
  BY <1>6, <2>1, <2>3, MoneyFrame, AbsorbedFrame DEF Happens
<2>. QED
  BY <2>2, <2>3
<1>11. MemoryInv'
  BY MemoryFrame DEF IInv
<1>12. RacedInv'
  BY <1>1, <1>5, <1>6, RacedFrame DEF IInv, Completing, At, FiredOK, Happens
<1>13. OfferInv'
<2>1. Completing(r)' <=> Completing(r)
  BY <1>5, <1>6 DEF Completing, At, Happens
<2>2. \A s \in Rides : s # r => (Completing(s)' <=> Completing(s))
  BY <1>6 DEF Completing, At, Happens
<2>3. muddled \in BOOLEAN /\ muddled' \in BOOLEAN
  BY <1>1 DEF TypeOK
<2>. QED
  BY <1>5, <1>6, <2>1, <2>2, <2>3, OfferFrame DEF IInv
<1>14. UseInv'
<2>1. (IsCounted(r)' <=> IsCounted(r)) /\ (IsPassed(r)' => IsPassed(r))
  BY <1>1, <1>5, <1>6 DEF IsCounted, IsPassed, At, RideOK, FiredOK, Happens
<2>2. \A s \in Rides \ {r} : (IsCounted(s)' <=> IsCounted(s)) /\ (IsPassed(s)' <=> IsPassed(s))
  BY <1>6, CountedFrame DEF Happens
<2>. QED
  BY <1>1, <2>1, <2>2, UseFrame, DiscountsAssumption DEF IInv, TypeOK, Promo
<1>. QED
  BY <1>7, <1>8, <1>9, <1>10, <1>11, <1>12, <1>13, <1>14 DEF IInv

LEMMA OfferGivenInv ==
  ASSUME IInv, NEW r \in Rides, At(r, "fare"), ~ride[r].coded, ridden[ride[r].client][ride[r].account] = 0,
         ride' = [ride EXCEPT ![r] = Discounted(@, OfferWorth, "offer")],
         fingerprints \subseteq fingerprints', fingerprints' \subseteq People,
         UNCHANGED <<account, leaving, ridden, promo, edit, fired, money, edits, faults, past>>
  PROVE  IInv'
<1> USE DEF people, money, past, failures
<1> DEFINE j == Discounted(ride[r], OfferWorth, "offer")
<1>1. TypeOK /\ ride[r] \in Ride /\ RideOK(r) /\ FiredOK(r)
  BY DEF IInv, TypeOK
<1>2. j \in Ride
  BY <1>1, DiscountedType, Amounts
<1>3. ride' = [ride EXCEPT ![r] = j]
  BY <1>1 DEF TypeOK
<1>4. ride' \in [Rides -> Ride] /\ \A s \in Rides : ride'[s] = IF s = r THEN j ELSE ride[s]
  BY <1>1, <1>2, <1>3, MoveRide
<1>5. /\ ride'[r].pc = "store"
      /\ ride'[r].client = ride[r].client
      /\ ride'[r].account = ride[r].account
      /\ ride'[r].coded = ride[r].coded
      /\ ride'[r].open = ride[r].open
      /\ ride'[r].pays = Fare - OfferWorth
      /\ ride'[r].discount = OfferWorth
      /\ ride'[r].reason = "offer"
      /\ ride[r].pc = "fare"
  BY <1>1, <1>4 DEF Ride, At, Discounted
<1>6. \A s \in Rides : s # r => ride'[s] = ride[s]
  BY <1>4
<1> HIDE DEF j
<1>7. TypeOK'
  BY <1>1, <1>4, EffectType DEF TypeOK, Happens
<1>8. \A s \in Rides : RideOK(s)'
<2>1. RideOK(r)'
  BY <1>1, <1>5, PriceAndDiscount, Amounts DEF RideOK
<2>. QED
  BY <1>6, <2>1, RideFrame DEF IInv
<1>9. \A s \in Rides : FiredOK(s)'
<2>1. FiredOK(r)'
  BY <1>1, <1>5, <1>6 DEF FiredOK, RideOK, At, Happens
<2>. QED
  BY <1>6, <2>1, FiredFrame DEF IInv, Effects, Happens
<1>10. ~muddled' => \A s \in Rides : MoneyOK(s)'
<2> SUFFICES ASSUME ~muddled', NEW s \in Rides PROVE MoneyOK(s)'
  OBVIOUS
<2>1. MoneyOK(s)
  BY DEF IInv
<2>2. CASE s = r
  BY <1>1, <1>5, <2>1, <2>2 DEF MoneyOK
<2>3. CASE s # r
  BY <1>6, <2>1, <2>3, MoneyFrame, AbsorbedFrame DEF Happens
<2>. QED
  BY <2>2, <2>3
<1>11. MemoryInv'
  BY <1>1 DEF IInv, TypeOK, MemoryInv, RidersAreRemembered
<1>12. RacedInv'
  BY <1>1, <1>5, <1>6, RacedFrame DEF IInv, Completing, At, FiredOK, Happens
<1>13. OfferInv'
<2>1. \A s \in Rides : /\ ride'[s].client = ride[s].client /\ ride'[s].account = ride[s].account
                       /\ Completing(s)' <=> Completing(s)
  BY <1>5, <1>6 DEF Completing
<2>2. ~muddled => \A s \in Rides \ {r} : ride[s].reason = "offer" /\ SameAccount(r, s) => Completing(s)
  BY DEF IInv, OfferInv, SameAccount
<2>3. Completing(r)
  BY <1>5 DEF Completing
<2>4. ~muddled => \A s \in Rides \ {r} : ride[s].reason = "offer" /\ SameAccount(r, s) => r \in raced /\ s \in raced
  BY <2>2, <2>3 DEF IInv, RacedInv, SameAccount
<2>5. OneOfferPerAccount'
  BY <1>5, <1>6, <2>1, <2>4 DEF IInv, OfferInv, OneOfferPerAccount, Of, SameAccount
<2>6. ~muddled' => \A s \in Rides : ride'[s].reason = "offer" => Completing(s)' \/ ridden'[ride'[s].client][ride'[s].account] > 0
  BY <1>6, <2>1, <2>3 DEF IInv, OfferInv
<2>. QED
  BY <2>5, <2>6 DEF OfferInv
<1>14. UseInv'
<2>1. (IsCounted(r)' <=> IsCounted(r)) /\ (IsPassed(r)' => IsPassed(r))
  BY <1>1, <1>5, <1>6 DEF IsCounted, IsPassed, At, RideOK, FiredOK, Happens
<2>2. \A s \in Rides \ {r} : (IsCounted(s)' <=> IsCounted(s)) /\ (IsPassed(s)' <=> IsPassed(s))
  BY <1>6, CountedFrame DEF Happens
<2>. QED
  BY <1>1, <2>1, <2>2, UseFrame, DiscountsAssumption DEF IInv, TypeOK, Promo
<1>. QED
  BY <1>7, <1>8, <1>9, <1>10, <1>11, <1>12, <1>13, <1>14 DEF IInv

LEMMA StoreInv ==
  ASSUME IInv, NEW r \in Rides, Store(r)
  PROVE  IInv'
<1> USE DEF Store, people, money, past, failures
<1> DEFINE j == [ride[r] EXCEPT !.pc = "clean"]
<1>1. TypeOK /\ ride[r] \in Ride /\ RideOK(r) /\ FiredOK(r)
  BY DEF IInv, TypeOK
<1>2. j \in Ride
  BY <1>1 DEF Ride, PCs
<1>3. ride' = [ride EXCEPT ![r] = j]
  BY <1>1 DEF TypeOK
<1>4. ride' \in [Rides -> Ride] /\ \A s \in Rides : ride'[s] = IF s = r THEN j ELSE ride[s]
  BY <1>1, <1>2, <1>3, MoveRide
<1>5. /\ ride'[r].pc = "clean"
      /\ ride'[r].client = ride[r].client
      /\ ride'[r].account = ride[r].account
      /\ ride'[r].coded = ride[r].coded
      /\ ride'[r].open = ride[r].open
      /\ ride'[r].pays = ride[r].pays
      /\ ride'[r].discount = ride[r].discount
      /\ ride'[r].reason = ride[r].reason
      /\ ride[r].pc = "store"
  BY <1>1, <1>4 DEF Ride, At
<1>6. \A s \in Rides : s # r => ride'[s] = ride[s]
  BY <1>4
<1> HIDE DEF j
<1>7. TypeOK'
  BY <1>1, <1>4, EffectType DEF TypeOK, Happens
<1>8. \A s \in Rides : RideOK(s)'
<2>1. RideOK(r)'
  BY <1>1, <1>5, <1>6 DEF TypeOK, RideOK, At
<2>. QED
  BY <1>6, <2>1, RideFrame DEF IInv
<1>9. \A s \in Rides : FiredOK(s)'
<2>1. FiredOK(r)'
  BY <1>1, <1>5, <1>6 DEF FiredOK, RideOK, At, Happens
<2>. QED
  BY <1>6, <2>1, FiredFrame DEF IInv, Effects, Happens
<1>10. ~muddled' => \A s \in Rides : MoneyOK(s)'
<2> SUFFICES ASSUME ~muddled', NEW s \in Rides PROVE MoneyOK(s)'
  OBVIOUS
<2>1. MoneyOK(s)
  BY DEF IInv
<2>2. CASE s = r
  BY <1>1, <1>5, <2>1, <2>2, AbsorbedFrame, AbsorbedType DEF MoneyOK, FiredOK
<2>3. CASE s # r
  BY <1>6, <2>1, <2>3, MoneyFrame, AbsorbedFrame DEF Happens
<2>. QED
  BY <2>2, <2>3
<1>11. MemoryInv'
  BY MemoryFrame DEF IInv
<1>12. RacedInv'
  BY <1>1, <1>5, <1>6, RacedFrame DEF IInv, Completing, At, FiredOK, Happens
<1>13. OfferInv'
<2>1. Completing(r)' <=> Completing(r)
  BY <1>5, <1>6 DEF Completing, At, Happens
<2>2. \A s \in Rides : s # r => (Completing(s)' <=> Completing(s))
  BY <1>6 DEF Completing, At, Happens
<2>3. muddled \in BOOLEAN /\ muddled' \in BOOLEAN
  BY <1>1 DEF TypeOK
<2>. QED
  BY <1>5, <1>6, <2>1, <2>2, <2>3, OfferFrame DEF IInv
<1>14. UseInv'
<2>1. (IsCounted(r)' <=> IsCounted(r)) /\ (IsPassed(r)' => IsPassed(r))
  BY <1>1, <1>5, <1>6 DEF IsCounted, IsPassed, At, RideOK, FiredOK, Happens
<2>2. \A s \in Rides \ {r} : (IsCounted(s)' <=> IsCounted(s)) /\ (IsPassed(s)' <=> IsPassed(s))
  BY <1>6, CountedFrame DEF Happens
<2>. QED
  BY <1>1, <2>1, <2>2, UseFrame, DiscountsAssumption DEF IInv, TypeOK, Promo
<1>. QED
  BY <1>7, <1>8, <1>9, <1>10, <1>11, <1>12, <1>13, <1>14 DEF IInv

LEMMA CleanUpInv ==
  ASSUME IInv, NEW r \in Rides, CleanUp(r)
  PROVE  IInv'
<1> USE DEF CleanUp, people, money, past, failures
<1> DEFINE j == [ride[r] EXCEPT !.pc = "over"]
<1>1. TypeOK /\ ride[r] \in Ride /\ RideOK(r) /\ FiredOK(r)
  BY DEF IInv, TypeOK
<1>2. j \in Ride
  BY <1>1 DEF Ride, PCs
<1>3. ride' = [ride EXCEPT ![r] = j]
  BY <1>1 DEF TypeOK
<1>4. ride' \in [Rides -> Ride] /\ \A s \in Rides : ride'[s] = IF s = r THEN j ELSE ride[s]
  BY <1>1, <1>2, <1>3, MoveRide
<1>5. /\ ride'[r].pc = "over"
      /\ ride'[r].client = ride[r].client
      /\ ride'[r].account = ride[r].account
      /\ ride'[r].coded = ride[r].coded
      /\ ride'[r].open = ride[r].open
      /\ ride'[r].pays = ride[r].pays
      /\ ride'[r].discount = ride[r].discount
      /\ ride'[r].reason = ride[r].reason
      /\ ride[r].pc = "clean"
  BY <1>1, <1>4 DEF Ride, At
<1>6. \A s \in Rides : s # r => ride'[s] = ride[s]
  BY <1>4
<1> HIDE DEF j
<1>7. TypeOK'
  BY <1>1, <1>4, EffectType DEF TypeOK, Happens
<1>8. \A s \in Rides : RideOK(s)'
<2>1. RideOK(r)'
  BY <1>1, <1>5, <1>6 DEF TypeOK, RideOK, At
<2>. QED
  BY <1>6, <2>1, RideFrame DEF IInv
<1>9. \A s \in Rides : FiredOK(s)'
<2>1. FiredOK(r)'
  BY <1>1, <1>5, <1>6 DEF FiredOK, RideOK, At, Happens
<2>. QED
  BY <1>6, <2>1, FiredFrame DEF IInv, Effects, Happens
<1>10. ~muddled' => \A s \in Rides : MoneyOK(s)'
<2> SUFFICES ASSUME ~muddled', NEW s \in Rides PROVE MoneyOK(s)'
  OBVIOUS
<2>1. MoneyOK(s)
  BY DEF IInv
<2>2. CASE s = r
<3>1. ride[r].pays \in 0 .. Fare /\ Absorbed(r) \in 0 .. Fare
  BY <1>1, AbsorbedType DEF Ride
<3>2. /\ <<r, "earn">> \in fired' <=> ride[r].pays + Absorbed(r) > 0
      /\ <<r, "credit">> \in fired' <=> <<r, "credit">> \in fired
  BY <1>1, <1>5 DEF FiredOK
<3>. QED
  BY <1>5, <2>1, <2>2, <3>1, <3>2, AbsorbedFrame, Amounts DEF MoneyOK
<2>3. CASE s # r
  BY <1>6, <2>1, <2>3, MoneyFrame, AbsorbedFrame DEF Happens
<2>. QED
  BY <2>2, <2>3
<1>11. MemoryInv'
  BY MemoryFrame DEF IInv
<1>12. RacedInv'
  BY <1>1, <1>5, <1>6, RacedFrame DEF IInv, Completing, At, FiredOK, Happens
<1>13. OfferInv'
<2>1. Completing(r)' <=> Completing(r)
  BY <1>5, <1>6 DEF Completing, At, Happens
<2>2. \A s \in Rides : s # r => (Completing(s)' <=> Completing(s))
  BY <1>6 DEF Completing, At, Happens
<2>3. muddled \in BOOLEAN /\ muddled' \in BOOLEAN
  BY <1>1 DEF TypeOK
<2>. QED
  BY <1>5, <1>6, <2>1, <2>2, <2>3, OfferFrame DEF IInv
<1>14. UseInv'
<2>1. (IsCounted(r)' <=> IsCounted(r)) /\ (IsPassed(r)' => IsPassed(r))
  BY <1>1, <1>5, <1>6 DEF IsCounted, IsPassed, At, RideOK, FiredOK, Happens
<2>2. \A s \in Rides \ {r} : (IsCounted(s)' <=> IsCounted(s)) /\ (IsPassed(s)' <=> IsPassed(s))
  BY <1>6, CountedFrame DEF Happens
<2>. QED
  BY <1>1, <2>1, <2>2, UseFrame, DiscountsAssumption DEF IInv, TypeOK, Promo
<1>. QED
  BY <1>7, <1>8, <1>9, <1>10, <1>11, <1>12, <1>13, <1>14 DEF IInv

LEMMA RefundInv ==
  ASSUME IInv, NEW r \in Rides, Refund(r)
  PROVE  IInv'
<1> USE DEF Refund, people, money, past, failures
<1>1. TypeOK /\ UNCHANGED <<ride, people, money, past>>
  BY DEF IInv
<1>2. TypeOK'
<2>1. promo.used - 1 \in Int /\ promo \in Promo
  BY <1>1 DEF TypeOK, Promo
<2>2. promo' \in Promo
  BY <2>1, PromoType
<2>. QED
  BY <1>1, <2>2 DEF TypeOK, Happens
<1>3. \A s \in Rides : RideOK(s)'
  BY <1>1 DEF IInv, TypeOK, RideOK, SignedIn
<1>4. \A s \in Rides : FiredOK(s)'
  BY <1>1 DEF IInv, FiredOK, Happens
<1>5. ~muddled' => \A s \in Rides : MoneyOK(s)'
  BY <1>1, MoneyFrame, AbsorbedFrame DEF IInv, Happens, Effects
<1>6. MemoryInv'
  BY MemoryFrame DEF IInv
<1>7. RacedInv'
  BY <1>1, RacedFrame DEF IInv, Completing, Happens
<1>8. OfferInv'
  BY <1>1, OfferFrame DEF IInv, TypeOK, Completing, Happens
<1>9. UseInv'
<2>1. IsCounted(r) /\ ~IsCounted(r)' /\ \A s \in Rides \ {r} : IsCounted(s)' <=> IsCounted(s)
  BY <1>1 DEF IInv, FiredOK, RideOK, IsCounted, Happens
<2>2. r \in Counted /\ Counted' = Counted \ {r} /\ Passed' = Passed
  BY <1>1, <2>1 DEF Counted, Passed, IsPassed
<2>3. Cardinality(Counted') = Cardinality(Counted) - 1
  BY <2>2, UsesAreFinite, FS_RemoveElement
<2>4. promo'.used = promo.used - 1
  BY <1>1 DEF TypeOK, Promo
<2>. QED
  BY <1>1, <2>2, <2>3, <2>4 DEF IInv, UseInv
<1>. QED
  BY <1>2, <1>3, <1>4, <1>5, <1>6, <1>7, <1>8, <1>9 DEF IInv

LEMMA LogCreditInv ==
  ASSUME IInv, NEW r \in Rides, LogCredit(r)
  PROVE  IInv'
<1> USE DEF LogCredit, people, money, past, failures
<1>1. TypeOK /\ UNCHANGED <<ride, people, past, promo, earned>>
  BY DEF IInv
<1>2. TypeOK'
  BY <1>1, AbsorbedType DEF TypeOK, Happens
<1>3. \A s \in Rides : RideOK(s)'
  BY <1>1 DEF IInv, TypeOK, RideOK, SignedIn
<1>4. \A s \in Rides : FiredOK(s)'
  BY <1>1 DEF IInv, FiredOK, Happens
<1>5. ~muddled' => \A s \in Rides : MoneyOK(s)'
<2> SUFFICES ASSUME ~muddled', NEW s \in Rides PROVE MoneyOK(s)'
  OBVIOUS
<2>1. MoneyOK(s) /\ Absorbed(s)' = Absorbed(s)
  BY <1>1, AbsorbedFrame DEF IInv
<2>2. CASE s = r
  BY <1>1, <2>1, <2>2 DEF IInv, TypeOK, MoneyOK, FiredOK, Happens
<2>3. CASE s # r
  BY <1>1, <2>1, <2>3, MoneyFrame DEF TypeOK, Happens
<2>. QED
  BY <2>2, <2>3
<1>6. MemoryInv'
  BY MemoryFrame DEF IInv
<1>7. RacedInv'
  BY <1>1, RacedFrame DEF IInv, Completing, Happens
<1>8. OfferInv'
  BY <1>1, OfferFrame DEF IInv, TypeOK, Completing, Happens
<1>9. UseInv'
  BY <1>1, CountedFrame, UseFrame, DiscountsAssumption DEF IInv, TypeOK, Promo, Happens
<1>. QED
  BY <1>2, <1>3, <1>4, <1>5, <1>6, <1>7, <1>8, <1>9 DEF IInv

LEMMA EarnInv ==
  ASSUME IInv, NEW r \in Rides, Earn(r)
  PROVE  IInv'
<1> USE DEF Earn, people, money, past, failures
<1>1. TypeOK /\ UNCHANGED <<ride, people, past, promo, credit>>
  BY DEF IInv
<1>2. TypeOK'
<2>1. ride[r].pays + Absorbed(r) \in 0 .. Fare
<3>1. /\ ride[r].pays \in 0 .. Fare /\ ride[r].discount \in 0 .. Fare
      /\ ride[r].pays + ride[r].discount = Fare
  BY <1>1 DEF IInv, TypeOK, Ride, RideOK
<3>. QED
  BY <3>1, Amounts DEF Absorbed
<2>. QED
  BY <1>1, <2>1 DEF TypeOK, Happens
<1>3. \A s \in Rides : RideOK(s)'
  BY <1>1 DEF IInv, TypeOK, RideOK, SignedIn
<1>4. \A s \in Rides : FiredOK(s)'
  BY <1>1 DEF IInv, FiredOK, Happens
<1>5. ~muddled' => \A s \in Rides : MoneyOK(s)'
<2> SUFFICES ASSUME ~muddled', NEW s \in Rides PROVE MoneyOK(s)'
  OBVIOUS
<2>1. MoneyOK(s) /\ Absorbed(s)' = Absorbed(s)
  BY <1>1, AbsorbedFrame DEF IInv
<2>2. CASE s = r
  BY <1>1, <2>1, <2>2 DEF IInv, TypeOK, MoneyOK, FiredOK, Happens
<2>3. CASE s # r
  BY <1>1, <2>1, <2>3, MoneyFrame DEF TypeOK, Happens
<2>. QED
  BY <2>2, <2>3
<1>6. MemoryInv'
  BY MemoryFrame DEF IInv
<1>7. RacedInv'
  BY <1>1, RacedFrame DEF IInv, Completing, Happens
<1>8. OfferInv'
  BY <1>1, OfferFrame DEF IInv, TypeOK, Completing, Happens
<1>9. UseInv'
  BY <1>1, CountedFrame, UseFrame, DiscountsAssumption DEF IInv, TypeOK, Promo, Happens
<1>. QED
  BY <1>2, <1>3, <1>4, <1>5, <1>6, <1>7, <1>8, <1>9 DEF IInv

LEMMA FailsInv ==
  ASSUME IInv, NEW r \in Rides, NEW e \in Effects, Fails(r, e)
  PROVE  IInv'
<1> USE DEF Fails, Fault, people, money, past, failures
<1>1. TypeOK /\ UNCHANGED <<ride, people, overlapped, raced, late, unrecorded, muddled, promo, credit, earned>>
  BY DEF IInv
<1>2. TypeOK'
<2>1. faults' \in 0 .. MaxFaults
  BY <1>1, DiscountsAssumption DEF TypeOK
<2>. QED
  BY <1>1, <2>1 DEF TypeOK, Happens
<1>3. \A s \in Rides : RideOK(s)'
  BY <1>1 DEF IInv, TypeOK, RideOK, SignedIn
<1>4. \A s \in Rides : FiredOK(s)'
  BY <1>1 DEF IInv, FiredOK, Happens
<1>5. ~muddled' => \A s \in Rides : MoneyOK(s)'
<2> SUFFICES ASSUME ~muddled', NEW s \in Rides PROVE MoneyOK(s)'
  OBVIOUS
<2>1. MoneyOK(s) /\ Absorbed(s)' = Absorbed(s)
  BY <1>1, AbsorbedFrame DEF IInv
<2>2. CASE s = r
  BY <1>1, <2>1, <2>2 DEF IInv, TypeOK, MoneyOK, FiredOK, Happens
<2>3. CASE s # r
  BY <1>1, <2>1, <2>3, MoneyFrame DEF TypeOK, Happens
<2>. QED
  BY <2>2, <2>3
<1>6. MemoryInv'
  BY MemoryFrame DEF IInv
<1>7. RacedInv'
  BY <1>1, RacedFrame DEF IInv, Completing, Happens
<1>8. OfferInv'
  BY <1>1, OfferFrame DEF IInv, TypeOK, Completing, Happens
<1>9. UseInv'
  BY <1>1, CountedFrame, UseFrame, DiscountsAssumption DEF IInv, TypeOK, Promo, Happens
<1>. QED
  BY <1>2, <1>3, <1>4, <1>5, <1>6, <1>7, <1>8, <1>9 DEF IInv

LEMMA CountRideInv ==
  ASSUME IInv, NEW r \in Rides, CountRide(r)
  PROVE  IInv'
<1> USE DEF CountRide, people, money, past, failures
<1>1. TypeOK /\ UNCHANGED <<ride, account, leaving, fingerprints, promo, money, raced, overlapped, failures, muddled>>
  BY DEF IInv
<1> DEFINE p == ride[r].client
           n == ride[r].account
<1>a. p \in People /\ n \in 1 .. account[p]
  BY <1>1 DEF IInv, FiredOK, RideOK, Happens
<1>b. n \in 1 .. MaxAccounts
  BY <1>1, <1>a, Amounts DEF TypeOK
<1>c. /\ ridden' \in [People -> [1 .. MaxAccounts -> Nat]]
      /\ \A q \in People, m \in 1 .. MaxAccounts : ridden'[q][m] = IF q = p /\ m = n THEN ridden[q][m] + 1 ELSE ridden[q][m]
<2> DEFINE row == [ridden[p] EXCEPT ![n] = @ + 1]
<2>1. ridden[p] \in [1 .. MaxAccounts -> Nat] /\ ridden \in [People -> [1 .. MaxAccounts -> Nat]]
  BY <1>1, <1>a DEF TypeOK
<2>2. row \in [1 .. MaxAccounts -> Nat] /\ \A m \in 1 .. MaxAccounts : row[m] = IF m = n THEN ridden[p][m] + 1 ELSE ridden[p][m]
  BY <2>1, <1>b, RowType
<2>3. ridden' = [ridden EXCEPT ![p] = row]
  OBVIOUS
<2> HIDE DEF row
<2>. QED
  BY <2>1, <2>2, <2>3, <1>a
<1>d. late' = IF n < account[p] \/ leaving[p] # "no" THEN late \cup {<<p, n>>} ELSE late
  BY <1>1
<1> HIDE DEF p, n
<1>2. TypeOK'
<2>1. late' \subseteq People \X (1 .. MaxAccounts)
  BY <1>1, <1>a, <1>b, <1>d DEF TypeOK
<2>. QED
  BY <1>1, <1>c, <2>1 DEF TypeOK, Happens
<1>3. \A s \in Rides : RideOK(s)'
  BY <1>1 DEF IInv, TypeOK, RideOK, SignedIn
<1>4. \A s \in Rides : FiredOK(s)'
  BY <1>1 DEF IInv, FiredOK, Happens
<1>5. ~muddled' => \A s \in Rides : MoneyOK(s)'
  BY <1>1, MoneyFrame, AbsorbedFrame DEF IInv, Happens, Effects
<1>6. MemoryInv'
<2>1. \A q \in People, m \in 1 .. MaxAccounts :
        ridden'[q][m] > 0 /\ (m < account[q] \/ leaving[q] # "no") => ridden[q][m] > 0 \/ <<q, m>> \in late'
  BY <1>c, <1>d
<2>2. \A q \in People : 1 .. account[q] \subseteq 1 .. MaxAccounts /\ account[q] \in 0 .. MaxAccounts
  BY <1>1, Amounts DEF TypeOK
<2>3. late \subseteq late' /\ unrecorded' = unrecorded
  BY <1>1, <1>d
<2>4. RidersAreRemembered'
<3>1. SUFFICES ASSUME NEW q \in People, NEW m \in 1 .. account[q],
                      m < account[q] \/ leaving[q] = "gone", ridden'[q][m] > 0
               PROVE  q \in fingerprints \/ <<q, m>> \in late' \cup unrecorded
  BY <1>1 DEF RidersAreRemembered
<3>2. ridden[q][m] > 0 \/ <<q, m>> \in late'
  BY <2>1, <2>2, <3>1
<3>. QED
  BY <2>3, <3>1, <3>2 DEF IInv, MemoryInv, RidersAreRemembered
<2>5. ASSUME NEW q \in People, leaving[q] = "erase", ridden'[q][account[q]] > 0
      PROVE  q \in fingerprints \/ <<q, account[q]>> \in late' \cup unrecorded
<3>1. account[q] \in 1 .. MaxAccounts
  BY <1>1, <2>2, <2>5, Amounts DEF IInv, MemoryInv
<3>. QED
  BY <2>1, <2>3, <2>5, <3>1 DEF IInv, MemoryInv
<2>6. \A q \in People : leaving'[q] # "no" => account'[q] # 0
  BY <1>1 DEF IInv, MemoryInv
<2>. QED
  BY <1>1, <2>4, <2>5, <2>6 DEF MemoryInv
<1>7. RacedInv'
  BY <1>1, RacedFrame DEF IInv, Completing, Happens
<1>8. OfferInv'
<2>1. OneOfferPerAccount'
  BY <1>1 DEF IInv, OfferInv, OneOfferPerAccount, Of
<2>2. ASSUME ~muddled, NEW s \in Rides, ride[s].reason = "offer"
      PROVE  Completing(s)' \/ ridden'[ride[s].client][ride[s].account] > 0
<3>1. ride[s].client \in People /\ ride[s].account \in 1 .. account[ride[s].client]
  BY <2>2 DEF IInv, RideOK
<3>2. ride[s].account \in 1 .. MaxAccounts
  BY <1>1, <3>1, Amounts DEF TypeOK
<3>3. ridden[ride[s].client][ride[s].account] \in Nat
  BY <1>1, <3>1, <3>2 DEF TypeOK
<3>4. CASE s = r
  BY <1>c, <3>1, <3>2, <3>3, <3>4 DEF p, n
<3>5. CASE s # r
  BY <1>1, <1>c, <2>2, <3>1, <3>2, <3>3, <3>5 DEF IInv, OfferInv, Completing, Happens
<3>. QED
  BY <3>4, <3>5
<2>. QED
  BY <1>1, <2>1, <2>2 DEF OfferInv
<1>9. UseInv'
  BY <1>1, CountedFrame, UseFrame, DiscountsAssumption DEF IInv, TypeOK, Promo, Happens
<1>. QED
  BY <1>2, <1>3, <1>4, <1>5, <1>6, <1>7, <1>8, <1>9 DEF IInv

LEMMA ReadPromoInv ==
  ASSUME IInv, ReadPromo
  PROVE  IInv'
<1> USE DEF ReadPromo, people, money, past, failures
<1>1. TypeOK /\ UNCHANGED <<ride, people, money, past, fired, promo>>
  BY DEF IInv
<1>2. TypeOK'
<2>1. promo.used \in Int
  BY <1>1 DEF TypeOK, Promo
<2>2. edits' \in 0 .. MaxEdits
  BY <1>1, DiscountsAssumption DEF TypeOK
<2>. QED
  BY <1>1, <2>1, <2>2 DEF TypeOK
<1>3. \A s \in Rides : RideOK(s)'
  BY <1>1 DEF IInv, TypeOK, RideOK, SignedIn
<1>4. \A s \in Rides : FiredOK(s)'
  BY <1>1 DEF IInv, FiredOK, Happens
<1>5. ~muddled' => \A s \in Rides : MoneyOK(s)'
  BY <1>1, MoneyFrame, AbsorbedFrame DEF IInv, Happens, Effects
<1>6. MemoryInv'
  BY MemoryFrame DEF IInv
<1>7. RacedInv'
  BY <1>1, RacedFrame DEF IInv, Completing, Happens
<1>8. OfferInv'
  BY <1>1, OfferFrame DEF IInv, TypeOK, Completing, Happens
<1>9. UseInv'
  BY <1>1, CountedFrame, UseFrame, DiscountsAssumption DEF IInv, TypeOK, Promo, Happens
<1>. QED
  BY <1>2, <1>3, <1>4, <1>5, <1>6, <1>7, <1>8, <1>9 DEF IInv

LEMMA SavePromoInv ==
  ASSUME IInv, SavePromo
  PROVE  IInv'
<1> USE DEF SavePromo, people, money, past, failures
<1>1. TypeOK /\ UNCHANGED <<ride, people, money, fired, overlapped, raced, late, failures>>
  BY DEF IInv
<1>2. TypeOK'
<2>1. edit \in Int /\ promo.used \in Int
  BY <1>1 DEF TypeOK, Promo
<2>2. promo' \in Promo
  BY <1>1, <2>1 DEF TypeOK, Promo
<2>. QED
  BY <1>1, <2>2 DEF TypeOK
<1>3. \A s \in Rides : RideOK(s)'
  BY <1>1 DEF IInv, TypeOK, RideOK, SignedIn
<1>4. \A s \in Rides : FiredOK(s)'
  BY <1>1 DEF IInv, FiredOK, Happens
<1>5. ~muddled' => \A s \in Rides : MoneyOK(s)'
  BY <1>1, MoneyFrame, AbsorbedFrame DEF IInv, Happens, Effects
<1>6. MemoryInv'
  BY MemoryFrame DEF IInv
<1>7. RacedInv'
  BY <1>1, RacedFrame DEF IInv, Completing, Happens
<1>8. OfferInv'
  BY <1>1, OfferFrame DEF IInv, TypeOK, Completing, Happens
<1>9. UseInv'
<2>1. ~muddled' => ~muddled /\ promo'.used = promo.used
  BY <1>1 DEF TypeOK, Promo
<2>2. Counted' = Counted /\ Passed' = Passed
  BY <1>1 DEF Counted, IsCounted, Passed, IsPassed
<2>. QED
  BY <2>1, <2>2 DEF IInv, UseInv
<1>. QED
  BY <1>2, <1>3, <1>4, <1>5, <1>6, <1>7, <1>8, <1>9 DEF IInv

LEMMA EraseInv ==
  ASSUME IInv, NEW p \in People, Erase(p)
  PROVE  IInv'
<1> USE DEF money, past, failures
<1>1. TypeOK /\ UNCHANGED <<account, ridden, fingerprints, promo, edit, fired, money, edits, faults, past>>
  BY DEF IInv, Erase
<1>2. ASSUME NEW s \in Rides
      PROVE  /\ ride'[s] \in Ride
             /\ ride'[s].pc = ride[s].pc /\ ride'[s].client = ride[s].client
             /\ ride'[s].account = ride[s].account /\ ride'[s].coded = ride[s].coded
             /\ ride'[s].pays = ride[s].pays /\ ride'[s].discount = ride[s].discount
             /\ ride'[s].reason = ride[s].reason
<2>1. ride[s] \in Ride /\ [ride[s] EXCEPT !.open = FALSE] \in Ride
  BY <1>1 DEF TypeOK, Ride
<2>2. ride'[s] \in {ride[s], [ride[s] EXCEPT !.open = FALSE]}
  BY DEF Erase
<2>. QED
  BY <2>1, <2>2 DEF Ride
<1>3. ride' \in [Rides -> Ride]
  BY <1>2 DEF Erase
<1>4. TypeOK'
  BY <1>1, <1>3 DEF TypeOK, Erase
<1>5. \A s \in Rides : RideOK(s)'
<2>1. ASSUME NEW s \in Rides PROVE RideOK(s)'
<3>1. RideOK(s)
  BY DEF IInv
<3>. QED
  BY <1>1, <1>2, <3>1 DEF RideOK
<2>. QED
  BY <2>1
<1>6. \A s \in Rides : FiredOK(s)'
  BY <1>1, <1>2 DEF IInv, FiredOK
<1>7. ~muddled' => \A s \in Rides : MoneyOK(s)'
  BY <1>1, <1>2, AbsorbedFrame, MoneyFrame DEF IInv
<1>8. MemoryInv'
<2>1. leaving' = [leaving EXCEPT ![p] = "gone"] /\ leaving[p] = "erase"
  BY DEF Erase
<2>. QED
  BY <1>1, <2>1 DEF IInv, TypeOK, MemoryInv, RidersAreRemembered
<1>9. RacedInv'
  BY <1>1, <1>2, RacedFrame DEF IInv, Completing
<1>10. OfferInv'
  BY <1>1, <1>2, OfferFrame DEF IInv, TypeOK, Completing
<1>11. UseInv'
<2>1. \A s \in Rides : (IsCounted(s)' <=> IsCounted(s)) /\ (IsPassed(s)' => IsPassed(s))
  BY <1>1, <1>2 DEF IsCounted, IsPassed
<2>. QED
  BY <1>1, <2>1, UseFrame, Amounts DEF IInv
<1>. QED
  BY <1>4, <1>5, <1>6, <1>7, <1>8, <1>9, <1>10, <1>11 DEF IInv

\* A ride whose request breaks off.
LEMMA DeadRide ==
  ASSUME NEW s \in Rides, ride[s] \in Ride, RideOK(s), UNCHANGED account, ride'[s] = Dead(ride[s])
  PROVE  /\ Dead(ride[s]) \in Ride /\ RideOK(s)' /\ ride'[s].pc \notin {"fare", "store", "clean"}
         /\ ride[s].pc \in {"clean", "over"} => ride'[s].pc = "over"
         /\ ride[s].pc = "over" => ride'[s] = ride[s]
         /\ ride[s].pc \in {"store", "clean"} /\ ride[s].reason = "refused" => ride'[s].pc = "over" /\ ride'[s].reason = "refused"
<1>1. CASE ride[s].pc \in {"look", "save"}
<2>1. ride'[s] = NoRide
  BY <1>1 DEF Dead
<2>2. /\ ride'[s].pc = "none" /\ ride'[s].pays = Fare /\ ride'[s].discount = 0 /\ ride'[s].reason = ""
  BY <2>1, NoRideFields
<2>. QED
  BY <1>1, <2>1, <2>2, NoRideType, PriceAndDiscount DEF RideOK
<1>2. CASE ride[s].pc \in {"fare", "store"}
<2> DEFINE reason == IF ride[s].reason = "refused" THEN ride[s].reason ELSE ""
           j == [NoRide EXCEPT !.pc = "over", !.client = ride[s].client, !.account = ride[s].account, !.coded = ride[s].coded,
                               !.reason = reason]
<2>1. ride'[s] = j
  BY <1>2 DEF Dead
<2>2. reason \in {"", "refused"} /\ (reason = "refused" <=> ride[s].reason = "refused")
  OBVIOUS
<2>3. j \in Ride
  BY <2>2, NoRideType DEF NoRide, Ride, PCs
<2>4. /\ ride'[s].pc = "over" /\ ride'[s].client = ride[s].client /\ ride'[s].account = ride[s].account
      /\ ride'[s].coded = ride[s].coded
      /\ ride'[s].pays = Fare /\ ride'[s].discount = 0 /\ ride'[s].reason = reason
  BY <2>1 DEF NoRide
<2> HIDE DEF reason
<2>5. RideOK(s)'
  BY <1>2, <2>2, <2>4, PriceAndDiscount DEF RideOK
<2>. QED
  BY <1>2, <2>1, <2>2, <2>3, <2>4, <2>5
<1>3. CASE ride[s].pc \notin {"look", "save", "fare", "store"}
<2>1. PICK pc \in PCs :
        /\ Dead(ride[s]) = [ride[s] EXCEPT !.pc = pc]
        /\ \/ pc = ride[s].pc /\ pc \notin {"count", "clean"}
           \/ ride[s].pc = "count" /\ pc = "booked"
           \/ ride[s].pc = "clean" /\ pc = "over"
  BY <1>3 DEF Dead, Ride, PCs
<2>2. Dead(ride[s]) \in Ride
  BY <2>1 DEF Ride
<2>3. /\ ride'[s].pc = pc /\ ride'[s].client = ride[s].client /\ ride'[s].account = ride[s].account
      /\ ride'[s].coded = ride[s].coded
      /\ ride'[s].pays = ride[s].pays /\ ride'[s].discount = ride[s].discount /\ ride'[s].reason = ride[s].reason
  BY <2>1 DEF Ride
<2>4. RideOK(s)'
  BY <1>3, <2>1, <2>3 DEF RideOK
<2>5. ride[s].pc = "over" => Dead(ride[s]) = ride[s]
  BY DEF Dead
<2>. QED
  BY <1>3, <2>1, <2>2, <2>3, <2>4, <2>5
<1>. QED
  BY <1>1, <1>2, <1>3 DEF Ride, PCs

LEMMA BreaksInv ==
  ASSUME IInv, NEW r \in Rides, Breaks(r)
  PROVE  IInv'
<1> USE DEF Breaks, Fault, people, money, past, failures
<1>1. TypeOK /\ muddled' /\ UNCHANGED <<people, fired, overlapped, raced, late, lost, unrecorded>>
  BY DEF IInv
<1>2. /\ ride[r] \in Ride /\ RideOK(r) /\ FiredOK(r)
      /\ ride'[r] = Dead(ride[r]) /\ \A s \in Rides : s # r => ride'[s] = ride[s]
  BY <1>1 DEF IInv, TypeOK
<1>3. /\ Dead(ride[r]) \in Ride /\ RideOK(r)' /\ ride'[r].pc \notin {"fare", "store", "clean"}
      /\ ride[r].pc \in {"clean", "over"} => ride'[r].pc = "over"
      /\ ride[r].pc = "over" => ride'[r] = ride[r]
      /\ ride[r].pc \in {"store", "clean"} /\ ride[r].reason = "refused" => ride'[r].pc = "over" /\ ride'[r].reason = "refused"
  BY <1>1, <1>2, DeadRide
<1>4. TypeOK'
<2>1. ride' \in [Rides -> Ride] /\ faults' \in 0 .. MaxFaults /\ muddled' \in BOOLEAN
  BY <1>1, <1>3, DiscountsAssumption DEF TypeOK
<2>. QED
  BY <1>1, <2>1 DEF TypeOK
<1>5. \A s \in Rides : RideOK(s)'
  BY <1>1, <1>2, <1>3, RideFrame DEF IInv
<1>6. \A s \in Rides : FiredOK(s)'
<2>1. FiredOK(r)'
  BY <1>1, <1>2, <1>3 DEF FiredOK
<2>. QED
  BY <1>1, <1>2, <2>1, FiredFrame DEF IInv
<1>7. MemoryInv'
  BY <1>1, MemoryFrame DEF IInv
<1>8. RacedInv'
<2>1. \A s \in Rides : Completing(s)' => Completing(s) /\ ride'[s].client = ride[s].client /\ ride'[s].account = ride[s].account
  BY <1>1, <1>2, <1>3 DEF Completing, FiredOK
<2>. QED
  BY <1>1, <2>1, RacedFrame DEF IInv
<1>9. OfferInv' /\ UseInv'
  BY <1>1 DEF OfferInv, OneOfferPerAccount, UseInv
<1>. QED
  BY <1>1, <1>4, <1>5, <1>6, <1>7, <1>8, <1>9 DEF IInv

LEMMA CrashInv ==
  ASSUME IInv, Crash
  PROVE  IInv'
<1> USE DEF money, failures, Fault
<1>1. TypeOK /\ muddled' /\ fired' = {} /\ UNCHANGED <<account, ridden, fingerprints, promo, money, edits, overlapped, raced, late, failures>>
  BY DEF IInv, Crash
<1>2. \A s \in Rides : ride'[s] = Dead(ride[s])
  BY DEF Crash
<1>3. ASSUME NEW s \in Rides
      PROVE  Dead(ride[s]) \in Ride /\ RideOK(s)' /\ ride'[s].pc \notin {"fare", "store", "clean"}
             /\ (ride[s].pc \in {"clean", "over"} => ride'[s].pc = "over")
  BY <1>1, <1>2, DeadRide DEF IInv, TypeOK
<1>4. ride' \in [Rides -> Ride]
  BY <1>3 DEF Crash
<1>5. TypeOK'
<2>1. faults' \in 0 .. MaxFaults
  BY <1>1, DiscountsAssumption DEF TypeOK, Crash
<2>. QED
  BY <1>1, <1>4, <2>1 DEF TypeOK, Crash
<1>6. \A s \in Rides : FiredOK(s)'
  BY <1>1, <1>3 DEF IInv, FiredOK
<1>7. MemoryInv'
<2>1. \A p \in People : leaving'[p] = IF leaving[p] = "gone" THEN "gone" ELSE "no"
  BY DEF Crash
<2>. QED
  BY <1>1, <2>1 DEF IInv, MemoryInv, RidersAreRemembered
<1>8. RacedInv'
<2>1. \A s \in Rides : ~Completing(s)'
  BY <1>1, <1>3 DEF Completing
<2>. QED
  BY <2>1 DEF RacedInv
<1>9. OfferInv'
  BY <1>1 DEF OfferInv, OneOfferPerAccount
<1>10. UseInv'
  BY <1>1 DEF UseInv
<1>. QED
  BY <1>1, <1>3, <1>5, <1>6, <1>7, <1>8, <1>9, <1>10 DEF IInv
-----------------------------------------------------------------------------
(***************************************************************************)
(* The theorems.                                                           *)
(***************************************************************************)
\* The initial states satisfy the invariant.
LEMMA InitInv == Init => IInv
<1> SUFFICES ASSUME Init PROVE IInv
  OBVIOUS
<1>1. \A r \in Rides : ride[r] = NoRide
  BY DEF Init
<1>2. \A r \in Rides : /\ ride[r].pc = "none" /\ ride[r].pays = Fare /\ ride[r].discount = 0
                       /\ ride[r].reason = "" /\ ~ride[r].coded
  BY <1>1, NoRideFields
<1>3. TypeOK
<2>1. ride \in [Rides -> Ride]
  BY NoRideType DEF Init
<2>2. promo \in Promo
<3>1. PICK worth \in Worth, ofCompany \in BOOLEAN :
        promo = [used |-> 0, active |-> TRUE, worth |-> worth, ofCompany |-> ofCompany]
  BY DEF Init
<3>. QED
  BY <3>1 DEF Promo
<2>3. 0 \in 0 .. MaxAccounts /\ 0 \in 0 .. Fare /\ 0 \in 0 .. MaxEdits /\ 0 \in 0 .. MaxFaults
  BY DiscountsAssumption
<2>4. account \in [People -> 0 .. MaxAccounts] /\ ridden \in [People -> [1 .. MaxAccounts -> Nat]]
  BY <2>3 DEF Init
<2>. QED
  BY <2>1, <2>2, <2>3, <2>4 DEF Init, TypeOK
<1>4. \A r \in Rides : RideOK(r)
  BY <1>2, PriceAndDiscount DEF RideOK
<1>5. \A r \in Rides : FiredOK(r)
  BY DEF Init, FiredOK
<1>6. \A r \in Rides : MoneyOK(r)
  BY <1>2 DEF Init, MoneyOK
<1>7. MemoryInv
<2>1. RidersAreRemembered
  BY DEF Init, RidersAreRemembered
<2>. QED
  BY <2>1 DEF Init, MemoryInv
<1>8. RacedInv
  BY <1>2 DEF RacedInv, Completing, Init
<1>9. OfferInv
  BY <1>2 DEF OfferInv, OneOfferPerAccount
<1>10. UseInv
<2>1. Counted = {} /\ Passed = {}
  BY <1>2 DEF Counted, IsCounted, Passed, IsPassed
<2>2. promo.used = 0
  BY DEF Init
<2>. QED
  BY <2>1, <2>2, FS_EmptySet, Amounts DEF UseInv
<1>. QED
  BY <1>3, <1>4, <1>5, <1>6, <1>7, <1>8, <1>9, <1>10 DEF IInv

\* One completed ride after the other: a code that was refused, granted or switched off.
LEMMA ApplyPromoInv ==
  ASSUME IInv, NEW r \in Rides, ApplyPromo(r)
  PROVE  IInv'
<1>1. ASSUME promo.active, ride' = [ride EXCEPT ![r] = Discounted(@, ComputeDiscount(promo.worth), IF promo.ofCompany THEN "company" ELSE "promo")],
             UNCHANGED fired
      PROVE  IInv'
<2>1. ComputeDiscount(promo.worth) \in 0 .. Fare
<3>1. promo.worth \in Nat
  BY DiscountsAssumption DEF IInv, TypeOK, Promo
<3>. QED
  BY <3>1, Amounts DEF ComputeDiscount
<2>2. (IF promo.ofCompany THEN "company" ELSE "promo") \in {"promo", "company"}
  OBVIOUS
<2>. QED
  BY <1>1, <2>1, <2>2, PromoGivenInv DEF ApplyPromo
<1>. QED
  BY <1>1, PromoOffInv, PromoRefusedInv DEF ApplyPromo

LEMMA ApplyOfferInv ==
  ASSUME IInv, NEW r \in Rides, ApplyOffer(r)
  PROVE  IInv'
<1>1. At(r, "fare") /\ ride[r].client \in People
  BY DEF ApplyOffer, At, IInv, RideOK
<1>2. Identities(ride[r].client, ClientUserColumns) \subseteq People
  BY <1>1 DEF Identities
<1>3. CASE fingerprints' = fingerprints \cup Identities(ride[r].client, ClientUserColumns) /\ ride' = [ride EXCEPT ![r] = Discounted(@, OfferWorth, "offer")]
           /\ Eligible(ride[r].client, ride[r].account)
  BY <1>1, <1>2, <1>3, OfferGivenInv DEF ApplyOffer, Eligible, IInv, TypeOK
<1>4. CASE fingerprints' = fingerprints /\ ride' = [ride EXCEPT ![r].pc = "store"]
  BY <1>1, <1>4, OfferMissedInv DEF ApplyOffer, people
<1>. QED
  BY <1>3, <1>4 DEF ApplyOffer

LEMMA LookInv ==
  ASSUME IInv, NEW r \in Rides, Look(r)
  PROVE  IInv'
<1>1. CASE Valid
<2>1. ride' = [ride EXCEPT ![r].pc = "save"]
  BY <1>1 DEF Look
<2>. QED
  BY <1>1, <2>1, LookGoodInv DEF Look
<1>2. CASE ~Valid
<2>1. overlapped \subseteq overlapped' /\ overlapped' \subseteq Rides
  BY DEF Look, IInv, TypeOK
<2>. QED
  BY <1>2, <2>1, LookBadInv DEF Look
<1>. QED
  BY <1>1, <1>2

LEMMA FrozenInv ==
  ASSUME IInv, UNCHANGED vars
  PROVE  IInv'
<1>1. UNCHANGED <<account, leaving, ridden, fingerprints, promo, edit, ride, fired, credit, earned, edits, faults>>
  BY DEF vars, people, money
<1>2. UNCHANGED <<overlapped, raced, late, lost, unrecorded, muddled>>
  BY DEF vars, past, failures
<1>3. TypeOK' /\ \A r \in Rides : RideOK(r)' /\ FiredOK(r)'
  BY <1>1, <1>2 DEF IInv, TypeOK, RideOK, FiredOK
<1>4. ~muddled' => \A r \in Rides : MoneyOK(r)'
  BY <1>1, <1>2, AbsorbedFrame, MoneyFrame DEF IInv
<1>5. MemoryInv'
  BY <1>1, <1>2, MemoryFrame DEF IInv, people
<1>6. RacedInv'
  BY <1>1, <1>2, RacedFrame DEF IInv, Completing
<1>7. OfferInv'
  BY <1>1, <1>2, OfferFrame DEF IInv, TypeOK, Completing
<1>8. UseInv'
  BY <1>1, <1>2, CountedFrame, UseFrame, Amounts DEF IInv
<1>. QED
  BY <1>3, <1>4, <1>5, <1>6, <1>7, <1>8 DEF IInv

\* Every step preserves the invariant.
LEMMA NextInv == IInv /\ [Next]_vars => IInv'
<1> SUFFICES ASSUME IInv, [Next]_vars PROVE IInv'
  OBVIOUS
<1>1. ASSUME NEW p \in People, Account(p) PROVE IInv'
  BY <1>1, RegisterInv, DeleteAccountInv, RecordInv, RecordFailsInv, EraseInv, EraseFailsInv DEF Account
<1>2. ASSUME NEW r \in Rides, Booking(r) PROVE IInv'
<2>1. ASSUME NEW p \in People, Request(r, p) PROVE IInv'
  BY <2>1, RequestInv DEF Request
<2>. QED
  BY <1>2, <2>1, LookInv, SaveInv, CountUseInv, CancelInv DEF Booking
<1>3. ASSUME NEW r \in Rides, Completion(r) PROVE IInv'
  BY <1>3, ClaimInv, ApplyPromoInv, ApplyOfferInv, StoreInv, CleanUpInv DEF Completion
<1>4. ASSUME NEW r \in Rides, Effect(r) PROVE IInv'
  BY <1>4, RefundInv, LogCreditInv, CountRideInv, EarnInv, FailsInv DEF Effect
<1>5. CASE UNCHANGED vars
  BY <1>5, FrozenInv
<1>. QED
  BY <1>1, <1>2, <1>3, <1>4, <1>5, ReadPromoInv, SavePromoInv, BreaksInv, CrashInv DEF Next

\* The invariant holds in every state the handlers reach.
THEOREM DiscountsInvariance == Spec => []IInv
  BY InitInv, NextInv, PTL DEF Spec

\* Every variable holds a value of its type, and no ride costs less than nothing.
THEOREM DiscountsTypes == Spec => []TypeOK
<1>1. IInv => TypeOK
  BY DEF IInv
<1>. QED
  BY <1>1, DiscountsInvariance, PTL

\* A settled ride has given the driver what is due to him, and passenger and platform have
\* paid it; an earning or a credit whose INSERT failed is all that is missing.
THEOREM DriversAreMadeWhole == Spec => []DriverIsMadeWhole
<1>1. IInv => DriverIsMadeWhole
<2> SUFFICES ASSUME IInv, ~muddled, NEW r \in Rides, At(r, "over"), \A e \in Effects : <<r, e>> \notin fired
             PROVE  /\ earned[r] = Due(r) - Lost(r, "earn", Due(r))
                    /\ ride[r].pays >= 0 /\ credit[r] >= 0
                    /\ ride[r].pays + credit[r] = Due(r) - Lost(r, "credit", Absorbed(r))
  BY DEF DriverIsMadeWhole
<2> DEFINE j == ride[r]
           price == j.pays
           gift == j.discount
           whose == j.reason
           credited == credit[r]
           gross == earned[r]
           absorbed == Absorbed(r)
           due == Due(r)
           noEarning == Lost(r, "earn", due)
           noCredit == Lost(r, "credit", absorbed)
<2>1. /\ price \in 0 .. Fare /\ gift \in 0 .. Fare
      /\ whose \in {"", "promo", "company", "offer", "refused"}
  BY DEF IInv, TypeOK, Ride
<2>2. /\ credited = IF <<r, "credit">> \in lost THEN 0 ELSE absorbed
      /\ gross = IF <<r, "earn">> \in lost THEN 0 ELSE price + absorbed
  BY DEF IInv, MoneyOK, At, Effects
<2>3. /\ price + gift = Fare
      /\ whose \in {"", "refused"} => gift = 0
  BY DEF IInv, RideOK
<2>4. \/ absorbed = gift /\ due = Fare
      \/ absorbed = 0 /\ due = Fare - gift
      \/ absorbed = 0 /\ gift = 0 /\ due = Fare
  BY <2>1, <2>3 DEF Absorbed, Due
<2>5. /\ noEarning = IF <<r, "earn">> \in lost THEN due ELSE 0
      /\ noCredit = IF <<r, "credit">> \in lost THEN absorbed ELSE 0
  BY DEF Lost
<2> HIDE DEF j, price, gift, whose, credited, gross, absorbed, due, noEarning, noCredit
<2>6. Balanced(price, absorbed, due)
<3>1. Divided(price, gift, absorbed, due)
  BY <2>1, <2>3, <2>4 DEF Divided
<3>. QED
  BY <3>1, Balance
<2>7. gross = due - noEarning
<3>1. CASE <<r, "earn">> \in lost
  BY <2>2, <2>5, <2>6, <3>1 DEF Balanced
<3>2. CASE <<r, "earn">> \notin lost
  BY <2>2, <2>5, <2>6, <3>2 DEF Balanced
<3>. QED
  BY <3>1, <3>2
<2>8. price >= 0 /\ credited >= 0 /\ price + credited = due - noCredit
<3>1. CASE <<r, "credit">> \in lost
  BY <2>2, <2>5, <2>6, <3>1 DEF Balanced
<3>2. CASE <<r, "credit">> \notin lost
  BY <2>2, <2>5, <2>6, <3>2 DEF Balanced
<3>. QED
  BY <3>1, <3>2
<2>. QED
  BY <2>7, <2>8 DEF j, price, credited, gross, absorbed, due, noEarning, noCredit
<1>. QED
  BY <1>1, DiscountsInvariance, PTL

\* Whoever has ridden with a deleted account is remembered, unless the ride was counted late
\* or his identities could not be written.
THEOREM RidersAreKnown == Spec => []RidersAreRemembered
<1>1. IInv => RidersAreRemembered
  BY DEF IInv, MemoryInv
<1>. QED
  BY <1>1, DiscountsInvariance, PTL

\* Two rides of one account with the offer were completed together.
THEOREM OneOffer == Spec => []OneOfferPerAccount
<1>1. IInv => OneOfferPerAccount
  BY DEF IInv, OfferInv
<1>. QED
  BY <1>1, DiscountsInvariance, PTL

\* usedCount is the number of the rides that hold a use.
THEOREM UseCount == Spec => []UsesAreCounted
<1>1. IInv => UsesAreCounted
<2> SUFFICES ASSUME IInv, ~muddled, \A r \in Rides : ~At(r, "count") /\ <<r, "refund">> \notin fired
             PROVE  promo.used = Cardinality(Holders)
  BY DEF UsesAreCounted
<2>1. Holders = Counted
  BY DEF Holders, Booked, Counted, IsCounted, At
<2>. QED
  BY <2>1 DEF IInv, UseInv
<1>. QED
  BY <1>1, DiscountsInvariance, PTL

\* The limit is exceeded only by bookings that overlapped, by one use each.
THEOREM UseLimit == Spec => []LimitIsKept
<1>1. IInv => LimitIsKept
<2> SUFFICES ASSUME IInv, ~muddled
             PROVE  Cardinality(Holders) <= MaxUses + Cardinality(Holders \cap overlapped)
  BY DEF LimitIsKept
<2> DEFINE Twins == Holders \cap overlapped
<2>1. Holders \subseteq Passed \cup Twins /\ Twins \subseteq Rides /\ Holders \subseteq Rides
  BY DEF Holders, Booked, Passed, IsPassed
<2> HIDE DEF Twins
<2>2. IsFiniteSet(Twins) /\ IsFiniteSet(Passed) /\ Cardinality(Twins) \in Nat /\ Cardinality(Passed) \in Nat
  BY <2>1, UsesAreFinite, DiscountsAssumption, FS_Subset, FS_CardinalityType
<2>3. /\ IsFiniteSet(Passed \cup Twins) /\ Cardinality(Passed \cup Twins) \in Nat
      /\ Cardinality(Passed \cup Twins) <= Cardinality(Passed) + Cardinality(Twins)
<3>1. IsFiniteSet(Passed \cap Twins) /\ Cardinality(Passed \cap Twins) \in Nat
  BY <2>2, FS_Intersection, FS_CardinalityType
<3>2. IsFiniteSet(Passed \cup Twins) /\ Cardinality(Passed \cup Twins) = Cardinality(Passed) + Cardinality(Twins) - Cardinality(Passed \cap Twins)
  BY <2>2, FS_Union
<3>3. Cardinality(Passed \cup Twins) \in Nat
  BY <3>2, FS_CardinalityType
<3>. QED
  BY <2>2, <3>1, <3>2, <3>3
<2>4. Cardinality(Holders) <= Cardinality(Passed \cup Twins) /\ Cardinality(Holders) \in Nat
  BY <2>1, <2>3, FS_Subset, FS_CardinalityType
<2>. QED
  BY <2>2, <2>3, <2>4, Amounts DEF IInv, UseInv, Twins
<1>. QED
  BY <1>1, DiscountsInvariance, PTL
=============================================================================
