---------------------------- MODULE BooksProofs -----------------------------
(***************************************************************************)
(* Proofs about Books: types; that entries add up; that drivers lose no    *)
(* more than the discounts of cash rides; and that the pages of the        *)
(* finances match the wallet.                                              *)
(***************************************************************************)
EXTENDS Books, FiniteSetTheorems, WellFoundedInduction, TLAPS

\* What the assumption says of values.
LEMMA Values ==
  /\ None \notin Int /\ Shares \subseteq Nat /\ Deals \subseteq Nat /\ Fees \subseteq Nat /\ LegacyFee \in Nat
  /\ Prices \subseteq Nat /\ Worths \subseteq Nat /\ NewFares \subseteq Nat
  BY BooksAssumption

USE Values

(***************************************************************************)
(* The inductive invariant.  An entry is written for a completed ride, by  *)
(* a driver who has a company or not once and for all, and is classified   *)
(* as what was paid, once something is paid.  Its amount is the one noted, *)
(* with the roundings of the steps that wrote it.                          *)
(***************************************************************************)
Noted(r) ==
  IF entry[r].pct = None
  THEN entry[r].gross - SplitPart(entry[r].gross, OrZero(ride[r].commission))
         - (IF IsCard(r) THEN FeePart(ride[r].fare, Fee(r)) ELSE 0)
  ELSE SplitPart(entry[r].gross, entry[r].pct)

EntryOK(r) ==
  /\ ride[r].status = "in_progress" => entry[r] = None /\ ride[r].paid = "no" /\ fired[r] = {}
  /\ "mark" \in fired[r] => ride[r].paid # "no"
  /\ entry[r] # None =>
       /\ entry[r].pct = None <=> pct = None
       /\ entry[r].method \in {"pending", ride[r].paid}
       /\ entry[r].amount = Noted(r) \/ (pct = None /\ r \in feeless)

IInv == TypeOK /\ \A r \in Rides : EntryOK(r)
-----------------------------------------------------------------------------
\* A part of an amount is an amount, nothing of nothing is nothing, and the roundings in
\* doubles are those of Postgres or, for half a cent, one less.
LEMMA PartType ==
  ASSUME NEW a \in Int, NEW p \in Int
  PROVE  /\ Part(a, p) \in Int /\ SplitPart(a, p) \in Int /\ FeePart(a, p) \in Int /\ Tie(a, p) \in {0, 1}
         /\ Part(a, p) - SplitPart(a, p) \in 0 .. Tie(a, p)
         /\ Part(a, p) - FeePart(a, p) \in 0 .. Tie(a, p)
<1>1. a * p \in Int
  OBVIOUS
<1>2. Part(a, p) \in Int
  BY <1>1, SMT DEF Part
<1>3. Tie(a, p) \in {0, 1}
  BY DEF Tie
<1>4. ASSUME NEW down
      PROVE  Rounded(a, p, down) \in Int /\ Part(a, p) - Rounded(a, p, down) \in 0 .. Tie(a, p)
  <2>1. Rounded(a, p, down) \in {Part(a, p), Part(a, p) - Tie(a, p)}
    BY <1>2, <1>3 DEF Rounded
  <2>. QED
    BY <2>1, <1>2, <1>3
<1>. QED
  BY <1>2, <1>3, <1>4 DEF SplitPart, FeePart

LEMMA NoPart == Part(0, 0) = 0 /\ SplitPart(0, 0) = 0 /\ Tie(0, 0) = 0
<1>1. Part(0, 0) = 0 /\ Tie(0, 0) = 0
  BY SMT DEF Part, Tie
<1>. QED
  BY <1>1 DEF SplitPart, Rounded

\* A split of integers is one.
LEMMA SplitType ==
  ASSUME NEW gross \in Int, NEW driverPct \in Int \cup {None}, NEW commission \in Int \cup {None},
         NEW fee \in Int \cup {None}, NEW charged \in Int
  PROVE  LET s == SplitRide(gross, driverPct, commission, fee, charged) IN s.driver \in Int /\ s.platform \in Int
<1>1. OrZero(commission) \in Int /\ OrZero(fee) \in Int
  BY DEF OrZero
<1>2. SplitPart(gross, OrZero(commission)) \in Int /\ SplitPart(charged, OrZero(fee)) \in Int
  BY <1>1, PartType
<1>3. driverPct # None => SplitPart(gross, driverPct) \in Int
  BY PartType
<1>. QED
  BY <1>2, <1>3 DEF SplitRide
-----------------------------------------------------------------------------
\* What creditRide writes is the amount noted, for a pending entry.
LEMMA NewEntryOK ==
  ASSUME TypeOK, NEW r \in Rides, NEW gross \in Nat, NewEntry(r, gross) # None
  PROVE  LET e == NewEntry(r, gross) IN
         /\ e \in Entry /\ e.method = "pending" /\ e.pct = pct /\ e.gross = gross
         /\ e.amount = IF pct = None THEN gross - SplitPart(gross, OrZero(ride[r].commission)) ELSE SplitPart(gross, pct)
<1>1. pct \in Shares \cup {None} /\ ride[r] \in Ride
  BY DEF TypeOK
<1>2. ride[r].commission \in Deals \cup {None}
  BY <1>1 DEF Ride
<1>3. SplitRide(gross, pct, ride[r].commission, None, 0).driver \in Int
  <2>0. Shares \subseteq Int /\ Deals \subseteq Int
    OBVIOUS
  <2>1. pct \in Int \cup {None} /\ ride[r].commission \in Int \cup {None}
    BY <2>0, <1>1, <1>2, Zenon
  <2>2. gross \in Int /\ None \in Int \cup {None} /\ 0 \in Int
    OBVIOUS
  <2>. QED
    BY <2>1, <2>2, SplitType, Zenon
<1>4. /\ NewEntry(r, gross) = [amount |-> SplitRide(gross, pct, ride[r].commission, None, 0).driver,
                              gross |-> gross, pct |-> pct, method |-> "pending"]
  BY DEF NewEntry
<1>5. SplitRide(gross, pct, ride[r].commission, None, 0).driver =
        IF pct = None THEN gross - SplitPart(gross, OrZero(ride[r].commission)) ELSE SplitPart(gross, pct)
  <2>1. OrZero(ride[r].commission) \in Int
    <3>1. Deals \subseteq Int /\ 0 \in Int
      OBVIOUS
    <3>. QED
      BY <3>1, <1>2, Zenon DEF OrZero
  <2>2. SplitPart(gross, OrZero(ride[r].commission)) \in Int
    BY <2>1, PartType
  <2>3. OrZero(None) = 0
    BY DEF OrZero
  <2>4. gross - (SplitPart(gross, OrZero(ride[r].commission)) + 0) = gross - SplitPart(gross, OrZero(ride[r].commission))
    BY <2>2
  <2>. QED
    BY <2>3, <2>4, NoPart DEF SplitRide
<1>. QED
  BY <1>1, <1>3, <1>4, <1>5 DEF Entry

\* A ride whose row, entry and kind of driver stay as they are keeps its invariant.
LEMMA Kept ==
  ASSUME NEW r \in Rides, EntryOK(r), ride'[r] = ride[r], entry'[r] = entry[r],
         fired'[r] \subseteq fired[r] \/ (ride[r].status = "completed" /\ "mark" \notin fired'[r]),
         pct' = None <=> pct = None, feeless \subseteq feeless'
  PROVE  EntryOK(r)'
<1>1. Noted(r)' = Noted(r)
  BY DEF Noted, IsCard, Fee
<1>. QED
  BY <1>1 DEF EntryOK

\* A ride that gets a new entry.
LEMMA Written ==
  ASSUME TypeOK, NEW r \in Rides, NEW gross \in Nat,
         entry'[r] = NewEntry(r, gross), ride'[r].status = "completed",
         ride'[r].commission = ride[r].commission, pct' = pct,
         "mark" \in fired'[r] => ride'[r].paid # "no"
  PROVE  EntryOK(r)'
<1>1. CASE NewEntry(r, gross) = None
  BY <1>1 DEF EntryOK
<1>2. CASE NewEntry(r, gross) # None
  <2>1. /\ entry'[r].method = "pending" /\ entry'[r].pct = pct /\ entry'[r].gross = gross
        /\ entry'[r].amount = IF pct = None THEN gross - SplitPart(gross, OrZero(ride[r].commission)) ELSE SplitPart(gross, pct)
    BY <1>2, NewEntryOK
  <2>2. Noted(r)' = IF pct = None THEN gross - SplitPart(gross, OrZero(ride[r].commission)) ELSE SplitPart(gross, pct)
    <3>1. OrZero(ride[r].commission) \in Int
      <4>1. ride[r].commission \in Deals \cup {None} /\ Deals \subseteq Int /\ 0 \in Int
        BY DEF TypeOK, Ride
      <4>. QED
        BY <4>1, Zenon DEF OrZero
    <3>2. SplitPart(gross, OrZero(ride[r].commission)) \in Int
      BY <3>1, PartType
    <3>3. gross - SplitPart(gross, OrZero(ride[r].commission)) - 0 = gross - SplitPart(gross, OrZero(ride[r].commission))
      BY <3>2
    <3>. QED
      BY <2>1, <3>3 DEF Noted, IsCard
  <2>. QED
    BY <2>1, <2>2 DEF EntryOK
<1>. QED
  BY <1>1, <1>2

\* What happens is no longer to happen, and what is to happen to others stays.
LEMMA Happened ==
  ASSUME IInv, NEW r \in Rides, NEW e \in Effects, Happens(r, e)
  PROVE  /\ fired' \in [Rides -> SUBSET Effects] /\ \A s \in Rides : fired'[s] \subseteq fired[s]
         /\ ride[r].status = "completed" /\ (e = "mark" => ride[r].paid # "no")
<1>1. fired \in [Rides -> SUBSET Effects] /\ ride[r] \in Ride /\ EntryOK(r)
  BY DEF IInv, TypeOK
<1>2. fired' \in [Rides -> SUBSET Effects] /\ \A s \in Rides : fired'[s] \subseteq fired[s]
  BY <1>1 DEF Happens
<1>3. ride[r].status = "completed" /\ (e = "mark" => ride[r].paid # "no")
  BY <1>1 DEF Happens, EntryOK, Ride
<1>. QED
  BY <1>2, <1>3
-----------------------------------------------------------------------------
(***************************************************************************)
(* The steps.                                                              *)
(***************************************************************************)
LEMMA InitInv ==
  ASSUME Init
  PROVE  IInv
<1>1. ride \in [Rides -> Ride]
  BY DEF Init, Ride
<1>2. TypeOK
  <2>1. credit \in [Rides -> Nat] /\ entry \in [Rides -> Entry \cup {None}]
    BY DEF Init
  <2>2. fired \in [Rides -> SUBSET Effects]
    BY DEF Init
  <2>3. changes \in 0 .. MaxChanges /\ faults \in 0 .. MaxFaults
    BY BooksAssumption DEF Init
  <2>. QED
    BY <1>1, <2>1, <2>2, <2>3 DEF Init, TypeOK
<1>3. \A r \in Rides : EntryOK(r)
  BY DEF Init, EntryOK
<1>. QED
  BY <1>2, <1>3 DEF IInv

LEMMA CompleteInv ==
  ASSUME IInv, NEW r \in Rides, NEW price \in Prices, NEW worth \in Worths, Complete(r, price, worth)
  PROVE  IInv'
<1>1. TypeOK /\ \A s \in Rides : EntryOK(s)
  BY DEF IInv
<1>2. Discount(price, worth) \in Nat /\ price - Discount(price, worth) \in Nat
  BY DEF Discount
<1>3. ride' \in [Rides -> Ride] /\ \A s \in Rides \ {r} : ride'[s] = ride[s]
  <2>1. ride[r] \in Ride /\ deal \in Deals \cup {None}
    BY <1>1 DEF TypeOK
  <2>2. ride'[r] = [ride[r] EXCEPT !.status = "completed", !.fare = price - Discount(price, worth),
                                   !.discount = Discount(price, worth), !.commission = deal]
    BY <1>1 DEF Complete, TypeOK
  <2>3. ride'[r] \in Ride
    BY <1>2, <2>1, <2>2 DEF Ride
  <2>. QED
    BY <1>1, <2>3 DEF Complete, TypeOK
<1>4. TypeOK'
  BY <1>1, <1>3 DEF Complete, TypeOK, Effects, rates
<1>5. ASSUME NEW s \in Rides
      PROVE  EntryOK(s)'
  <2>1. CASE s = r
    <3>1. ride[r].paid = "no" /\ entry[r] = None
      BY <1>1 DEF Complete, EntryOK
    <3>2. entry'[r] = None /\ ride'[r].status = "completed"
      BY <3>1, <1>1 DEF Complete, TypeOK, Ride
    <3>3. "mark" \notin fired'[r]
      BY <1>1 DEF Complete, TypeOK
    <3>. QED
      BY <2>1, <3>2, <3>3 DEF EntryOK
  <2>2. CASE s # r
    BY <2>2, <1>1, <1>3, <1>5, Kept DEF Complete, rates
  <2>. QED
    BY <2>1, <2>2
<1>. QED
  BY <1>4, <1>5 DEF IInv

LEMMA EditFareInv ==
  ASSUME IInv, NEW r \in Rides, NEW fare \in NewFares, EditFare(r, fare)
  PROVE  IInv'
<1>1. TypeOK /\ \A s \in Rides : EntryOK(s)
  BY DEF IInv
<1>2. ride' \in [Rides -> Ride] /\ \A s \in Rides \ {r} : ride'[s] = ride[s]
  <2>1. ride[r] \in Ride
    BY <1>1 DEF TypeOK
  <2>2. ride'[r] = [ride[r] EXCEPT !.status = "completed", !.fare = fare]
    BY <1>1 DEF EditFare, TypeOK
  <2>3. ride'[r] \in Ride
    BY <2>1, <2>2 DEF Ride
  <2>. QED
    BY <1>1, <2>3 DEF EditFare, TypeOK
<1>3. NewEntry(r, fare) \in Entry \cup {None}
  BY <1>1, NewEntryOK
<1>4. TypeOK'
  BY <1>1, <1>2, <1>3 DEF EditFare, TypeOK, rates
<1>5. ASSUME NEW s \in Rides
      PROVE  EntryOK(s)'
  <2>1. CASE s = r
    <3>1. /\ entry'[r] = NewEntry(r, fare) /\ ride'[r].status = "completed"
          /\ ride'[r].commission = ride[r].commission /\ pct' = pct /\ fare \in Nat
      BY <1>1 DEF EditFare, TypeOK, Ride, rates
    <3>2. "mark" \notin fired'[r]
      BY <1>1 DEF EditFare, EntryOK
    <3>. QED
      BY <2>1, <3>1, <3>2, <1>1, Written
  <2>2. CASE s # r
    BY <2>2, <1>1, <1>2, <1>5, Kept DEF EditFare, TypeOK, rates
  <2>. QED
    BY <2>1, <2>2
<1>. QED
  BY <1>4, <1>5 DEF IInv

LEMMA EditFareFailsInv ==
  ASSUME IInv, NEW r \in Rides, NEW fare \in NewFares, EditFareFails(r, fare)
  PROVE  IInv'
<1>1. TypeOK /\ \A s \in Rides : EntryOK(s)
  BY DEF IInv
<1>2. /\ ride' \in [Rides -> Ride] /\ \A s \in Rides \ {r} : ride'[s] = ride[s]
      /\ ride'[r] = [ride[r] EXCEPT !.status = "completed", !.fare = fare]
  <2>1. ride[r] \in Ride
    BY <1>1 DEF TypeOK
  <2>2. ride'[r] = [ride[r] EXCEPT !.status = "completed", !.fare = fare]
    BY <1>1 DEF EditFareFails, TypeOK
  <2>3. ride'[r] \in Ride
    BY <2>1, <2>2 DEF Ride
  <2>. QED
    BY <1>1, <2>2, <2>3 DEF EditFareFails, TypeOK
<1>3. /\ entry' \in [Rides -> Entry \cup {None}] /\ \A s \in Rides \ {r} : entry'[s] = entry[s]
      /\ entry'[r] \in {entry[r], None}
  BY <1>1 DEF EditFareFails, TypeOK
<1>4. /\ fired' = fired /\ pct' = pct /\ deal' = deal /\ cardFee' = cardFee /\ credit' = credit /\ booting' = booting
      /\ changes' = changes /\ forgotten' = forgotten \cup {r} /\ feeless' = feeless
  BY DEF EditFareFails, rates
<1>5. faults' \in 0 .. MaxFaults
  BY <1>1, BooksAssumption DEF EditFareFails, TypeOK
<1>6. TypeOK'
  BY <1>1, <1>2, <1>3, <1>4, <1>5 DEF TypeOK
<1>7. ASSUME NEW s \in Rides
      PROVE  EntryOK(s)'
  <2>1. CASE s = r
    <3>1. /\ ride'[r].status = "completed" /\ ride'[r].commission = ride[r].commission
          /\ ride'[r].cardFee = ride[r].cardFee /\ ride'[r].paid = ride[r].paid
      BY <1>1, <1>2 DEF TypeOK, Ride
    <3>2. EntryOK(r) /\ ride[r].paid = "no"
      BY <1>1 DEF EditFareFails
    <3>3. CASE entry'[r] = None
      BY <2>1, <3>1, <3>2, <3>3, <1>4 DEF EntryOK
    <3>4. CASE entry'[r] # None
      <4>1. entry'[r] = entry[r] /\ entry[r] # None
        BY <1>3, <3>4
      <4>2. entry[r].method = "pending"
        BY <3>2, <4>1 DEF EntryOK, TypeOK, Entry, IInv
      <4>3. Noted(r)' = Noted(r)
        BY <3>1, <4>1, <4>2 DEF Noted, IsCard
      <4>. QED
        BY <2>1, <3>1, <3>2, <4>1, <4>2, <4>3, <1>4 DEF EntryOK
    <3>. QED
      BY <3>3, <3>4
  <2>2. CASE s # r
    BY <2>2, <1>1, <1>2, <1>3, <1>4, Kept
  <2>. QED
    BY <2>1, <2>2
<1>. QED
  BY <1>6, <1>7 DEF IInv

LEMMA PayInv ==
  ASSUME IInv, NEW r \in Rides, NEW method \in {"cash", "card"}, Pay(r, method)
  PROVE  IInv'
<1>1. TypeOK /\ \A s \in Rides : EntryOK(s)
  BY DEF IInv
<1>2. ride' \in [Rides -> Ride] /\ \A s \in Rides \ {r} : ride'[s] = ride[s]
  BY <1>1 DEF Pay, TypeOK, Ride
<1>3. TypeOK'
  BY <1>1, <1>2 DEF Pay, TypeOK, Effects, rates
<1>4. ASSUME NEW s \in Rides
      PROVE  EntryOK(s)'
  <2>1. CASE s = r
    <3>1. /\ entry' = entry /\ pct' = pct /\ feeless' = feeless /\ ride'[r].status = "completed"
          /\ ride'[r].commission = ride[r].commission /\ ride'[r].cardFee = ride[r].cardFee
          /\ ride'[r].fare = ride[r].fare /\ ride'[r].paid # "no"
      BY <1>1 DEF Pay, TypeOK, Ride, rates
    <3>2. entry[r] # None => entry[r].method = "pending"
      BY <1>1 DEF Pay, EntryOK, TypeOK, Entry
    <3>3. Noted(r)' = Noted(r)
      BY <3>1 DEF Noted, IsCard, Fee
    <3>. QED
      BY <2>1, <3>1, <3>2, <3>3, <1>1 DEF EntryOK
  <2>2. CASE s # r
    BY <2>2, <1>1, <1>2, <1>4, Kept DEF Pay, rates
  <2>. QED
    BY <2>1, <2>2
<1>. QED
  BY <1>3, <1>4 DEF IInv

LEMMA LogCreditInv ==
  ASSUME IInv, NEW r \in Rides, LogCredit(r)
  PROVE  IInv'
<1>1. TypeOK /\ \A s \in Rides : EntryOK(s)
  BY DEF IInv
<1>2. fired' \in [Rides -> SUBSET Effects] /\ \A s \in Rides : fired'[s] \subseteq fired[s]
  BY Happened DEF LogCredit, Effects
<1>3. credit' \in [Rides -> Nat]
  BY <1>1 DEF LogCredit, TypeOK, Ride
<1>4. TypeOK'
  BY <1>1, <1>2, <1>3 DEF LogCredit, TypeOK, rates
<1>5. ASSUME NEW s \in Rides
      PROVE  EntryOK(s)'
  <2>1. ride' = ride /\ entry' = entry /\ pct' = pct /\ feeless' = feeless
    BY DEF LogCredit, rates
  <2>. QED
    BY <2>1, <1>1, <1>2, Kept
<1>. QED
  BY <1>4, <1>5 DEF IInv

\* An entry that creditRide writes, for a completion or for the backfill.
LEMMA EntryInv ==
  ASSUME IInv, NEW r \in Rides, Credit(r) \/ BackfillCredit(r)
  PROVE  IInv'
<1>1. TypeOK /\ \A s \in Rides : EntryOK(s)
  BY DEF IInv
<1>2. PICK gross \in Nat : entry' = [entry EXCEPT ![r] = NewEntry(r, gross)]
  BY <1>1 DEF Credit, BackfillCredit, TypeOK, Ride
<1>3. /\ ride' = ride /\ pct' = pct /\ deal' = deal /\ cardFee' = cardFee /\ credit' = credit /\ booting' = booting
      /\ changes' = changes /\ faults' = faults /\ forgotten' = forgotten /\ feeless' = feeless
  BY DEF Credit, BackfillCredit, rates
<1>7. /\ fired' \in [Rides -> SUBSET Effects] /\ \A s \in Rides : fired'[s] \subseteq fired[s]
      /\ ride[r].status = "completed"
  BY Happened DEF Credit, BackfillCredit, Effects
<1>4. NewEntry(r, gross) \in Entry \cup {None}
  BY <1>1, NewEntryOK
<1>5. TypeOK'
  BY <1>1, <1>2, <1>3, <1>4, <1>7 DEF TypeOK
<1>6. ASSUME NEW s \in Rides
      PROVE  EntryOK(s)'
  <2>1. CASE s = r
    <3>1. entry'[r] = NewEntry(r, gross) /\ ride'[r] = ride[r]
      BY <1>1, <1>2, <1>3 DEF TypeOK
    <3>2. "mark" \in fired'[r] => ride[r].paid # "no"
      BY <1>1, <1>7 DEF EntryOK
    <3>. QED
      BY <2>1, <3>1, <3>2, <1>1, <1>3, <1>7, Written
  <2>2. CASE s # r
    BY <2>2, <1>1, <1>2, <1>3, <1>7, Kept DEF TypeOK
  <2>. QED
    BY <2>1, <2>2
<1>. QED
  BY <1>5, <1>6 DEF IInv

LEMMA MarkInv ==
  ASSUME IInv, NEW r \in Rides, Mark(r)
  PROVE  IInv'
<1>1. TypeOK /\ \A s \in Rides : EntryOK(s)
  BY DEF IInv
<1>2. /\ fired' \in [Rides -> SUBSET Effects] /\ \A s \in Rides : fired'[s] \subseteq fired[s]
      /\ ride[r].status = "completed" /\ ride[r].paid # "no"
  BY Happened DEF Mark, Effects
<1>3. /\ pct' = pct /\ deal' = deal /\ cardFee' = cardFee /\ credit' = credit /\ booting' = booting
      /\ changes' = changes /\ faults' = faults /\ forgotten' = forgotten /\ feeless' = feeless
  BY DEF Mark, rates
<1>4. CASE entry[r] = None
  <2>1. ride' = ride /\ entry' = entry
    BY <1>4 DEF Mark
  <2>2. TypeOK'
    BY <2>1, <1>1, <1>2, <1>3 DEF TypeOK
  <2>3. \A s \in Rides : EntryOK(s)'
    BY <2>1, <1>1, <1>2, <1>3, Kept
  <2>. QED
    BY <2>2, <2>3 DEF IInv
<1>5. CASE entry[r] # None
  <2> DEFINE charges == ride[r].paid = "card" /\ entry[r].method # "card"
             fee == FeePart(ride[r].fare, FeeOf(r))
  <2>1. ride[r] \in Ride /\ entry[r] \in Entry /\ FeeOf(r) \in Fees
    BY <1>1, <1>5 DEF TypeOK, Ride, FeeOf
  <2>2. fee \in Int
    <3>1. FeeOf(r) \in Int
      BY <2>1, Fees \subseteq Int, Zenon
    <3>2. ride[r].fare \in Int
      BY <2>1 DEF Ride
    <3>. QED
      BY <3>1, <3>2, PartType
  <2>3. ride'[r] = IF charges THEN [ride[r] EXCEPT !.cardFee = FeeOf(r)] ELSE ride[r]
    BY <1>1, <1>5 DEF Mark, TypeOK
  <2>4. entry'[r] = [entry[r] EXCEPT !.method = ride[r].paid,
                                     !.amount = IF charges /\ pct = None THEN entry[r].amount - fee ELSE entry[r].amount]
    BY <1>1, <1>5 DEF Mark, TypeOK
  <2>5. /\ \A s \in Rides \ {r} : ride'[s] = ride[s] /\ entry'[s] = entry[s]
        /\ DOMAIN ride' = Rides /\ DOMAIN entry' = Rides
    BY <1>1, <1>5 DEF Mark, TypeOK
  <2>6. ride'[r] \in Ride
    BY <2>1, <2>3 DEF Ride
  <2>7. entry'[r] \in Entry
    <3>1. ride[r].paid \in {"pending", "cash", "card"}
      BY <1>2, <2>1 DEF Ride
    <3>2. entry[r].amount \in Int /\ entry[r].amount - fee \in Int
      BY <2>1, <2>2 DEF Entry
    <3>. QED
      BY <3>1, <3>2, <2>1, <2>4 DEF Entry
  <2>8. ride' \in [Rides -> Ride] /\ entry' \in [Rides -> Entry \cup {None}]
    <3>1. ride' = [s \in Rides |-> ride'[s]] /\ entry' = [s \in Rides |-> entry'[s]]
      BY <1>1, <1>5 DEF Mark, TypeOK
    <3>2. \A s \in Rides : ride'[s] \in Ride /\ entry'[s] \in Entry \cup {None}
      BY <1>1, <2>5, <2>6, <2>7 DEF TypeOK
    <3>. QED
      BY <3>1, <3>2
  <2>9. TypeOK'
    BY <2>8, <1>1, <1>2, <1>3 DEF TypeOK
  <2>10. EntryOK(r)'
    <3>1. /\ entry'[r].pct = entry[r].pct /\ entry'[r].gross = entry[r].gross /\ entry'[r].method = ride[r].paid
          /\ entry'[r].amount = IF charges /\ pct = None THEN entry[r].amount - fee ELSE entry[r].amount
          /\ ride'[r].commission = ride[r].commission /\ ride'[r].fare = ride[r].fare
          /\ ride'[r].paid = ride[r].paid /\ ride'[r].status = "completed"
          /\ ride'[r].cardFee = IF charges THEN FeeOf(r) ELSE ride[r].cardFee
      BY <1>2, <2>1, <2>3, <2>4 DEF Entry, Ride
    <3>2. EntryOK(r) /\ ride[r].paid \in {"cash", "card"} /\ (pct = None <=> entry[r].pct = None)
      BY <1>1, <1>2, <1>5, <2>1 DEF Ride, EntryOK
    <3>3. entry[r].amount = Noted(r) \/ (pct = None /\ r \in feeless)
      BY <3>2, <1>5 DEF EntryOK
    <3>4. CASE ~charges
      <4>1. Noted(r)' = Noted(r)
        BY <3>1, <3>2, <3>4, <1>5 DEF Noted, IsCard, Fee, EntryOK
      <4>. QED
        BY <4>1, <3>1, <3>2, <3>3, <3>4, <1>2, <1>3 DEF EntryOK
    <3>5. CASE charges
      <4> DEFINE g == entry[r].gross
                 c == OrZero(ride[r].commission)
      <4>1. FeeOf(r) # None /\ FeeOf(r) \in Int /\ g \in Int /\ entry[r].amount \in Int
        <5>1. FeeOf(r) \in Int
          BY <2>1, Fees \subseteq Int, Zenon
        <5>2. g \in Int /\ entry[r].amount \in Int
          BY <2>1 DEF Entry
        <5>. QED
          BY <5>1, <5>2, None \notin Int
      <4>2. ride[r].commission \in Deals \cup {None} /\ entry[r].pct \in Shares \cup {None}
        BY <2>1 DEF Ride, Entry
      <4>3. c \in Int
        BY <4>2, Deals \subseteq Int, 0 \in Int, Zenon DEF OrZero
      <4>4. SplitPart(g, c) \in Int
        BY <4>1, <4>3, PartType
      <4>5. Noted(r) = IF entry[r].pct = None THEN g - SplitPart(g, c) - 0 ELSE SplitPart(g, entry[r].pct)
        BY <3>5 DEF Noted, IsCard
      <4>6. Noted(r)' = IF entry[r].pct = None THEN g - SplitPart(g, c) - fee ELSE SplitPart(g, entry[r].pct)
        BY <3>1, <3>5, <4>1 DEF Noted, IsCard, Fee
      <4>7. entry'[r].amount = Noted(r)' \/ (pct = None /\ r \in feeless)
        BY <3>1, <3>2, <3>3, <3>5, <4>1, <4>4, <4>5, <4>6, <2>2
      <4>. QED
        BY <4>7, <3>1, <3>2, <3>5, <1>2, <1>3 DEF EntryOK
    <3>. QED
      BY <3>4, <3>5
  <2>11. ASSUME NEW s \in Rides \ {r}
         PROVE  EntryOK(s)'
    BY <2>5, <1>1, <1>2, <1>3, Kept
  <2>. QED
    BY <2>9, <2>10, <2>11 DEF IInv
<1>. QED
  BY <1>4, <1>5

LEMMA FailsInv ==
  ASSUME IInv, NEW r \in Rides, NEW e \in Effects, Fails(r, e)
  PROVE  IInv'
<1>1. TypeOK /\ \A s \in Rides : EntryOK(s)
  BY DEF IInv
<1>2. fired' \in [Rides -> SUBSET Effects] /\ \A s \in Rides : fired'[s] \subseteq fired[s]
  BY Happened DEF Fails
<1>3. /\ entry' = entry /\ pct' = pct /\ deal' = deal /\ cardFee' = cardFee /\ credit' = credit /\ booting' = booting
      /\ changes' = changes /\ forgotten' = forgotten \cup {r} /\ feeless' = feeless
  BY DEF Fails, rates
<1>4. faults' \in 0 .. MaxFaults
  BY <1>1, BooksAssumption DEF Fails, TypeOK
<1>5. CASE ride' = ride
  <2>1. TypeOK'
    BY <1>1, <1>2, <1>3, <1>4, <1>5 DEF TypeOK
  <2>2. \A s \in Rides : EntryOK(s)'
    BY <1>1, <1>2, <1>3, <1>5, Kept
  <2>. QED
    BY <2>1, <2>2 DEF IInv
<1>6. CASE entry[r] # None /\ entry[r].method # "card" /\ ride' = [ride EXCEPT ![r].cardFee = FeeOf(r)]
  <2>1. ride[r] \in Ride /\ FeeOf(r) \in Fees
    BY <1>1 DEF TypeOK, Ride, FeeOf
  <2>2. /\ ride'[r] = [ride[r] EXCEPT !.cardFee = FeeOf(r)] /\ \A s \in Rides \ {r} : ride'[s] = ride[s]
        /\ ride'[r] \in Ride
    <3>1. ride'[r] = [ride[r] EXCEPT !.cardFee = FeeOf(r)] /\ \A s \in Rides \ {r} : ride'[s] = ride[s]
      BY <1>1, <1>6 DEF TypeOK
    <3>. QED
      BY <3>1, <2>1 DEF Ride
  <2>3. ride' \in [Rides -> Ride]
    BY <1>1, <1>6, <2>2 DEF TypeOK
  <2>4. TypeOK'
    BY <1>1, <1>2, <1>3, <1>4, <2>3 DEF TypeOK
  <2>5. EntryOK(r)'
    <3>1. /\ ride'[r].status = ride[r].status /\ ride'[r].commission = ride[r].commission
          /\ ride'[r].paid = ride[r].paid
      BY <2>1, <2>2 DEF Ride
    <3>2. Noted(r)' = Noted(r)
      BY <1>3, <1>6, <3>1 DEF Noted, IsCard
    <3>. QED
      BY <1>1, <1>2, <1>3, <3>1, <3>2 DEF EntryOK
  <2>6. ASSUME NEW s \in Rides \ {r}
        PROVE  EntryOK(s)'
    BY <2>2, <1>1, <1>2, <1>3, Kept
  <2>. QED
    BY <2>4, <2>5, <2>6 DEF IInv
<1>. QED
  BY <1>5, <1>6 DEF Fails

LEMMA RestartInv ==
  ASSUME IInv, Restart
  PROVE  IInv'
<1>1. TypeOK /\ \A s \in Rides : EntryOK(s)
  BY DEF IInv
<1>2. \A s \in Rides : fired'[s] = IF Orphan(s) THEN {"backfill"} ELSE {}
  BY DEF Restart
<1>3. fired' \in [Rides -> SUBSET Effects]
  BY DEF Restart, Effects
<1>4. faults' \in 0 .. MaxFaults
  BY <1>1, BooksAssumption DEF Restart, TypeOK
<1>5. TypeOK'
  BY <1>1, <1>3, <1>4 DEF Restart, TypeOK, rates
<1>6. ASSUME NEW s \in Rides
      PROVE  EntryOK(s)'
  <2>1. fired'[s] \subseteq fired[s] \/ (ride[s].status = "completed" /\ "mark" \notin fired'[s])
    BY <1>2 DEF Orphan
  <2>. QED
    BY <2>1, <1>1, Kept DEF Restart, rates
<1>. QED
  BY <1>5, <1>6 DEF IInv

LEMMA BackfillMethodsInv ==
  ASSUME IInv, BackfillMethods
  PROVE  IInv'
<1>1. TypeOK /\ \A s \in Rides : EntryOK(s)
  BY DEF IInv
<1>2. ASSUME NEW s \in Rides
      PROVE  entry'[s] \in Entry \cup {None} /\ EntryOK(s)'
  <2> DEFINE resolved == entry[s] # None /\ entry[s].method = "pending" /\ ride[s].paid # "no"
  <2>1. CASE ~resolved
    <3>1. entry'[s] = entry[s] /\ ride' = ride /\ fired' = fired /\ pct' = pct /\ feeless \subseteq feeless'
      BY <2>1 DEF BackfillMethods, rates
    <3>. QED
      BY <3>1, <1>1, Kept DEF TypeOK
  <2>2. CASE resolved
    <3>1. /\ entry'[s] = [entry[s] EXCEPT !.method = ride[s].paid] /\ ride' = ride /\ fired' = fired
          /\ pct' = pct /\ feeless' = feeless \cup {q \in Rides : /\ entry[q] # None /\ entry[q].method = "pending"
                                                              /\ ride[q].paid # "no" /\ ride[q].paid = "card"}
      BY <2>2 DEF BackfillMethods, rates
    <3>2. entry[s] \in Entry /\ ride[s] \in Ride /\ EntryOK(s)
      BY <1>1, <2>2 DEF TypeOK
    <3>3. ride[s].paid \in {"cash", "card"}
      BY <3>2, <2>2 DEF Ride
    <3>4. /\ entry'[s] \in Entry /\ entry'[s].method = ride[s].paid /\ entry'[s].pct = entry[s].pct
          /\ entry'[s].gross = entry[s].gross /\ entry'[s].amount = entry[s].amount
      BY <3>1, <3>2, <3>3 DEF Entry
    <3>5. CASE ride[s].paid = "cash"
      <4>1. Noted(s)' = Noted(s)
        BY <3>1, <3>4, <3>5, <2>2 DEF Noted, IsCard, Fee
      <4>. QED
        BY <4>1, <3>1, <3>2, <3>3, <3>4, <2>2 DEF EntryOK
    <3>6. CASE ride[s].paid = "card" /\ pct = None
      BY <3>1, <3>2, <3>4, <3>6, <2>2 DEF EntryOK
    <3>7. CASE ride[s].paid = "card" /\ pct # None
      <4>1. entry[s].pct # None
        BY <3>2, <3>7, <2>2 DEF EntryOK
      <4>2. Noted(s) = SplitPart(entry[s].gross, entry[s].pct)
        BY <4>1 DEF Noted
      <4>3. Noted(s)' = SplitPart(entry[s].gross, entry[s].pct)
        BY <4>1, <3>4 DEF Noted
      <4>. QED
        BY <4>2, <4>3, <3>1, <3>2, <3>4, <3>7, <2>2 DEF EntryOK
    <3>. QED
      BY <3>3, <3>4, <3>5, <3>6, <3>7
  <2>. QED
    BY <2>1, <2>2
<1>3. entry' \in [Rides -> Entry \cup {None}]
  <2>1. entry' = [s \in Rides |-> entry'[s]]
    BY DEF BackfillMethods
  <2>. QED
    BY <2>1, <1>2
<1>4. feeless' \subseteq Rides
  BY <1>1 DEF BackfillMethods, TypeOK
<1>5. TypeOK'
  BY <1>1, <1>3, <1>4 DEF BackfillMethods, TypeOK, rates
<1>. QED
  BY <1>2, <1>5 DEF IInv

LEMMA RatesInv ==
  ASSUME IInv, Rates
  PROVE  IInv'
<1>1. TypeOK /\ \A s \in Rides : EntryOK(s)
  BY DEF IInv
<1>2. /\ ride' = ride /\ credit' = credit /\ entry' = entry /\ fired' = fired /\ booting' = booting
      /\ faults' = faults /\ forgotten' = forgotten /\ feeless' = feeless
      /\ changes < MaxChanges /\ changes' = changes + 1
  BY DEF Rates, SetDriverPct, SetContract, SetCardFee, Change, books
<1>3. pct' \in Shares \cup {None} /\ (pct' = None <=> pct = None)
  <2>1. None \notin Shares
    BY None \notin Int, Shares \subseteq Int, Zenon
  <2>. QED
    BY <2>1, <1>1, Zenon DEF Rates, SetDriverPct, SetContract, SetCardFee, TypeOK
<1>4. deal' \in Deals \cup {None} /\ cardFee' \in Fees
  BY <1>1, Zenon DEF Rates, SetDriverPct, SetContract, SetCardFee, TypeOK
<1>5. changes' \in 0 .. MaxChanges
  BY <1>1, <1>2, BooksAssumption DEF TypeOK
<1>6. TypeOK'
  BY <1>1, <1>2, <1>3, <1>4, <1>5 DEF TypeOK
<1>7. \A s \in Rides : EntryOK(s)'
  BY <1>1, <1>2, <1>3, Kept
<1>. QED
  BY <1>6, <1>7 DEF IInv

LEMMA StutteringInv ==
  ASSUME IInv, UNCHANGED vars
  PROVE  IInv'
<1>1. TypeOK'
  BY DEF IInv, TypeOK, vars, rates, books
<1>2. \A s \in Rides : EntryOK(s)'
  BY Kept DEF IInv, vars, rates, books
<1>. QED
  BY <1>1, <1>2 DEF IInv

LEMMA NextInv ==
  ASSUME IInv, Next
  PROVE  IInv'
<1>1. ASSUME NEW r \in Rides, Handler(r)
      PROVE  IInv'
  BY <1>1, CompleteInv, EditFareInv, EditFareFailsInv, PayInv DEF Handler
<1>2. ASSUME NEW r \in Rides, Effect(r)
      PROVE  IInv'
  BY <1>2, LogCreditInv, EntryInv, MarkInv, FailsInv DEF Effect
<1>. QED
  BY <1>1, <1>2, RestartInv, BackfillMethodsInv, RatesInv DEF Next

\* What entries say of rides and of their driver is an invariant.
THEOREM BooksInvariance == Spec => []IInv
<1>1. IInv /\ [Next]_vars => IInv'
  BY NextInv, StutteringInv
<1>. QED
  BY InitInv, <1>1, PTL DEF Spec

\* Every variable holds a value of its type: nobody ever pays less than nothing, whatever
\* a discount is worth, and an entry is pending until something has been paid.
THEOREM BooksTypes == Spec => []TypeOK
<1>1. IInv => TypeOK
  BY DEF IInv
<1>. QED
  BY BooksInvariance, <1>1, PTL

\* Entries add up, for all percentages, fees, prices and discounts, and for all half cents
\* that doubles round down: the breakdown that toDto computes anew gives the driver what the
\* entry holds, but for a cent where the fee of a solo driver's card ride is half a cent.
THEOREM EntriesAreSums == Spec => []EntriesAddUp
<1>1. ASSUME IInv, NEW r \in Rides, entry[r] # None, entry[r].amount = Noted(r)
      PROVE  Within(entry[r].amount, Breakdown(r).driver, IF pct = None THEN FeeTie(r) ELSE 0)
  <2>1. ride[r] \in Ride /\ entry[r] \in Entry /\ (entry[r].pct = None <=> pct = None)
    BY <1>1 DEF IInv, TypeOK, EntryOK
  <2>2. /\ ride[r].commission \in Deals \cup {None} /\ ride[r].cardFee \in Fees \cup {None}
        /\ entry[r].gross \in Int /\ ride[r].fare \in Int /\ entry[r].amount \in Int
    BY <2>1 DEF Ride, Entry
  <2>3. OrZero(ride[r].commission) \in Int /\ Fee(r) \in Int /\ Fee(r) # None
    BY <2>2, Deals \subseteq Int, Fees \subseteq Int, LegacyFee \in Int, 0 \in Int, Zenon DEF Fee, OrZero
  <2> DEFINE kept == SplitPart(entry[r].gross, OrZero(ride[r].commission))
             fee == IF IsCard(r) THEN Fee(r) ELSE None
             charged == IF IsCard(r) THEN ride[r].fare ELSE 0
  <2>4. kept \in Int
    BY <2>2, <2>3, PartType
  <2>5. Breakdown(r) = SplitRide(entry[r].gross, entry[r].pct, ride[r].commission, fee, charged)
    BY DEF Breakdown
  <2>6. CASE pct # None
    <3>1. entry[r].amount = Breakdown(r).driver
      BY <1>1, <2>1, <2>5, <2>6 DEF Noted, SplitRide
    <3>. QED
      BY <3>1, <2>2, <2>6 DEF Within
  <2>7. CASE pct = None /\ ~IsCard(r)
    <3>1. Breakdown(r).driver = entry[r].gross - (kept + 0)
      BY <2>1, <2>5, <2>7, NoPart DEF SplitRide, OrZero
    <3>2. entry[r].amount = entry[r].gross - kept - 0
      BY <1>1, <2>1, <2>7 DEF Noted
    <3>. QED
      BY <3>1, <3>2, <2>2, <2>4, <2>7 DEF Within, FeeTie
  <2>8. CASE pct = None /\ IsCard(r)
    <3>1. PICK a \in Int, b \in Int, t \in {0, 1} :
            /\ a = SplitPart(ride[r].fare, Fee(r)) /\ b = FeePart(ride[r].fare, Fee(r)) /\ t = FeeTie(r)
            /\ a - b \in -t .. t
      <4>1. /\ SplitPart(ride[r].fare, Fee(r)) \in Int /\ FeePart(ride[r].fare, Fee(r)) \in Int
            /\ Part(ride[r].fare, Fee(r)) \in Int /\ FeeTie(r) \in {0, 1}
            /\ Part(ride[r].fare, Fee(r)) - SplitPart(ride[r].fare, Fee(r)) \in 0 .. FeeTie(r)
            /\ Part(ride[r].fare, Fee(r)) - FeePart(ride[r].fare, Fee(r)) \in 0 .. FeeTie(r)
        BY <2>2, <2>3, <2>8, PartType DEF FeeTie
      <4>. QED
        BY <4>1
    <3>2. Breakdown(r).driver = entry[r].gross - (kept + a)
      BY <3>1, <2>1, <2>3, <2>5, <2>8 DEF SplitRide, OrZero
    <3>3. entry[r].amount = entry[r].gross - kept - b
      BY <1>1, <3>1, <2>1, <2>8 DEF Noted
    <3>. QED
      BY <3>1, <3>2, <3>3, <2>2, <2>4, <2>8 DEF Within
  <2>. QED
    BY <2>6, <2>7, <2>8
<1>2. IInv => EntriesAddUp
  BY <1>1 DEF IInv, EntryOK, EntriesAddUp
<1>. QED
  BY BooksInvariance, <1>2, PTL
-----------------------------------------------------------------------------
(***************************************************************************)
(* The discount of a ride is with the platform's credits and in the gross  *)
(* fare of its entry, or still to get there, or forgotten.                 *)
(***************************************************************************)
Discounted(r) ==
  /\ ride[r].status = "in_progress" => ride[r].discount = 0 /\ credit[r] = 0
  /\ credit[r] \in {0, ride[r].discount}
  /\ r \in forgotten \/ "log" \in fired[r] \/ credit[r] = ride[r].discount
  /\ "backfill" \in fired[r] => ride[r].discount = 0 \/ r \in forgotten
  /\ entry[r] # None => entry[r].gross = ride[r].fare + ride[r].discount \/ r \in forgotten

DiscountsKnown == \A r \in Rides : Discounted(r)

\* A ride whose row, credit and gross fare stay as they are keeps its invariant, if the
\* log is not lost and no backfill comes up.
LEMMA DiscountKept ==
  ASSUME NEW r \in Rides, Discounted(r), credit'[r] = credit[r],
         ride'[r].status = ride[r].status, ride'[r].fare = ride[r].fare, ride'[r].discount = ride[r].discount,
         entry'[r] # None => entry[r] # None /\ entry'[r].gross = entry[r].gross,
         "log" \in fired[r] => "log" \in fired'[r] \/ r \in forgotten',
         "backfill" \in fired'[r] => "backfill" \in fired[r] \/ ride[r].discount = 0 \/ r \in forgotten',
         forgotten \subseteq forgotten'
  PROVE  Discounted(r)'
BY DEF Discounted

\* Every step keeps what is known of discounts.
LEMMA DiscountedNext ==
  ASSUME IInv, \A r \in Rides : Discounted(r), [Next]_vars
  PROVE  \A r \in Rides : Discounted(r)'
<1>1. TypeOK /\ \A s \in Rides : EntryOK(s) /\ Discounted(s)
  BY DEF IInv
<1>2. /\ ride \in [Rides -> Ride] /\ credit \in [Rides -> Nat] /\ entry \in [Rides -> Entry \cup {None}]
      /\ fired \in [Rides -> SUBSET Effects]
  BY <1>1 DEF TypeOK
<1>3. ASSUME NEW r \in Rides, NEW price \in Prices, NEW worth \in Worths, Complete(r, price, worth)
      PROVE  \A s \in Rides : Discounted(s)'
  <2>1. Discount(price, worth) \in Nat
    BY DEF Discount
  <2>2. ASSUME NEW s \in Rides PROVE Discounted(s)'
    <3>1. CASE s # r
      <4>1. ride'[s] = ride[s] /\ fired'[s] = fired[s]
        BY <1>2, <1>3, <3>1 DEF Complete
      <4> QED BY <1>1, <1>3, <4>1, DiscountKept DEF Complete
    <3>2. CASE s = r
      <4>1. ride'[r] = [ride[r] EXCEPT !.status = "completed", !.fare = price - Discount(price, worth),
                                       !.discount = Discount(price, worth), !.commission = deal]
        BY <1>2, <1>3 DEF Complete
      <4>2. ride'[r].status = "completed" /\ ride'[r].discount = Discount(price, worth)
        BY <1>2, <4>1 DEF Ride
      <4>3. /\ "log" \in fired'[r] <=> Discount(price, worth) > 0
            /\ "backfill" \notin fired'[r]
        BY <1>2, <1>3 DEF Complete
      <4>4. credit[r] = 0 /\ entry[r] = None /\ credit' = credit /\ entry' = entry
        BY <1>1, <1>3 DEF Complete, Discounted, EntryOK
      <4> QED BY <2>1, <3>2, <4>2, <4>3, <4>4 DEF Discounted
    <3> QED BY <3>1, <3>2
  <2> QED BY <2>2
<1>4. ASSUME NEW r \in Rides, NEW fare \in NewFares, EditFare(r, fare)
      PROVE  \A s \in Rides : Discounted(s)'
  <2>1. fare \in Nat /\ ride[r].discount \in Nat
    BY <1>2 DEF Ride
  <2>2. ASSUME NEW s \in Rides PROVE Discounted(s)'
    <3>0. forgotten \subseteq forgotten' /\ credit' = credit /\ fired' = fired
      BY <1>4 DEF EditFare
    <3>1. CASE s # r
      <4>1. ride'[s] = ride[s] /\ entry'[s] = entry[s]
        BY <1>2, <1>4, <3>1 DEF EditFare
      <4> QED BY <1>1, <3>0, <4>1, DiscountKept
    <3>2. CASE s = r
      <4>1. ride'[r] = [ride[r] EXCEPT !.status = "completed", !.fare = fare] /\ entry'[r] = NewEntry(r, fare)
        BY <1>2, <1>4 DEF EditFare
      <4>2. ride'[r].status = "completed" /\ ride'[r].fare = fare /\ ride'[r].discount = ride[r].discount
        BY <1>2, <4>1 DEF Ride
      <4>3. entry'[r] # None => entry'[r].gross = fare
        BY <1>1, <2>1, <4>1, NewEntryOK
      <4>4. ride[r].discount = 0 \/ r \in forgotten'
        BY <1>4, <2>1 DEF EditFare
      <4> QED BY <1>1, <2>1, <3>0, <3>2, <4>2, <4>3, <4>4 DEF Discounted
    <3> QED BY <3>1, <3>2
  <2> QED BY <2>2
<1>12. ASSUME NEW r \in Rides, NEW fare \in NewFares, EditFareFails(r, fare)
       PROVE  \A s \in Rides : Discounted(s)'
  <2>1. /\ forgotten' = forgotten \cup {r} /\ credit' = credit /\ fired' = fired
        /\ ride' = [ride EXCEPT ![r].status = "completed", ![r].fare = fare]
        /\ entry' \in {entry, [entry EXCEPT ![r] = None]}
    BY <1>12 DEF EditFareFails
  <2>2. ASSUME NEW s \in Rides PROVE Discounted(s)'
    <3>1. CASE s # r
      <4>1. ride'[s] = ride[s] /\ entry'[s] = entry[s]
        BY <1>2, <2>1, <3>1
      <4> QED BY <1>1, <2>1, <4>1, DiscountKept
    <3>2. CASE s = r
      <4>1. ride'[r] = [ride[r] EXCEPT !.status = "completed", !.fare = fare]
        BY <1>2, <2>1
      <4>2. ride'[r].status = "completed" /\ ride'[r].discount = ride[r].discount
        BY <1>2, <4>1 DEF Ride
      <4> QED BY <1>1, <2>1, <3>2, <4>2 DEF Discounted
    <3> QED BY <3>1, <3>2
  <2> QED BY <2>2
<1>13. ASSUME NEW r \in Rides, NEW e \in Effects, Fails(r, e)
       PROVE  \A s \in Rides : Discounted(s)'
  <2>1. /\ forgotten' = forgotten \cup {r} /\ credit' = credit /\ entry' = entry
        /\ fired' = [fired EXCEPT ![r] = @ \ {e}]
    BY <1>13 DEF Fails, Happens
  <2>2. \A s \in Rides : /\ ride'[s].status = ride[s].status /\ ride'[s].fare = ride[s].fare
                         /\ ride'[s].discount = ride[s].discount
    BY <1>2, <1>13 DEF Fails, Ride
  <2>3. \A s \in Rides : /\ fired'[s] \subseteq fired[s] /\ s # r => fired'[s] = fired[s]
                         /\ s = r => s \in forgotten'
    BY <1>2, <2>1
  <2> QED BY <1>1, <2>1, <2>2, <2>3, DiscountKept
<1>5. ASSUME NEW r \in Rides, NEW method \in {"cash", "card"}, Pay(r, method)
      PROVE  \A s \in Rides : Discounted(s)'
  <2>1. \A s \in Rides : /\ ride'[s].status = ride[s].status /\ ride'[s].fare = ride[s].fare
                         /\ ride'[s].discount = ride[s].discount
    BY <1>2, <1>5 DEF Pay, Ride
  <2>2. \A s \in Rides : ("log" \in fired'[s] <=> "log" \in fired[s]) /\ ("backfill" \in fired'[s] <=> "backfill" \in fired[s])
    BY <1>2, <1>5 DEF Pay
  <2>3. credit' = credit /\ entry' = entry /\ forgotten' = forgotten
    BY <1>5 DEF Pay
  <2> QED BY <1>1, <2>1, <2>2, <2>3, DiscountKept
<1>6. ASSUME NEW r \in Rides, LogCredit(r)
      PROVE  \A s \in Rides : Discounted(s)'
  <2>1. ASSUME NEW s \in Rides PROVE Discounted(s)'
    <3>0. ride' = ride /\ entry' = entry /\ forgotten' = forgotten
      BY <1>6 DEF LogCredit
    <3>1. CASE s # r
      <4>1. credit'[s] = credit[s] /\ fired'[s] = fired[s]
        BY <1>2, <1>6, <3>1 DEF LogCredit, Happens
      <4> QED BY <1>1, <3>0, <4>1, DiscountKept
    <3>2. CASE s = r
      <4>1. credit'[r] = ride[r].discount /\ fired'[r] = fired[r] \ {"log"} /\ fired[r] # {}
        BY <1>2, <1>6 DEF LogCredit, Happens
      <4>2. ride[r].status # "in_progress"
        BY <1>1, <4>1 DEF EntryOK
      <4> QED BY <1>1, <3>0, <3>2, <4>1, <4>2 DEF Discounted
    <3> QED BY <3>1, <3>2
  <2> QED BY <2>1
<1>7. ASSUME NEW r \in Rides, Credit(r) \/ BackfillCredit(r)
      PROVE  \A s \in Rides : Discounted(s)'
  <2>0. ride' = ride /\ credit' = credit /\ forgotten' = forgotten
    BY <1>7 DEF Credit, BackfillCredit
  <2>1. ASSUME NEW s \in Rides PROVE Discounted(s)'
    <3>0. fired'[s] \subseteq fired[s] /\ ("log" \in fired[s] => "log" \in fired'[s])
      BY <1>2, <1>7 DEF Credit, BackfillCredit, Happens
    <3>1. CASE s # r
      <4>1. entry'[s] = entry[s]
        BY <1>2, <1>7, <3>1 DEF Credit, BackfillCredit
      <4> QED BY <1>1, <2>0, <3>0, <4>1, DiscountKept
    <3>2. CASE s = r
      <4>1. ride[r].fare \in Nat /\ ride[r].discount \in Nat
        BY <1>2 DEF Ride
      <4>2. PICK gross \in Nat : /\ entry' = [entry EXCEPT ![r] = NewEntry(r, gross)]
                                 /\ gross = ride[r].fare + ride[r].discount \/ r \in forgotten
        BY <1>1, <1>7, <4>1 DEF Credit, BackfillCredit, Happens, Discounted
      <4>3. entry'[r] # None => entry'[r].gross = gross
        BY <1>1, <1>2, <4>2, NewEntryOK
      <4> QED BY <1>1, <2>0, <3>0, <3>2, <4>2, <4>3 DEF Discounted
    <3> QED BY <3>1, <3>2
  <2> QED BY <2>1
<1>8. ASSUME NEW r \in Rides, Mark(r)
      PROVE  \A s \in Rides : Discounted(s)'
  <2>1. credit' = credit /\ forgotten' = forgotten
    BY <1>8 DEF Mark
  <2>2. ASSUME NEW s \in Rides PROVE Discounted(s)'
    <3>1. fired'[s] \subseteq fired[s] /\ ("log" \in fired[s] => "log" \in fired'[s])
      BY <1>2, <1>8 DEF Mark, Happens
    <3>2. ride'[s].status = ride[s].status /\ ride'[s].fare = ride[s].fare /\ ride'[s].discount = ride[s].discount
      BY <1>2, <1>8 DEF Mark, Ride
    <3>3. entry'[s] # None => entry[s] # None /\ entry'[s].gross = entry[s].gross
      <4>1. CASE s = r /\ entry[r] # None
        <5>1. entry[r] \in Entry
          BY <1>2, <4>1
        <5>2. PICK n : entry'[r] = [entry[r] EXCEPT !.method = ride[r].paid, !.amount = n]
          BY <1>2, <1>8, <4>1 DEF Mark
        <5>3. entry'[r].gross = entry[r].gross
          BY <5>1, <5>2 DEF Entry
        <5> QED BY <4>1, <5>3
      <4>2. CASE s # r \/ entry[r] = None
        <5>1. entry'[s] = entry[s]
          BY <1>2, <1>8, <4>2 DEF Mark
        <5> QED BY <5>1
      <4> QED BY <4>1, <4>2
    <3> QED BY <1>1, <2>1, <3>1, <3>2, <3>3, DiscountKept
  <2> QED BY <2>2
<1>9. ASSUME Restart
      PROVE  \A s \in Rides : Discounted(s)'
  <2>1. ride' = ride /\ credit' = credit /\ entry' = entry
    BY <1>9 DEF Restart
  <2>2. ASSUME NEW s \in Rides PROVE Discounted(s)'
    <3>1. ride[s].discount \in Nat /\ credit[s] \in Nat
      BY <1>2 DEF Ride
    <3>2. /\ fired'[s] = IF Orphan(s) THEN {"backfill"} ELSE {}
          /\ s \in forgotten' <=> s \in forgotten \/ (ride[s].discount > 0 /\ (fired[s] # {} \/ Orphan(s)))
      BY <1>9 DEF Restart
    <3>3. "log" \in fired[s] => fired[s] # {}
      OBVIOUS
    <3> QED BY <1>1, <2>1, <3>1, <3>2, <3>3 DEF Discounted
  <2> QED BY <2>2
<1>10. ASSUME BackfillMethods
       PROVE  \A s \in Rides : Discounted(s)'
  <2>1. ride' = ride /\ credit' = credit /\ fired' = fired /\ forgotten' = forgotten
    BY <1>10 DEF BackfillMethods
  <2>2. ASSUME NEW s \in Rides PROVE entry'[s] # None => entry[s] # None /\ entry'[s].gross = entry[s].gross
    <3>1. \/ entry'[s] = entry[s]
          \/ entry[s] # None /\ entry'[s] = [entry[s] EXCEPT !.method = ride[s].paid]
      BY <1>10 DEF BackfillMethods
    <3>2. entry[s] # None => entry[s] \in Entry
      BY <1>2
    <3> QED BY <3>1, <3>2 DEF Entry
  <2> QED BY <1>1, <2>1, <2>2, DiscountKept
<1>11. ASSUME Rates \/ UNCHANGED vars
       PROVE  \A s \in Rides : Discounted(s)'
  <2>1. ride' = ride /\ credit' = credit /\ entry' = entry /\ fired' = fired /\ forgotten' = forgotten
    BY <1>11 DEF Rates, SetDriverPct, SetContract, SetCardFee, Change, books, vars
  <2> QED BY <1>1, <2>1, DiscountKept
<1> QED BY <1>3, <1>4, <1>5, <1>6, <1>7, <1>8, <1>9, <1>10, <1>11, <1>12, <1>13 DEF Next, Handler, Effect

\* A hundred times a part is the product, to half a unit, even if half a unit is rounded down.
LEMMA PartRounds ==
  ASSUME NEW a \in Int, NEW p \in Int
  PROVE  a * p \in Int /\ Within(a * p, 100 * SplitPart(a, p), 50) /\ Within(100 * SplitPart(a, p), a * p, 50)
<1>1. PICK n \in Int : n = a * p
  OBVIOUS
<1>2. Part(a, p) = (n + 50) \div 100 /\ Tie(a, p) = IF n % 100 = 50 THEN 1 ELSE 0
  BY <1>1 DEF Part, Tie
<1>3. PICK m \in Int, t \in {0, 1} : m = Part(a, p) /\ t = Tie(a, p)
  BY PartType
<1>4. n - 100 * m \in -50 .. 50 /\ n - 100 * (m - t) \in -50 .. 50
  <2>1. n = (100 * (n \div 100)) + (n % 100) /\ n % 100 \in 0 .. 99
    OBVIOUS
  <2>2. m = IF n % 100 >= 50 THEN (n \div 100) + 1 ELSE n \div 100
    BY <1>2, <1>3, <2>1, SMT
  <2>. QED
    BY <1>2, <1>3, <2>1, <2>2
<1>5. SplitPart(a, p) \in {m, m - t}
  BY <1>3 DEF SplitPart, Rounded
<1> QED BY <1>1, <1>4, <1>5 DEF Within

\* What the pages and the wallet say of a settled ride.
LEMMA SettledRide ==
  ASSUME IInv, NEW r \in Listed, Discounted(r), Settled(r)
  PROVE  /\ Gross(r) \in Nat /\ ride[r].fare \in Nat /\ credit[r] \in Nat /\ Commission(r) \in Int /\ CardFee(r) \in Int
         /\ entry[r].amount \in Int /\ pct \in Int \cup {None} /\ HalfCents(r) \in Nat
         /\ Breakdown(r).platform \in Int
         /\ Within(Commission(r) + CardFee(r), Breakdown(r).platform, HalfCents(r))
         /\ pct = None => Within(Gross(r) - (Commission(r) + CardFee(r)), entry[r].amount, HalfCents(r))
         /\ pct # None => entry[r].amount = SplitPart(Gross(r), pct)
         /\ IsCard(r) <=> entry[r].method # "cash"
<1>1. /\ r \in Rides /\ TypeOK /\ EntryOK(r) /\ entry[r] \in Entry /\ ride[r] \in Ride /\ credit[r] \in Nat
      /\ entry[r] # None /\ ride[r].status = "completed" /\ entry[r].method # "pending"
  BY DEF Listed, IInv, TypeOK
<1>2. /\ entry[r].amount = Noted(r) /\ entry[r].pct = pct /\ r \notin forgotten /\ "log" \notin fired[r]
  BY <1>1 DEF Settled, Quiet, EntryOK
<1>3. entry[r].gross = Gross(r)
  BY <1>1, <1>2 DEF Discounted, Gross
<1>4. /\ ride[r].fare \in Nat /\ Gross(r) \in Nat /\ entry[r].amount \in Int /\ entry[r].pct \in Shares \cup {None}
      /\ ride[r].commission \in Deals \cup {None} /\ ride[r].cardFee \in Fees \cup {None}
      /\ entry[r].method \in {"cash", "card"}
  BY <1>1 DEF Ride, Entry, Gross
<1>5. /\ pct \in Int \cup {None} /\ OrZero(ride[r].commission) \in Int /\ Fee(r) \in Int /\ Fee(r) # None
  <2>1. Shares \subseteq Int /\ Deals \subseteq Int /\ Fees \subseteq Int /\ LegacyFee \in Int /\ 0 \in Int
    OBVIOUS
  <2>2. OrZero(ride[r].commission) \in Int /\ Fee(r) \in Int /\ pct \in Int \cup {None}
    BY <1>2, <1>4, <2>1, Zenon DEF OrZero, Fee
  <2> QED BY <2>2
\* The commission and the fee, as rounded by Postgres, by the split and by the reduction.
<1>6. PICK k \in Int, t \in {0, 1} :
        /\ k = SplitPart(Gross(r), OrZero(ride[r].commission)) /\ t = Tie(Gross(r), OrZero(ride[r].commission))
        /\ Commission(r) \in Int /\ Commission(r) - k \in 0 .. t
  <2>1. PICK g \in Int, c \in Int : g = Gross(r) /\ c = OrZero(ride[r].commission)
    BY <1>4, <1>5
  <2>2. /\ Part(g, c) \in Int /\ SplitPart(g, c) \in Int /\ Tie(g, c) \in {0, 1}
        /\ Part(g, c) - SplitPart(g, c) \in 0 .. Tie(g, c)
    BY PartType
  <2> QED BY <2>1, <2>2 DEF Commission
<1>7. PICK a \in Int, b \in Int, u \in {0, 1} :
        /\ a = SplitPart(IF IsCard(r) THEN ride[r].fare ELSE 0, OrZero(IF IsCard(r) THEN Fee(r) ELSE None))
        /\ b = (IF IsCard(r) THEN FeePart(ride[r].fare, Fee(r)) ELSE 0) /\ u = FeeTie(r)
        /\ CardFee(r) \in Int /\ CardFee(r) - a \in 0 .. u /\ CardFee(r) - b \in 0 .. u
  <2>1. CASE IsCard(r)
    <3>1. OrZero(Fee(r)) = Fee(r) /\ ride[r].fare \in Int
      BY <1>4, <1>5 DEF OrZero
    <3>2. /\ SplitPart(ride[r].fare, Fee(r)) \in Int /\ FeePart(ride[r].fare, Fee(r)) \in Int
          /\ Part(ride[r].fare, Fee(r)) \in Int /\ Tie(ride[r].fare, Fee(r)) \in {0, 1}
          /\ Part(ride[r].fare, Fee(r)) - SplitPart(ride[r].fare, Fee(r)) \in 0 .. Tie(ride[r].fare, Fee(r))
          /\ Part(ride[r].fare, Fee(r)) - FeePart(ride[r].fare, Fee(r)) \in 0 .. Tie(ride[r].fare, Fee(r))
      BY <3>1, <1>5, PartType
    <3> QED BY <2>1, <3>1, <3>2 DEF CardFee, FeeTie
  <2>2. CASE ~IsCard(r)
    <3>1. OrZero(None) = 0
      BY DEF OrZero
    <3> QED BY <2>2, <3>1, NoPart DEF CardFee, FeeTie
  <2> QED BY <2>1, <2>2
<1>8. HalfCents(r) = t + u
  BY <1>6, <1>7 DEF HalfCents
<1>9. Breakdown(r).platform = k + a
  BY <1>2, <1>3, <1>6, <1>7 DEF Breakdown, SplitRide
<1>10. pct = None => entry[r].amount = Gross(r) - k - b
  BY <1>2, <1>3, <1>6, <1>7 DEF Noted
<1>11. pct # None => entry[r].amount = SplitPart(Gross(r), pct)
  BY <1>2, <1>3 DEF Noted
<1>12. Within(Commission(r) + CardFee(r), Breakdown(r).platform, HalfCents(r))
  <2>1. PICK x \in Int, y \in Int : x = Commission(r) /\ y = CardFee(r) /\ x - k \in 0 .. t /\ y - a \in 0 .. u
    BY <1>6, <1>7
  <2>2. (x + y) - (k + a) \in -(t + u) .. (t + u)
    BY <2>1
  <2> QED BY <2>1, <2>2, <1>8, <1>9 DEF Within
<1>13. pct = None => Within(Gross(r) - (Commission(r) + CardFee(r)), entry[r].amount, HalfCents(r))
  BY <1>4, <1>6, <1>7, <1>8, <1>10 DEF Within
<1>14. Breakdown(r).platform \in Int /\ HalfCents(r) \in Nat
  BY <1>6, <1>7, <1>8, <1>9
<1>15. IsCard(r) <=> entry[r].method # "cash"
  BY <1>4 DEF IsCard
<1> QED BY <1>1, <1>4, <1>5, <1>6, <1>7, <1>11, <1>12, <1>13, <1>14, <1>15

\* A discount is accounted for, or known to be forgotten.
LEMMA DiscountsAreKnown == Spec => []DiscountsKnown
<1>1. Init => DiscountsKnown
  <2>1. ASSUME Init, NEW r \in Rides PROVE Discounted(r)
    <3>1. ride[r].discount = 0 /\ credit[r] = 0 /\ fired[r] = {} /\ entry[r] = None
      BY <2>1 DEF Init
    <3> QED BY <3>1 DEF Discounted
  <2> QED BY <2>1 DEF DiscountsKnown
<1>2. IInv /\ DiscountsKnown /\ [Next]_vars => DiscountsKnown'
  BY DiscountedNext DEF DiscountsKnown
<1> QED BY <1>1, <1>2, BooksInvariance, PTL DEF Spec

\* FirstRideOfferCard, "drivers are paid in full": whatever the fares, the percentages and
\* the discounts, and however the rates are changed and effects are delayed or lost, a
\* settled ride leaves the driver with his part of the gross fare, less his part of the
\* discount if it counts as paid in cash.
THEOREM DriversAreWhole == Spec => []OnlyCashDiscountsAreLost
<1>1. ASSUME IInv, NEW r \in Listed, Discounted(r), Settled(r)
      PROVE  Within(Cash(r) + OwedToDriver(r) - OwedToCompany(r) - OwedToPlatform(r) + Unowed(r),
                    100 * entry[r].amount, Slack(r))
  <2>1. /\ Gross(r) \in Nat /\ ride[r].fare \in Nat /\ credit[r] \in Nat /\ entry[r].amount \in Int
        /\ Gross(r) = ride[r].fare + credit[r] /\ Commission(r) \in Int /\ CardFee(r) \in Int
        /\ HalfCents(r) \in Nat /\ pct \in Int \cup {None} /\ (IsCard(r) <=> entry[r].method # "cash")
    BY <1>1, SettledRide DEF Gross
  <2>2. CASE IsCard(r)
    <3>1. /\ Cash(r) = 0 /\ OwedToDriver(r) = 100 * entry[r].amount /\ OwedToCompany(r) = 0 /\ Unowed(r) = 0
          /\ OwedToPlatform(r) = 0
      BY <2>1, <2>2 DEF Cash, OwedToDriver, OwedToCompany, OwedToPlatform, Unowed, Withheld
    <3>2. Slack(r) \in Nat
      BY <2>1 DEF Slack
    <3> QED BY <2>1, <3>1, <3>2 DEF Within
  <2>3. CASE ~IsCard(r) /\ pct = None
    <3>1. /\ Cash(r) = 100 * ride[r].fare /\ OwedToDriver(r) = 0 /\ OwedToCompany(r) = 0
          /\ Unowed(r) = credit[r] * 100 /\ OwedToPlatform(r) = 100 * (Commission(r) - 0)
      BY <2>1, <2>3 DEF Cash, OwedToDriver, OwedToCompany, OwedToPlatform, Unowed, Withheld
    <3>2. Within(Gross(r) - (Commission(r) + 0), entry[r].amount, HalfCents(r))
      <4>1. CardFee(r) = 0
        BY <2>3 DEF CardFee
      <4> QED BY <1>1, <2>3, <4>1, SettledRide
    <3>3. Slack(r) = 100 * HalfCents(r)
      BY <2>3 DEF Slack
    <3> QED BY <2>1, <3>1, <3>2, <3>3 DEF Within
  <2>4. CASE ~IsCard(r) /\ pct # None
    <3>1. PICK n \in Int, m \in Int : n = ride[r].fare * pct /\ m = credit[r] * pct
      BY <2>1, <2>4
    <3>2. /\ ride[r].fare * (100 - pct) = 100 * ride[r].fare - n /\ Gross(r) * pct = n + m
      <4>1. ride[r].fare \in Int /\ credit[r] \in Int /\ pct \in Int
        BY <2>1, <2>4
      <4>2. ride[r].fare * (100 - pct) = 100 * ride[r].fare - ride[r].fare * pct
        BY <4>1
      <4>3. (ride[r].fare + credit[r]) * pct = ride[r].fare * pct + credit[r] * pct
        BY <4>1
      <4> QED BY <2>1, <3>1, <4>2, <4>3
    <3>3. /\ Cash(r) = 100 * ride[r].fare /\ OwedToDriver(r) = 0 /\ OwedToPlatform(r) = 0
          /\ OwedToCompany(r) = 100 * ride[r].fare - n /\ Unowed(r) = m
      BY <2>1, <2>4, <3>1, <3>2 DEF Cash, OwedToDriver, OwedToCompany, OwedToPlatform, Unowed
    <3>4. Within(n + m, 100 * entry[r].amount, 50)
      <4>1. entry[r].amount = SplitPart(Gross(r), pct) /\ Gross(r) \in Int /\ pct \in Int
        BY <1>1, <2>1, <2>4, SettledRide
      <4>2. Within(Gross(r) * pct, 100 * SplitPart(Gross(r), pct), 50)
        BY <4>1, PartRounds
      <4> QED BY <3>2, <4>1, <4>2
    <3>5. Slack(r) = 50
      BY <2>4 DEF Slack
    <3> QED BY <2>1, <3>1, <3>3, <3>4, <3>5 DEF Within
  <2> QED BY <2>2, <2>3, <2>4
<1>2. IInv /\ DiscountsKnown => OnlyCashDiscountsAreLost
  BY <1>1 DEF OnlyCashDiscountsAreLost, Listed, DiscountsKnown
<1> QED BY <1>2, BooksInvariance, DiscountsAreKnown, PTL
-----------------------------------------------------------------------------
(***************************************************************************)
(* Sums over a finite set, as the folds of the community modules take      *)
(* them: the element of Choice first.                                      *)
(***************************************************************************)
Choice(s) == CHOOSE x \in s : TRUE
SumStep(f, it, s) == IF s = {} THEN 0 ELSE f[Choice(s)] + it[s \ {Choice(s)}]
IsSum(f, S, it) == it = [s \in SUBSET S |-> SumStep(f, it, s)]
Total(f, S) == (CHOOSE it : IsSum(f, S, it))[S]

\* Induction over the naturals, for a set of them.
LEMMA AllNaturals ==
  ASSUME NEW T \in SUBSET Nat, 0 \in T, \A n \in T : n + 1 \in T
  PROVE  T = Nat
<1> SUFFICES ASSUME Nat \ T # {} PROVE FALSE
  OBVIOUS
<1>1. PICK R : R = OpToRel(<, Nat)
  OBVIOUS
<1>2. IsWellFoundedOn(R, Nat)
  BY <1>1, NatLessThanWellFounded
<1>3. PICK x \in Nat \ T : \A y \in Nat \ T : ~(<<y, x>> \in R)
  BY <1>2, WFMin
<1>4. x - 1 \in Nat /\ x - 1 < x
  BY <1>3
<1>5. <<x - 1, x>> \in R
  BY <1>1, <1>3, <1>4 DEF OpToRel
<1>6. x - 1 \in T
  BY <1>3, <1>4, <1>5
<1>7. (x - 1) + 1 = x
  BY <1>3
<1> QED BY <1>3, <1>6, <1>7

\* Taking its choice away makes a set smaller by one.
LEMMA Smaller ==
  ASSUME NEW S, IsFiniteSet(S), NEW s \in SUBSET S, s # {}
  PROVE  /\ Choice(s) \in s /\ s \ {Choice(s)} \in SUBSET S
         /\ Cardinality(s) \in Nat \ {0}
         /\ Cardinality(s \ {Choice(s)}) = Cardinality(s) - 1
<1>1. Choice(s) \in s
  BY DEF Choice
<1>2. IsFiniteSet(s) /\ Cardinality(s) \in Nat
  BY FS_Subset, FS_CardinalityType
<1>3. Cardinality(s) # 0
  BY <1>2, FS_EmptySet
<1> QED BY <1>1, <1>2, <1>3, FS_RemoveElement

\* Induction over the subsets of a finite set, for a set of them.
LEMMA SubsetInduction ==
  ASSUME NEW S, IsFiniteSet(S), NEW Q, {} \in Q,
         \A s \in SUBSET S : s # {} /\ s \ {Choice(s)} \in Q => s \in Q
  PROVE  SUBSET S \subseteq Q
<1>1. PICK T \in SUBSET Nat : T = {n \in Nat : \A s \in SUBSET S : Cardinality(s) <= n => s \in Q}
  OBVIOUS
<1>2. \A s \in SUBSET S : Cardinality(s) \in Nat /\ (Cardinality(s) = 0 => s = {})
  BY FS_Subset, FS_CardinalityType, FS_EmptySet
<1>3. 0 \in T
  <2>1. ASSUME NEW s \in SUBSET S, Cardinality(s) <= 0 PROVE s \in Q
    <3>1. Cardinality(s) = 0
      BY <1>2, <2>1
    <3>2. s = {}
      BY <1>2, <3>1
    <3> QED BY <3>2
  <2> QED BY <1>1, <2>1
<1>4. ASSUME NEW n \in T, NEW s \in SUBSET S, Cardinality(s) <= n + 1 PROVE s \in Q
  <2>1. CASE s = {}
    BY <2>1
  <2>2. CASE s # {}
    <3>1. Cardinality(s \ {Choice(s)}) <= n /\ s \ {Choice(s)} \in SUBSET S
      BY <1>1, <1>4, <2>2, Smaller
    <3> QED BY <1>1, <2>2, <3>1
  <2> QED BY <2>1, <2>2
<1>5. T = Nat
  <2>1. \A n \in T : n + 1 \in T
    BY <1>1, <1>4
  <2> QED BY <1>3, <2>1, AllNaturals
<1> SUFFICES ASSUME NEW s \in SUBSET S PROVE s \in Q
  OBVIOUS
<1>6. Cardinality(s) \in T /\ Cardinality(s) <= Cardinality(s)
  BY <1>2, <1>5
<1> QED BY <1>1, <1>6

\* There is a function that sums up every subset.
LEMMA SumExists ==
  ASSUME NEW S, IsFiniteSet(S), NEW f \in [S -> Int]
  PROVE  \E it : IsSum(f, S, it)
<1>1. \A s \in SUBSET S : Cardinality(s) \in Nat /\ (Cardinality(s) = 0 => s = {})
  BY FS_Subset, FS_CardinalityType, FS_EmptySet
<1>2. PICK T \in SUBSET Nat :
        T = {n \in Nat : \E it : /\ it = [s \in SUBSET S |-> it[s]]
                                 /\ \A s \in SUBSET S : Cardinality(s) <= n => it[s] = SumStep(f, it, s)}
  OBVIOUS
<1>3. 0 \in T
  <2>1. PICK it : it = [s \in SUBSET S |-> 0]
    OBVIOUS
  <2>2. it = [s \in SUBSET S |-> it[s]]
    BY <2>1
  <2>3. \A s \in SUBSET S : Cardinality(s) <= 0 => it[s] = SumStep(f, it, s)
    BY <1>1, <2>1 DEF SumStep
  <2> QED BY <1>2, <2>2, <2>3
<1>4. ASSUME NEW n \in T PROVE n + 1 \in T
  <2>1. PICK it : /\ it = [s \in SUBSET S |-> it[s]]
                  /\ \A s \in SUBSET S : Cardinality(s) <= n => it[s] = SumStep(f, it, s)
    BY <1>2
  <2>2. PICK next : next = [s \in SUBSET S |-> SumStep(f, it, s)]
    OBVIOUS
  <2>3. next = [s \in SUBSET S |-> next[s]]
    BY <2>2
  <2>4. ASSUME NEW s \in SUBSET S, Cardinality(s) <= n + 1 PROVE next[s] = SumStep(f, next, s)
    <3>1. CASE s = {}
      BY <2>2, <3>1 DEF SumStep
    <3>2. CASE s # {}
      <4>1. PICK c : c = Choice(s)
        OBVIOUS
      <4>2. s \ {c} \in SUBSET S /\ Cardinality(s \ {c}) <= n
        BY <2>4, <3>2, <4>1, Smaller
      <4>3. next[s \ {c}] = it[s \ {c}]
        BY <2>1, <2>2, <4>2
      <4> QED BY <2>2, <3>2, <4>1, <4>3 DEF SumStep
    <3> QED BY <3>1, <3>2
  <2>5. n + 1 \in Nat
    OBVIOUS
  <2>6. \A s \in SUBSET S : Cardinality(s) <= n + 1 => next[s] = SumStep(f, next, s)
    BY <2>4
  <2>7. PICK m : m = n + 1
    OBVIOUS
  <2> QED BY <1>2, <2>3, <2>5, <2>6, <2>7, Zenon
<1>5. T = Nat
  BY <1>3, <1>4, AllNaturals
<1>6. Cardinality(S) \in T /\ Cardinality(S) \in Nat
  BY <1>1, <1>5
<1>7. PICK it : /\ it = [s \in SUBSET S |-> it[s]]
                /\ \A s \in SUBSET S : Cardinality(s) <= Cardinality(S) => it[s] = SumStep(f, it, s)
  BY <1>2, <1>6
<1>8. \A s \in SUBSET S : Cardinality(s) <= Cardinality(S)
  BY FS_Subset
<1>9. it = [s \in SUBSET S |-> SumStep(f, it, s)]
  BY <1>7, <1>8
<1> QED BY <1>9 DEF IsSum

\* Sums of what is close are as close as the sum of what each of them may differ by.
LEMMA SumsAreClose ==
  ASSUME NEW S, IsFiniteSet(S), NEW f \in [S -> Int], NEW g \in [S -> Int], NEW h \in [S -> Int],
         \A x \in S : Within(f[x], g[x], h[x])
  PROVE  Within(Total(f, S), Total(g, S), Total(h, S))
<1>1. PICK it, sum, off : /\ it = (CHOOSE i : IsSum(f, S, i)) /\ sum = (CHOOSE i : IsSum(g, S, i))
                          /\ off = (CHOOSE i : IsSum(h, S, i))
  OBVIOUS
<1>2. IsSum(f, S, it) /\ IsSum(g, S, sum) /\ IsSum(h, S, off)
  BY <1>1, SumExists
<1>3. \A s \in SUBSET S : it[s] = SumStep(f, it, s) /\ sum[s] = SumStep(g, sum, s) /\ off[s] = SumStep(h, off, s)
  BY <1>2 DEF IsSum
<1>4. PICK Q : Q = {s \in SUBSET S : it[s] \in Int /\ sum[s] \in Int /\ off[s] \in Int /\ Within(it[s], sum[s], off[s])}
  OBVIOUS
<1>5. {} \in Q
  <2>1. {} \in SUBSET S /\ it[{}] = 0 /\ sum[{}] = 0 /\ off[{}] = 0
    BY <1>3 DEF SumStep
  <2>2. Within(0, 0, 0)
    BY DEF Within
  <2> QED BY <1>4, <2>1, <2>2
<1>6. ASSUME NEW s \in SUBSET S, s # {}, s \ {Choice(s)} \in Q PROVE s \in Q
  <2>1. PICK c \in S : c = Choice(s)
    BY <1>6, Smaller
  <2>2. PICK a \in Int, b \in Int, d \in Int :
          a = it[s \ {c}] /\ b = sum[s \ {c}] /\ d = off[s \ {c}] /\ Within(a, b, d)
    <3>1. s \ {c} \in Q
      BY <1>6, <2>1
    <3> QED BY <1>4, <3>1
  <2>3. it[s] = f[c] + a /\ sum[s] = g[c] + b /\ off[s] = h[c] + d
    BY <1>3, <1>6, <2>1, <2>2 DEF SumStep
  <2>4. f[c] \in Int /\ g[c] \in Int /\ h[c] \in Int /\ Within(f[c], g[c], h[c])
    OBVIOUS
  <2>5. Within(f[c] + a, g[c] + b, h[c] + d)
    BY <2>2, <2>4 DEF Within
  <2> QED BY <1>4, <2>1, <2>2, <2>3, <2>4, <2>5
<1>7. S \in Q
  BY <1>5, <1>6, SubsetInduction
<1> QED BY <1>1, <1>4, <1>7 DEF Total

\* What DriverEarning and PlatformEarning take of a ride, and what the wallet says of it.
DriverPart(r)   == IF pct = None THEN 100 * (Gross(r) - Commission(r) - CardFee(r)) ELSE Gross(r) * pct
PlatformPart(r) == Commission(r) + CardFee(r)
AmountOf(r)     == 100 * entry[r].amount
PlatformOf(r)   == Breakdown(r).platform

\* The driver's earning, by the pages, is a sum.
LEMMA DriverEarningIsSum == DriverEarning = Total([r \in Listed |-> DriverPart(r)], Listed)
<1>1. PICK f : f = [r \in Listed |-> DriverPart(r)]
  OBVIOUS
<1>2. ASSUME NEW it, NEW s \in SUBSET Listed
      PROVE  SumStep(f, it, s) = IF s = {} THEN 0 ELSE DriverPart(Choice(s)) + it[s \ {Choice(s)}]
  BY <1>1 DEF Choice, SumStep
<1>3. \A it : IsSum(f, Listed, it) <=>
        it = [s \in SUBSET Listed |-> IF s = {} THEN 0 ELSE DriverPart(Choice(s)) + it[s \ {Choice(s)}]]
  BY <1>2 DEF IsSum
<1>4. DriverEarning =
        (CHOOSE it : it = [s \in SUBSET Listed |->
           IF s = {} THEN 0 ELSE DriverPart(Choice(s)) + it[s \ {Choice(s)}]])[Listed]
  BY DEF DriverEarning, DriverPart, MapThenSumSet, MapThenFoldSet, Choice
<1>5. (CHOOSE it : IsSum(f, Listed, it)) =
        (CHOOSE it : it = [s \in SUBSET Listed |->
           IF s = {} THEN 0 ELSE DriverPart(Choice(s)) + it[s \ {Choice(s)}]])
  BY <1>3
<1> QED BY <1>1, <1>4, <1>5 DEF Total

\* The platform's, by the pages.
LEMMA PlatformEarningIsSum == PlatformEarning = Total([r \in Listed |-> PlatformPart(r)], Listed)
<1>1. PICK f : f = [r \in Listed |-> PlatformPart(r)]
  OBVIOUS
<1>2. ASSUME NEW it, NEW s \in SUBSET Listed
      PROVE  SumStep(f, it, s) = IF s = {} THEN 0 ELSE PlatformPart(Choice(s)) + it[s \ {Choice(s)}]
  BY <1>1 DEF Choice, SumStep
<1>3. \A it : IsSum(f, Listed, it) <=>
        it = [s \in SUBSET Listed |-> IF s = {} THEN 0 ELSE PlatformPart(Choice(s)) + it[s \ {Choice(s)}]]
  BY <1>2 DEF IsSum
<1>4. PlatformEarning =
        (CHOOSE it : it = [s \in SUBSET Listed |->
           IF s = {} THEN 0 ELSE PlatformPart(Choice(s)) + it[s \ {Choice(s)}]])[Listed]
  BY DEF PlatformEarning, PlatformPart, MapThenSumSet, MapThenFoldSet, Choice
<1>5. (CHOOSE it : IsSum(f, Listed, it)) =
        (CHOOSE it : it = [s \in SUBSET Listed |->
           IF s = {} THEN 0 ELSE PlatformPart(Choice(s)) + it[s \ {Choice(s)}]])
  BY <1>3
<1> QED BY <1>1, <1>4, <1>5 DEF Total

\* The driver's, by the wallet.
LEMMA AmountsAreSum == MapThenSumSet(LAMBDA r : 100 * entry[r].amount, Listed) = Total([r \in Listed |-> AmountOf(r)], Listed)
<1>1. PICK f : f = [r \in Listed |-> AmountOf(r)]
  OBVIOUS
<1>2. ASSUME NEW it, NEW s \in SUBSET Listed
      PROVE  SumStep(f, it, s) = IF s = {} THEN 0 ELSE AmountOf(Choice(s)) + it[s \ {Choice(s)}]
  BY <1>1 DEF Choice, SumStep
<1>3. \A it : IsSum(f, Listed, it) <=>
        it = [s \in SUBSET Listed |-> IF s = {} THEN 0 ELSE AmountOf(Choice(s)) + it[s \ {Choice(s)}]]
  BY <1>2 DEF IsSum
<1>4. MapThenSumSet(LAMBDA r : 100 * entry[r].amount, Listed) =
        (CHOOSE it : it = [s \in SUBSET Listed |->
           IF s = {} THEN 0 ELSE AmountOf(Choice(s)) + it[s \ {Choice(s)}]])[Listed]
  BY DEF AmountOf, MapThenSumSet, MapThenFoldSet, Choice
<1>5. (CHOOSE it : IsSum(f, Listed, it)) =
        (CHOOSE it : it = [s \in SUBSET Listed |->
           IF s = {} THEN 0 ELSE AmountOf(Choice(s)) + it[s \ {Choice(s)}]])
  BY <1>3
<1> QED BY <1>1, <1>4, <1>5 DEF Total

\* The platform's, by the wallet.
LEMMA PlatformsAreSum == MapThenSumSet(LAMBDA r : Breakdown(r).platform, Listed) = Total([r \in Listed |-> PlatformOf(r)], Listed)
<1>1. PICK f : f = [r \in Listed |-> PlatformOf(r)]
  OBVIOUS
<1>2. ASSUME NEW it, NEW s \in SUBSET Listed
      PROVE  SumStep(f, it, s) = IF s = {} THEN 0 ELSE PlatformOf(Choice(s)) + it[s \ {Choice(s)}]
  BY <1>1 DEF Choice, SumStep
<1>3. \A it : IsSum(f, Listed, it) <=>
        it = [s \in SUBSET Listed |-> IF s = {} THEN 0 ELSE PlatformOf(Choice(s)) + it[s \ {Choice(s)}]]
  BY <1>2 DEF IsSum
<1>4. MapThenSumSet(LAMBDA r : Breakdown(r).platform, Listed) =
        (CHOOSE it : it = [s \in SUBSET Listed |->
           IF s = {} THEN 0 ELSE PlatformOf(Choice(s)) + it[s \ {Choice(s)}]])[Listed]
  BY DEF PlatformOf, MapThenSumSet, MapThenFoldSet, Choice
<1>5. (CHOOSE it : IsSum(f, Listed, it)) =
        (CHOOSE it : it = [s \in SUBSET Listed |->
           IF s = {} THEN 0 ELSE PlatformOf(Choice(s)) + it[s \ {Choice(s)}]])
  BY <1>3
<1> QED BY <1>1, <1>4, <1>5 DEF Total

\* What the drivers' parts may differ by.
LEMMA SlackIsSum == MapThenSumSet(Slack, Listed) = Total([r \in Listed |-> Slack(r)], Listed)
<1>1. PICK f : f = [r \in Listed |-> Slack(r)]
  OBVIOUS
<1>2. ASSUME NEW it, NEW s \in SUBSET Listed
      PROVE  SumStep(f, it, s) = IF s = {} THEN 0 ELSE Slack(Choice(s)) + it[s \ {Choice(s)}]
  BY <1>1 DEF Choice, SumStep
<1>3. \A it : IsSum(f, Listed, it) <=>
        it = [s \in SUBSET Listed |-> IF s = {} THEN 0 ELSE Slack(Choice(s)) + it[s \ {Choice(s)}]]
  BY <1>2 DEF IsSum
<1>4. MapThenSumSet(Slack, Listed) =
        (CHOOSE it : it = [s \in SUBSET Listed |->
           IF s = {} THEN 0 ELSE Slack(Choice(s)) + it[s \ {Choice(s)}]])[Listed]
  BY DEF MapThenSumSet, MapThenFoldSet, Choice
<1>5. (CHOOSE it : IsSum(f, Listed, it)) =
        (CHOOSE it : it = [s \in SUBSET Listed |->
           IF s = {} THEN 0 ELSE Slack(Choice(s)) + it[s \ {Choice(s)}]])
  BY <1>3
<1> QED BY <1>1, <1>4, <1>5 DEF Total

\* What the platform's parts may differ by.
LEMMA HalfCentsAreSum == MapThenSumSet(HalfCents, Listed) = Total([r \in Listed |-> HalfCents(r)], Listed)
<1>1. PICK f : f = [r \in Listed |-> HalfCents(r)]
  OBVIOUS
<1>2. ASSUME NEW it, NEW s \in SUBSET Listed
      PROVE  SumStep(f, it, s) = IF s = {} THEN 0 ELSE HalfCents(Choice(s)) + it[s \ {Choice(s)}]
  BY <1>1 DEF Choice, SumStep
<1>3. \A it : IsSum(f, Listed, it) <=>
        it = [s \in SUBSET Listed |-> IF s = {} THEN 0 ELSE HalfCents(Choice(s)) + it[s \ {Choice(s)}]]
  BY <1>2 DEF IsSum
<1>4. MapThenSumSet(HalfCents, Listed) =
        (CHOOSE it : it = [s \in SUBSET Listed |->
           IF s = {} THEN 0 ELSE HalfCents(Choice(s)) + it[s \ {Choice(s)}]])[Listed]
  BY DEF MapThenSumSet, MapThenFoldSet, Choice
<1>5. (CHOOSE it : IsSum(f, Listed, it)) =
        (CHOOSE it : it = [s \in SUBSET Listed |->
           IF s = {} THEN 0 ELSE HalfCents(Choice(s)) + it[s \ {Choice(s)}]])
  BY <1>3
<1> QED BY <1>1, <1>4, <1>5 DEF Total

\* money-split.ts, the "single source of truth": as long as nothing is under way and the
\* driver's % is that of the entries, the pages of the finances, which compute it in SQL
\* from other tables, agree with the wallet, to the half cents they round in another way.
THEOREM FinancesAgree == Spec => []FinancesMatchTheWallet
<1>1. ASSUME IInv, DiscountsKnown, \A r \in Listed : Settled(r)
      PROVE  /\ Within(DriverEarning, MapThenSumSet(LAMBDA r : 100 * entry[r].amount, Listed),
                       MapThenSumSet(Slack, Listed))
             /\ Within(PlatformEarning, MapThenSumSet(LAMBDA r : Breakdown(r).platform, Listed),
                       MapThenSumSet(HalfCents, Listed))
  <2>1. IsFiniteSet(Listed)
    BY BooksAssumption, FS_Subset DEF Listed
  <2>2. ASSUME NEW r \in Listed
        PROVE  /\ DriverPart(r) \in Int /\ AmountOf(r) \in Int /\ Slack(r) \in Int
               /\ PlatformPart(r) \in Int /\ PlatformOf(r) \in Int /\ HalfCents(r) \in Int
               /\ Within(DriverPart(r), AmountOf(r), Slack(r)) /\ Within(PlatformPart(r), PlatformOf(r), HalfCents(r))
    <3>1. Discounted(r) /\ Settled(r)
      BY <1>1 DEF DiscountsKnown, Listed
    <3>2. /\ Gross(r) \in Int /\ Commission(r) \in Int /\ CardFee(r) \in Int
          /\ entry[r].amount \in Int /\ pct \in Int \cup {None} /\ HalfCents(r) \in Nat
          /\ Breakdown(r).platform \in Int
          /\ Within(Commission(r) + CardFee(r), Breakdown(r).platform, HalfCents(r))
          /\ pct = None => Within(Gross(r) - (Commission(r) + CardFee(r)), entry[r].amount, HalfCents(r))
          /\ pct # None => entry[r].amount = SplitPart(Gross(r), pct)
      BY <1>1, <3>1, SettledRide
    <3>3. PlatformPart(r) \in Int /\ PlatformOf(r) \in Int /\ Within(PlatformPart(r), PlatformOf(r), HalfCents(r))
      BY <3>2 DEF PlatformPart, PlatformOf
    <3>4. CASE pct = None
      <4>1. DriverPart(r) = 100 * (Gross(r) - Commission(r) - CardFee(r)) /\ Slack(r) = 100 * HalfCents(r)
        BY <3>4 DEF DriverPart, Slack
      <4> QED BY <3>2, <3>3, <3>4, <4>1 DEF AmountOf, Within
    <3>5. CASE pct # None
      <4>1. Gross(r) * pct \in Int /\ Within(Gross(r) * pct, 100 * SplitPart(Gross(r), pct), 50)
        BY <3>2, <3>5, PartRounds
      <4> QED BY <3>2, <3>3, <3>5, <4>1 DEF DriverPart, AmountOf, Slack
    <3> QED BY <3>4, <3>5
  <2>3. PICK d, a, l : /\ d = [r \in Listed |-> DriverPart(r)] /\ a = [r \in Listed |-> AmountOf(r)]
                       /\ l = [r \in Listed |-> Slack(r)]
    OBVIOUS
  <2>4. Within(Total(d, Listed), Total(a, Listed), Total(l, Listed))
    <3>1. /\ d \in [Listed -> Int] /\ a \in [Listed -> Int] /\ l \in [Listed -> Int]
          /\ \A r \in Listed : Within(d[r], a[r], l[r])
      BY <2>2, <2>3
    <3> QED BY <2>1, <3>1, SumsAreClose
  <2>5. PICK p, w, c : /\ p = [r \in Listed |-> PlatformPart(r)] /\ w = [r \in Listed |-> PlatformOf(r)]
                       /\ c = [r \in Listed |-> HalfCents(r)]
    OBVIOUS
  <2>6. Within(Total(p, Listed), Total(w, Listed), Total(c, Listed))
    <3>1. /\ p \in [Listed -> Int] /\ w \in [Listed -> Int] /\ c \in [Listed -> Int]
          /\ \A r \in Listed : Within(p[r], w[r], c[r])
      BY <2>2, <2>5
    <3> QED BY <2>1, <3>1, SumsAreClose
  <2>7. /\ Within(DriverEarning, MapThenSumSet(LAMBDA r : 100 * entry[r].amount, Listed), MapThenSumSet(Slack, Listed))
        /\ Within(PlatformEarning, MapThenSumSet(LAMBDA r : Breakdown(r).platform, Listed), MapThenSumSet(HalfCents, Listed))
    BY <2>3, <2>4, <2>5, <2>6, DriverEarningIsSum, AmountsAreSum, SlackIsSum, PlatformEarningIsSum, PlatformsAreSum,
       HalfCentsAreSum
  <2> QED BY <2>7
<1>2. IInv /\ DiscountsKnown => FinancesMatchTheWallet
  BY <1>1 DEF FinancesMatchTheWallet
<1> QED BY <1>2, BooksInvariance, DiscountsAreKnown, PTL
=============================================================================
