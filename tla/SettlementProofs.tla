-------------------------- MODULE SettlementProofs --------------------------
(***************************************************************************)
(* Proofs about Settlement: the types; that no credit is settled for a     *)
(* ride nobody paid for; that a ride nobody corrects is credited once;     *)
(* that no payout exceeds what was settled; that the card fee is taken     *)
(* once; and that every completed ride gets its credit.                    *)
(***************************************************************************)
EXTENDS Settlement, FiniteSetTheorems, WellFoundedInduction, TLAPS

(***************************************************************************)
(* The inductive invariant.  A ride that is marked paid, in the table or   *)
(* in the entity of a handler, was paid for; the intent a ride or an       *)
(* entity names was created for that ride; and a handler that will write   *)
(* a payment method knows that the ride was paid for.                      *)
(***************************************************************************)
Names(i, r) == i # None => intent[i].state # "none" /\ intent[i].ride = r

Honest(e, r) == (e.pay = "paid" => PaidFor(r)) /\ Names(e.intent, r)

RowInv == \A r \in Rides : Honest(row[r], r)

JobOK(j) ==
  /\ j.pc \notin {"idle", "insert"} => j.ride \in Rides
  /\ Honest(j.ent, j.ride)
  /\ j.method \in {"cash", "card"} => PaidFor(j.ride)
  /\ j.pc \in {"entry", "mark"} => j.method \in {"cash", "card"}
  /\ j.pc = "retrieve" => j.ent.intent # None
  /\ j.pc = "find" => j.intent # None
  /\ j.intent # None => intent[j.intent].state = "succeeded"
  /\ j.pc = "insert" => j.amount \in Nat

IInv ==
  /\ Typed
  /\ RowInv
  /\ SettledCreditsWerePaid
  /\ \A s \in Slots : JobOK(job[s])

(***************************************************************************)
(* What every step leaves standing: an intent keeps its ride once it is    *)
(* created, collected money stays collected, confirmed cash confirmed.     *)
(***************************************************************************)
Evolves ==
  /\ \A i \in Intents : intent[i].state # "none" =>
       /\ intent'[i].state # "none" /\ intent'[i].ride = intent[i].ride
       /\ intent[i].state = "succeeded" => intent'[i].state = "succeeded"
  /\ cashed \subseteq cashed'

\* Money that was paid stays paid.
LEMMA PaidForKept ==
  ASSUME Evolves, NEW r, PaidFor(r)
  PROVE  PaidFor(r)'
  BY DEF Evolves, PaidFor

\* An entity or a row stays honest when the intents evolve.
LEMMA HonestKept ==
  ASSUME Evolves, NEW e \in Row, NEW r, Honest(e, r)
  PROVE  (e.pay = "paid" => PaidFor(r)') /\ (e.intent # None => intent'[e.intent].state # "none" /\ intent'[e.intent].ride = r)
  BY PaidForKept DEF Evolves, Honest, Names, Row

\* A handler that does not move keeps its invariant.
LEMMA JobKept ==
  ASSUME Typed, Evolves, NEW s \in Slots, JobOK(job[s]), job'[s] = job[s]
  PROVE  JobOK(job[s])'
<1>1. job[s] \in Job /\ job[s].ent \in Row
  BY DEF Typed, Job
<1>2. Honest(job[s].ent, job[s].ride)'
  BY <1>1, HonestKept DEF JobOK, Honest, Names
<1>3. job[s].method \in {"cash", "card"} => PaidFor(job[s].ride)'
  BY PaidForKept DEF JobOK
<1>4. job[s].intent # None => intent'[job[s].intent].state = "succeeded"
  BY <1>1 DEF JobOK, Job, Evolves
<1>. QED
  BY <1>2, <1>3, <1>4 DEF JobOK

\* Steps that move at most one handler and do not touch rows and credits.
LEMMA MoveJob ==
  ASSUME IInv, Evolves, NEW s \in Slots, NEW j \in Job,
         job' = [job EXCEPT ![s] = j], JobOK(j)'
  PROVE  \A t \in Slots : JobOK(job[t])'
<1> SUFFICES ASSUME NEW t \in Slots PROVE JobOK(job[t])'
  OBVIOUS
<1>1. CASE t = s
  BY <1>1 DEF IInv, Typed, JobOK, Honest, Names
<1>2. CASE t # s
  BY <1>2, JobKept DEF IInv, Typed
<1>. QED
  BY <1>1, <1>2

\* Rows and credits that do not change keep their part of the invariant.
LEMMA StoreKept ==
  ASSUME IInv, Evolves, UNCHANGED <<row, credits>>
  PROVE  RowInv' /\ SettledCreditsWerePaid'
<1>1. ASSUME NEW r \in Rides PROVE Honest(row[r], r)'
  <2>1. row[r] \in Row /\ Honest(row[r], r)
    BY DEF IInv, Typed, RowInv
  <2>2. row'[r] = row[r]
    OBVIOUS
  <2>. QED
    BY <2>1, <2>2, HonestKept DEF Honest, Names
<1>2. ASSUME NEW r \in Rides, NEW k \in DOMAIN credits[r], credits[r][k].method # "pending"
      PROVE  PaidFor(r)'
  BY <1>2, PaidForKept DEF IInv, SettledCreditsWerePaid
<1>. QED
  BY <1>1, <1>2 DEF RowInv, SettledCreditsWerePaid

\* The steps of one handler that touch neither a ride nor an intent nor a credit.
LEMMA QuietStep ==
  ASSUME IInv, NEW s \in Slots, NEW j \in Job, job' = [job EXCEPT ![s] = j], JobOK(j)',
         UNCHANGED <<row, intent, credits, startup>>,
         cashed \subseteq cashed', cashed' \subseteq Rides, edited' \subseteq Rides,
         begun' \in Nat, payouts' \in Nat, lock' \in Slots \cup {None}
  PROVE  IInv'
<1>1. Evolves
  BY DEF Evolves
<1>2. Typed'
  BY DEF IInv, Typed, startup
<1>3. RowInv' /\ SettledCreditsWerePaid'
  BY <1>1, StoreKept
<1>4. \A t \in Slots : JobOK(job[t])'
  BY <1>1, MoveJob
<1>. QED
  BY <1>2, <1>3, <1>4 DEF IInv

LEMMA NoJobOK == NoJob \in Job /\ FreshRide \in Row /\ JobOK(NoJob) /\ JobOK(NoJob)'
<1>1. FreshRide \in Row
  BY DEF FreshRide, Row
<1>2. NoJob \in Job
  BY <1>1 DEF NoJob, Job, PCs
<1>3. /\ NoJob.pc = "idle" /\ NoJob.ent.pay = "pending" /\ NoJob.ent.intent = None
      /\ NoJob.method = None /\ NoJob.intent = None
  BY DEF NoJob, FreshRide
<1>4. None \notin {"cash", "card"}
  BY MoneyAssumption
<1>. QED
  BY <1>1, <1>2, <1>3, <1>4 DEF JobOK, Honest, Names

\* A handler that ends, or a request that changes nothing.
LEMMA FinishStep ==
  ASSUME IInv, NEW s \in Slots, Finish(s), UNCHANGED <<row, intent, credits, startup, cashed, edited>>,
         begun' \in Nat, payouts' \in Nat, lock' \in Slots \cup {None}
  PROVE  IInv'
<1>1. job' = [job EXCEPT ![s] = NoJob]
  BY DEF Finish, Become
<1>2. PICK j \in Job : j = NoJob
  BY NoJobOK
<1>3. JobOK(j)'
  BY <1>2, NoJobOK
<1>. QED
  BY <1>1, <1>2, <1>3, QuietStep DEF IInv, Typed


\* A handler begins by loading a ride and editing the entity.
LEMMA BeginStep ==
  ASSUME IInv, NEW s \in Slots, NEW op \in Ops, NEW pc \in {"select", "claim", "create", "retrieve"},
         NEW r \in Rides, NEW e \in Row, NEW g \in Nat, NEW m \in Methods \cup {None},
         Begin(s, op, pc, r, e, g, m),
         Honest(e, r)', pc = "retrieve" => e.intent # None,
         m \in {"cash", "card"} => PaidFor(r)',
         UNCHANGED <<row, intent, ledger, lock, startup>>,
         cashed \subseteq cashed', cashed' \subseteq Rides, edited' \subseteq Rides,
         begun' \in Nat
  PROVE  IInv'
<1>1. PICK j : j = [NoJob EXCEPT !.op = op, !.pc = pc, !.ride = r, !.ent = e,
                                 !.gross = g, !.method = m]
  OBVIOUS
<1>2. j \in Job
  BY <1>1, NoJobOK DEF Job, PCs
<1>3. j.pc = pc /\ j.ride = r /\ j.ent = e /\ j.method = m /\ j.intent = None
  BY <1>1, NoJobOK DEF Job, NoJob
<1>4. JobOK(j)'
  BY <1>3 DEF JobOK
<1>5. job' = [job EXCEPT ![s] = j]
  BY <1>1 DEF Begin, Become
<1>. QED
  BY <1>2, <1>4, <1>5, QuietStep DEF IInv, Typed, ledger

\* What the invariant says of a row, for the entity a handler loads from it.
LEMMA RowFacts ==
  ASSUME IInv, NEW r \in Rides
  PROVE  row[r] \in Row /\ Honest(row[r], r)
  BY DEF IInv, Typed, RowInv

LEMMA CompleteInv ==
  ASSUME IInv, NEW s \in Slots, NEW r \in Rides, Complete(s, r), begun' = begun + 1
  PROVE  IInv'
<1>1. PICK f \in Fares, a \in Absorbed :
        Begin(s, "complete", "claim", r,
              [row[r] EXCEPT !.status = "completed", !.fare = f], f + a, None)
  BY DEF Complete
<1>2. PICK e : e = [row[r] EXCEPT !.status = "completed", !.fare = f]
  OBVIOUS
<1>3. PICK g \in Nat : g = f + a
  BY MoneyAssumption
<1>4. e \in Row /\ e.pay = row[r].pay /\ e.intent = row[r].intent
  BY <1>2, RowFacts, MoneyAssumption DEF Row
<1>5. Honest(e, r)'
  BY <1>4, RowFacts DEF Complete, Honest, Names, PaidFor
<1>6. Begin(s, "complete", "claim", r, e, g, None)
  BY <1>1, <1>2, <1>3
<1>8. /\ UNCHANGED <<row, intent, ledger, lock, startup>>
      /\ cashed \subseteq cashed' /\ cashed' \subseteq Rides /\ edited' \subseteq Rides
      /\ begun' \in Nat
  BY DEF Complete, IInv, Typed
<1>9. "complete" \in Ops /\ 0 \in Nat /\ None \notin {"cash", "card"}
  BY MoneyAssumption DEF Ops
<1>. QED
  BY <1>4, <1>5, <1>6, <1>8, <1>9, BeginStep

LEMMA EditFareInv ==
  ASSUME IInv, NEW s \in Slots, NEW r \in Rides, EditFare(s, r), begun' = begun + 1
  PROVE  IInv'
<1>1. PICK f \in NewFares :
        Begin(s, "edit", "select", r,
              [row[r] EXCEPT !.status = "completed", !.fare = f], f, None)
  BY DEF EditFare
<1>2. PICK e : e = [row[r] EXCEPT !.status = "completed", !.fare = f]
  OBVIOUS
<1>3. f \in Nat
  BY MoneyAssumption
<1>4. e \in Row /\ e.pay = row[r].pay /\ e.intent = row[r].intent
  BY <1>2, <1>3, RowFacts DEF Row
<1>5. Honest(e, r)'
  BY <1>4, RowFacts DEF EditFare, Honest, Names, PaidFor
<1>6. Begin(s, "edit", "select", r, e, f, None)
  BY <1>1, <1>2
<1>8. /\ UNCHANGED <<row, intent, ledger, lock, startup>>
      /\ cashed \subseteq cashed' /\ cashed' \subseteq Rides /\ edited' \subseteq Rides
      /\ begun' \in Nat
  BY DEF EditFare, IInv, Typed
<1>9. "edit" \in Ops /\ 0 \in Nat /\ None \notin {"cash", "card"}
  BY MoneyAssumption DEF Ops
<1>. QED
  BY <1>3, <1>4, <1>5, <1>6, <1>8, <1>9, BeginStep

LEMMA PayCashInv ==
  ASSUME IInv, NEW s \in Slots, NEW r \in Rides, PayCash(s, r), begun' = begun + 1
  PROVE  IInv'
<1>1. PICK e : e = [row[r] EXCEPT !.pay = "paid"]
  OBVIOUS
<1>2. e \in Row /\ e.intent = row[r].intent
  BY <1>1, RowFacts DEF Row
<1>3. PaidFor(r)'
  BY DEF PayCash, PaidFor
<1>4. Honest(e, r)'
  BY <1>2, <1>3, RowFacts DEF PayCash, Honest, Names
<1>5. Begin(s, "cash", "select", r, e, 0, "cash")
  BY <1>1 DEF PayCash
<1>8. /\ UNCHANGED <<row, intent, ledger, lock, startup>>
      /\ cashed \subseteq cashed' /\ cashed' \subseteq Rides /\ edited' \subseteq Rides
      /\ begun' \in Nat
  BY DEF PayCash, IInv, Typed
<1>9. "cash" \in Ops /\ 0 \in Nat /\ None \notin {"cash", "card"}
  BY MoneyAssumption DEF Ops
<1>. QED
  BY <1>2, <1>3, <1>4, <1>5, <1>8, <1>9, BeginStep DEF Methods

LEMMA CreateIntentInv ==
  ASSUME IInv, NEW s \in Slots, NEW r \in Rides, CreateIntent(s, r), begun' = begun + 1
  PROVE  IInv'
<1>1. PICK op \in {"sheet", "charge"} :
        Begin(s, op, IF row[r].intent = None THEN "create" ELSE "retrieve", r, row[r], 0, None)
  BY DEF CreateIntent
<1>2. PICK e : e = row[r]
  OBVIOUS
<1>3. PICK pc : pc = IF e.intent = None THEN "create" ELSE "retrieve"
  OBVIOUS
<1>4. e \in Row /\ Honest(e, r)'
  BY <1>2, RowFacts DEF CreateIntent, Honest, Names, PaidFor
<1>5. Begin(s, op, pc, r, e, 0, None)
  BY <1>1, <1>2, <1>3
<1>8. /\ UNCHANGED <<row, intent, ledger, lock, startup>>
      /\ cashed \subseteq cashed' /\ cashed' \subseteq Rides /\ edited' \subseteq Rides
      /\ begun' \in Nat
  BY DEF CreateIntent, IInv, Typed
<1>9. op \in Ops /\ 0 \in Nat /\ None \notin {"cash", "card"}
  BY MoneyAssumption DEF Ops
<1>. QED
  BY <1>3, <1>4, <1>5, <1>8, <1>9, BeginStep

\* An intent that succeeded and that a ride names has paid for the ride.
LEMMA LookUpInv ==
  ASSUME IInv, NEW s \in Slots, NEW op \in {"succeeded", "failed", "canceled", "charge"},
         NEW i \in Intents, LookUp(s, op, i),
         op \in {"succeeded", "charge"} => intent[i].state = "succeeded",
         UNCHANGED <<row, intent, ledger, lock, startup, edited, cashed>>, begun' \in Nat
  PROVE  IInv'
<1>1. CASE Finish(s)
  BY <1>1, FinishStep DEF IInv, Typed, ledger
<1>2. CASE ~Finish(s)
  <2>1. PICK m : m = IF op \in {"succeeded", "charge"} THEN "card" ELSE None
    OBVIOUS
  <2>2. PICK r \in Rides : row[r].intent = i /\ Begin(s, op, "select", r, Outcome(op, row[r]), 0, m)
    BY <1>2, <2>1 DEF LookUp
  <2>3. PICK e : e = Outcome(op, row[r])
    OBVIOUS
  <2>4. intent[i].ride = r
    BY <2>2, RowFacts, MoneyAssumption DEF Honest, Names
  <2>5. op \in {"succeeded", "charge"} => PaidFor(r)
    BY <2>4 DEF PaidFor
  <2>6. e \in Row /\ Honest(e, r)
    <3>1. row[r] \in Row /\ Honest(row[r], r)
      BY RowFacts
    <3>2. CASE op = "failed"
      BY <2>3, <3>1, <3>2 DEF Outcome, Row, Honest, Names
    <3>3. CASE op = "canceled"
      BY <2>3, <3>1, <3>3 DEF Outcome, Row, Honest, Names
    <3>4. CASE op \in {"succeeded", "charge"}
      <4>1. e = [row[r] EXCEPT !.pay = "paid"]
        BY <2>3, <3>4 DEF Outcome
      <4>2. e \in Row /\ e.intent = row[r].intent
        BY <4>1, <3>1 DEF Row
      <4>. QED
        BY <2>5, <3>1, <3>4, <4>2 DEF Honest
    <3>. QED
      BY <3>2, <3>3, <3>4
  <2>7. Honest(e, r)' /\ (m \in {"cash", "card"} => PaidFor(r)')
    BY <2>1, <2>5, <2>6, MoneyAssumption DEF Honest, Names, PaidFor
  <2>8. Begin(s, op, "select", r, e, 0, m)
    BY <2>2, <2>3
  <2>9. op \in Ops /\ m \in Methods \cup {None}
    BY <2>1 DEF Ops, Methods
  <2>. QED
    BY <2>6, <2>7, <2>8, <2>9, BeginStep DEF IInv, Typed
<1>. QED
  BY <1>1, <1>2
-----------------------------------------------------------------------------
(***************************************************************************)
(* The steps of a handler in progress.                                     *)
(***************************************************************************)
LEMMA JobFacts ==
  ASSUME IInv, NEW s \in Slots
  PROVE  /\ job[s] \in Job /\ JobOK(job[s]) /\ job[s].ent \in Row
         /\ job[s].pc \notin {"idle", "insert"} => job[s].ride \in Rides
  BY DEF IInv, Typed, JobOK, Job

\* A step that rewrites the row of the handler's ride.
LEMMA RowStep ==
  ASSUME IInv, NEW s \in Slots, NEW r \in Rides, NEW e \in Row, Honest(e, r),
         row' = [row EXCEPT ![r] = e],
         NEW j \in Job, job' = [job EXCEPT ![s] = j], JobOK(j)',
         UNCHANGED <<intent, ledger, lock, startup, history>>
  PROVE  IInv'
<1>1. Evolves
  BY DEF Evolves, history
<1>2. Typed'
  BY DEF IInv, Typed, ledger, startup, history
<1>3. ASSUME NEW q \in Rides PROVE Honest(row[q], q)'
  <2>1. row'[q] \in Row /\ Honest(row'[q], q)
    BY DEF IInv, Typed, RowInv
  <2>. QED
    BY <2>1 DEF Honest, Names, PaidFor, history
<1>4. SettledCreditsWerePaid'
  BY DEF IInv, SettledCreditsWerePaid, PaidFor, ledger, history
<1>5. \A t \in Slots : JobOK(job[t])'
  BY <1>1, MoveJob
<1>. QED
  BY <1>2, <1>3, <1>4, <1>5 DEF IInv, RowInv

LEMMA ClaimInv ==
  ASSUME IInv, NEW s \in Slots, Claim(s)
  PROVE  IInv'
<1>1. CASE Finish(s) /\ UNCHANGED row
  BY <1>1, FinishStep DEF Claim, ledger, history, IInv, Typed
<1>2. CASE ~(Finish(s) /\ UNCHANGED row)
  <2>1. PICK r \in Rides : r = job[s].ride
    BY JobFacts DEF Claim, At
  <2>2. row' = [row EXCEPT ![r].status = "completed"] /\ Goto(s, "select")
    BY <1>2, <2>1 DEF Claim
  <2>3. PICK e : e = [row[r] EXCEPT !.status = "completed"]
    OBVIOUS
  <2>4. e \in Row /\ Honest(e, r)
    BY <2>3, RowFacts DEF Row, Honest
  <2>5. row' = [row EXCEPT ![r] = e]
    BY <2>2, <2>3
  <2>6. PICK j : j = [job[s] EXCEPT !.pc = "select"]
    OBVIOUS
  <2>7. j \in Job /\ JobOK(j)
    BY <2>6, JobFacts DEF Job, PCs, JobOK, Claim, At
  <2>8. JobOK(j)'
    BY <2>7 DEF JobOK, Honest, Names, PaidFor, Claim, history
  <2>9. job' = [job EXCEPT ![s] = j] /\ UNCHANGED <<intent, ledger, lock, startup, history>>
    BY <2>2, <2>6 DEF Goto, Become, Claim
  <2>. QED
    BY <2>4, <2>5, <2>7, <2>8, <2>9, RowStep
<1>. QED
  BY <1>1, <1>2

\* A step that only moves the handler to j.
LEMMA MoveStep ==
  ASSUME IInv, NEW s \in Slots, NEW j \in Job, job' = [job EXCEPT ![s] = j], JobOK(j),
         UNCHANGED <<row, intent, ledger, lock, startup, history>>
  PROVE  IInv'
<1>1. JobOK(j)'
  BY DEF JobOK, Honest, Names, PaidFor, history
<1>. QED
  BY <1>1, QuietStep DEF IInv, Typed, ledger, history

LEMMA RetrieveInv ==
  ASSUME IInv, NEW s \in Slots, Retrieve(s)
  PROVE  IInv'
<1>1. CASE Finish(s)
  BY <1>1, FinishStep DEF Retrieve, ledger, history, IInv, Typed
<1>2. CASE Goto(s, "create")
  <2>1. PICK j : j = [job[s] EXCEPT !.pc = "create"]
    OBVIOUS
  <2>2. j \in Job /\ JobOK(j)
    BY <2>1, JobFacts DEF Job, PCs, JobOK, Retrieve, At
  <2>. QED
    BY <1>2, <2>1, <2>2, MoveStep DEF Goto, Become, Retrieve
<1>. QED
  BY <1>1, <1>2 DEF Retrieve

LEMMA SaveSelectInv ==
  ASSUME IInv, NEW s \in Slots, SaveSelect(s)
  PROVE  IInv'
<1>1. PICK j : j = [job[s] EXCEPT !.pc = "update", !.dirty = Differing(job[s].ent, row[job[s].ride])]
  OBVIOUS
<1>2. Differing(job[s].ent, row[job[s].ride]) \subseteq Columns
  BY DEF Differing
<1>3. j \in Job /\ JobOK(j)
  BY <1>1, <1>2, JobFacts DEF Job, PCs, JobOK, SaveSelect, At
<1>. QED
  BY <1>1, <1>3, MoveStep DEF Become, SaveSelect

LEMMA PriorInv ==
  ASSUME IInv, NEW s \in Slots, Prior(s)
  PROVE  IInv'
<1>1. PICK r \in Rides : r = job[s].ride
  BY JobFacts DEF Prior, At
<1>2. PICK m : /\ m \in IF credits[r] = <<>> THEN {None} ELSE {c.method : c \in ToSet(credits[r])}
               /\ Become(s, [job[s] EXCEPT !.pc = "wipe", !.method = m])
  BY <1>1 DEF Prior
<1>3. m \in Methods \cup {None} /\ (m \in {"cash", "card"} => PaidFor(r))
  <2>1. CASE m = None
    BY <2>1, MoneyAssumption
  <2>2. CASE m # None
    <3>1. PICK k \in DOMAIN credits[r] : m = credits[r][k].method
      BY <1>2, <2>2 DEF ToSet
    <3>2. credits[r] \in Seq(Credit)
      BY DEF IInv, Typed
    <3>3. credits[r][k] \in Credit
      BY <3>1, <3>2
    <3>. QED
      BY <3>1, <3>3 DEF Credit, Methods, IInv, SettledCreditsWerePaid
  <2>. QED
    BY <2>1, <2>2
<1>4. PICK j : j = [job[s] EXCEPT !.pc = "wipe", !.method = m]
  OBVIOUS
<1>5. j \in Job /\ JobOK(j)
  BY <1>1, <1>3, <1>4, JobFacts DEF Job, PCs, JobOK, Prior, At
<1>. QED
  BY <1>2, <1>4, <1>5, MoveStep DEF Become, Prior

LEMMA ReadEntryInv ==
  ASSUME IInv, NEW s \in Slots, ReadEntry(s)
  PROVE  IInv'
<1>1. PICK r \in Rides : r = job[s].ride
  BY JobFacts DEF ReadEntry, At
<1>2. PICK n : /\ n \in {None} \cup
                      {IF Solo /\ CardFeePct > 0 /\ c.method # "card"
                       THEN c.amount - Percent(IF row[r].fare = 0 THEN c.gross ELSE row[r].fare, CardFeePct)
                       ELSE None : c \in ToSet(credits[r])}
               /\ Become(s, [job[s] EXCEPT !.pc = "mark", !.amount = n])
  BY <1>1 DEF ReadEntry
<1>3. n \in Int \cup {None}
  <2>1. CASE n = None
    BY <2>1
  <2>2. CASE n # None
    <3>1. PICK k \in DOMAIN credits[r] :
            \/ n = credits[r][k].amount - Percent(row[r].fare, CardFeePct)
            \/ n = credits[r][k].amount - Percent(credits[r][k].gross, CardFeePct)
      BY <1>2, <2>2 DEF ToSet
    <3>2. credits[r] \in Seq(Credit)
      BY DEF IInv, Typed
    <3>3. credits[r][k] \in Credit
      BY <3>1, <3>2
    <3>4. Percent(row[r].fare, CardFeePct) \in Int /\ Percent(credits[r][k].gross, CardFeePct) \in Int
      BY <3>3, RowFacts, MoneyAssumption DEF Row, Credit, Percent
    <3>. QED
      BY <3>1, <3>3, <3>4 DEF Credit
  <2>. QED
    BY <2>1, <2>2
<1>4. PICK j : j = [job[s] EXCEPT !.pc = "mark", !.amount = n]
  OBVIOUS
<1>5. j \in Job /\ JobOK(j)
  BY <1>3, <1>4, JobFacts DEF Job, PCs, JobOK, ReadEntry, At
<1>. QED
  BY <1>2, <1>4, <1>5, MoveStep DEF Become, ReadEntry

\* A new intent is named by no ride and no entity yet.
LEMMA CreateInv ==
  ASSUME IInv, NEW s \in Slots, Create(s)
  PROVE  IInv'
<1>1. PICK r \in Rides : r = job[s].ride
  BY JobFacts DEF Create, At
<1>2. PICK i \in Intents, state \in {"open", "succeeded"} :
        /\ intent[i].state = "none"
        /\ intent' = [intent EXCEPT ![i] = [ride |-> r, state |-> state, failed |-> FALSE]]
        /\ Become(s, [job[s] EXCEPT !.pc = "select", !.ent.intent = i,
                                    !.intent = IF state = "succeeded" THEN i ELSE None])
  BY <1>1 DEF Create
<1>3. PICK n \in Intents \cup {None} : n = IF state = "succeeded" THEN i ELSE None
  OBVIOUS
<1>4. PICK e : e = [job[s].ent EXCEPT !.intent = i]
  OBVIOUS
<1>4a. e \in Row /\ e.intent = i /\ e.pay = job[s].ent.pay
  BY <1>4, JobFacts DEF Row
<1>4b. PICK j : j = [job[s] EXCEPT !.pc = "select", !.ent = e, !.intent = n]
  OBVIOUS
<1>5. j \in Job
  BY <1>4a, <1>4b, JobFacts DEF Job, PCs
<1>6. /\ j.pc = "select" /\ j.ride = r /\ j.method = job[s].method /\ j.intent = n
      /\ j.ent.intent = i /\ j.ent.pay = job[s].ent.pay
  BY <1>1, <1>4a, <1>4b, JobFacts DEF Job
<1>7. intent \in [Intents -> Intent]
  BY DEF IInv, Typed
<1>8. intent' \in [Intents -> Intent]
  BY <1>2, <1>7 DEF Intent
<1>9. intent'[i].state = state /\ intent'[i].ride = r
  BY <1>2, <1>7
<1>10. Evolves
  BY <1>2, <1>7 DEF Evolves, Create, history
<1>11. JobOK(j)'
  <2>1. job[s].ent.pay = "paid" => PaidFor(r)'
    BY <1>1, <1>10, JobFacts, PaidForKept DEF JobOK, Honest
  <2>2. job[s].method \in {"cash", "card"} => PaidFor(r)'
    BY <1>1, <1>10, JobFacts, PaidForKept DEF JobOK
  <2>3. Honest(j.ent, j.ride)'
    BY <1>2, <1>6, <1>9, <2>1 DEF Honest, Names
  <2>. QED
    BY <1>3, <1>6, <1>9, <2>2, <2>3 DEF JobOK
<1>12. job' = [job EXCEPT ![s] = j]
  BY <1>2, <1>3, <1>4, <1>4b, JobFacts DEF Become, Job
<1>13. Typed'
  BY <1>5, <1>8, <1>12 DEF IInv, Typed, Create, ledger, startup, history
<1>14. RowInv' /\ SettledCreditsWerePaid'
  BY <1>10, StoreKept DEF Create, ledger
<1>15. \A t \in Slots : JobOK(job[t])'
  BY <1>5, <1>10, <1>11, <1>12, MoveJob
<1>. QED
  BY <1>13, <1>14, <1>15 DEF IInv

LEMMA CreateFailsInv ==
  ASSUME IInv, NEW s \in Slots, CreateFails(s)
  PROVE  IInv'
  BY FinishStep DEF CreateFails, ledger, history, IInv, Typed

LEMMA WebhookInv ==
  ASSUME IInv, NEW s \in Slots, NEW type \in {"succeeded", "failed", "canceled"}, NEW i \in Intents,
         Webhook(s, type, i), begun' = begun + 1
  PROVE  IInv'
<1>1. begun' \in Nat
  BY DEF IInv, Typed
<1>2. type = "succeeded" => intent[i].state = "succeeded"
  BY DEF Webhook, Sent
<1>. QED
  BY <1>1, <1>2, LookUpInv DEF Webhook

LEMMA FindInv ==
  ASSUME IInv, NEW s \in Slots, Find(s)
  PROVE  IInv'
<1>1. PICK i \in Intents : i = job[s].intent /\ intent[i].state = "succeeded"
  BY JobFacts DEF Find, At, JobOK, Job
<1>2. LookUp(s, "charge", i)
  BY <1>1 DEF Find
<1>3. UNCHANGED <<row, intent, ledger, lock, startup, edited, cashed>> /\ begun' \in Nat
  BY DEF Find, history, IInv, Typed
<1>. QED
  BY <1>1, <1>2, <1>3, LookUpInv

\* Whatever columns the UPDATE writes, the row stays honest.
LEMMA SaveUpdateInv ==
  ASSUME IInv, NEW s \in Slots, SaveUpdate(s)
  PROVE  IInv'
<1>1. PICK r \in Rides : r = job[s].ride
  BY JobFacts DEF SaveUpdate, At
<1>2. PICK e : e = Merge(row[r], job[s].ent, job[s].dirty)
  OBVIOUS
<1>3. /\ e = [c \in Columns |-> e[c]]
      /\ \A c \in Columns : e[c] \in {row[r][c], job[s].ent[c]}
  BY <1>2 DEF Merge
<1>4. /\ e.status \in {row[r].status, job[s].ent.status}
      /\ e.fare \in {row[r].fare, job[s].ent.fare}
      /\ e.pay \in {row[r].pay, job[s].ent.pay}
      /\ e.intent \in {row[r].intent, job[s].ent.intent}
  BY <1>3 DEF Columns
<1>5. e \in Row
  <2>1. e = [status |-> e.status, fare |-> e.fare, pay |-> e.pay, intent |-> e.intent]
    BY <1>3 DEF Columns
  <2>2. /\ e.status \in {"in_progress", "completed"} /\ e.fare \in Nat
        /\ e.pay \in {"pending", "paid", "failed"} /\ e.intent \in Intents \cup {None}
    BY <1>4, RowFacts, JobFacts DEF Row
  <2>. QED
    BY <2>1, <2>2 DEF Row
<1>6. Honest(e, r)
  BY <1>1, <1>4, RowFacts, JobFacts DEF JobOK, Honest
<1>7. row' = [row EXCEPT ![r] = e]
  BY <1>1, <1>2 DEF SaveUpdate
<1>8. UNCHANGED <<intent, ledger, lock, startup, history>>
  BY DEF SaveUpdate
<1>9. PICK next : next = AfterSave(job[s])
  OBVIOUS
<1>10. CASE next = "idle"
  <2>1. PICK j \in Job : j = NoJob
    BY NoJobOK
  <2>2. JobOK(j)'
    BY <2>1, NoJobOK
  <2>3. job' = [job EXCEPT ![s] = j]
    BY <1>9, <1>10, <2>1 DEF SaveUpdate, Finish, Become
  <2>. QED
    BY <1>5, <1>6, <1>7, <1>8, <2>2, <2>3, RowStep
<1>11. CASE next # "idle"
  <2>1. PICK j : j = [job[s] EXCEPT !.pc = next, !.ent = FreshRide, !.dirty = {}]
    OBVIOUS
  <2>2. /\ next \in {"credit", "prior", "mark", "entry", "find"}
        /\ next \in {"mark", "entry"} => job[s].method \in {"cash", "card"}
        /\ next = "find" => job[s].intent # None
    BY <1>9, <1>11 DEF AfterSave
  <2>3. j \in Job
    BY <2>1, <2>2, NoJobOK, JobFacts DEF Job, PCs
  <2>4. /\ j.pc = next /\ j.ride = r /\ j.method = job[s].method /\ j.intent = job[s].intent
        /\ j.ent.pay = "pending" /\ j.ent.intent = None
    BY <1>1, <2>1, NoJobOK, JobFacts DEF Job, FreshRide
  <2>5. JobOK(j)
    BY <1>1, <2>2, <2>4, JobFacts DEF JobOK, Honest, Names
  <2>6. JobOK(j)'
    BY <1>8, <2>5 DEF JobOK, Honest, Names, PaidFor, history
  <2>7. job' = [job EXCEPT ![s] = j]
    BY <1>9, <1>11, <2>1 DEF SaveUpdate, Become
  <2>. QED
    BY <1>5, <1>6, <1>7, <1>8, <2>3, <2>6, <2>7, RowStep
<1>. QED
  BY <1>10, <1>11
-----------------------------------------------------------------------------
(***************************************************************************)
(* The steps that write the ledger.                                        *)
(***************************************************************************)
\* The credits of a ride may become a history whose settled entries were paid.
Paid(cs, r) ==
  /\ cs \in Seq(Credit)
  /\ \A k \in DOMAIN cs : cs[k].method # "pending" => PaidFor(r)

LEMMA CreditsPaid ==
  ASSUME IInv, NEW r \in Rides
  PROVE  Paid(credits[r], r)
  BY DEF IInv, Typed, SettledCreditsWerePaid, Paid

\* A step that changes nothing but the ledger, a handler and the backfill.
LEMMA LedgerStep ==
  ASSUME IInv, credits' \in [Rides -> Seq(Credit)],
         \A r \in Rides : Paid(credits'[r], r),
         UNCHANGED <<row, intent, payouts, lock, crashes, history>>,
         booting' \subseteq {"credits", "methods"}, orphans' \subseteq [ride : Rides, gross : Nat],
         job' \in [Slots -> Job], \A s \in Slots : JobOK(job'[s])
  PROVE  IInv'
<1>1. Typed'
  BY DEF IInv, Typed, history
<1>2. RowInv'
  BY DEF IInv, RowInv, Honest, Names, PaidFor, history
<1>3. SettledCreditsWerePaid'
  BY DEF Paid, SettledCreditsWerePaid, PaidFor, history
<1>4. \A s \in Slots : JobOK(job[s])'
  BY DEF JobOK, Honest, Names, PaidFor, history
<1>. QED
  BY <1>1, <1>2, <1>3, <1>4 DEF IInv

\* One handler rewrites the credits of one ride and moves on.
LEMMA CreditStep ==
  ASSUME IInv, NEW s \in Slots, NEW j \in Job, job' = [job EXCEPT ![s] = j], JobOK(j),
         NEW r \in Rides, NEW cs, Paid(cs, r), SetCredits(r, cs),
         UNCHANGED <<row, intent, lock, startup, history>>
  PROVE  IInv'
<1>1. credits' = [credits EXCEPT ![r] = cs] /\ payouts' = payouts
  BY DEF SetCredits
<1>2. credits \in [Rides -> Seq(Credit)] /\ job \in [Slots -> Job]
  BY DEF IInv, Typed
<1>3. credits' \in [Rides -> Seq(Credit)]
  BY <1>1, <1>2 DEF Paid
<1>4. \A q \in Rides : Paid(credits'[q], q)
  BY <1>1, <1>2, CreditsPaid
<1>5. job' \in [Slots -> Job] /\ \A t \in Slots : JobOK(job'[t])
  BY <1>2 DEF IInv
<1>6. booting' \subseteq {"credits", "methods"} /\ orphans' \subseteq [ride : Rides, gross : Nat]
  BY DEF IInv, Typed, startup
<1>. QED
  BY <1>1, <1>3, <1>4, <1>5, <1>6, LedgerStep DEF startup

\* A ride's share is an amount, and a new credit is pending.
LEMMA NewCreditPaid ==
  ASSUME NEW g \in Nat, NEW r, NEW cs, Paid(cs, r)
  PROVE  Paid(cs \o NewCredit(g), r)
<1>1. Share(g) \in Int
  BY MoneyAssumption DEF Share, Percent
<1>2. PICK c : c = [amount |-> Share(g), gross |-> g, method |-> "pending"]
  OBVIOUS
<1>3. c \in Credit /\ c.method = "pending"
  BY <1>1, <1>2 DEF Credit, Methods
<1>4. CASE NewCredit(g) = <<>>
  <2>1. cs \o <<>> = cs
    BY DEF Paid
  <2>. QED
    BY <1>4, <2>1
<1>5. CASE NewCredit(g) # <<>>
  <2>1. NewCredit(g) = <<c>>
    BY <1>2, <1>5 DEF NewCredit
  <2>2. <<c>> \in Seq(Credit) /\ cs \in Seq(Credit)
    BY <1>3 DEF Paid
  <2>3. cs \o <<c>> \in Seq(Credit)
    BY <2>2
  <2>4. ASSUME NEW k \in DOMAIN (cs \o <<c>>)
        PROVE  \/ k \in DOMAIN cs /\ (cs \o <<c>>)[k] = cs[k]
               \/ (cs \o <<c>>)[k] = c
    BY <2>2
  <2>. QED
    BY <1>3, <2>1, <2>3, <2>4 DEF Paid
<1>. QED
  BY <1>4, <1>5

LEMMA WipeInv ==
  ASSUME IInv, NEW s \in Slots, Wipe(s)
  PROVE  IInv'
<1>1. PICK r \in Rides : r = job[s].ride
  BY JobFacts DEF Wipe, At
<1>2. PICK j \in Job : JobOK(j) /\ job' = [job EXCEPT ![s] = j]
  <2>1. CASE Finish(s)
    BY <2>1, NoJobOK DEF Finish, Become
  <2>2. CASE Goto(s, "credit")
    <3>1. PICK j : j = [job[s] EXCEPT !.pc = "credit"]
      OBVIOUS
    <3>2. j \in Job /\ JobOK(j)
      BY <3>1, JobFacts DEF Job, PCs, JobOK, Wipe, At
    <3>. QED
      BY <2>2, <3>1, <3>2 DEF Goto, Become
  <2>. QED
    BY <2>1, <2>2 DEF Wipe
<1>3. PICK cs : cs = <<>>
  OBVIOUS
<1>4. Paid(cs, r)
  BY <1>3 DEF Paid
<1>. QED
  BY <1>1, <1>2, <1>3, <1>4, CreditStep DEF Wipe

\* Where the handler goes once creditRide has returned.
LEMMA AfterCreditJob ==
  ASSUME IInv, NEW s \in Slots, At(s, "credit"), AfterCredit(s)
  PROVE  \E j \in Job : JobOK(j) /\ job' = [job EXCEPT ![s] = j]
<1>1. CASE Finish(s)
  BY <1>1, NoJobOK DEF Finish, Become
<1>2. ASSUME NEW pc \in {"entry", "mark"}, job[s].method \in {"cash", "card"}, Goto(s, pc)
      PROVE  \E j \in Job : JobOK(j) /\ job' = [job EXCEPT ![s] = j]
  <2>1. PICK j : j = [job[s] EXCEPT !.pc = pc]
    OBVIOUS
  <2>2. j \in Job /\ JobOK(j)
    BY <1>2, <2>1, JobFacts DEF Job, PCs, JobOK, At
  <2>. QED
    BY <1>2, <2>1, <2>2 DEF Goto, Become
<1>. QED
  BY <1>1, <1>2 DEF AfterCredit

LEMMA AddCreditInv ==
  ASSUME IInv, NEW s \in Slots, AddCredit(s)
  PROVE  IInv'
<1>1. PICK r \in Rides : r = job[s].ride
  BY JobFacts DEF AddCredit, At
<1>2. PICK j \in Job : JobOK(j) /\ job' = [job EXCEPT ![s] = j]
  BY AfterCreditJob DEF AddCredit
<1>3. PICK cs : cs = credits[r] \o NewCredit(job[s].gross)
  OBVIOUS
<1>4. job[s].gross \in Nat
  BY JobFacts DEF Job
<1>5. Paid(cs, r)
  BY <1>3, <1>4, CreditsPaid, NewCreditPaid
<1>. QED
  BY <1>1, <1>2, <1>3, <1>5, CreditStep DEF AddCredit, Enter

\* A handler that credits nothing, or that a query ends.
LEMMA CreditFailsInv ==
  ASSUME IInv, NEW s \in Slots, CreditFails(s)
  PROVE  IInv'
<1>1. PICK j \in Job : JobOK(j) /\ job' = [job EXCEPT ![s] = j]
  BY AfterCreditJob DEF CreditFails
<1>2. JobOK(j)'
  BY <1>1 DEF JobOK, Honest, Names, PaidFor, CreditFails
<1>. QED
  BY <1>1, <1>2, QuietStep DEF CreditFails, IInv, Typed

LEMMA QueryFailsInv ==
  ASSUME IInv, NEW s \in Slots, QueryFails(s)
  PROVE  IInv'
<1>1. payouts' \in Nat /\ lock' \in Slots \cup {None} /\ begun' \in Nat
  BY DEF QueryFails, IInv, Typed
<1>. QED
  BY <1>1, FinishStep DEF QueryFails

\* Marking writes the method of a handler that knows that the ride was paid for.
LEMMA MarkInv ==
  ASSUME IInv, NEW s \in Slots, Mark(s)
  PROVE  IInv'
<1>1. PICK r \in Rides : r = job[s].ride
  BY JobFacts DEF Mark, At
<1>2. PaidFor(r) /\ job[s].method \in {"cash", "card"} /\ job[s].amount \in Int \cup {None}
  BY <1>1, JobFacts DEF JobOK, Job, Mark, At
<1>3. PICK m \in Methods, a \in Int \cup {None} : m = job[s].method /\ a = job[s].amount
  BY <1>2 DEF Methods
<1>4. PICK cs : cs = [k \in DOMAIN credits[r] |->
                        [credits[r][k] EXCEPT !.method = m, !.amount = IF a = None THEN @ ELSE a]]
  OBVIOUS
<1>5. cs \in Seq(Credit)
  <2>1. credits[r] \in Seq(Credit)
    BY DEF IInv, Typed
  <2>2. PICK n \in Nat : DOMAIN credits[r] = 1 .. n
    BY <2>1
  <2>3. ASSUME NEW k \in 1 .. n PROVE cs[k] \in Credit
    <3>1. credits[r][k] \in Credit
      BY <2>1, <2>2
    <3>2. cs[k] = [credits[r][k] EXCEPT !.method = m, !.amount = IF a = None THEN @ ELSE a]
      BY <1>4, <2>2
    <3>. QED
      BY <3>1, <3>2 DEF Credit
  <2>4. cs = [k \in 1 .. n |-> cs[k]]
    BY <1>4, <2>2
  <2>. QED
    BY <2>3, <2>4
<1>6. Paid(cs, r)
  BY <1>2, <1>5 DEF Paid
<1>7. SetCredits(r, cs)
  BY <1>1, <1>3, <1>4 DEF Mark
<1>8. PICK j \in Job : j = NoJob
  BY NoJobOK
<1>9. JobOK(j) /\ job' = [job EXCEPT ![s] = j]
  BY <1>8, NoJobOK DEF Mark, Finish, Become
<1>. QED
  BY <1>6, <1>7, <1>9, CreditStep DEF Mark

LEMMA PayoutCheckInv ==
  ASSUME IInv, NEW s \in Slots, NEW a \in PayoutAmounts, PayoutCheck(s, a), begun' = begun + 1
  PROVE  IInv'
<1>1. PICK j : j = [NoJob EXCEPT !.op = "payout", !.pc = "insert", !.amount = a]
  OBVIOUS
<1>2. a \in Nat /\ a \in Int \cup {None} /\ "payout" \in Ops \cup {None} /\ "insert" \in PCs
  BY MoneyAssumption DEF Ops, PCs
<1>3. j \in Job
  BY <1>1, <1>2, NoJobOK DEF Job
<1>4. JobOK(j)'
  BY <1>1, <1>2, NoJobOK, MoneyAssumption DEF Job, NoJob, FreshRide, JobOK, Honest, Names
<1>5. /\ job' = [job EXCEPT ![s] = j] /\ lock' \in Slots \cup {None}
      /\ UNCHANGED <<row, intent, credits, payouts, startup, edited, cashed>> /\ begun' \in Nat
  BY <1>1 DEF PayoutCheck, Become, ledger, IInv, Typed
<1>. QED
  BY <1>3, <1>4, <1>5, QuietStep DEF IInv, Typed

LEMMA PayoutInsertInv ==
  ASSUME IInv, NEW s \in Slots, PayoutInsert(s)
  PROVE  IInv'
<1>1. job[s].amount \in Nat
  BY JobFacts DEF PayoutInsert, At, JobOK
<1>2. payouts' \in Nat /\ lock' \in Slots \cup {None} /\ begun' \in Nat
  BY <1>1 DEF PayoutInsert, IInv, Typed, history
<1>. QED
  BY <1>2, FinishStep DEF PayoutInsert, history
-----------------------------------------------------------------------------
(***************************************************************************)
(* The steps of Stripe, of a crash and of the start that follows.          *)
(***************************************************************************)
LEMMA StripeInv ==
  ASSUME IInv, NEW i \in Intents, ClientPays(i) \/ CardDeclined(i) \/ IntentCanceled(i)
  PROVE  IInv'
<1>1. intent \in [Intents -> Intent]
  BY DEF IInv, Typed
<1>2. intent' \in [Intents -> Intent]
  <2>1. intent[i] \in Intent
    BY <1>1
  <2>2. PICK e : intent' = [intent EXCEPT ![i] = e] /\ e \in Intent
    <3>1. [intent[i] EXCEPT !.state = "succeeded"] \in Intent
      BY <2>1 DEF Intent
    <3>2. [intent[i] EXCEPT !.state = "canceled"] \in Intent
      BY <2>1 DEF Intent
    <3>3. [intent[i] EXCEPT !.failed = TRUE] \in Intent
      BY <2>1 DEF Intent
    <3>. QED
      BY <3>1, <3>2, <3>3 DEF ClientPays, CardDeclined, IntentCanceled
  <2>. QED
    BY <1>1, <2>2
<1>3. UNCHANGED <<row, ledger, lock, job, startup, history>>
  BY DEF ClientPays, CardDeclined, IntentCanceled
<1>4. Evolves
  BY <1>1, <1>3 DEF Evolves, ClientPays, CardDeclined, IntentCanceled, Intent, history
<1>5. Typed'
  BY <1>2, <1>3 DEF IInv, Typed, ledger, startup, history
<1>6. RowInv' /\ SettledCreditsWerePaid'
  BY <1>3, <1>4, StoreKept DEF ledger
<1>7. \A s \in Slots : JobOK(job[s])'
  BY <1>3, <1>4, JobKept DEF IInv
<1>. QED
  BY <1>5, <1>6, <1>7 DEF IInv

LEMMA CrashInv ==
  ASSUME IInv, Crash
  PROVE  IInv'
<1>1. Typed'
  BY NoJobOK DEF IInv, Typed, Crash, ledger, history
<1>2. RowInv'
  BY DEF IInv, RowInv, Honest, Names, PaidFor, Crash, history
<1>3. SettledCreditsWerePaid'
  BY DEF IInv, SettledCreditsWerePaid, PaidFor, Crash, ledger, history
<1>4. ASSUME NEW s \in Slots PROVE JobOK(job[s])'
  <2>1. PICK j : j = NoJob
    OBVIOUS
  <2>2. JobOK(j)' /\ job'[s] = j
    BY <2>1, NoJobOK DEF Crash
  <2>. QED
    BY <2>2 DEF JobOK, Honest, Names
<1>. QED
  BY <1>1, <1>2, <1>3, <1>4 DEF IInv

LEMMA ScanOrphansInv ==
  ASSUME IInv, ScanOrphans
  PROVE  IInv'
<1>1. \A r \in Rides : row[r].fare \in Nat
  BY RowFacts DEF Row
<1>2. orphans' \subseteq [ride : Rides, gross : Nat]
  BY <1>1 DEF ScanOrphans
<1>3. /\ UNCHANGED <<row, intent, credits, payouts, lock, job, crashes, history>>
      /\ booting' \subseteq {"credits", "methods"}
  BY DEF ScanOrphans, ledger, IInv, Typed
<1>4. credits' \in [Rides -> Seq(Credit)] /\ \A r \in Rides : Paid(credits'[r], r)
  BY <1>3, CreditsPaid DEF IInv, Typed
<1>5. job' \in [Slots -> Job] /\ \A s \in Slots : JobOK(job'[s])
  BY <1>3 DEF IInv, Typed
<1>. QED
  BY <1>2, <1>3, <1>4, <1>5, LedgerStep

LEMMA BackfillCreditInv ==
  ASSUME IInv, BackfillCredit
  PROVE  IInv'
<1>1. PICK o \in orphans : SetCredits(o.ride, credits[o.ride] \o NewCredit(o.gross))
                           /\ orphans' = orphans \ {o}
  BY DEF BackfillCredit, Enter
<1>2. PICK r \in Rides, g \in Nat : r = o.ride /\ g = o.gross
  BY DEF IInv, Typed
<1>3. PICK cs : cs = credits[r] \o NewCredit(g)
  OBVIOUS
<1>4. Paid(cs, r)
  BY <1>3, CreditsPaid, NewCreditPaid
<1>5. credits' = [credits EXCEPT ![r] = cs] /\ payouts' = payouts
  BY <1>1, <1>2, <1>3 DEF SetCredits
<1>6. credits \in [Rides -> Seq(Credit)]
  BY DEF IInv, Typed
<1>7. credits' \in [Rides -> Seq(Credit)]
  BY <1>4, <1>5, <1>6 DEF Paid
<1>8. \A q \in Rides : Paid(credits'[q], q)
  BY <1>4, <1>5, <1>6, CreditsPaid
<1>9. /\ UNCHANGED <<row, intent, lock, job, crashes, history>>
      /\ booting' \subseteq {"credits", "methods"}
      /\ orphans' \subseteq [ride : Rides, gross : Nat]
  BY <1>1 DEF BackfillCredit, IInv, Typed
<1>10. job' \in [Slots -> Job] /\ \A s \in Slots : JobOK(job'[s])
  BY <1>9 DEF IInv, Typed
<1>. QED
  BY <1>5, <1>7, <1>8, <1>9, <1>10, LedgerStep

LEMMA BackfillFailsInv ==
  ASSUME IInv, BackfillFails
  PROVE  IInv'
<1>1. /\ UNCHANGED <<row, intent, credits, payouts, lock, job, booting, crashes,
                      begun, edited, cashed>>
      /\ orphans' \subseteq orphans
  BY DEF BackfillFails
<1>2. Typed'
  BY <1>1 DEF IInv, Typed
<1>. QED
  BY <1>1, <1>2 DEF IInv, RowInv, JobOK, Honest, Names, PaidFor, SettledCreditsWerePaid

\* The backfill classifies only credits of rides whose row says that they are paid.
LEMMA BackfillMethodsInv ==
  ASSUME IInv, BackfillMethods
  PROVE  IInv'
<1>1. ASSUME NEW r \in Rides, row[r].pay = "paid"
      PROVE  Paid([k \in DOMAIN credits[r] |-> Classified(credits[r][k], r)], r)
  <2>1. PICK cs : cs = [k \in DOMAIN credits[r] |-> Classified(credits[r][k], r)]
    OBVIOUS
  <2>2. credits[r] \in Seq(Credit)
    BY DEF IInv, Typed
  <2>3. PICK n \in Nat : DOMAIN credits[r] = 1 .. n
    BY <2>2
  <2>4. ASSUME NEW k \in 1 .. n PROVE cs[k] \in Credit
    <3>1. credits[r][k] \in Credit
      BY <2>2, <2>3
    <3>2. cs[k] = Classified(credits[r][k], r)
      BY <2>1, <2>3
    <3>. QED
      BY <3>1, <3>2 DEF Classified, Credit, Methods
  <2>5. cs = [k \in 1 .. n |-> cs[k]]
    BY <2>1, <2>3
  <2>6. PaidFor(r)
    BY <1>1, RowFacts DEF Honest
  <2>7. cs \in Seq(Credit)
    BY <2>4, <2>5
  <2>. QED
    BY <2>1, <2>6, <2>7 DEF Paid
<1>2. ASSUME NEW r \in Rides PROVE Paid(credits'[r], r)
  <2>1. CASE row[r].status = "completed" /\ row[r].pay = "paid"
    BY <1>1, <2>1 DEF BackfillMethods
  <2>2. CASE ~(row[r].status = "completed" /\ row[r].pay = "paid")
    BY <2>2, CreditsPaid DEF BackfillMethods
  <2>. QED
    BY <2>1, <2>2
<1>3. credits' \in [Rides -> Seq(Credit)]
  <2>1. \A r \in Rides : credits'[r] \in Seq(Credit)
    BY <1>2 DEF Paid
  <2>2. credits' = [r \in Rides |-> credits'[r]]
    BY DEF BackfillMethods
  <2>. QED
    BY <2>1, <2>2
<1>4. /\ UNCHANGED <<row, intent, payouts, lock, job, crashes, history>>
      /\ booting' \subseteq {"credits", "methods"}
      /\ orphans' \subseteq [ride : Rides, gross : Nat]
  BY DEF BackfillMethods, IInv, Typed
<1>5. job' \in [Slots -> Job] /\ \A s \in Slots : JobOK(job'[s])
  BY <1>4 DEF IInv, Typed
<1>. QED
  BY <1>2, <1>3, <1>4, <1>5, LedgerStep
-----------------------------------------------------------------------------
LEMMA InitInv ==
  ASSUME Init
  PROVE  IInv
<1>1. Typed
  BY NoJobOK DEF Init, Typed, NoIntent, Intent
<1>2. RowInv
  BY DEF Init, RowInv, Honest, Names, FreshRide
<1>3. SettledCreditsWerePaid
  BY DEF Init, SettledCreditsWerePaid
<1>4. \A s \in Slots : JobOK(job[s])
  BY NoJobOK DEF Init
<1>. QED
  BY <1>1, <1>2, <1>3, <1>4 DEF IInv

LEMMA StutterInv ==
  ASSUME IInv, UNCHANGED vars
  PROVE  IInv'
  BY DEF IInv, Typed, RowInv, JobOK, Honest, Names, PaidFor, SettledCreditsWerePaid,
         vars, ledger, startup, history

LEMMA NextInv ==
  ASSUME IInv, [Next]_vars
  PROVE  IInv'
<1>1. ASSUME NEW s \in Slots, Arrive(s) PROVE IInv'
  BY <1>1, CompleteInv, EditFareInv, PayCashInv, CreateIntentInv, WebhookInv, PayoutCheckInv
     DEF Arrive, Request
<1>2. ASSUME NEW s \in Slots, Continue(s) PROVE IInv'
  BY <1>2, ClaimInv, RetrieveInv, CreateInv, CreateFailsInv, FindInv, SaveSelectInv,
     SaveUpdateInv, PriorInv, WipeInv, AddCreditInv, CreditFailsInv, ReadEntryInv, MarkInv,
     PayoutInsertInv, QueryFailsInv
     DEF Continue
<1>3. CASE Backfill
  BY <1>3, ScanOrphansInv, BackfillCreditInv, BackfillFailsInv, BackfillMethodsInv DEF Backfill
<1>4. CASE Stripe
  BY <1>4, StripeInv DEF Stripe
<1>5. CASE Crash
  BY <1>5, CrashInv
<1>6. CASE UNCHANGED vars
  BY <1>6, StutterInv
<1>. QED
  BY <1>1, <1>2, <1>3, <1>4, <1>5, <1>6 DEF Next

\* The inductive invariant holds in every reachable state, for any rides, fares,
\* fees and number of handlers.
THEOREM SettlementInvariance == Spec => []IInv
<1>1. Init => IInv
  BY InitInv
<1>2. IInv /\ [Next]_vars => IInv'
  BY NextInv
<1>. QED
  BY <1>1, <1>2, PTL DEF Spec

\* What the model remembers of failed queries keeps its type: a handler and the backfill
\* forgo a credit only of a ride they know.
RestTyped == failures \in Nat /\ forgone \subseteq Rides

LEMMA RestNext ==
  ASSUME IInv, RestTyped, [Next]_vars
  PROVE  RestTyped'
<1>1. ASSUME NEW s \in Slots, Arrive(s) PROVE RestTyped'
  BY <1>1 DEF RestTyped, Arrive, Request, Complete, EditFare, PayCash, CreateIntent, Webhook,
     PayoutCheck, ledger
<1>2. ASSUME NEW s \in Slots, Continue(s) PROVE RestTyped'
  <2>1. job[s].pc \in {"prior", "wipe", "credit"} => job[s].ride \in Rides
    BY JobFacts
  <2>2. CASE Wipe(s) \/ AddCredit(s)
    BY <2>1, <2>2 DEF RestTyped, Wipe, AddCredit, Enter, At, history
  <2>3. CASE CreditFails(s) \/ QueryFails(s)
    BY <2>1, <2>3 DEF RestTyped, CreditFails, QueryFails, At
  <2>4. CASE ~(Wipe(s) \/ AddCredit(s) \/ CreditFails(s) \/ QueryFails(s))
    BY <1>2, <2>4 DEF RestTyped, Continue, Claim, Retrieve, Create, CreateFails, Find,
       SaveSelect, SaveUpdate, Prior, ReadEntry, Mark, PayoutInsert, ledger, history
  <2>. QED
    BY <2>2, <2>3, <2>4
<1>3. CASE Backfill
  <2>1. \A o \in orphans : o.ride \in Rides
    BY DEF IInv, Typed
  <2>. QED
    BY <1>3, <2>1 DEF RestTyped, Backfill, ScanOrphans, BackfillCredit, BackfillFails,
       BackfillMethods, Enter, ledger, history
<1>4. CASE Stripe \/ Crash \/ UNCHANGED vars
  BY <1>4 DEF RestTyped, Stripe, ClientPays, CardDeclined, IntentCanceled, Crash, vars, ledger,
     history
<1>. QED
  BY <1>1, <1>2, <1>3, <1>4 DEF Next

\* Rows, intents, credits and handlers of the payment code keep their types, though a query
\* may fail at any step.
THEOREM SettlementTypes == Spec => []TypeOK
<1>1. Init => RestTyped
  BY DEF Init, RestTyped
<1>2. IInv /\ RestTyped /\ [Next]_vars => RestTyped'
  BY RestNext
<1>3. IInv /\ RestTyped => TypeOK
  BY DEF IInv, RestTyped, TypeOK
<1>. QED
  BY <1>1, <1>2, <1>3, SettlementInvariance, PTL DEF Spec

\* markRidePaymentMethod, the copy of the method in replaceCreditForRide and the
\* backfill settle a credit only if the client or the driver confirmed a payment.
THEOREM SettledWerePaid == Spec => []SettledCreditsWerePaid
<1>1. IInv => SettledCreditsWerePaid
  BY DEF IInv
<1>. QED
  BY <1>1, SettlementInvariance, PTL

-----------------------------------------------------------------------------
(***************************************************************************)
(* One credit per ride.  A completion that has claimed its ride is the     *)
(* only one for good, because no save takes a completed ride back: every   *)
(* entity says that it is completed, or had nothing to say of its status.  *)
(***************************************************************************)
Sole(r) == r \notin edited /\ crashes = 0

Finishing(j, r) == j.op = "complete" /\ j.ride = r /\ j.pc \in {"select", "update", "credit"}

JobOrdered(j) ==
  /\ j.pc \in {"claim", "select", "update", "create", "retrieve"} => j.ent.status = "completed"
  /\ j.pc = "update" /\ "status" \notin j.dirty => row[j.ride].status = "completed"
  /\ j.pc \in {"prior", "wipe"} => j.op = "edit"
  /\ j.pc = "credit" => j.op \in {"complete", "edit"}
  /\ j.pc = "claim" => j.op = "complete"
  /\ j.pc \in {"create", "retrieve"} => j.op # "complete"
  /\ j.op = "edit" => j.ride \in edited

CreditsOrdered ==
  /\ crashes = 0 => booting = {} /\ orphans = {}
  /\ \A r \in Rides : row[r].intent # None => row[r].status = "completed"
  /\ \A r \in Rides : Sole(r) =>
       /\ Len(credits[r]) <= 1
       /\ row[r].status = "in_progress" => Len(credits[r]) = 0
       /\ \A s \in Slots : Finishing(job[s], r) => Len(credits[r]) = 0
  /\ \A s \in Slots : JobOrdered(job[s])
  /\ \A s \in Slots, r \in Rides : Finishing(job[s], r) =>
       row[r].status = "completed" /\ \A t \in Slots : Finishing(job[t], r) => t = s

\* Of a step: no ride is taken back, and a ride somebody finishes is completed.
RowsAdvance ==
  \A r \in Rides :
    /\ row[r].status = "completed" => row'[r].status = "completed"
    /\ row'[r].intent # None => row'[r].status = "completed"

\* One handler moves to j, which may write a credit for the ride it finishes.
LEMMA OrderedStep ==
  ASSUME IInv, CreditsOrdered, NEW s \in Slots, NEW j \in Job, job' = [job EXCEPT ![s] = j],
         UNCHANGED startup, edited \subseteq edited', RowsAdvance, JobOrdered(j)',
         \A r \in Rides : Sole(r)' =>
           /\ Len(credits'[r]) <= 1
           /\ row'[r].status = "in_progress" => Len(credits'[r]) = 0
           /\ \A t \in Slots \ {s} : Finishing(job[t], r) => Len(credits'[r]) = 0
           /\ Finishing(j, r) => Len(credits'[r]) = 0,
         \A r \in Rides : Finishing(j, r) =>
           row'[r].status = "completed" /\ \A t \in Slots \ {s} : ~Finishing(job[t], r)
  PROVE  CreditsOrdered'
<1>1. job \in [Slots -> Job]
  BY DEF IInv, Typed
<1>2. job'[s] = j /\ \A t \in Slots \ {s} : job'[t] = job[t]
  BY <1>1
<1>3. (crashes = 0 => booting = {} /\ orphans = {})'
  BY DEF startup, CreditsOrdered
<1>4. \A r \in Rides : row'[r].intent # None => row'[r].status = "completed"
  BY DEF RowsAdvance
<1>5. ASSUME NEW r \in Rides, Sole(r)'
      PROVE  /\ Len(credits'[r]) <= 1
             /\ row'[r].status = "in_progress" => Len(credits'[r]) = 0
             /\ \A t \in Slots : Finishing(job'[t], r) => Len(credits'[r]) = 0
  BY <1>2, <1>5
<1>6. ASSUME NEW t \in Slots PROVE JobOrdered(job[t])'
  <2>1. CASE t = s
    BY <1>2, <2>1 DEF JobOrdered
  <2>2. CASE t # s
    <3>1. JobOrdered(job[t]) /\ job'[t] = job[t]
      BY <1>2, <2>2 DEF CreditsOrdered
    <3>2. job[t].pc = "update" => job[t].ride \in Rides
      BY JobFacts
    <3> QED BY <3>1, <3>2 DEF JobOrdered, RowsAdvance
  <2> QED BY <2>1, <2>2
<1>7. ASSUME NEW t \in Slots, NEW r \in Rides, Finishing(job'[t], r)
      PROVE  row'[r].status = "completed" /\ \A u \in Slots : Finishing(job'[u], r) => u = t
  BY <1>2, <1>7 DEF CreditsOrdered, RowsAdvance
<1> QED BY <1>3, <1>4, <1>5, <1>6, <1>7 DEF CreditsOrdered, Finishing, Sole

\* One handler moves to j without touching rides or credits, and j finishes nothing
\* that the handler was not finishing.
LEMMA OrderedMove ==
  ASSUME IInv, CreditsOrdered, NEW s \in Slots, NEW j \in Job, job' = [job EXCEPT ![s] = j],
         UNCHANGED <<row, credits, startup>>, edited \subseteq edited', JobOrdered(j)',
         \A r \in Rides : Finishing(j, r) => Finishing(job[s], r)
  PROVE  CreditsOrdered'
<1>1. RowsAdvance
  BY DEF CreditsOrdered, RowsAdvance
<1>2. \A r \in Rides : Sole(r)' => Sole(r)
  BY DEF Sole, startup
<1>3. ASSUME NEW r \in Rides, Sole(r)'
      PROVE  /\ Len(credits'[r]) <= 1
             /\ row'[r].status = "in_progress" => Len(credits'[r]) = 0
             /\ \A t \in Slots \ {s} : Finishing(job[t], r) => Len(credits'[r]) = 0
             /\ Finishing(j, r) => Len(credits'[r]) = 0
  BY <1>2, <1>3 DEF CreditsOrdered
<1>4. ASSUME NEW r \in Rides, Finishing(j, r)
      PROVE  row'[r].status = "completed" /\ \A t \in Slots \ {s} : ~Finishing(job[t], r)
  BY <1>4 DEF CreditsOrdered
<1> QED BY <1>1, <1>3, <1>4, OrderedStep

LEMMA NoJobOrdered == JobOrdered(NoJob)' /\ \A r : ~Finishing(NoJob, r)
<1>1. NoJob.pc = "idle" /\ NoJob.op = None
  BY DEF NoJob
<1>2. None # "edit"
  BY MoneyAssumption
<1> QED BY <1>1, <1>2 DEF JobOrdered, Finishing

LEMMA OrderedFinish ==
  ASSUME IInv, CreditsOrdered, NEW s \in Slots, Finish(s),
         UNCHANGED <<row, credits, startup>>, edited \subseteq edited'
  PROVE  CreditsOrdered'
<1>1. PICK j \in Job : j = NoJob
  BY NoJobOK
<1>2. JobOrdered(j)' /\ (\A r \in Rides : ~Finishing(j, r))
  BY <1>1, NoJobOrdered
<1>3. job' = [job EXCEPT ![s] = j]
  BY <1>1 DEF Finish, Become
<1> QED BY <1>2, <1>3, OrderedMove

\* A handler begins with an entity of a completed ride, or with a claim.
LEMMA OrderedBegin ==
  ASSUME IInv, CreditsOrdered, NEW s \in Slots, NEW op \in Ops,
         NEW pc \in {"select", "claim", "create", "retrieve"},
         NEW r \in Rides, NEW e \in Row, NEW g \in Nat, NEW m \in Methods \cup {None},
         Begin(s, op, pc, r, e, g, m),
         UNCHANGED <<row, credits, startup>>, edited \subseteq edited',
         e.status = "completed", op = "complete" <=> pc = "claim", op = "edit" => r \in edited'
  PROVE  CreditsOrdered'
<1>1. PICK j : j = [NoJob EXCEPT !.op = op, !.pc = pc, !.ride = r, !.ent = e,
                                 !.gross = g, !.method = m]
  OBVIOUS
<1>2. j \in Job
  BY <1>1, NoJobOK DEF Job, PCs
<1>3. j.pc = pc /\ j.ride = r /\ j.ent = e /\ j.op = op
  BY <1>1, NoJobOK DEF Job, NoJob
<1>4. JobOrdered(j)' /\ (\A q \in Rides : ~Finishing(j, q))
  BY <1>3 DEF JobOrdered, Finishing
<1>5. job' = [job EXCEPT ![s] = j]
  BY <1>1 DEF Begin, Become
<1> QED BY <1>2, <1>4, <1>5, OrderedMove

LEMMA OrderedRequests ==
  ASSUME IInv, CreditsOrdered, NEW s \in Slots, NEW r \in Rides,
         Complete(s, r) \/ EditFare(s, r) \/ PayCash(s, r) \/ CreateIntent(s, r)
  PROVE  CreditsOrdered'
<1>1. row[r] \in Row
  BY RowFacts
<1>2. 0 \in Nat /\ None \in Methods \cup {None} /\ "cash" \in Methods \cup {None}
  BY DEF Methods
<1>3. CASE Complete(s, r)
  <2>0. PICK f \in Fares, a \in Absorbed :
          Begin(s, "complete", "claim", r, [row[r] EXCEPT !.status = "completed", !.fare = f], f + a, None)
    BY <1>3 DEF Complete
  <2>1. PICK g \in Nat : f \in Nat /\ g = f + a
    BY MoneyAssumption
  <2>2. PICK e : e = [row[r] EXCEPT !.status = "completed", !.fare = f]
    OBVIOUS
  <2>3. e \in Row /\ e.status = "completed"
    BY <1>1, <2>1, <2>2 DEF Row
  <2>4. UNCHANGED <<row, credits, startup>> /\ edited \subseteq edited'
    BY <1>3 DEF Complete, ledger
  <2>5. Begin(s, "complete", "claim", r, e, g, None)
    BY <2>0, <2>1, <2>2
  <2> QED BY <1>2, <2>5, <2>3, <2>4, OrderedBegin DEF Ops
<1>4. CASE EditFare(s, r)
  <2>1. PICK f \in Nat :
          Begin(s, "edit", "select", r, [row[r] EXCEPT !.status = "completed", !.fare = f], f, None)
    BY <1>4, MoneyAssumption DEF EditFare
  <2>2. PICK e : e = [row[r] EXCEPT !.status = "completed", !.fare = f]
    OBVIOUS
  <2>3. e \in Row /\ e.status = "completed"
    BY <1>1, <2>2 DEF Row
  <2>4. UNCHANGED <<row, credits, startup>> /\ edited \subseteq edited' /\ r \in edited'
    BY <1>4 DEF EditFare, ledger
  <2> QED BY <1>2, <2>1, <2>2, <2>3, <2>4, OrderedBegin DEF Ops
<1>5. CASE PayCash(s, r)
  <2>1. PICK e : e = [row[r] EXCEPT !.pay = "paid"]
    OBVIOUS
  <2>2. e \in Row /\ e.status = "completed"
    BY <1>1, <1>5, <2>1 DEF Row, PayCash
  <2>3. Begin(s, "cash", "select", r, e, 0, "cash")
    BY <1>5, <2>1 DEF PayCash
  <2>4. UNCHANGED <<row, credits, startup>> /\ edited \subseteq edited'
    BY <1>5 DEF PayCash, ledger
  <2> QED BY <1>2, <2>2, <2>3, <2>4, OrderedBegin DEF Ops
<1>6. CASE CreateIntent(s, r)
  <2>1. PICK op \in {"sheet", "charge"}, pc \in {"create", "retrieve"} :
          Begin(s, op, pc, r, row[r], 0, None)
    BY <1>6 DEF CreateIntent
  <2>2. UNCHANGED <<row, credits, startup>> /\ edited \subseteq edited' /\ row[r].status = "completed"
    BY <1>6 DEF CreateIntent, ledger
  <2> QED BY <1>1, <1>2, <2>1, <2>2, OrderedBegin DEF Ops
<1> QED BY <1>3, <1>4, <1>5, <1>6

LEMMA OrderedLookUp ==
  ASSUME IInv, CreditsOrdered, NEW s \in Slots,
         NEW op \in {"succeeded", "failed", "canceled", "charge"}, NEW i \in Intents,
         LookUp(s, op, i), UNCHANGED <<row, credits, startup>>, edited \subseteq edited'
  PROVE  CreditsOrdered'
<1>1. CASE Finish(s)
  BY <1>1, OrderedFinish
<1>2. CASE ~Finish(s)
  <2>1. PICK m \in Methods \cup {None} : m = IF op \in {"succeeded", "charge"} THEN "card" ELSE None
    BY DEF Methods
  <2>2. PICK r \in Rides : row[r].intent = i /\ Begin(s, op, "select", r, Outcome(op, row[r]), 0, m)
    BY <1>2, <2>1 DEF LookUp
  <2>3. row[r] \in Row /\ row[r].status = "completed"
    BY <2>2, RowFacts, MoneyAssumption DEF CreditsOrdered
  <2>4. PICK e : e = Outcome(op, row[r])
    OBVIOUS
  <2>5. e \in Row /\ e.status = "completed"
    BY <2>3, <2>4 DEF Outcome, Row
  <2>6. op \in Ops /\ op # "complete" /\ op # "edit" /\ 0 \in Nat
    BY DEF Ops
  <2>7. Begin(s, op, "select", r, e, 0, m)
    BY <2>2, <2>4
  <2> QED BY <2>5, <2>6, <2>7, OrderedBegin
<1> QED BY <1>1, <1>2

LEMMA OrderedWebhooks ==
  ASSUME IInv, CreditsOrdered, NEW s \in Slots,
         Find(s) \/ \E type \in {"succeeded", "failed", "canceled"}, i \in Intents : Webhook(s, type, i)
  PROVE  CreditsOrdered'
<1>1. CASE Find(s)
  <2>1. job[s].intent \in Intents
    BY <1>1, JobFacts DEF Find, At, JobOK, Job
  <2>2. LookUp(s, "charge", job[s].intent) /\ UNCHANGED <<row, credits, startup, edited>>
    BY <1>1 DEF Find, ledger, history
  <2>3. PICK i \in Intents : i = job[s].intent
    BY <2>1
  <2> QED BY <2>2, <2>3, OrderedLookUp
<1>2. ASSUME NEW type \in {"succeeded", "failed", "canceled"}, NEW i \in Intents, Webhook(s, type, i)
      PROVE  CreditsOrdered'
  <2>1. LookUp(s, type, i) /\ UNCHANGED <<row, credits, startup, edited>>
    BY <1>2 DEF Webhook, ledger
  <2> QED BY <2>1, OrderedLookUp
<1> QED BY <1>1, <1>2

LEMMA OrderedClaim ==
  ASSUME IInv, CreditsOrdered, NEW s \in Slots, Claim(s)
  PROVE  CreditsOrdered'
<1>1. CASE Finish(s) /\ UNCHANGED row
  BY <1>1, OrderedFinish DEF Claim, ledger, history
<1>2. CASE ~(Finish(s) /\ UNCHANGED row)
  <2>1. PICK r \in Rides : r = job[s].ride
    BY JobFacts DEF Claim, At
  <2>2. /\ row[r].status = "in_progress" /\ row' = [row EXCEPT ![r].status = "completed"]
        /\ Goto(s, "select")
    BY <1>2, <2>1 DEF Claim
  <2>3. PICK j : j = [job[s] EXCEPT !.pc = "select"]
    OBVIOUS
  <2>4. /\ j \in Job /\ j.pc = "select" /\ j.op = "complete" /\ j.ride = r
        /\ j.ent.status = "completed"
    BY <2>1, <2>3, JobFacts DEF Job, PCs, CreditsOrdered, JobOrdered, Claim, At
  <2>5. JobOrdered(j)'
    BY <2>4 DEF JobOrdered
  <2>6. row \in [Rides -> Row]
    BY DEF IInv, Typed
  <2>7. row'[r].status = "completed" /\ \A q \in Rides \ {r} : row'[q] = row[q]
    BY <2>2, <2>6 DEF Row
  <2>8. RowsAdvance
    BY <2>7 DEF RowsAdvance, CreditsOrdered
  <2>9. \A t \in Slots : ~Finishing(job[t], r)
    BY <2>2 DEF CreditsOrdered
  <2>10. UNCHANGED <<credits, startup, edited>> /\ job' = [job EXCEPT ![s] = j]
    BY <2>2, <2>3 DEF Claim, Goto, Become, ledger, history
  <2>11. \A q \in Rides : Sole(q)' => Sole(q)
    BY <2>10 DEF Sole, startup
  <2>12. ASSUME NEW q \in Rides, Sole(q)'
         PROVE  /\ Len(credits'[q]) <= 1
                /\ row'[q].status = "in_progress" => Len(credits'[q]) = 0
                /\ \A t \in Slots \ {s} : Finishing(job[t], q) => Len(credits'[q]) = 0
                /\ Finishing(j, q) => Len(credits'[q]) = 0
    BY <2>2, <2>4, <2>7, <2>10, <2>11, <2>12 DEF CreditsOrdered, Finishing
  <2>13. ASSUME NEW q \in Rides, Finishing(j, q)
         PROVE  row'[q].status = "completed" /\ \A t \in Slots \ {s} : ~Finishing(job[t], q)
    BY <2>4, <2>7, <2>9, <2>13 DEF Finishing
  <2> QED BY <2>4, <2>5, <2>8, <2>10, <2>12, <2>13, OrderedStep
<1> QED BY <1>1, <1>2

\* The steps before and after a save that touch neither ride nor credits.
LEMMA OrderedQuiet ==
  ASSUME IInv, CreditsOrdered, NEW s \in Slots,
         \/ Retrieve(s) \/ Create(s) \/ CreateFails(s) \/ SaveSelect(s) \/ Prior(s) \/ ReadEntry(s)
         \/ PayoutInsert(s) \/ QueryFails(s) \/ \E a \in PayoutAmounts : PayoutCheck(s, a),
         job' \in [Slots -> Job]
  PROVE  CreditsOrdered'
<1>1. UNCHANGED <<row, credits, startup>> /\ edited' = edited
  BY DEF Retrieve, Create, CreateFails, SaveSelect, Prior, ReadEntry, PayoutInsert, QueryFails,
         PayoutCheck, ledger, history
<1>2. CASE Finish(s)
  BY <1>1, <1>2, OrderedFinish
<1>3. ASSUME NEW pc \in {"create", "wipe", "mark", "update", "select", "insert"}, NEW j \in Job,
             job' = [job EXCEPT ![s] = j], j.pc = pc,
             pc = "insert" => j.op = "payout",
             pc # "insert" => j.op = job[s].op /\ j.ride = job[s].ride,
             pc = "create" => j.ent = job[s].ent /\ At(s, "retrieve"),
             pc = "select" => j.ent.status = job[s].ent.status /\ At(s, "create"),
             pc = "update" => j.ent = job[s].ent /\ At(s, "select")
                              /\ j.dirty = Differing(j.ent, row[j.ride]),
             pc = "wipe" => At(s, "prior")
      PROVE  CreditsOrdered'
  <2>1. JobOrdered(job[s])
    BY DEF CreditsOrdered
  <2>2. pc = "update" => j.ent.status = "completed" /\ ("status" \notin j.dirty => row[j.ride].status = "completed")
    BY <1>3, <2>1 DEF JobOrdered, At, Differing, Columns
  <2>3. JobOrdered(j)'
    BY <1>1, <1>3, <2>1, <2>2 DEF JobOrdered, At
  <2>4. \A r \in Rides : Finishing(j, r) => Finishing(job[s], r)
    BY <1>3, <2>1 DEF Finishing, JobOrdered, At
  <2> QED BY <1>1, <1>3, <2>3, <2>4, OrderedMove
<1>4. job \in [Slots -> Job] /\ job[s] \in Job
  BY DEF IInv, Typed
<1>5. ASSUME NEW j, Become(s, j) PROVE j \in Job /\ job' = [job EXCEPT ![s] = j]
  <2>1. job'[s] = j
    BY <1>4, <1>5 DEF Become
  <2> QED BY <1>5, <2>1 DEF Become
<1>6. CASE Retrieve(s)
  <2>1. CASE Goto(s, "create")
    <3>1. PICK j : j = [job[s] EXCEPT !.pc = "create"]
      OBVIOUS
    <3>2. Become(s, j)
      BY <2>1, <3>1 DEF Goto
    <3>3. j.pc = "create" /\ j.op = job[s].op /\ j.ride = job[s].ride /\ j.ent = job[s].ent
      BY <1>4, <3>1 DEF Job
    <3> QED BY <1>3, <1>5, <1>6, <3>2, <3>3 DEF Retrieve
  <2> QED BY <1>2, <1>6, <2>1 DEF Retrieve
<1>7. CASE Create(s)
  <2>1. PICK i \in Intents, n \in Intents \cup {None} : Become(s, [job[s] EXCEPT !.pc = "select", !.ent.intent = i, !.intent = n])
    BY <1>7 DEF Create
  <2>2. PICK j : j = [job[s] EXCEPT !.pc = "select", !.ent.intent = i, !.intent = n]
    OBVIOUS
  <2>3. job[s].ent \in Row
    BY JobFacts
  <2>4. j.pc = "select" /\ j.op = job[s].op /\ j.ride = job[s].ride /\ j.ent.status = job[s].ent.status
    BY <1>4, <2>2, <2>3 DEF Job, Row
  <2> QED BY <1>3, <1>5, <1>7, <2>1, <2>2, <2>4 DEF Create
<1>8. CASE SaveSelect(s)
  <2>1. PICK j : j = [job[s] EXCEPT !.pc = "update", !.dirty = Differing(job[s].ent, row[job[s].ride])]
    OBVIOUS
  <2>2. /\ j.pc = "update" /\ j.op = job[s].op /\ j.ride = job[s].ride /\ j.ent = job[s].ent
        /\ j.dirty = Differing(j.ent, row[j.ride])
    BY <1>4, <2>1 DEF Job
  <2> QED BY <1>3, <1>5, <1>8, <2>1, <2>2 DEF SaveSelect
<1>9. CASE Prior(s)
  <2>1. PICK m : Become(s, [job[s] EXCEPT !.pc = "wipe", !.method = m])
    BY <1>9 DEF Prior
  <2>2. PICK j : j = [job[s] EXCEPT !.pc = "wipe", !.method = m]
    OBVIOUS
  <2>3. j.pc = "wipe" /\ j.op = job[s].op /\ j.ride = job[s].ride
    BY <1>4, <2>2 DEF Job
  <2> QED BY <1>3, <1>5, <1>9, <2>1, <2>2, <2>3 DEF Prior
<1>10. CASE ReadEntry(s)
  <2>1. PICK n : Become(s, [job[s] EXCEPT !.pc = "mark", !.amount = n])
    BY <1>10 DEF ReadEntry
  <2>2. PICK j : j = [job[s] EXCEPT !.pc = "mark", !.amount = n]
    OBVIOUS
  <2>3. j.pc = "mark" /\ j.op = job[s].op /\ j.ride = job[s].ride
    BY <1>4, <2>2 DEF Job
  <2> QED BY <1>3, <1>5, <2>1, <2>2, <2>3
<1>11. ASSUME NEW a \in PayoutAmounts, PayoutCheck(s, a) PROVE CreditsOrdered'
  <2>1. PICK j : j = [NoJob EXCEPT !.op = "payout", !.pc = "insert", !.amount = a]
    OBVIOUS
  <2>2. j.pc = "insert" /\ j.op = "payout"
    BY <2>1 DEF NoJob
  <2>3. Become(s, j)
    BY <1>11, <2>1 DEF PayoutCheck
  <2> QED BY <1>3, <1>5, <2>2, <2>3
<1> QED BY <1>2, <1>6, <1>7, <1>8, <1>9, <1>10, <1>11 DEF CreateFails, PayoutInsert, QueryFails

\* A save leaves its ride completed.
LEMMA OrderedSave ==
  ASSUME IInv, CreditsOrdered, NEW s \in Slots, SaveUpdate(s), job' \in [Slots -> Job]
  PROVE  CreditsOrdered'
<1>1. PICK r \in Rides : r = job[s].ride
  BY JobFacts DEF SaveUpdate, At
<1>2. JobOrdered(job[s]) /\ At(s, "update") /\ job[s] \in Job /\ row \in [Rides -> Row]
  BY JobFacts DEF CreditsOrdered, SaveUpdate, IInv, Typed
<1>3. Merge(row[r], job[s].ent, job[s].dirty).status = "completed"
  BY <1>1, <1>2 DEF JobOrdered, At, Merge, Columns
<1>4. row' = [row EXCEPT ![r] = Merge(row[r], job[s].ent, job[s].dirty)]
  BY <1>1 DEF SaveUpdate
<1>5. row'[r].status = "completed" /\ \A q \in Rides \ {r} : row'[q] = row[q]
  BY <1>2, <1>3, <1>4
<1>6. RowsAdvance
  BY <1>5 DEF RowsAdvance, CreditsOrdered
<1>7. UNCHANGED <<credits, startup, edited>>
  BY DEF SaveUpdate, ledger, history
<1>8. \A q \in Rides : Sole(q)' => Sole(q)
  BY <1>7 DEF Sole, startup
<1>9. PICK j : /\ job' = [job EXCEPT ![s] = j]
               /\ \/ j = NoJob
                  \/ j = [job[s] EXCEPT !.pc = AfterSave(job[s]), !.ent = FreshRide, !.dirty = {}]
  BY DEF SaveUpdate, Finish, Become
<1>10. job'[s] = j /\ j \in Job
  BY <1>9 DEF IInv, Typed
<1>11. /\ JobOrdered(j)'
       /\ \A q \in Rides : Finishing(j, q) => Finishing(job[s], q)
  <2>1. CASE j = NoJob
    BY <2>1, NoJobOrdered
  <2>2. CASE j = [job[s] EXCEPT !.pc = AfterSave(job[s]), !.ent = FreshRide, !.dirty = {}]
    <3>1. j.pc = AfterSave(job[s]) /\ j.op = job[s].op /\ j.ride = job[s].ride
      BY <1>2, <2>2 DEF Job
    <3>2. /\ j.pc \in {"credit", "prior", "mark", "entry", "find", "idle"}
          /\ j.pc = "credit" => j.op = "complete"
          /\ j.pc = "prior" => j.op = "edit"
      BY <3>1 DEF AfterSave
    <3> QED BY <1>2, <1>7, <3>1, <3>2 DEF JobOrdered, Finishing, At
  <2> QED BY <1>9, <2>1, <2>2
<1>12. ASSUME NEW q \in Rides, Sole(q)'
       PROVE  /\ Len(credits'[q]) <= 1
              /\ row'[q].status = "in_progress" => Len(credits'[q]) = 0
              /\ \A t \in Slots \ {s} : Finishing(job[t], q) => Len(credits'[q]) = 0
              /\ Finishing(j, q) => Len(credits'[q]) = 0
  BY <1>5, <1>7, <1>8, <1>11, <1>12 DEF CreditsOrdered
<1>13. ASSUME NEW q \in Rides, Finishing(j, q)
       PROVE  row'[q].status = "completed" /\ \A t \in Slots \ {s} : ~Finishing(job[t], q)
  BY <1>6, <1>11, <1>13 DEF CreditsOrdered, RowsAdvance
<1> QED BY <1>6, <1>7, <1>9, <1>10, <1>11, <1>12, <1>13, OrderedStep

\* A step that leaves the rides alone and gives ride r the credits cs.
LEMMA OrderedCredit ==
  ASSUME IInv, CreditsOrdered, NEW s \in Slots, NEW j \in Job, job' = [job EXCEPT ![s] = j],
         NEW r \in Rides, NEW cs, SetCredits(r, cs), UNCHANGED <<row, startup, history>>,
         JobOrdered(j), \A q \in Rides : ~Finishing(j, q),
         Sole(r) => \/ Len(cs) = Len(credits[r])
                    \/ Len(cs) <= 1 /\ Finishing(job[s], r)
  PROVE  CreditsOrdered'
<1>1. RowsAdvance /\ UNCHANGED edited
  BY DEF RowsAdvance, CreditsOrdered, history
<1>2. credits \in [Rides -> Seq(Credit)] /\ credits' = [credits EXCEPT ![r] = cs]
  BY DEF IInv, Typed, SetCredits
<1>3. credits'[r] = cs /\ \A q \in Rides \ {r} : credits'[q] = credits[q]
  BY <1>2
<1>4. \A q \in Rides : Sole(q)' => Sole(q)
  BY DEF Sole, startup, history
<1>5. ASSUME NEW q \in Rides, Sole(q)'
      PROVE  /\ Len(credits'[q]) <= 1
             /\ row'[q].status = "in_progress" => Len(credits'[q]) = 0
             /\ \A t \in Slots \ {s} : Finishing(job[t], q) => Len(credits'[q]) = 0
             /\ Finishing(j, q) => Len(credits'[q]) = 0
  <2>1. CASE q # r \/ Len(cs) = Len(credits[r])
    BY <1>3, <1>4, <1>5, <2>1 DEF CreditsOrdered
  <2>2. CASE q = r /\ Len(cs) <= 1 /\ Finishing(job[s], r)
    BY <1>3, <2>2 DEF CreditsOrdered
  <2> QED BY <1>4, <1>5, <2>1, <2>2
<1>6. JobOrdered(j)'
  BY <1>1 DEF JobOrdered
<1> QED BY <1>1, <1>5, <1>6, OrderedStep

\* After the credit the handler ends, or goes on to mark it.
LEMMA OrderedAfter ==
  ASSUME IInv, CreditsOrdered, NEW s \in Slots, At(s, "credit"), AfterCredit(s),
         job' \in [Slots -> Job]
  PROVE  \E j \in Job : /\ job' = [job EXCEPT ![s] = j]
                        /\ JobOrdered(j) /\ \A q \in Rides : ~Finishing(j, q)
<1>1. PICK j : /\ job' = [job EXCEPT ![s] = j]
               /\ \/ j = NoJob
                  \/ \E pc \in {"entry", "mark"} : j = [job[s] EXCEPT !.pc = pc]
  BY DEF AfterCredit, Goto, Finish, Become
<1>2. j \in Job
  BY <1>1 DEF IInv, Typed
<1>3. JobOrdered(j) /\ \A q \in Rides : ~Finishing(j, q)
  <2>1. CASE j = NoJob
    BY <2>1, MoneyAssumption DEF JobOrdered, Finishing, NoJob
  <2>2. ASSUME NEW pc \in {"entry", "mark"}, j = [job[s] EXCEPT !.pc = pc]
        PROVE  JobOrdered(j) /\ \A q \in Rides : ~Finishing(j, q)
    <3>1. j.pc = pc /\ j.op = job[s].op /\ j.ride = job[s].ride
      BY <2>2, JobFacts DEF Job
    <3> QED BY <3>1 DEF CreditsOrdered, JobOrdered, Finishing
  <2> QED BY <1>1, <2>1, <2>2
<1> QED BY <1>1, <1>2, <1>3

\* A failed credit moves the handler on and leaves the ledger alone.
LEMMA OrderedCreditFails ==
  ASSUME IInv, CreditsOrdered, NEW s \in Slots, CreditFails(s), job' \in [Slots -> Job]
  PROVE  CreditsOrdered'
<1>1. PICK j \in Job : /\ job' = [job EXCEPT ![s] = j]
                       /\ JobOrdered(j) /\ \A q \in Rides : ~Finishing(j, q)
  BY OrderedAfter DEF CreditFails
<1>2. UNCHANGED <<row, credits, startup, edited>>
  BY DEF CreditFails
<1>3. JobOrdered(j)'
  BY <1>1, <1>2 DEF JobOrdered
<1> QED BY <1>1, <1>2, <1>3, OrderedMove

LEMMA OrderedLedger ==
  ASSUME IInv, CreditsOrdered, NEW s \in Slots, Wipe(s) \/ AddCredit(s) \/ Mark(s),
         job' \in [Slots -> Job], credits' \in [Rides -> Seq(Credit)]
  PROVE  CreditsOrdered'
<1>1. PICK r \in Rides : r = job[s].ride
  BY JobFacts DEF Wipe, AddCredit, Mark, At
<1>2. /\ JobOrdered(job[s]) /\ job[s] \in Job /\ credits[r] \in Seq(Credit)
      /\ job[s].gross \in Nat
  BY JobFacts DEF CreditsOrdered, IInv, Typed, Job
<1>3. UNCHANGED <<row, startup, history>>
  BY DEF Wipe, AddCredit, Mark
<1>4. CASE Wipe(s)
  <2>1. PICK j : job' = [job EXCEPT ![s] = j] /\ (j = NoJob \/ j = [job[s] EXCEPT !.pc = "credit"])
    BY <1>4 DEF Wipe, Goto, Finish, Become
  <2>2. job'[s] = j /\ j \in Job
    BY <2>1 DEF IInv, Typed
  <2>3. job[s].op = "edit" /\ r \in edited
    BY <1>1, <1>2, <1>4 DEF JobOrdered, Wipe, At
  <2>4. JobOrdered(j) /\ \A q \in Rides : ~Finishing(j, q)
    <3>1. CASE j = NoJob
      BY <3>1, MoneyAssumption DEF JobOrdered, Finishing, NoJob
    <3>2. CASE j = [job[s] EXCEPT !.pc = "credit"]
      <4>1. j.pc = "credit" /\ j.op = "edit" /\ j.ride = r
        BY <1>1, <1>2, <2>3, <3>2 DEF Job
      <4> QED BY <2>3, <4>1 DEF JobOrdered, Finishing
    <3> QED BY <2>1, <3>1, <3>2
  <2>5. PICK cs : cs = <<>> /\ SetCredits(r, cs)
    BY <1>1, <1>4 DEF Wipe
  <2> QED BY <1>3, <2>1, <2>2, <2>3, <2>4, <2>5, OrderedCredit DEF Sole
<1>5. CASE AddCredit(s)
  <2>1. PICK j \in Job : /\ job' = [job EXCEPT ![s] = j]
                         /\ JobOrdered(j) /\ \A q \in Rides : ~Finishing(j, q)
    BY <1>5, OrderedAfter DEF AddCredit
  <2>4. PICK cs : cs = credits[r] \o NewCredit(job[s].gross) /\ SetCredits(r, cs)
    BY <1>1, <1>5 DEF AddCredit, Enter
  <2>5. ASSUME Sole(r) PROVE Len(cs) <= 1 /\ Finishing(job[s], r)
    <3>1. Finishing(job[s], r)
      BY <1>1, <1>2, <1>5, <2>5 DEF JobOrdered, AddCredit, At, Finishing, Sole
    <3>2. Len(credits[r]) = 0
      BY <2>5, <3>1 DEF CreditsOrdered
    <3>3. Len(NewCredit(job[s].gross)) <= 1
      BY DEF NewCredit
    <3>4. PICK c : NewCredit(job[s].gross) \in {<<>>, <<c>>}
      BY DEF NewCredit
    <3>5. <<>> \in Seq({c} \cup Credit) /\ <<c>> \in Seq({c} \cup Credit)
          /\ credits[r] \in Seq({c} \cup Credit)
      BY <1>2
    <3>6. Len(cs) = Len(credits[r]) + Len(NewCredit(job[s].gross))
      BY <2>4, <3>4, <3>5
    <3> QED BY <2>4, <3>1, <3>2, <3>3, <3>5, <3>6
  <2> QED BY <1>3, <2>1, <2>4, <2>5, OrderedCredit
<1>6. CASE Mark(s)
  <2>1. PICK j : j = NoJob /\ j \in Job /\ job' = [job EXCEPT ![s] = j]
    BY <1>6, NoJobOK DEF Mark, Finish, Become
  <2>2. JobOrdered(j) /\ \A q \in Rides : ~Finishing(j, q)
    BY <2>1, MoneyAssumption DEF JobOrdered, Finishing, NoJob
  <2>3. PICK cs : /\ SetCredits(r, cs)
                  /\ cs = [k \in DOMAIN credits[r] |->
                            [credits[r][k] EXCEPT !.method = job[s].method,
                                                  !.amount = IF job[s].amount = None THEN @ ELSE job[s].amount]]
    BY <1>1, <1>6 DEF Mark
  <2>4. cs \in Seq(Credit)
    BY <2>3 DEF SetCredits, IInv, Typed
  <2>5. Len(cs) = Len(credits[r])
    <3>0. Len(cs) \in Nat /\ Len(credits[r]) \in Nat
      BY <1>2, <2>4
    <3>1. PICK n \in Nat, m \in Nat : n = Len(cs) /\ m = Len(credits[r])
      BY <3>0
    <3>2. 1 .. n = DOMAIN cs /\ 1 .. m = DOMAIN credits[r]
      BY <1>2, <2>4, <3>1
    <3>3. 1 .. n = 1 .. m
      BY <2>3, <3>2
    <3>4. (n \in 1 .. n <=> n \in 1 .. m) /\ (m \in 1 .. n <=> m \in 1 .. m)
      BY <3>3
    <3> QED BY <3>1, <3>4
  <2> QED BY <1>3, <2>1, <2>2, <2>3, <2>5, OrderedCredit
<1> QED BY <1>4, <1>5, <1>6

LEMMA OrderedOthers ==
  ASSUME IInv, CreditsOrdered, Backfill \/ Stripe \/ Crash \/ UNCHANGED vars
  PROVE  CreditsOrdered'
<1>1. CASE UNCHANGED vars
  BY <1>1 DEF CreditsOrdered, JobOrdered, Finishing, Sole, vars, ledger, startup, history
<1>2. CASE Stripe
  <2>1. UNCHANGED <<row, credits, job, booting, orphans, crashes, edited>>
    BY <1>2 DEF Stripe, ClientPays, CardDeclined, IntentCanceled, ledger, startup, history
  <2> QED BY <2>1 DEF CreditsOrdered, JobOrdered, Finishing, Sole
<1>3. CASE Backfill
  <2>1. crashes # 0 /\ UNCHANGED <<row, job, crashes, edited>>
    BY <1>3 DEF Backfill, ScanOrphans, BackfillCredit, BackfillFails, BackfillMethods,
       CreditsOrdered, history
  <2> QED BY <2>1 DEF CreditsOrdered, JobOrdered, Finishing, Sole
<1>4. CASE Crash
  <2>1. crashes \in Nat /\ crashes' = crashes + 1 /\ UNCHANGED row
    BY <1>4 DEF IInv, Typed, Crash
  <2>2. crashes' # 0
    BY <2>1
  <2>3. \A s \in Slots : job'[s] = NoJob
    BY <1>4 DEF Crash
  <2>4. \A s \in Slots : JobOrdered(job[s])' /\ \A r \in Rides : ~Finishing(job'[s], r)
    BY <2>3, MoneyAssumption DEF JobOrdered, Finishing, NoJob
  <2> QED BY <2>1, <2>2, <2>4 DEF CreditsOrdered, Sole, Finishing
<1> QED BY <1>1, <1>2, <1>3, <1>4

LEMMA OrderedInit == Init => CreditsOrdered
<1> SUFFICES ASSUME Init PROVE CreditsOrdered
  OBVIOUS
<1>1. \A s \in Slots : job[s] = NoJob
  BY DEF Init
<1>2. \A s \in Slots : JobOrdered(job[s]) /\ \A r \in Rides : ~Finishing(job[s], r)
  BY <1>1, MoneyAssumption DEF JobOrdered, Finishing, NoJob
<1>3. \A r \in Rides : row[r].intent = None /\ Len(credits[r]) = 0
  BY DEF Init, FreshRide
<1>4. booting = {} /\ orphans = {}
  BY DEF Init
<1> QED BY <1>2, <1>3, <1>4 DEF CreditsOrdered

LEMMA OrderedNext ==
  ASSUME IInv, CreditsOrdered, [Next]_vars
  PROVE  CreditsOrdered'
<1>1. job' \in [Slots -> Job] /\ credits' \in [Rides -> Seq(Credit)]
  BY NextInv DEF IInv, Typed
<1>2. ASSUME NEW s \in Slots, Arrive(s) PROVE CreditsOrdered'
  BY <1>1, <1>2, OrderedRequests, OrderedWebhooks, OrderedQuiet DEF Arrive, Request
<1>3. ASSUME NEW s \in Slots, Continue(s) PROVE CreditsOrdered'
  BY <1>1, <1>3, OrderedClaim, OrderedWebhooks, OrderedQuiet, OrderedSave, OrderedLedger,
     OrderedCreditFails
     DEF Continue
<1> QED BY <1>2, <1>3, OrderedOthers DEF Next

\* completeRide, creditRide, replaceCreditForRide: however many completions of a ride are
\* sent, whatever stale entities are saved, a ride nobody corrects has at most one credit.
THEOREM OneCredit == Spec => []OneCreditPerRide
<1>1. Init => IInv /\ CreditsOrdered
  BY InitInv, OrderedInit
<1>2. IInv /\ CreditsOrdered /\ [Next]_vars => IInv' /\ CreditsOrdered'
  BY NextInv, OrderedNext
<1>3. CreditsOrdered => OneCreditPerRide
  BY DEF CreditsOrdered, OneCreditPerRide, Sole
<1> QED BY <1>1, <1>2, <1>3, PTL DEF Spec

-----------------------------------------------------------------------------
(***************************************************************************)
(* Sums over a finite set, as the folds of the community modules take      *)
(* them: the element of Choice first.                                      *)
(***************************************************************************)
Choice(s) == CHOOSE x \in s : TRUE
SumStep(f, it, s) == IF s = {} THEN 0 ELSE f[Choice(s)] + it[s \ {Choice(s)}]
IsSum(f, S, it) == it = [s \in SUBSET S |-> SumStep(f, it, s)]
Total(f, S) == (CHOOSE it : IsSum(f, S, it))[S]

\* Induction over the naturals, for a set of them.
LEMMA AllNaturals ==
  ASSUME NEW T \in SUBSET Nat, 0 \in T, \A n \in T : n + 1 \in T
  PROVE  T = Nat
<1> SUFFICES ASSUME Nat \ T # {} PROVE FALSE
  OBVIOUS
<1>1. PICK R : R = OpToRel(<, Nat)
  OBVIOUS
<1>2. IsWellFoundedOn(R, Nat)
  BY <1>1, NatLessThanWellFounded
<1>3. PICK x \in Nat \ T : \A y \in Nat \ T : ~(<<y, x>> \in R)
  BY <1>2, WFMin
<1>4. x - 1 \in Nat /\ x - 1 < x
  BY <1>3
<1>5. <<x - 1, x>> \in R
  BY <1>1, <1>3, <1>4 DEF OpToRel
<1>6. x - 1 \in T
  BY <1>3, <1>4, <1>5
<1>7. (x - 1) + 1 = x
  BY <1>3
<1> QED BY <1>3, <1>6, <1>7

\* Taking its choice away makes a set smaller by one.
LEMMA Smaller ==
  ASSUME NEW S, IsFiniteSet(S), NEW s \in SUBSET S, s # {}
  PROVE  /\ Choice(s) \in s /\ s \ {Choice(s)} \in SUBSET S
         /\ Cardinality(s) \in Nat \ {0}
         /\ Cardinality(s \ {Choice(s)}) = Cardinality(s) - 1
<1>1. Choice(s) \in s
  BY DEF Choice
<1>2. IsFiniteSet(s) /\ Cardinality(s) \in Nat
  BY FS_Subset, FS_CardinalityType
<1>3. Cardinality(s) # 0
  BY <1>2, FS_EmptySet
<1> QED BY <1>1, <1>2, <1>3, FS_RemoveElement

\* Induction over the subsets of a finite set, for a set of them.
LEMMA SubsetInduction ==
  ASSUME NEW S, IsFiniteSet(S), NEW Q, {} \in Q,
         \A s \in SUBSET S : s # {} /\ s \ {Choice(s)} \in Q => s \in Q
  PROVE  SUBSET S \subseteq Q
<1>1. PICK T \in SUBSET Nat : T = {n \in Nat : \A s \in SUBSET S : Cardinality(s) <= n => s \in Q}
  OBVIOUS
<1>2. \A s \in SUBSET S : Cardinality(s) \in Nat /\ (Cardinality(s) = 0 => s = {})
  BY FS_Subset, FS_CardinalityType, FS_EmptySet
<1>3. 0 \in T
  <2>1. ASSUME NEW s \in SUBSET S, Cardinality(s) <= 0 PROVE s \in Q
    <3>1. Cardinality(s) = 0
      BY <1>2, <2>1
    <3>2. s = {}
      BY <1>2, <3>1
    <3> QED BY <3>2
  <2> QED BY <1>1, <2>1
<1>4. ASSUME NEW n \in T, NEW s \in SUBSET S, Cardinality(s) <= n + 1 PROVE s \in Q
  <2>1. CASE s = {}
    BY <2>1
  <2>2. CASE s # {}
    <3>1. Cardinality(s \ {Choice(s)}) <= n /\ s \ {Choice(s)} \in SUBSET S
      BY <1>1, <1>4, <2>2, Smaller
    <3> QED BY <1>1, <2>2, <3>1
  <2> QED BY <2>1, <2>2
<1>5. T = Nat
  <2>1. \A n \in T : n + 1 \in T
    BY <1>1, <1>4
  <2> QED BY <1>3, <2>1, AllNaturals
<1> SUFFICES ASSUME NEW s \in SUBSET S PROVE s \in Q
  OBVIOUS
<1>6. Cardinality(s) \in T /\ Cardinality(s) <= Cardinality(s)
  BY <1>2, <1>5
<1> QED BY <1>1, <1>6

\* There is a function that sums up every subset.
LEMMA SumExists ==
  ASSUME NEW S, IsFiniteSet(S), NEW f \in [S -> Int]
  PROVE  \E it : IsSum(f, S, it)
<1>1. \A s \in SUBSET S : Cardinality(s) \in Nat /\ (Cardinality(s) = 0 => s = {})
  BY FS_Subset, FS_CardinalityType, FS_EmptySet
<1>2. PICK T \in SUBSET Nat :
        T = {n \in Nat : \E it : /\ it = [s \in SUBSET S |-> it[s]]
                                 /\ \A s \in SUBSET S : Cardinality(s) <= n => it[s] = SumStep(f, it, s)}
  OBVIOUS
<1>3. 0 \in T
  <2>1. PICK it : it = [s \in SUBSET S |-> 0]
    OBVIOUS
  <2>2. it = [s \in SUBSET S |-> it[s]]
    BY <2>1
  <2>3. \A s \in SUBSET S : Cardinality(s) <= 0 => it[s] = SumStep(f, it, s)
    BY <1>1, <2>1 DEF SumStep
  <2> QED BY <1>2, <2>2, <2>3
<1>4. ASSUME NEW n \in T PROVE n + 1 \in T
  <2>1. PICK it : /\ it = [s \in SUBSET S |-> it[s]]
                  /\ \A s \in SUBSET S : Cardinality(s) <= n => it[s] = SumStep(f, it, s)
    BY <1>2
  <2>2. PICK next : next = [s \in SUBSET S |-> SumStep(f, it, s)]
    OBVIOUS
  <2>3. next = [s \in SUBSET S |-> next[s]]
    BY <2>2
  <2>4. ASSUME NEW s \in SUBSET S, Cardinality(s) <= n + 1 PROVE next[s] = SumStep(f, next, s)
    <3>1. CASE s = {}
      BY <2>2, <3>1 DEF SumStep
    <3>2. CASE s # {}
      <4>1. PICK c : c = Choice(s)
        OBVIOUS
      <4>2. s \ {c} \in SUBSET S /\ Cardinality(s \ {c}) <= n
        BY <2>4, <3>2, <4>1, Smaller
      <4>3. next[s \ {c}] = it[s \ {c}]
        BY <2>1, <2>2, <4>2
      <4> QED BY <2>2, <3>2, <4>1, <4>3 DEF SumStep
    <3> QED BY <3>1, <3>2
  <2>5. n + 1 \in Nat
    OBVIOUS
  <2>6. \A s \in SUBSET S : Cardinality(s) <= n + 1 => next[s] = SumStep(f, next, s)
    BY <2>4
  <2>7. PICK m : m = n + 1
    OBVIOUS
  <2> QED BY <1>2, <2>3, <2>5, <2>6, <2>7, Zenon
<1>5. T = Nat
  BY <1>3, <1>4, AllNaturals
<1>6. Cardinality(S) \in T /\ Cardinality(S) \in Nat
  BY <1>1, <1>5
<1>7. PICK it : /\ it = [s \in SUBSET S |-> it[s]]
                /\ \A s \in SUBSET S : Cardinality(s) <= Cardinality(S) => it[s] = SumStep(f, it, s)
  BY <1>2, <1>6
<1>8. \A s \in SUBSET S : Cardinality(s) <= Cardinality(S)
  BY FS_Subset
<1>9. it = [s \in SUBSET S |-> SumStep(f, it, s)]
  BY <1>7, <1>8
<1> QED BY <1>9 DEF IsSum

\* A sum of integers is one, and 0 if they all are.
LEMMA SumType ==
  ASSUME NEW S, IsFiniteSet(S), NEW f \in [S -> Int]
  PROVE  /\ Total(f, S) \in Int
         /\ (\A x \in S : f[x] = 0) => Total(f, S) = 0
<1>1. PICK it : it = CHOOSE i : IsSum(f, S, i)
  OBVIOUS
<1>2. IsSum(f, S, it)
  BY <1>1, SumExists
<1>3. \A s \in SUBSET S : it[s] = SumStep(f, it, s)
  BY <1>2 DEF IsSum
<1>4. SUBSET S \subseteq {s \in SUBSET S : it[s] \in Int}
  <2>1. PICK Q : Q = {s \in SUBSET S : it[s] \in Int}
    OBVIOUS
  <2>2. {} \in Q
    <3>1. {} \in SUBSET S /\ it[{}] = 0
      BY <1>3 DEF SumStep
    <3> QED BY <2>1, <3>1
  <2>3. ASSUME NEW s \in SUBSET S, s # {}, s \ {Choice(s)} \in Q PROVE s \in Q
    <3>1. Choice(s) \in S /\ it[s \ {Choice(s)}] \in Int
      BY <2>1, <2>3, Smaller
    <3>2. it[s] = f[Choice(s)] + it[s \ {Choice(s)}]
      BY <1>3, <2>3 DEF SumStep
    <3> QED BY <2>1, <3>1, <3>2
  <2> QED BY <2>1, <2>2, <2>3, SubsetInduction
<1>5. ASSUME \A x \in S : f[x] = 0 PROVE SUBSET S \subseteq {s \in SUBSET S : it[s] = 0}
  <2>1. PICK Q : Q = {s \in SUBSET S : it[s] = 0}
    OBVIOUS
  <2>2. {} \in Q
    <3>1. {} \in SUBSET S /\ it[{}] = 0
      BY <1>3 DEF SumStep
    <3> QED BY <2>1, <3>1
  <2>3. ASSUME NEW s \in SUBSET S, s # {}, s \ {Choice(s)} \in Q PROVE s \in Q
    <3>1. Choice(s) \in S /\ it[s \ {Choice(s)}] = 0
      BY <2>1, <2>3, Smaller
    <3>2. it[s] = f[Choice(s)] + it[s \ {Choice(s)}]
      BY <1>3, <2>3 DEF SumStep
    <3> QED BY <1>5, <2>1, <3>1, <3>2
  <2> QED BY <2>1, <2>2, <2>3, SubsetInduction
<1> QED BY <1>1, <1>4, <1>5 DEF Total

\* The sum of one ride's card credits, and that of all of them.
RideSum(q) == FoldSeq(LAMBDA c, n : CardAmount(c) + n, 0, q)

\* What is settled is a sum of sums.
LEMMA SettledIsSum ==
  ASSUME NEW cs \in [Rides -> Seq(Credit)]
  PROVE  /\ Settled(cs) \in Int
         /\ (\A r \in Rides : cs[r] = <<>>) => Settled(cs) = 0
<1>1. PICK f : f = [r \in Rides |-> RideSum(cs[r])]
  OBVIOUS
<1>2. Settled(cs) = Total(f, Rides)
  <2>1. ASSUME NEW it, NEW s \in SUBSET Rides
        PROVE  SumStep(f, it, s)
                 = IF s = {} THEN 0
                   ELSE RideSum(cs[Choice(s)]) + it[s \ {Choice(s)}]
    BY <1>1 DEF Choice, SumStep
  <2>2. \A it : IsSum(f, Rides, it) <=>
          it = [s \in SUBSET Rides |->
                 IF s = {} THEN 0
                 ELSE RideSum(cs[Choice(s)]) + it[s \ {Choice(s)}]]
    BY <2>1 DEF IsSum
  <2>3. Settled(cs) =
          (CHOOSE it : it = [s \in SUBSET Rides |->
                 IF s = {} THEN 0
                 ELSE RideSum(cs[Choice(s)]) + it[s \ {Choice(s)}]])[Rides]
    BY DEF Settled, MapThenFoldSet, RideSum, Choice
  <2>4. (CHOOSE it : IsSum(f, Rides, it)) =
          (CHOOSE it : it = [s \in SUBSET Rides |->
                 IF s = {} THEN 0 ELSE RideSum(cs[Choice(s)]) + it[s \ {Choice(s)}]])
    BY <2>2
  <2> QED BY <2>3, <2>4 DEF Total
<1>3. ASSUME NEW r \in Rides PROVE f[r] \in Int /\ (cs[r] = <<>> => f[r] = 0)
  <2>1. PICK g : g = [k \in DOMAIN cs[r] |-> CardAmount(cs[r][k])]
    OBVIOUS
  <2>2. f[r] = Total(g, DOMAIN cs[r])
    <3>1. ASSUME NEW it, NEW s \in SUBSET DOMAIN cs[r]
          PROVE  SumStep(g, it, s)
                   = IF s = {} THEN 0 ELSE CardAmount(cs[r][Choice(s)]) + it[s \ {Choice(s)}]
      BY <2>1 DEF Choice, SumStep
    <3>2. \A it : IsSum(g, DOMAIN cs[r], it) <=>
            it = [s \in SUBSET DOMAIN cs[r] |->
                   IF s = {} THEN 0 ELSE CardAmount(cs[r][Choice(s)]) + it[s \ {Choice(s)}]]
      BY <3>1 DEF IsSum
    <3>3. RideSum(cs[r]) =
            (CHOOSE it : it = [s \in SUBSET DOMAIN cs[r] |->
                   IF s = {} THEN 0 ELSE CardAmount(cs[r][Choice(s)]) + it[s \ {Choice(s)}]])[DOMAIN cs[r]]
      BY DEF RideSum, FoldSeq, FoldFunction, FoldFunctionOnSet, MapThenFoldSet, Choice
    <3>4. (CHOOSE it : IsSum(g, DOMAIN cs[r], it)) =
            (CHOOSE it : it = [s \in SUBSET DOMAIN cs[r] |->
                   IF s = {} THEN 0 ELSE CardAmount(cs[r][Choice(s)]) + it[s \ {Choice(s)}]])
      BY <3>2
    <3>5. f[r] = RideSum(cs[r])
      BY <1>1
    <3> QED BY <3>3, <3>4, <3>5 DEF Total
  <2>3. cs[r] \in Seq(Credit) /\ IsFiniteSet(DOMAIN cs[r])
    BY FS_Interval
  <2>4. g \in [DOMAIN cs[r] -> Int]
    <3>1. \A k \in DOMAIN cs[r] : cs[r][k] \in Credit
      BY <2>3
    <3> QED BY <2>1, <3>1 DEF CardAmount, Credit
  <2>5. cs[r] = <<>> => \A k \in DOMAIN cs[r] : g[k] = 0
    OBVIOUS
  <2> QED BY <2>2, <2>3, <2>4, <2>5, SumType
<1>4. f \in [Rides -> Int]
  BY <1>1, <1>3
<1> QED BY <1>2, <1>3, <1>4, SumType, MoneyAssumption
-----------------------------------------------------------------------------
(***************************************************************************)
(* Payouts.  Who inserts a payout holds the lock, and has compared it with *)
(* a balance to which no other payout has been added since.                *)
(***************************************************************************)
Covered ==
  /\ peak \in Int /\ payouts <= peak /\ Settled(credits) <= peak
  /\ \A s \in Slots : At(s, "insert") => lock = s /\ payouts + job[s].amount <= peak

\* The ledger as it is, or with other credits; a handler that is to insert a payout waits.
LEMMA CoveredKept ==
  ASSUME IInv, IInv', Covered, UNCHANGED <<payouts, lock>>,
         UNCHANGED <<credits, peak>> \/ peak' = Greater(peak, Settled(credits')),
         \A s \in Slots : job'[s].pc = "insert" => job'[s] = job[s]
  PROVE  Covered'
<1>1. payouts \in Nat /\ Settled(credits) \in Int /\ Settled(credits') \in Int
  BY SettledIsSum DEF IInv, Typed
<1>2. peak' \in Int /\ peak <= peak' /\ Settled(credits') <= peak'
  BY <1>1 DEF Covered, Greater
<1>3. ASSUME NEW s \in Slots, job'[s].pc = "insert"
      PROVE  lock' = s /\ payouts' + job'[s].amount <= peak'
  <2>1. job[s].amount \in Nat /\ lock = s /\ payouts + job[s].amount <= peak
    BY <1>3 DEF IInv, JobOK, Covered, At
  <2> QED BY <1>1, <1>2, <1>3, <2>1 DEF Covered
<1> QED BY <1>1, <1>2, <1>3 DEF Covered, At

\* Every handler but a payout's moves to something else than an insertion.
LEMMA NoInsertion ==
  ASSUME IInv, NEW s \in Slots, Arrive(s) \/ Continue(s),
         ~PayoutInsert(s), ~QueryFails(s), \A a \in PayoutAmounts : ~PayoutCheck(s, a)
  PROVE  /\ UNCHANGED <<payouts, lock>>
         /\ UNCHANGED <<credits, peak>> \/ peak' = Greater(peak, Settled(credits'))
         /\ \A t \in Slots : job'[t].pc = "insert" => job'[t] = job[t]
<1>1. job \in [Slots -> Job] /\ job[s] \in Job
  BY DEF IInv, Typed
<1>2. NoJob.pc = "idle"
  BY DEF NoJob
<1>3. ASSUME NEW j, job' = [job EXCEPT ![s] = j], j.pc # "insert"
      PROVE  \A t \in Slots : job'[t].pc = "insert" => job'[t] = job[t]
  BY <1>1, <1>3
<1>4. ASSUME NEW op, NEW pc, NEW r, NEW e, NEW g, NEW m, Begin(s, op, pc, r, e, g, m), pc # "insert"
      PROVE  \A t \in Slots : job'[t].pc = "insert" => job'[t] = job[t]
  <2>1. PICK j : j = [NoJob EXCEPT !.op = op, !.pc = pc, !.ride = r, !.ent = e,
                                   !.gross = g, !.method = m]
    OBVIOUS
  <2>2. j.pc = pc
    BY <2>1 DEF NoJob
  <2> QED BY <1>3, <1>4, <2>1, <2>2 DEF Begin, Become
<1>5. ASSUME NEW pc, Goto(s, pc), pc # "insert"
      PROVE  \A t \in Slots : job'[t].pc = "insert" => job'[t] = job[t]
  <2>1. PICK j : j = [job[s] EXCEPT !.pc = pc]
    OBVIOUS
  <2>2. j.pc = pc
    BY <1>1, <2>1 DEF Job
  <2> QED BY <1>3, <1>5, <2>1, <2>2 DEF Goto, Become
<1>6. ASSUME Finish(s) PROVE \A t \in Slots : job'[t].pc = "insert" => job'[t] = job[t]
  BY <1>2, <1>3, <1>6 DEF Finish, Become
<1>7. ASSUME NEW op, NEW i, LookUp(s, op, i)
      PROVE  \A t \in Slots : job'[t].pc = "insert" => job'[t] = job[t]
  <2>1. CASE ~Finish(s)
    <3>1. PICK r, m : Begin(s, op, "select", r, Outcome(op, row[r]), 0, m)
      BY <1>7, <2>1 DEF LookUp
    <3> QED BY <1>4, <3>1
  <2> QED BY <1>6, <2>1
<1>8. CASE Arrive(s)
  <2>1. \/ \E r \in Rides : Complete(s, r) \/ EditFare(s, r) \/ PayCash(s, r) \/ CreateIntent(s, r)
        \/ \E type \in {"succeeded", "failed", "canceled"}, i \in Intents : Webhook(s, type, i)
    BY <1>8 DEF Arrive, Request
  <2>2. UNCHANGED <<payouts, lock, credits, peak>>
    BY <2>1 DEF Complete, EditFare, PayCash, CreateIntent, Webhook, ledger
  <2>3. ASSUME NEW r \in Rides, Complete(s, r) \/ EditFare(s, r) \/ PayCash(s, r) \/ CreateIntent(s, r)
        PROVE  \A t \in Slots : job'[t].pc = "insert" => job'[t] = job[t]
    <3>1. \E op, pc, e, g, m : Begin(s, op, pc, r, e, g, m) /\ pc # "insert"
      <4>1. CASE Complete(s, r)
        BY <4>1 DEF Complete
      <4>2. CASE EditFare(s, r)
        BY <4>2 DEF EditFare
      <4>3. CASE PayCash(s, r)
        BY <4>3 DEF PayCash
      <4>4. CASE CreateIntent(s, r)
        <5>1. PICK pc : pc = IF row[r].intent = None THEN "create" ELSE "retrieve"
          OBVIOUS
        <5> QED BY <4>4, <5>1 DEF CreateIntent
      <4> QED BY <2>3, <4>1, <4>2, <4>3, <4>4
    <3> QED BY <1>4, <3>1
  <2> QED BY <1>7, <2>1, <2>2, <2>3 DEF Webhook
<1>9. CASE Continue(s)
  <2>1. UNCHANGED <<payouts, lock>>
        /\ (UNCHANGED <<credits, peak>> \/ peak' = Greater(peak, Settled(credits')))
    BY <1>9 DEF Continue, Claim, Retrieve, Create, CreateFails, Find, SaveSelect, SaveUpdate,
       Prior, Wipe, AddCredit, Enter, CreditFails, ReadEntry, Mark, SetCredits, ledger
  <2>2. CASE Claim(s) \/ Retrieve(s) \/ CreateFails(s) \/ Find(s) \/ Wipe(s) \/ AddCredit(s)
             \/ CreditFails(s) \/ Mark(s)
    <3>1. \/ Finish(s)
          \/ \E pc \in {"select", "create", "credit", "entry", "mark"} : Goto(s, pc)
          \/ LookUp(s, "charge", job[s].intent)
      BY <2>2 DEF Claim, Retrieve, CreateFails, Find, Wipe, AddCredit, CreditFails, AfterCredit,
         Mark
    <3> QED BY <1>5, <1>6, <1>7, <2>1, <3>1
  <2>3. CASE Create(s)
    <3>1. PICK i, n : Become(s, [job[s] EXCEPT !.pc = "select", !.ent.intent = i, !.intent = n])
      BY <2>3 DEF Create
    <3>2. PICK j : j = [job[s] EXCEPT !.pc = "select", !.ent.intent = i, !.intent = n]
      OBVIOUS
    <3>3. j.pc = "select"
      BY <1>1, <3>2 DEF Job
    <3> QED BY <1>3, <2>1, <3>1, <3>2, <3>3 DEF Become
  <2>4. CASE SaveSelect(s)
    <3>1. PICK j : j = [job[s] EXCEPT !.pc = "update", !.dirty = Differing(job[s].ent, row[job[s].ride])]
      OBVIOUS
    <3>2. j.pc = "update"
      BY <1>1, <3>1 DEF Job
    <3> QED BY <1>3, <2>1, <2>4, <3>1, <3>2 DEF SaveSelect, Become
  <2>5. CASE SaveUpdate(s)
    <3>1. PICK j : j = [job[s] EXCEPT !.pc = AfterSave(job[s]), !.ent = FreshRide, !.dirty = {}]
      OBVIOUS
    <3>2. j.pc # "insert"
      BY <1>1, <3>1 DEF Job, AfterSave
    <3>3. Finish(s) \/ Become(s, j)
      BY <2>5, <3>1 DEF SaveUpdate
    <3> QED BY <1>3, <1>6, <2>1, <3>2, <3>3 DEF Become
  <2>6. CASE Prior(s)
    <3>1. PICK m : Become(s, [job[s] EXCEPT !.pc = "wipe", !.method = m])
      BY <2>6 DEF Prior
    <3>2. PICK j : j = [job[s] EXCEPT !.pc = "wipe", !.method = m]
      OBVIOUS
    <3>3. j.pc = "wipe"
      BY <1>1, <3>2 DEF Job
    <3> QED BY <1>3, <2>1, <3>1, <3>2, <3>3 DEF Become
  <2>7. CASE ReadEntry(s)
    <3>1. PICK n : Become(s, [job[s] EXCEPT !.pc = "mark", !.amount = n])
      BY <2>7 DEF ReadEntry
    <3>2. PICK j : j = [job[s] EXCEPT !.pc = "mark", !.amount = n]
      OBVIOUS
    <3>3. j.pc = "mark"
      BY <1>1, <3>2 DEF Job
    <3> QED BY <1>3, <2>1, <3>1, <3>2, <3>3 DEF Become
  <2> QED BY <1>9, <2>1, <2>2, <2>3, <2>4, <2>5, <2>6, <2>7 DEF Continue
<1> QED BY <1>8, <1>9

LEMMA CoveredPayouts ==
  ASSUME IInv, IInv', Covered, NEW s \in Slots,
         PayoutInsert(s) \/ \E a \in PayoutAmounts : PayoutCheck(s, a)
  PROVE  Covered'
<1>1. /\ payouts \in Nat /\ Settled(credits) \in Int /\ peak \in Int /\ job \in [Slots -> Job]
      /\ None \notin Slots
  BY SettledIsSum, MoneyAssumption DEF IInv, Typed, Covered
<1>2. ASSUME NEW a \in PayoutAmounts, PayoutCheck(s, a) PROVE Covered'
  <2>1. a \in Nat /\ a # 0 /\ a <= Greater(0, Settled(credits) - payouts)
    BY <1>2, MoneyAssumption DEF PayoutCheck, Payable
  <2>2. payouts + a <= Settled(credits)
    BY <1>1, <2>1 DEF Greater
  <2>3. payouts + a <= peak
    BY <1>1, <2>1, <2>2 DEF Covered
  <2>4. PICK j : j = [NoJob EXCEPT !.op = "payout", !.pc = "insert", !.amount = a]
    OBVIOUS
  <2>5. j.amount = a /\ job' = [job EXCEPT ![s] = j]
    BY <1>2, <2>4 DEF NoJob, PayoutCheck, Become
  <2>6. /\ lock = None /\ lock' = s /\ payouts' = payouts /\ peak' = peak /\ credits' = credits
    BY <1>2 DEF PayoutCheck, ledger
  <2>7. ASSUME NEW t \in Slots, job'[t].pc = "insert"
        PROVE  lock' = t /\ payouts' + job'[t].amount <= peak'
    <3>1. t = s
      BY <1>1, <2>5, <2>6, <2>7 DEF Covered, At
    <3> QED BY <1>1, <2>3, <2>5, <2>6, <3>1
  <2> QED BY <2>6, <2>7 DEF Covered, At
<1>3. CASE PayoutInsert(s)
  <2>1. /\ lock = s /\ payouts + job[s].amount <= peak /\ job' = [job EXCEPT ![s] = NoJob]
        /\ payouts' = payouts + job[s].amount /\ credits' = credits /\ peak' = peak
    BY <1>3 DEF PayoutInsert, Covered, Finish, Become
  <2>2. \A t \in Slots : job'[t].pc # "insert"
    BY <1>1, <2>1 DEF Covered, At, NoJob
  <2> QED BY <2>1, <2>2 DEF Covered, At
<1> QED BY <1>2, <1>3

\* A payout that fails leaves the lock and inserts nothing.
LEMMA CoveredQueryFails ==
  ASSUME IInv, Covered, NEW s \in Slots, QueryFails(s)
  PROVE  Covered'
<1>1. /\ UNCHANGED <<payouts, credits, peak>>
      /\ lock' = IF job[s].pc = "insert" THEN None ELSE lock
      /\ job \in [Slots -> Job] /\ job' = [job EXCEPT ![s] = NoJob] /\ NoJob.pc = "idle"
  BY DEF QueryFails, Finish, Become, NoJob, IInv, Typed
<1>2. ASSUME NEW t \in Slots, job'[t].pc = "insert"
      PROVE  lock' = t /\ payouts' + job'[t].amount <= peak'
  <2>1. t # s /\ job'[t] = job[t]
    BY <1>1, <1>2
  <2>2. lock = t /\ job[s].pc # "insert"
    BY <1>2, <2>1 DEF Covered, At
  <2> QED BY <1>1, <1>2, <2>1, <2>2 DEF Covered, At
<1> QED BY <1>1, <1>2 DEF Covered, At

LEMMA CoveredNext ==
  ASSUME IInv, Covered, [Next]_vars
  PROVE  Covered'
<1>1. IInv'
  BY NextInv
<1>2. ASSUME NEW s \in Slots, Arrive(s) \/ Continue(s) PROVE Covered'
  <2>1. CASE PayoutInsert(s) \/ \E a \in PayoutAmounts : PayoutCheck(s, a)
    BY <1>1, <2>1, CoveredPayouts
  <2>2. CASE QueryFails(s)
    BY <2>2, CoveredQueryFails
  <2>3. CASE ~(PayoutInsert(s) \/ QueryFails(s) \/ \E a \in PayoutAmounts : PayoutCheck(s, a))
    <3>1. /\ UNCHANGED <<payouts, lock>>
          /\ UNCHANGED <<credits, peak>> \/ peak' = Greater(peak, Settled(credits'))
          /\ \A t \in Slots : job'[t].pc = "insert" => job'[t] = job[t]
      BY <1>2, <2>3, NoInsertion
    <3> QED BY <1>1, <3>1, CoveredKept
  <2> QED BY <2>1, <2>2, <2>3
<1>3. CASE Backfill
  <2>1. /\ UNCHANGED <<payouts, lock, job>>
        /\ UNCHANGED <<credits, peak>> \/ peak' = Greater(peak, Settled(credits'))
    BY <1>3 DEF Backfill, ScanOrphans, BackfillCredit, BackfillFails, BackfillMethods,
       Enter, SetCredits, ledger
  <2> QED BY <1>1, <2>1, CoveredKept
<1>4. CASE Stripe \/ UNCHANGED vars
  <2>1. UNCHANGED <<payouts, lock, job, credits, peak>>
    BY <1>4 DEF Stripe, ClientPays, CardDeclined, IntentCanceled, vars, ledger
  <2> QED BY <1>1, <2>1, CoveredKept
<1>5. CASE Crash
  <2>1. UNCHANGED <<payouts, credits, peak>> /\ \A s \in Slots : job'[s].pc = "idle"
    BY <1>5 DEF Crash, ledger, NoJob
  <2> QED BY <2>1 DEF Covered, At
<1> QED BY <1>2, <1>3, <1>4, <1>5 DEF Next

\* createPayout: for any number of payouts at once, rides and amounts, what is paid out is
\* never more than the card rides ever brought.
THEOREM PayoutsAreCovered == Spec => []PayoutsWithinPeak
<1>1. Init => IInv /\ Covered
  <2>1. Init => Settled(credits) = 0
    <3>1. Init => credits \in [Rides -> Seq(Credit)] /\ \A r \in Rides : credits[r] = <<>>
      BY DEF Init
    <3> QED BY <3>1, SettledIsSum
  <2>2. Init => \A s \in Slots : job[s].pc = "idle"
    BY DEF Init, NoJob
  <2>3. Init => peak = 0 /\ payouts = 0
    BY DEF Init
  <2> QED BY <2>1, <2>2, <2>3, InitInv DEF Covered, At
<1>2. IInv /\ Covered /\ [Next]_vars => IInv' /\ Covered'
  BY NextInv, CoveredNext
<1>3. Covered => PayoutsWithinPeak
  BY DEF Covered, PayoutsWithinPeak
<1> QED BY <1>1, <1>2, <1>3, PTL DEF Spec

-----------------------------------------------------------------------------
(***************************************************************************)
(* The card fee is taken once.  The fare of a ride that nobody corrects is *)
(* set by the one completion that claimed it, is not more than the gross   *)
(* fare of any credit, and every entity that was loaded later has it.      *)
(***************************************************************************)
Plain(r) == r \notin edited \cup cashed

Bound(gross) == Share(gross) - Percent(gross, CardFeePct)

Untouched(r) == row[r].fare = 0 /\ credits[r] = <<>> /\ \A o \in orphans : o.ride # r

RidePriced(r) == Plain(r) =>
  /\ row[r].status = "in_progress" => Untouched(r)
  /\ row[r].intent # None => row[r].fare > 0
  /\ \A o \in orphans : o.ride = r => o.gross = row[r].fare
  /\ \A k \in DOMAIN credits[r] : row[r].fare <= credits[r][k].gross
  /\ Len(credits[r]) <= 1 => \A k \in DOMAIN credits[r] :
       /\ credits[r][k].amount >= Bound(credits[r][k].gross)
       /\ credits[r][k].method # "card" => credits[r][k].amount >= Share(credits[r][k].gross)

JobPriced(j) == Plain(j.ride) =>
  /\ j.op \notin {"edit", "cash"} /\ j.method # "cash"
  /\ j.op = "complete" =>
       /\ j.method = None
       /\ j.pc \in {"claim", "select", "update"} => j.ent.fare <= j.gross /\ j.ent.intent = None
       /\ j.pc \in {"select", "update"} => Untouched(j.ride)
       /\ j.pc = "credit" => row[j.ride].fare <= j.gross
  /\ j.op # "complete" /\ j.pc \in {"select", "update", "create", "retrieve"} =>
       j.ent.fare = row[j.ride].fare /\ row[j.ride].fare > 0
  /\ j.pc = "mark" /\ j.amount # None =>
       /\ credits[j.ride] # <<>>
       /\ Len(credits[j.ride]) = 1 => j.amount >= Bound(credits[j.ride][1].gross)

Priced == (\A r \in Rides : RidePriced(r)) /\ \A s \in Slots : JobPriced(job[s])

\* A share, and the fee on a part of a fare, which is no more than that on all of it.
LEMMA Amounts ==
  ASSUME NEW x \in Nat, NEW y \in Nat
  PROVE  /\ Share(x) \in Int /\ Percent(x, CardFeePct) \in Int /\ Bound(x) \in Int
         /\ Percent(x, CardFeePct) >= 0
         /\ x <= y => Percent(x, CardFeePct) <= Percent(y, CardFeePct)
<1>1. PICK p \in Nat : p = CardFeePct
  BY MoneyAssumption
<1>2. PICK a \in Nat, b \in Nat : a = x * p /\ b = y * p
  OBVIOUS
<1>3. x <= y => a <= b
  <2>1. ASSUME x <= y PROVE a <= b
    <3>1. PICK d \in Nat : y = x + d
      <4>1. y - x \in Nat /\ y = x + (y - x)
        BY <2>1
      <4> QED BY <4>1
    <3>2. y * p = x * p + d * p /\ d * p \in Nat
      BY <3>1
    <3> QED BY <1>2, <3>2
  <2> QED BY <2>1
<1>4. Percent(x, CardFeePct) = (a + 50) \div 100 /\ Percent(y, CardFeePct) = (b + 50) \div 100
  BY <1>1, <1>2 DEF Percent
<1>5. /\ (a + 50) \div 100 \in Int /\ (a + 50) \div 100 >= 0
      /\ a <= b => (a + 50) \div 100 <= (b + 50) \div 100
  BY SMT
<1>6. Share(x) \in Int
  <2>1. Pct \in Int
    BY MoneyAssumption
  <2>2. PICK n \in Int : n = x * Pct
    BY <2>1
  <2>3. (n + 50) \div 100 \in Int
    BY SMT
  <2> QED BY <2>2, <2>3 DEF Share, Percent
<1> QED BY <1>3, <1>4, <1>5, <1>6 DEF Bound

\* Nothing but the handlers moves, and only s.
LEMMA PricedMove ==
  ASSUME IInv, Priced, NEW s \in Slots, NEW j \in Job, job' = [job EXCEPT ![s] = j],
         UNCHANGED <<row, credits, orphans>>, edited \subseteq edited', cashed \subseteq cashed',
         JobPriced(j)'
  PROVE  Priced'
<1>1. \A r : Plain(r)' => Plain(r)
  BY DEF Plain
<1>2. \A r \in Rides : RidePriced(r)'
  BY <1>1 DEF Priced, RidePriced, Untouched
<1>3. job'[s] = j /\ \A t \in Slots \ {s} : job'[t] = job[t]
  BY DEF IInv, Typed
<1>4. ASSUME NEW t \in Slots PROVE JobPriced(job[t])'
  <2>1. CASE t = s
    BY <1>3, <2>1 DEF JobPriced, Untouched, Plain
  <2>2. CASE t # s
    BY <1>1, <1>3, <2>2 DEF Priced, JobPriced, Untouched
  <2> QED BY <2>1, <2>2
<1> QED BY <1>2, <1>4 DEF Priced

LEMMA NoJobPriced == JobPriced(NoJob)'
<1>1. NoJob.pc = "idle" /\ NoJob.op = None /\ NoJob.method = None
  BY DEF NoJob
<1>2. None \notin {"edit", "cash", "complete"}
  BY MoneyAssumption
<1> QED BY <1>1, <1>2 DEF JobPriced

LEMMA PricedFinish ==
  ASSUME IInv, Priced, NEW s \in Slots, Finish(s),
         UNCHANGED <<row, credits, orphans>>, edited \subseteq edited', cashed \subseteq cashed'
  PROVE  Priced'
<1>1. PICK j \in Job : j = NoJob
  BY NoJobOK
<1>2. JobPriced(j)'
  BY <1>1, NoJobPriced
<1>3. job' = [job EXCEPT ![s] = j]
  BY <1>1 DEF Finish, Become
<1> QED BY <1>2, <1>3, PricedMove

LEMMA PricedBegin ==
  ASSUME IInv, Priced, NEW s \in Slots, NEW op \in Ops,
         NEW pc \in {"select", "claim", "create", "retrieve"},
         NEW r \in Rides, NEW e \in Row, NEW g \in Nat, NEW m \in Methods \cup {None},
         Begin(s, op, pc, r, e, g, m),
         UNCHANGED <<row, credits, orphans>>, edited \subseteq edited', cashed \subseteq cashed',
         Plain(r)' =>
           /\ op \notin {"edit", "cash"} /\ m # "cash"
           /\ op = "complete" => pc = "claim" /\ m = None /\ e.fare <= g /\ e.intent = None
           /\ op # "complete" => e.fare = row[r].fare /\ row[r].fare > 0
  PROVE  Priced'
<1>1. PICK j : j = [NoJob EXCEPT !.op = op, !.pc = pc, !.ride = r, !.ent = e,
                                 !.gross = g, !.method = m]
  OBVIOUS
<1>2. j \in Job
  BY <1>1, NoJobOK DEF Job, PCs
<1>3. j.pc = pc /\ j.ride = r /\ j.ent = e /\ j.op = op /\ j.gross = g /\ j.method = m
  BY <1>1, NoJobOK DEF Job, NoJob
<1>4. JobPriced(j)'
  BY <1>3 DEF JobPriced
<1>5. job' = [job EXCEPT ![s] = j]
  BY <1>1 DEF Begin, Become
<1> QED BY <1>2, <1>4, <1>5, PricedMove

LEMMA PricedRequests ==
  ASSUME IInv, Priced, NEW s \in Slots, NEW r \in Rides,
         Complete(s, r) \/ EditFare(s, r) \/ PayCash(s, r) \/ CreateIntent(s, r)
  PROVE  Priced'
<1>1. row[r] \in Row /\ RidePriced(r)
  BY RowFacts DEF Priced
<1>2. 0 \in Nat /\ None \in Methods \cup {None} /\ "cash" \in Methods \cup {None} /\ None # "cash"
  BY MoneyAssumption DEF Methods
<1>3. CASE Complete(s, r)
  <2>0. PICK f \in Fares, a \in Absorbed :
          Begin(s, "complete", "claim", r, [row[r] EXCEPT !.status = "completed", !.fare = f], f + a, None)
    BY <1>3 DEF Complete
  <2>1. PICK g \in Nat : f \in Nat /\ g = f + a /\ f <= g
    BY MoneyAssumption
  <2>2. PICK e : e = [row[r] EXCEPT !.status = "completed", !.fare = f]
    OBVIOUS
  <2>3. e \in Row /\ e.fare = f /\ e.intent = row[r].intent
    BY <1>1, <2>1, <2>2 DEF Row
  <2>4. UNCHANGED <<row, credits, orphans>> /\ UNCHANGED edited /\ UNCHANGED cashed
    BY <1>3 DEF Complete, ledger, startup
  <2>5. Begin(s, "complete", "claim", r, e, g, None)
    BY <2>0, <2>1, <2>2
  <2>6. Plain(r) => row[r].intent = None
    <3>1. row[r].status = "in_progress"
      BY <1>3 DEF Complete
    <3>2. ASSUME Plain(r) PROVE row[r].fare = 0
      BY <1>1, <3>1, <3>2 DEF RidePriced, Untouched
    <3>3. ASSUME Plain(r) PROVE ~(row[r].fare > 0)
      BY <3>2, <3>3
    <3> QED BY <1>1, <3>3 DEF RidePriced
  <2>7. Plain(r)' => Plain(r)
    BY <2>4 DEF Plain
  <2> QED BY <1>2, <2>1, <2>3, <2>4, <2>5, <2>6, <2>7, PricedBegin DEF Ops
<1>4. CASE EditFare(s, r)
  <2>1. PICK f \in Nat :
          Begin(s, "edit", "select", r, [row[r] EXCEPT !.status = "completed", !.fare = f], f, None)
    BY <1>4, MoneyAssumption DEF EditFare
  <2>2. PICK e : e = [row[r] EXCEPT !.status = "completed", !.fare = f]
    OBVIOUS
  <2>3. e \in Row
    BY <1>1, <2>2 DEF Row
  <2>4. UNCHANGED <<row, credits, orphans>> /\ edited \subseteq edited' /\ r \in edited' /\ UNCHANGED cashed
    BY <1>4 DEF EditFare, ledger, startup
  <2> QED BY <1>2, <2>1, <2>2, <2>3, <2>4, PricedBegin DEF Ops, Plain
<1>5. CASE PayCash(s, r)
  <2>1. PICK e : e = [row[r] EXCEPT !.pay = "paid"]
    OBVIOUS
  <2>2. e \in Row
    BY <1>1, <1>5, <2>1 DEF Row, PayCash
  <2>3. Begin(s, "cash", "select", r, e, 0, "cash")
    BY <1>5, <2>1 DEF PayCash
  <2>4. UNCHANGED <<row, credits, orphans>> /\ cashed \subseteq cashed' /\ r \in cashed' /\ UNCHANGED edited
    BY <1>5 DEF PayCash, ledger, startup
  <2> QED BY <1>2, <2>2, <2>3, <2>4, PricedBegin DEF Ops, Plain
<1>6. CASE CreateIntent(s, r)
  <2>1. PICK op \in {"sheet", "charge"}, pc \in {"create", "retrieve"} :
          Begin(s, op, pc, r, row[r], 0, None)
    BY <1>6 DEF CreateIntent
  <2>2. UNCHANGED <<row, credits, orphans>> /\ UNCHANGED edited /\ UNCHANGED cashed /\ row[r].fare > 0
    BY <1>6 DEF CreateIntent, ledger, startup
  <2> QED BY <1>1, <1>2, <2>1, <2>2, PricedBegin DEF Ops
<1> QED BY <1>3, <1>4, <1>5, <1>6

LEMMA PricedLookUp ==
  ASSUME IInv, Priced, NEW s \in Slots,
         NEW op \in {"succeeded", "failed", "canceled", "charge"}, NEW i \in Intents,
         LookUp(s, op, i), UNCHANGED <<row, credits, orphans, edited, cashed>>
  PROVE  Priced'
<1>1. CASE Finish(s)
  BY <1>1, PricedFinish
<1>2. CASE ~Finish(s)
  <2>1. PICK m \in Methods \cup {None} : m = (IF op \in {"succeeded", "charge"} THEN "card" ELSE None) /\ m # "cash"
    BY MoneyAssumption DEF Methods
  <2>2. PICK r \in Rides : row[r].intent = i /\ Begin(s, op, "select", r, Outcome(op, row[r]), 0, m)
    BY <1>2, <2>1 DEF LookUp
  <2>3. row[r] \in Row /\ (Plain(r) => row[r].fare > 0)
    BY <2>2, RowFacts, MoneyAssumption DEF Priced, RidePriced
  <2>4. PICK e : e = Outcome(op, row[r])
    OBVIOUS
  <2>5. e \in Row /\ e.fare = row[r].fare
    BY <2>3, <2>4 DEF Outcome, Row
  <2>6. op \in Ops /\ op # "complete" /\ op # "edit" /\ op # "cash" /\ 0 \in Nat
    BY DEF Ops
  <2>7. Begin(s, op, "select", r, e, 0, m)
    BY <2>2, <2>4
  <2>8. Plain(r)' => Plain(r)
    BY DEF Plain
  <2> QED BY <2>1, <2>3, <2>5, <2>6, <2>7, <2>8, PricedBegin
<1> QED BY <1>1, <1>2

LEMMA PricedWebhooks ==
  ASSUME IInv, Priced, NEW s \in Slots,
         Find(s) \/ \E type \in {"succeeded", "failed", "canceled"}, i \in Intents : Webhook(s, type, i)
  PROVE  Priced'
<1>1. CASE Find(s)
  <2>1. job[s].intent \in Intents
    BY <1>1, JobFacts DEF Find, At, JobOK, Job
  <2>2. LookUp(s, "charge", job[s].intent) /\ UNCHANGED <<row, credits, orphans, edited, cashed>>
    BY <1>1 DEF Find, ledger, history, startup
  <2>3. PICK i \in Intents : i = job[s].intent
    BY <2>1
  <2> QED BY <2>2, <2>3, PricedLookUp
<1>2. ASSUME NEW type \in {"succeeded", "failed", "canceled"}, NEW i \in Intents, Webhook(s, type, i)
      PROVE  Priced'
  <2>1. LookUp(s, type, i) /\ UNCHANGED <<row, credits, orphans, edited, cashed>>
    BY <1>2 DEF Webhook, ledger, startup
  <2> QED BY <2>1, PricedLookUp
<1> QED BY <1>1, <1>2

\* The steps of a handler that leave its row and credits alone.
LEMMA PricedQuiet ==
  ASSUME IInv, CreditsOrdered, Priced, NEW s \in Slots,
         \/ Retrieve(s) \/ Create(s) \/ CreateFails(s) \/ SaveSelect(s) \/ Prior(s) \/ ReadEntry(s)
         \/ PayoutInsert(s) \/ QueryFails(s) \/ CreditFails(s)
         \/ \E a \in PayoutAmounts : PayoutCheck(s, a),
         job' \in [Slots -> Job]
  PROVE  Priced'
<1>1. UNCHANGED <<row, credits, orphans>> /\ edited' = edited /\ cashed' = cashed
  BY DEF Retrieve, Create, CreateFails, SaveSelect, Prior, ReadEntry, PayoutInsert, QueryFails,
         CreditFails, PayoutCheck, ledger, history, startup
<1>2. CASE Finish(s)
  BY <1>1, <1>2, PricedFinish
<1>3. /\ job \in [Slots -> Job] /\ job[s] \in Job /\ JobPriced(job[s]) /\ JobOrdered(job[s])
      /\ \A r : Plain(r)' <=> Plain(r)
  BY <1>1 DEF IInv, Typed, Priced, CreditsOrdered, Plain
<1>4. ASSUME NEW j, Become(s, j), JobPriced(j) PROVE Priced'
  <2>1. job'[s] = j /\ job' = [job EXCEPT ![s] = j]
    BY <1>3, <1>4 DEF Become
  <2>2. JobPriced(j)'
    BY <1>1, <1>3, <1>4 DEF JobPriced, Untouched
  <2>3. j \in Job
    BY <2>1
  <2> QED BY <1>1, <2>1, <2>2, <2>3, PricedMove
<1>5. CASE Retrieve(s)
  <2>1. CASE Goto(s, "create")
    <3>1. PICK j : j = [job[s] EXCEPT !.pc = "create"]
      OBVIOUS
    <3>2. Become(s, j)
      BY <2>1, <3>1 DEF Goto
    <3>3. /\ j.pc = "create" /\ j.op = job[s].op /\ j.ride = job[s].ride /\ j.ent = job[s].ent
          /\ j.method = job[s].method /\ job[s].op # "complete" /\ job[s].pc = "retrieve"
      BY <1>3, <1>5, <3>1 DEF Job, JobOrdered, Retrieve, At
    <3>4. JobPriced(j)
      BY <1>3, <3>3 DEF JobPriced
    <3> QED BY <1>4, <3>2, <3>4
  <2> QED BY <1>2, <1>5, <2>1 DEF Retrieve
<1>6. CASE Create(s)
  <2>1. PICK i \in Intents, n \in Intents \cup {None} : Become(s, [job[s] EXCEPT !.pc = "select", !.ent.intent = i, !.intent = n])
    BY <1>6 DEF Create
  <2>2. PICK j : j = [job[s] EXCEPT !.pc = "select", !.ent.intent = i, !.intent = n]
    OBVIOUS
  <2>3. job[s].ent \in Row
    BY JobFacts
  <2>4. /\ j.pc = "select" /\ j.op = job[s].op /\ j.ride = job[s].ride /\ j.ent.fare = job[s].ent.fare
        /\ j.method = job[s].method
    BY <1>3, <2>2, <2>3 DEF Job, Row
  <2>5. job[s].op # "complete" /\ job[s].pc = "create"
    BY <1>3, <1>6 DEF JobOrdered, Create, At
  <2>6. JobPriced(j)
    BY <1>3, <2>4, <2>5 DEF JobPriced
  <2> QED BY <1>4, <2>1, <2>2, <2>6
<1>7. CASE SaveSelect(s)
  <2>1. PICK j : j = [job[s] EXCEPT !.pc = "update", !.dirty = Differing(job[s].ent, row[job[s].ride])]
    OBVIOUS
  <2>2. /\ j.pc = "update" /\ j.op = job[s].op /\ j.ride = job[s].ride /\ j.ent = job[s].ent
        /\ j.method = job[s].method /\ j.gross = job[s].gross /\ job[s].pc = "select"
    BY <1>3, <1>7, <2>1 DEF Job, SaveSelect, At
  <2>3. JobPriced(j)
    BY <1>3, <2>2 DEF JobPriced
  <2>4. Become(s, j)
    BY <1>7, <2>1 DEF SaveSelect
  <2> QED BY <1>4, <2>3, <2>4
<1>8. CASE Prior(s)
  <2>1. PICK m : Become(s, [job[s] EXCEPT !.pc = "wipe", !.method = m])
    BY <1>8 DEF Prior
  <2>2. PICK j : j = [job[s] EXCEPT !.pc = "wipe", !.method = m]
    OBVIOUS
  <2>3. j.ride = job[s].ride /\ job[s].op = "edit"
    BY <1>3, <1>8, <2>2 DEF Job, JobOrdered, Prior, At
  <2>4. JobPriced(j)
    BY <1>3, <2>3 DEF JobPriced
  <2> QED BY <1>4, <2>1, <2>2, <2>4
<1>9. CASE ReadEntry(s)
  <2>0. PICK r \in Rides : r = job[s].ride
    BY <1>9, JobFacts DEF ReadEntry, At
  <2>1. PICK n : /\ Become(s, [job[s] EXCEPT !.pc = "mark", !.amount = n])
                 /\ \/ n = None
                    \/ \E c \in ToSet(credits[r]) :
                         /\ c.method # "card"
                         /\ n = c.amount - Percent(IF row[r].fare = 0 THEN c.gross ELSE row[r].fare, CardFeePct)
    BY <1>9, <2>0 DEF ReadEntry
  <2>2. PICK j : j = [job[s] EXCEPT !.pc = "mark", !.amount = n]
    OBVIOUS
  <2>3. j.pc = "mark" /\ j.op = job[s].op /\ j.ride = r /\ j.method = job[s].method /\ j.amount = n
    BY <1>3, <2>0, <2>2 DEF Job
  <2>4. credits[r] \in Seq(Credit) /\ RidePriced(r) /\ row[r] \in Row
    BY RowFacts DEF IInv, Typed, Priced
  <2>5. ASSUME Plain(r), n # None
        PROVE  credits[r] # <<>> /\ (Len(credits[r]) = 1 => n >= Bound(credits[r][1].gross))
    <3>1. PICK k \in DOMAIN credits[r] :
            /\ credits[r][k].method # "card"
            /\ n = credits[r][k].amount
                     - Percent(IF row[r].fare = 0 THEN credits[r][k].gross ELSE row[r].fare, CardFeePct)
      BY <2>1, <2>5 DEF ToSet
    <3>2. credits[r] # <<>>
      BY <2>4, <3>1
    <3>3. ASSUME Len(credits[r]) = 1 PROVE n >= Bound(credits[r][1].gross)
      <4>1. k = 1
        BY <2>4, <3>1, <3>3
      <4>2. credits[r][1] \in Credit
        BY <2>4, <3>3
      <4>3. PICK g \in Nat, a \in Int, f \in Nat : g = credits[r][1].gross /\ a = credits[r][1].amount /\ f = row[r].fare
        BY <2>4, <4>2 DEF Credit, Row
      <4>4. f <= g /\ a >= Share(g)
        BY <2>4, <2>5, <3>1, <3>3, <4>1, <4>3 DEF RidePriced
      <4>5. PICK x \in Nat : x = (IF f = 0 THEN g ELSE f) /\ x <= g
        BY <4>4
      <4>6. n = a - Percent(x, CardFeePct)
        BY <3>1, <4>1, <4>3, <4>5
      <4>7. Percent(x, CardFeePct) <= Percent(g, CardFeePct) /\ Percent(x, CardFeePct) \in Int
            /\ Percent(g, CardFeePct) \in Int /\ Share(g) \in Int
        BY <4>5, Amounts
      <4>8. n >= Share(g) - Percent(g, CardFeePct)
        BY <4>4, <4>6, <4>7
      <4> QED BY <4>3, <4>8 DEF Bound
    <3> QED BY <3>2, <3>3
  <2>6. JobPriced(j)
    BY <1>3, <2>0, <2>3, <2>5 DEF JobPriced
  <2> QED BY <1>4, <2>1, <2>2, <2>6
<1>10. ASSUME NEW a \in PayoutAmounts, PayoutCheck(s, a) PROVE Priced'
  <2>1. PICK j : j = [NoJob EXCEPT !.op = "payout", !.pc = "insert", !.amount = a]
    OBVIOUS
  <2>2. j.pc = "insert" /\ j.op = "payout" /\ j.method = None
    BY <2>1 DEF NoJob
  <2>3. Become(s, j)
    BY <1>10, <2>1 DEF PayoutCheck
  <2>4. JobPriced(j)
    BY <2>2, MoneyAssumption DEF JobPriced
  <2> QED BY <1>4, <2>3, <2>4
<1>11. CASE CreditFails(s)
  <2>1. ASSUME NEW pc \in {"entry", "mark"}, job[s].method \in {"cash", "card"}, Goto(s, pc)
        PROVE  Priced'
    <3>1. PICK j : j = [job[s] EXCEPT !.pc = pc]
      OBVIOUS
    <3>2. Become(s, j) /\ j.ride = job[s].ride
      BY <1>3, <2>1, <3>1 DEF Goto, Job
    <3>3. ~Plain(job[s].ride)
      BY <1>3, <1>11, <2>1, MoneyAssumption DEF CreditFails, At, JobOrdered, JobPriced
    <3> QED BY <1>4, <3>2, <3>3 DEF JobPriced
  <2> QED BY <1>2, <1>11, <2>1 DEF CreditFails, AfterCredit
<1> QED BY <1>2, <1>5, <1>6, <1>7, <1>8, <1>9, <1>10, <1>11 DEF CreateFails, PayoutInsert, QueryFails

\* A step that changes the row and the credits of ride r alone.
LEMMA PricedElsewhere ==
  ASSUME IInv, Priced, NEW r \in Rides, orphans' \subseteq orphans, UNCHANGED <<edited, cashed>>,
         \A q \in Rides \ {r} : row'[q] = row[q] /\ credits'[q] = credits[q]
  PROVE  /\ \A q \in Rides \ {r} : RidePriced(q)'
         /\ \A t \in Slots : job'[t] = job[t] /\ job[t].ride # r => JobPriced(job[t])'
         /\ \A q : Plain(q)' <=> Plain(q)
<1>1. \A q : Plain(q)' <=> Plain(q)
  BY DEF Plain
<1>2. ASSUME NEW q \in Rides \ {r} PROVE RidePriced(q)'
  BY <1>1, <1>2 DEF Priced, RidePriced, Untouched
<1>3. ASSUME NEW t \in Slots, job'[t] = job[t], job[t].ride # r PROVE JobPriced(job[t])'
  <2>1. JobPriced(job[t]) /\ (job[t].pc \notin {"idle", "insert"} => job[t].ride \in Rides)
    BY JobFacts DEF Priced, JobOK
  <2>2. CASE job[t].ride \in Rides
    BY <1>1, <1>3, <2>1, <2>2 DEF JobPriced, Untouched
  <2>3. CASE job[t].ride \notin Rides
    BY <1>1, <1>3, <2>1, <2>3 DEF JobPriced
  <2> QED BY <2>2, <2>3
<1> QED BY <1>1, <1>2, <1>3

OthersPriced(s, r) == \A t \in Slots \ {s} : job[t].ride = r => JobPriced(job[t])

\* A handler moves to j, in a step about ride r.
LEMMA PricedStep ==
  ASSUME IInv, Priced, NEW s \in Slots, NEW j \in Job, job' = [job EXCEPT ![s] = j], NEW r \in Rides,
         UNCHANGED <<orphans, edited, cashed>>,
         \A q \in Rides \ {r} : row'[q] = row[q] /\ credits'[q] = credits[q],
         Plain(r) => RidePriced(r)' /\ JobPriced(j)',
         j = NoJob \/ j.ride = r,
         Plain(r) => OthersPriced(s, r)'
  PROVE  Priced'
<1>1. job'[s] = j /\ \A t \in Slots \ {s} : job'[t] = job[t]
  BY DEF IInv, Typed
<1>2. \A q : Plain(q)' <=> Plain(q)
  BY PricedElsewhere
<1>3. RidePriced(r)'
  BY <1>2 DEF RidePriced
<1>4. JobPriced(j)'
  BY <1>2, NoJobPriced DEF JobPriced
<1>5. ASSUME NEW t \in Slots PROVE JobPriced(job[t])'
  <2>1. CASE t = s
    BY <1>1, <1>4, <2>1 DEF JobPriced, Untouched, Plain
  <2>2. CASE t # s /\ job[t].ride # r
    BY <1>1, <2>2, PricedElsewhere
  <2>3. CASE t # s /\ job[t].ride = r
    <3>1. job'[t] = job[t]
      BY <1>1, <2>3
    <3>2. Plain(r)' => JobPriced(job[t])'
      BY <1>2, <2>3, <3>1 DEF OthersPriced
    <3> QED BY <2>3, <3>1, <3>2 DEF JobPriced
  <2> QED BY <2>1, <2>2, <2>3
<1>6. \A q \in Rides : RidePriced(q)'
  BY <1>3, PricedElsewhere
<1> QED BY <1>5, <1>6 DEF Priced

\* A completion claims the ride it will save.
LEMMA PricedClaim ==
  ASSUME IInv, CreditsOrdered, Priced, NEW s \in Slots, Claim(s), job' \in [Slots -> Job]
  PROVE  Priced'
<1>1. PICK r \in Rides : r = job[s].ride
  BY JobFacts DEF Claim, At
<1>2. /\ JobPriced(job[s]) /\ RidePriced(r) /\ row \in [Rides -> Row] /\ job[s] \in Job
      /\ job[s].op = "complete" /\ job[s].pc = "claim" /\ job \in [Slots -> Job]
  BY DEF Priced, CreditsOrdered, JobOrdered, Claim, At, IInv, Typed
<1>3. UNCHANGED <<credits, orphans, edited, cashed>>
  BY DEF Claim, ledger, startup, history
<1>4. CASE row[r].status # "in_progress"
  <2>1. Finish(s) /\ UNCHANGED row
    BY <1>1, <1>4 DEF Claim
  <2> QED BY <1>3, <2>1, PricedFinish
<1>5. CASE row[r].status = "in_progress"
  <2>1. row' = [row EXCEPT ![r].status = "completed"] /\ Goto(s, "select")
    BY <1>1, <1>5 DEF Claim
  <2>2. PICK j : j = [job[s] EXCEPT !.pc = "select"]
    OBVIOUS
  <2>3. job' = [job EXCEPT ![s] = j]
    BY <2>1, <2>2 DEF Goto, Become
  <2>4. job'[s] = j /\ j \in Job
    BY <1>2, <2>3
  <2>5. /\ j.pc = "select" /\ j.op = "complete" /\ j.ride = r /\ j.ent = job[s].ent
        /\ j.method = job[s].method /\ j.gross = job[s].gross
    BY <1>1, <1>2, <2>2 DEF Job
  <2>6. /\ row'[r].status = "completed" /\ row'[r].fare = row[r].fare /\ row'[r].intent = row[r].intent
        /\ \A q \in Rides \ {r} : row'[q] = row[q]
    BY <1>2, <2>1 DEF Row
  <2>7. \A q : Plain(q)' <=> Plain(q)
    BY <1>3 DEF Plain
  <2>8. Plain(r) => RidePriced(r)'
    BY <1>2, <1>3, <2>6, <2>7 DEF RidePriced, Untouched
  <2>9. Plain(r) => Untouched(r)'
    BY <1>2, <1>3, <1>5, <2>6 DEF RidePriced, Untouched
  <2>10. Plain(r) => JobPriced(j)'
    <3>1. Plain(r) => job[s].ent.fare <= job[s].gross /\ job[s].ent.intent = None /\ job[s].method = None
      BY <1>1, <1>2 DEF JobPriced
    <3> QED BY <2>5, <2>9, <3>1, MoneyAssumption DEF JobPriced, Untouched
  <2>11. ASSUME Plain(r) PROVE OthersPriced(s, r)'
    <3>1. ASSUME NEW t \in Slots \ {s}, job'[t].ride = r PROVE JobPriced(job[t])'
      <4>1. JobPriced(job[t]) /\ job'[t] = job[t]
        BY <1>2, <2>3 DEF Priced
      <4> QED BY <1>3, <2>6, <2>9, <2>11, <3>1, <4>1 DEF JobPriced, Untouched
    <3> QED BY <3>1 DEF OthersPriced
  <2> QED BY <1>3, <2>3, <2>4, <2>5, <2>6, <2>8, <2>10, <2>11, PricedStep
<1> QED BY <1>4, <1>5

LEMMA PricedSave ==
  ASSUME IInv, CreditsOrdered, Priced, NEW s \in Slots, SaveUpdate(s), job' \in [Slots -> Job]
  PROVE  Priced'
<1>1. PICK r \in Rides : r = job[s].ride
  BY JobFacts DEF SaveUpdate, At
<1>2. /\ JobPriced(job[s]) /\ RidePriced(r) /\ row \in [Rides -> Row] /\ job[s] \in Job
      /\ JobOrdered(job[s]) /\ job[s].pc = "update" /\ job \in [Slots -> Job]
      /\ row[r] \in Row /\ job[s].ent \in Row /\ job[s].gross \in Nat
  BY JobFacts DEF Priced, CreditsOrdered, SaveUpdate, At, IInv, Typed, Job
<1>3. UNCHANGED <<credits, orphans, edited, cashed>>
  BY DEF SaveUpdate, ledger, startup, history
<1>4. row' = [row EXCEPT ![r] = Merge(row[r], job[s].ent, job[s].dirty)]
  BY <1>1 DEF SaveUpdate
<1>5. /\ row'[r] = Merge(row[r], job[s].ent, job[s].dirty)
      /\ \A q \in Rides \ {r} : row'[q] = row[q]
  BY <1>2, <1>4
<1>6. /\ row'[r].status = "completed"
      /\ row'[r].fare \in {row[r].fare, job[s].ent.fare}
      /\ row'[r].intent \in {row[r].intent, job[s].ent.intent}
  BY <1>1, <1>2, <1>5 DEF JobOrdered, Merge, Columns
<1>7. \A q : Plain(q)' <=> Plain(q)
  BY <1>3 DEF Plain
<1>8. PICK j : /\ job' = [job EXCEPT ![s] = j]
               /\ \/ j = NoJob
                  \/ j = [job[s] EXCEPT !.pc = AfterSave(job[s]), !.ent = FreshRide, !.dirty = {}]
  BY DEF SaveUpdate, Finish, Become
<1>9. job'[s] = j /\ j \in Job
  BY <1>2, <1>8
<1>10. CASE ~Plain(r)
  <2>1. j = NoJob \/ j.ride = r
    BY <1>1, <1>2, <1>8 DEF Job
  <2> QED BY <1>3, <1>5, <1>8, <1>9, <1>10, <2>1, PricedStep
<1>11. CASE Plain(r)
  <2>1. job[s].op \notin {"edit", "cash"} /\ job[s].method # "cash"
    BY <1>1, <1>2, <1>11 DEF JobPriced
  <2>2. PICK f \in Nat, g \in Nat, h \in Nat : f = row[r].fare /\ g = job[s].gross /\ h = job[s].ent.fare
    BY <1>2 DEF Row
  <2>3. CASE job[s].op = "complete"
    <3>1. Untouched(r) /\ h <= g /\ job[s].ent.intent = None
      BY <1>1, <1>2, <1>11, <2>2, <2>3 DEF JobPriced
    <3>2. f = 0 /\ row[r].intent = None
      BY <1>2, <1>11, <2>2, <3>1 DEF Untouched, RidePriced
    <3>3. row'[r].intent = None /\ row'[r].fare <= g
      BY <1>6, <2>2, <3>1, <3>2
    <3>4. RidePriced(r)'
      BY <1>3, <1>6, <3>1, <3>3 DEF RidePriced, Untouched
    <3>5. JobPriced(j)'
      <4>1. CASE j = NoJob
        BY <4>1, NoJobPriced
      <4>2. CASE j = [job[s] EXCEPT !.pc = AfterSave(job[s]), !.ent = FreshRide, !.dirty = {}]
        <5>0. AfterSave(job[s]) = "credit"
          <6>1. job[s].method = None
            BY <1>1, <1>2, <1>11, <2>3 DEF JobPriced
          <6> QED BY <2>3, <6>1, MoneyAssumption DEF AfterSave
        <5>1. /\ j.pc = AfterSave(job[s]) /\ j.op = job[s].op /\ j.ride = job[s].ride
              /\ j.gross = job[s].gross /\ j.method = job[s].method
          <6>1. job[s] \in Job
            BY <1>2
          <6> QED BY <4>2, <6>1 DEF Job
        <5> QED BY <1>1, <1>2, <1>11, <2>1, <2>2, <2>3, <3>3, <5>0, <5>1 DEF JobPriced
      <4> QED BY <1>8, <4>1, <4>2
    <3>6. ASSUME NEW t \in Slots \ {s}, job'[t].ride = r PROVE JobPriced(job[t])'
      <4>1. JobPriced(job[t]) /\ job'[t] = job[t] /\ job[t].ride = r
        BY <1>2, <1>8, <3>6 DEF Priced
      <4>2. ~Finishing(job[t], r)
        BY <1>1, <1>2, <2>3 DEF CreditsOrdered, Finishing
      <4>3. job[t].op = "complete" => job[t].pc \notin {"select", "update", "credit"}
        BY <3>6, <4>1, <4>2 DEF Finishing
      <4>4. job[t].op # "complete" => job[t].pc \notin {"select", "update", "create", "retrieve"}
        <5>1. ~(row[r].fare > 0)
          BY <2>2, <3>2
        <5> QED BY <1>11, <4>1, <5>1 DEF JobPriced
      <4>5. ~(job[t].pc = "mark" /\ job[t].amount # None)
        BY <1>11, <3>1, <3>6, <4>1 DEF JobPriced, Untouched
      <4>6. /\ job[t].op \notin {"edit", "cash"} /\ job[t].method # "cash"
            /\ job[t].op = "complete" => job[t].method = None
            /\ job[t].op = "complete" /\ job[t].pc = "claim" => job[t].ent.fare <= job[t].gross /\ job[t].ent.intent = None
        BY <1>11, <3>6, <4>1 DEF JobPriced
      <4> QED BY <3>6, <4>1, <4>3, <4>4, <4>5, <4>6 DEF JobPriced
    <3>7. j = NoJob \/ j.ride = r
      BY <1>1, <1>2, <1>8 DEF Job
    <3>8. OthersPriced(s, r)'
      BY <3>6 DEF OthersPriced
    <3> QED BY <1>3, <1>5, <1>8, <1>9, <3>4, <3>5, <3>7, <3>8, PricedStep
  <2>4. CASE job[s].op # "complete"
    <3>1. h = f /\ f > 0
      BY <1>1, <1>2, <1>11, <2>2, <2>4 DEF JobPriced
    <3>2. row'[r].fare = f
      BY <1>6, <2>2, <3>1
    <3>3. RidePriced(r)'
      BY <1>2, <1>3, <1>6, <1>11, <2>2, <3>1, <3>2 DEF RidePriced
    <3>4. JobPriced(j)'
      <4>1. CASE j = NoJob
        BY <4>1, NoJobPriced
      <4>2. CASE j = [job[s] EXCEPT !.pc = AfterSave(job[s]), !.ent = FreshRide, !.dirty = {}]
        <5>1. j.pc = AfterSave(job[s]) /\ j.op = job[s].op /\ j.method = job[s].method
          BY <1>2, <4>2 DEF Job
        <5>2. j.pc \in {"entry", "find", "idle"}
          BY <2>1, <2>4, <5>1 DEF AfterSave
        <5> QED BY <2>1, <2>4, <5>1, <5>2 DEF JobPriced
      <4> QED BY <1>8, <4>1, <4>2
    <3>5. ASSUME NEW t \in Slots \ {s}, job'[t].ride = r PROVE JobPriced(job[t])'
      <4>1. JobPriced(job[t]) /\ job'[t] = job[t]
        BY <1>2, <1>8 DEF Priced
      <4>2. ~Untouched(r)
        BY <2>2, <3>1 DEF Untouched
      <4> QED BY <1>3, <1>11, <2>2, <3>2, <3>5, <4>1, <4>2 DEF JobPriced
    <3>6. j = NoJob \/ j.ride = r
      BY <1>1, <1>2, <1>8 DEF Job
    <3>7. OthersPriced(s, r)'
      BY <3>5 DEF OthersPriced
    <3> QED BY <1>3, <1>5, <1>8, <1>9, <3>3, <3>4, <3>6, <3>7, PricedStep
  <2> QED BY <2>3, <2>4
<1> QED BY <1>10, <1>11

LEMMA SameLength ==
  ASSUME NEW T, NEW p \in Seq(T), NEW q \in Seq(T), DOMAIN p = DOMAIN q
  PROVE  Len(p) = Len(q) /\ (p = <<>> <=> q = <<>>)
<1>1. PICK n \in Nat, m \in Nat : n = Len(p) /\ m = Len(q)
  OBVIOUS
<1>2. 1 .. n = DOMAIN p /\ 1 .. m = DOMAIN q
  <2>1. DOMAIN p = 1 .. Len(p) /\ DOMAIN q = 1 .. Len(q)
    OBVIOUS
  <2> QED BY <1>1, <2>1
<1>3. 1 .. n = 1 .. m
  BY <1>2
<1>4. (n \in 1 .. n <=> n \in 1 .. m) /\ (m \in 1 .. n <=> m \in 1 .. m)
  BY <1>3
<1>5. Len(p) = Len(q)
  BY <1>1, <1>4
<1>6. (p = <<>> <=> Len(p) = 0) /\ (q = <<>> <=> Len(q) = 0)
  OBVIOUS
<1> QED BY <1>5, <1>6

\* The credits cs of a ride with this fare, and what its handlers rely on when cs
\* replaces the credits old.
CreditsPriced(cs, fare) ==
  /\ \A k \in DOMAIN cs : fare <= cs[k].gross
  /\ Len(cs) <= 1 => \A k \in DOMAIN cs :
       /\ cs[k].amount >= Bound(cs[k].gross)
       /\ cs[k].method # "card" => cs[k].amount >= Share(cs[k].gross)

Replaces(cs, old) ==
  old # <<>> => cs # <<>> /\ (Len(cs) = 1 => Len(old) = 1 /\ cs[1].gross = old[1].gross)

LEMMA NewCreditPriced ==
  ASSUME NEW cs \in Seq(Credit), NEW g \in Nat, NEW f \in Nat, CreditsPriced(cs, f), f <= g
  PROVE  CreditsPriced(cs \o NewCredit(g), f) /\ Replaces(cs \o NewCredit(g), cs)
<1>1. CASE NewCredit(g) = <<>>
  <2>1. cs \o <<>> = cs
    OBVIOUS
  <2>2. cs \o NewCredit(g) = cs
    BY <1>1, <2>1
  <2> QED BY <2>2 DEF Replaces
<1>2. CASE NewCredit(g) # <<>>
  <2>1. PICK c : c = [amount |-> Share(g), gross |-> g, method |-> "pending"]
    OBVIOUS
  <2>2. c \in Credit /\ c.amount = Share(g) /\ c.gross = g
    BY <2>1, Amounts DEF Credit, Methods
  <2>3. NewCredit(g) = <<c>>
    BY <1>2, <2>1 DEF NewCredit
  <2>4. <<c>> \in Seq(Credit) /\ Len(<<c>>) = 1 /\ <<c>>[1] = c
    BY <2>2
  <2>5. PICK ds \in Seq(Credit) : ds = cs \o <<c>>
    <3>1. <<c>> \in Seq(Credit)
      BY <2>4
    <3>2. cs \o <<c>> \in Seq(Credit)
      BY <3>1
    <3> QED BY <3>2
  <2>6. Len(ds) = Len(cs) + 1 /\ (\A k \in 1 .. Len(cs) : ds[k] = cs[k]) /\ ds[Len(cs) + 1] = c
    <3>1. Len(cs \o <<c>>) = Len(cs) + Len(<<c>>)
      BY <2>4
    <3>2. \A k \in 1 .. Len(cs) : (cs \o <<c>>)[k] = cs[k]
      BY <2>4
    <3>3. (cs \o <<c>>)[Len(cs) + 1] = <<c>>[1]
      BY <2>4
    <3> QED BY <2>5, <2>4, <3>1, <3>2, <3>3
  <2>7. DOMAIN ds = 1 .. (Len(cs) + 1) /\ DOMAIN cs = 1 .. Len(cs) /\ Len(cs) \in Nat
    <3>1. DOMAIN ds = 1 .. Len(ds) /\ DOMAIN cs = 1 .. Len(cs) /\ Len(cs) \in Nat
      OBVIOUS
    <3> QED BY <2>6, <3>1
  <2>8. \A k \in DOMAIN ds : f <= ds[k].gross
    BY <2>2, <2>6, <2>7 DEF CreditsPriced
  <2>9. ASSUME Len(ds) <= 1, NEW k \in DOMAIN ds
        PROVE  ds[k].amount >= Bound(ds[k].gross) /\ ds[k].amount >= Share(ds[k].gross)
    <3>1. ds[k] = c
      BY <2>6, <2>7, <2>9
    <3>2. Share(g) >= Bound(g) /\ Share(g) >= Share(g)
      <4>1. PICK a \in Int, p \in Int : a = Share(g) /\ p = Percent(g, CardFeePct) /\ p >= 0
        BY Amounts
      <4>2. a >= a - p /\ a >= a
        BY <4>1
      <4> QED BY <4>1, <4>2 DEF Bound
    <3> QED BY <2>2, <3>1, <3>2
  <2>10. cs # <<>> => ds # <<>> /\ Len(ds) # 1
    BY <2>6, <2>7
  <2> QED BY <2>3, <2>5, <2>8, <2>9, <2>10 DEF CreditsPriced, Replaces
<1> QED BY <1>1, <1>2

\* Ride r, whose row stays, gets the credits cs for its own.
LEMMA PricedCredits ==
  ASSUME IInv, Priced, NEW r \in Rides, NEW cs, credits' = [credits EXCEPT ![r] = cs],
         UNCHANGED <<row, edited, cashed>>, orphans' \subseteq orphans,
         row[r].status = "completed",
         Plain(r) => CreditsPriced(cs, row[r].fare) /\ Replaces(cs, credits[r])
  PROVE  /\ \A q \in Rides : RidePriced(q)'
         /\ \A t \in Slots : job'[t] = job[t] => \/ JobPriced(job[t])'
                                                 \/ /\ job[t].op = "complete" /\ job[t].ride = r /\ Untouched(r)
                                                    /\ job[t].pc \in {"select", "update"}
<1>1. credits \in [Rides -> Seq(Credit)]
  BY DEF IInv, Typed
<1>2. credits'[r] = cs /\ \A q \in Rides \ {r} : row'[q] = row[q] /\ credits'[q] = credits[q]
  BY <1>1
<1>3. RidePriced(r)'
  <2>1. ASSUME Plain(r) PROVE RidePriced(r)'
    <3>1. RidePriced(r) /\ row'[r] = row[r] /\ row'[r].status # "in_progress"
      BY DEF Priced
    <3> QED BY <1>2, <2>1, <3>1 DEF RidePriced, CreditsPriced
  <2> QED BY <2>1 DEF RidePriced, Plain
<1>4. \A q \in Rides : RidePriced(q)'
  BY <1>2, <1>3, PricedElsewhere
<1>5. ASSUME NEW t \in Slots, job'[t] = job[t], ~JobPriced(job[t])'
      PROVE  /\ job[t].op = "complete" /\ job[t].ride = r /\ Untouched(r)
             /\ job[t].pc \in {"select", "update"}
  <2>1. job[t].ride = r
    BY <1>2, <1>5, PricedElsewhere
  <2>2. JobPriced(job[t]) /\ row'[r] = row[r]
    BY DEF Priced
  <2>3. Plain(r) /\ Replaces(cs, credits[r])
    BY <1>5, <2>1 DEF JobPriced, Plain
  <2> QED BY <1>2, <1>5, <2>1, <2>2, <2>3 DEF JobPriced, Replaces
<1> QED BY <1>4, <1>5

LEMMA PricedLedger ==
  ASSUME IInv, CreditsOrdered, Priced, NEW s \in Slots, Wipe(s) \/ AddCredit(s) \/ Mark(s),
         job' \in [Slots -> Job], credits' \in [Rides -> Seq(Credit)]
  PROVE  Priced'
<1>1. PICK r \in Rides : r = job[s].ride
  BY JobFacts DEF Wipe, AddCredit, Mark, At
<1>2. /\ JobOrdered(job[s]) /\ JobPriced(job[s]) /\ RidePriced(r) /\ job[s] \in Job
      /\ credits[r] \in Seq(Credit) /\ job[s].gross \in Nat /\ row[r] \in Row /\ row[r].fare \in Nat
      /\ row[r].status \in {"in_progress", "completed"} /\ job \in [Slots -> Job]
      /\ credits \in [Rides -> Seq(Credit)]
  BY JobFacts, RowFacts DEF Priced, CreditsOrdered, IInv, Typed, Job, Row
<1>3. UNCHANGED <<row, orphans, edited, cashed>>
  BY DEF Wipe, AddCredit, Mark, startup, history
<1>4. \A q : Plain(q)' <=> Plain(q)
  BY <1>3 DEF Plain
<1>5. PICK cs \in Seq(Credit) : credits' = [credits EXCEPT ![r] = cs]
  <2>1. PICK cs : credits' = [credits EXCEPT ![r] = cs]
    BY <1>1 DEF Wipe, AddCredit, Enter, Mark, SetCredits
  <2> QED BY <1>2, <2>1
<1>6. credits'[r] = cs /\ \A q \in Rides \ {r} : row'[q] = row[q] /\ credits'[q] = credits[q]
  BY <1>2, <1>3, <1>5
<1>7. PICK j : job' = [job EXCEPT ![s] = j] /\ (j = NoJob \/ \E pc \in PCs : j = [job[s] EXCEPT !.pc = pc])
  BY DEF Wipe, AddCredit, AfterCredit, Mark, Goto, Finish, Become, PCs
<1>8. job'[s] = j /\ j \in Job /\ (j = NoJob \/ j.ride = r)
  BY <1>1, <1>2, <1>7 DEF Job
<1>9. CASE ~Plain(r)
  BY <1>3, <1>6, <1>7, <1>8, <1>9, PricedStep
<1>10. ASSUME Plain(r), CreditsPriced(cs, row[r].fare), Replaces(cs, credits[r]),
              row[r].status = "completed", JobPriced(j)',
              \A t \in Slots \ {s} : Untouched(r) /\ job[t].ride = r /\ job[t].op = "complete"
                 => job[t].pc \notin {"select", "update"}
       PROVE  Priced'
  <2>1. RidePriced(r)'
    BY <1>3, <1>5, <1>10, PricedCredits
  <2>2. OthersPriced(s, r)'
    <3>1. ASSUME NEW t \in Slots \ {s}, job'[t].ride = r PROVE JobPriced(job[t])'
      <4>1. job'[t] = job[t]
        BY <1>2, <1>7
      <4> QED BY <1>3, <1>5, <1>10, <3>1, <4>1, PricedCredits
    <3> QED BY <3>1 DEF OthersPriced
  <2> QED BY <1>3, <1>6, <1>7, <1>8, <1>10, <2>1, <2>2, PricedStep
<1>11. CASE Wipe(s) /\ Plain(r)
  BY <1>1, <1>2, <1>11 DEF JobOrdered, Wipe, At, Plain
<1>12. CASE AddCredit(s) /\ Plain(r)
  <2>1. job[s].pc = "credit" /\ job[s].op = "complete"
    BY <1>1, <1>2, <1>12 DEF JobOrdered, AddCredit, At, Plain
  <2>2. job[s].method = None /\ row[r].fare <= job[s].gross
    BY <1>1, <1>2, <1>12, <2>1 DEF JobPriced
  <2>3. Finishing(job[s], r)
    BY <1>1, <2>1 DEF Finishing
  <2>4. row[r].status = "completed" /\ \A t \in Slots \ {s} : ~Finishing(job[t], r)
    BY <2>3 DEF CreditsOrdered
  <2>5. CreditsPriced(credits[r], row[r].fare)
    BY <1>2, <1>12 DEF RidePriced, CreditsPriced
  <2>6. credits' = [credits EXCEPT ![r] = credits[r] \o NewCredit(job[s].gross)]
    BY <1>1, <1>12 DEF AddCredit, Enter, SetCredits
  <2>7. cs = credits[r] \o NewCredit(job[s].gross)
    BY <1>2, <1>6, <2>6
  <2>8. CreditsPriced(cs, row[r].fare) /\ Replaces(cs, credits[r])
    BY <1>2, <2>2, <2>5, <2>7, NewCreditPriced
  <2>9. j = NoJob
    <3>1. Finish(s)
      BY <1>12, <2>2, MoneyAssumption DEF AddCredit, AfterCredit
    <3> QED BY <1>2, <1>8, <3>1 DEF Finish, Become
  <2>10. JobPriced(j)'
    BY <2>9, NoJobPriced
  <2> QED BY <1>10, <1>12, <2>4, <2>8, <2>10 DEF Finishing
<1>13. CASE Mark(s) /\ Plain(r)
  <2>1. job[s].pc = "mark" /\ job[s].method = "card"
    <3>1. job[s].pc = "mark" /\ job[s].method \in {"cash", "card"}
      BY <1>13, JobFacts DEF Mark, At, JobOK
    <3>2. job[s].method # "cash"
      BY <1>1, <1>2, <1>13 DEF JobPriced
    <3> QED BY <3>1, <3>2
  <2>2. cs = [k \in DOMAIN credits[r] |->
               [credits[r][k] EXCEPT !.method = job[s].method,
                                     !.amount = IF job[s].amount = None THEN @ ELSE job[s].amount]]
    BY <1>1, <1>2, <1>6, <1>13 DEF Mark, SetCredits
  <2>3. Len(cs) = Len(credits[r]) /\ (cs = <<>> <=> credits[r] = <<>>) /\ DOMAIN cs = DOMAIN credits[r]
    BY <1>2, <2>2, SameLength
  <2>4. ASSUME NEW k \in DOMAIN credits[r]
        PROVE  /\ cs[k].gross = credits[r][k].gross /\ cs[k].method = "card"
               /\ cs[k].amount = IF job[s].amount = None THEN credits[r][k].amount ELSE job[s].amount
    <3>1. credits[r][k] \in Credit
      BY <1>2
    <3> QED BY <2>1, <2>2, <3>1 DEF Credit
  <2>5. \A k \in DOMAIN cs : row[r].fare <= cs[k].gross
    BY <1>2, <1>13, <2>3, <2>4 DEF RidePriced
  <2>6. ASSUME Len(cs) <= 1, NEW k \in DOMAIN cs PROVE cs[k].amount >= Bound(cs[k].gross)
    <3>1. Len(credits[r]) = 1 /\ k = 1
      <4>1. DOMAIN credits[r] = 1 .. Len(credits[r]) /\ Len(credits[r]) \in Nat
        BY <1>2
      <4>2. PICK n \in Nat : n = Len(credits[r]) /\ n = Len(cs)
        BY <2>3, <4>1
      <4>3. n <= 1 /\ k \in 1 .. n
        BY <2>3, <2>6, <4>1, <4>2
      <4>4. n = 1 /\ k = 1
        BY <4>3
      <4> QED BY <4>2, <4>4
    <3>2. CASE job[s].amount = None
      BY <1>2, <1>13, <2>3, <2>4, <2>6, <3>1, <3>2 DEF RidePriced
    <3>3. CASE job[s].amount # None
      <4>1. JobPriced(job[s]) /\ Plain(job[s].ride) /\ Len(credits[job[s].ride]) = 1
        BY <1>1, <1>2, <1>13, <3>1
      <4>2. job[s].amount >= Bound(credits[job[s].ride][1].gross)
        BY <2>1, <3>3, <4>1 DEF JobPriced
      <4> QED BY <1>1, <2>3, <2>4, <2>6, <3>1, <3>3, <4>2
    <3> QED BY <3>2, <3>3
  <2>7. CreditsPriced(cs, row[r].fare)
    BY <2>3, <2>4, <2>5, <2>6 DEF CreditsPriced
  <2>8. Replaces(cs, credits[r])
    <3>1. ASSUME Len(cs) = 1 PROVE cs[1].gross = credits[r][1].gross
      <4>1. 1 \in DOMAIN credits[r]
        BY <1>2, <2>3, <3>1
      <4> QED BY <2>4, <4>1
    <3> QED BY <2>3, <3>1 DEF Replaces
  <2>9. j = NoJob /\ Finish(s)
    BY <1>2, <1>8, <1>13 DEF Mark, Finish, Become
  <2>10. JobPriced(j)'
    BY <2>9, NoJobPriced
  <2>11. ASSUME row[r].status = "completed" PROVE Priced'
    <3>1. RidePriced(r)'
      BY <1>3, <1>5, <1>13, <2>7, <2>8, <2>11, PricedCredits
    <3>2. OthersPriced(s, r)'
      <4>1. ASSUME NEW t \in Slots \ {s}, job'[t].ride = r PROVE JobPriced(job[t])'
        <5>1. job'[t] = job[t] /\ JobPriced(job[t])
          BY <1>2, <1>7 DEF Priced
        <5>2. JobPriced(job[t])' \/ (/\ job[t].op = "complete" /\ job[t].ride = r /\ Untouched(r)
                                     /\ job[t].pc \in {"select", "update"})
          BY <1>3, <1>5, <1>13, <2>7, <2>8, <2>11, <5>1, PricedCredits
        <5>3. Untouched(r) => Untouched(r)'
          BY <1>3, <1>6, <2>3 DEF Untouched
        <5>4. ASSUME job[t].op = "complete", job[t].ride = r, Untouched(r), job[t].pc \in {"select", "update"}
              PROVE  JobPriced(job[t])'
          BY <1>4, <5>1, <5>3, <5>4 DEF JobPriced
        <5> QED BY <5>2, <5>4
      <4> QED BY <4>1 DEF OthersPriced
    <3> QED BY <1>3, <1>6, <1>7, <1>8, <2>10, <3>1, <3>2, PricedStep
  <2>12. ASSUME row[r].status = "in_progress" PROVE Priced'
    <3>1. credits[r] = <<>> /\ cs = <<>>
      BY <1>2, <1>13, <2>3, <2>12 DEF RidePriced, Untouched
    <3>2. credits' = credits
      BY <1>2, <1>5, <3>1
    <3> QED BY <1>3, <2>9, <3>2, PricedFinish
  <2> QED BY <1>2, <2>11, <2>12
<1> QED BY <1>9, <1>11, <1>12, <1>13

LEMMA PricedBackfill ==
  ASSUME IInv, CreditsOrdered, Priced, BackfillCredit, credits' \in [Rides -> Seq(Credit)]
  PROVE  Priced'
<1>1. PICK o \in orphans : /\ SetCredits(o.ride, credits[o.ride] \o NewCredit(o.gross))
                           /\ orphans' = orphans \ {o}
  BY DEF BackfillCredit, Enter
<1>2. PICK r \in Rides : r = o.ride /\ o.gross \in Nat
  BY DEF IInv, Typed
<1>3. /\ RidePriced(r) /\ credits[r] \in Seq(Credit) /\ row[r] \in Row /\ row[r].fare \in Nat
      /\ row[r].status \in {"in_progress", "completed"}
  BY RowFacts DEF Priced, IInv, Typed, Row
<1>4. UNCHANGED <<row, job, edited, cashed>> /\ orphans' \subseteq orphans
  BY <1>1 DEF BackfillCredit, history
<1>5. ~Untouched(r)
  BY <1>1, <1>2 DEF Untouched
<1>6. PICK cs : cs = credits[r] \o NewCredit(o.gross) /\ credits' = [credits EXCEPT ![r] = cs]
  BY <1>1, <1>2 DEF SetCredits
<1>7. CASE Plain(r)
  <2>1. row[r].status = "completed" /\ o.gross = row[r].fare
    BY <1>1, <1>2, <1>3, <1>5, <1>7 DEF RidePriced
  <2>2. CreditsPriced(credits[r], row[r].fare) /\ row[r].fare <= o.gross
    BY <1>3, <1>7, <2>1 DEF RidePriced, CreditsPriced
  <2>3. CreditsPriced(cs, row[r].fare) /\ Replaces(cs, credits[r])
    BY <1>2, <1>3, <1>6, <2>2, NewCreditPriced
  <2>4. \A q \in Rides : RidePriced(q)'
    BY <1>4, <1>6, <2>1, <2>3, PricedCredits
  <2>5. ASSUME NEW t \in Slots PROVE JobPriced(job[t])'
    BY <1>4, <1>5, <1>6, <2>1, <2>3, PricedCredits
  <2> QED BY <2>4, <2>5 DEF Priced
<1>8. CASE ~Plain(r)
  <2>1. \A q : Plain(q)' <=> Plain(q)
    BY <1>4 DEF Plain
  <2>2. \A q \in Rides \ {r} : row'[q] = row[q] /\ credits'[q] = credits[q]
    BY <1>4, <1>6 DEF IInv, Typed
  <2>3. RidePriced(r)'
    BY <1>8, <2>1 DEF RidePriced
  <2>4. ASSUME NEW t \in Slots PROVE JobPriced(job[t])'
    <3>1. CASE job[t].ride # r
      BY <1>4, <2>2, <3>1, PricedElsewhere
    <3>2. CASE job[t].ride = r
      BY <1>4, <1>8, <2>1, <3>2 DEF JobPriced
    <3> QED BY <3>1, <3>2
  <2>5. \A q \in Rides : RidePriced(q)'
    BY <1>4, <2>2, <2>3, PricedElsewhere
  <2> QED BY <2>4, <2>5 DEF Priced
<1> QED BY <1>7, <1>8

LEMMA PricedForgone ==
  ASSUME Priced, BackfillFails
  PROVE  Priced'
<1>1. UNCHANGED <<row, credits, job, edited, cashed>> /\ orphans' \subseteq orphans
  BY DEF BackfillFails
<1>2. \A r : (Untouched(r) => Untouched(r)') /\ (Plain(r)' <=> Plain(r))
  BY <1>1 DEF Untouched, Plain
<1>3. ASSUME NEW r \in Rides PROVE RidePriced(r)'
  BY <1>1, <1>2 DEF Priced, RidePriced
<1>4. ASSUME NEW s \in Slots PROVE JobPriced(job[s])'
  BY <1>1, <1>2 DEF Priced, JobPriced
<1> QED BY <1>3, <1>4 DEF Priced

LEMMA PricedScan ==
  ASSUME IInv, Priced, ScanOrphans
  PROVE  Priced'
<1>1. UNCHANGED <<row, credits, job, edited, cashed>>
  BY DEF ScanOrphans, history, ledger
<1>2. \A o \in orphans' : /\ o.gross = row[o.ride].fare /\ row[o.ride].fare > 0
                          /\ row[o.ride].status = "completed"
  BY DEF ScanOrphans
<1>3. \A q : Plain(q)' <=> Plain(q)
  BY <1>1 DEF Plain
<1>4. ASSUME NEW r \in Rides, Untouched(r) PROVE Untouched(r)'
  <2>1. \A o \in orphans' : o.ride # r
    BY <1>2, <1>4 DEF Untouched
  <2> QED BY <1>1, <1>4, <2>1 DEF Untouched
<1>5. ASSUME NEW r \in Rides PROVE RidePriced(r)'
  BY <1>1, <1>2, <1>3, <1>4 DEF Priced, RidePriced
<1>6. ASSUME NEW s \in Slots PROVE JobPriced(job[s])'
  <2>1. job[s].pc \in {"select", "update"} => job[s].ride \in Rides
    BY JobFacts DEF JobOK
  <2>2. JobPriced(job[s])
    BY DEF Priced
  <2> QED BY <1>1, <1>3, <1>4, <2>1, <2>2 DEF JobPriced
<1> QED BY <1>5, <1>6 DEF Priced

LEMMA PricedMethods ==
  ASSUME IInv, Priced, BackfillMethods
  PROVE  Priced'
<1>1. UNCHANGED <<row, job, orphans, edited, cashed>>
  BY DEF BackfillMethods, history
<1>2. \A q : Plain(q)' <=> Plain(q)
  BY <1>1 DEF Plain
<1>3. ASSUME NEW r \in Rides
      PROVE  /\ DOMAIN credits'[r] = DOMAIN credits[r] /\ Len(credits'[r]) = Len(credits[r])
             /\ credits'[r] = <<>> <=> credits[r] = <<>>
             /\ \A k \in DOMAIN credits[r] :
                  /\ credits'[r][k].amount = credits[r][k].amount
                  /\ credits'[r][k].gross = credits[r][k].gross
                  /\ credits[r][k].method = "card" => credits'[r][k].method = "card"
  <2>1. credits[r] \in Seq(Credit)
    BY DEF IInv, Typed
  <2>2. CASE credits'[r] = credits[r]
    BY <2>2
  <2>3. CASE credits'[r] = [k \in DOMAIN credits[r] |-> Classified(credits[r][k], r)]
    <3>1. ASSUME NEW k \in DOMAIN credits[r]
          PROVE  /\ Classified(credits[r][k], r) \in Credit
                 /\ Classified(credits[r][k], r).amount = credits[r][k].amount
                 /\ Classified(credits[r][k], r).gross = credits[r][k].gross
                 /\ credits[r][k].method = "card" => Classified(credits[r][k], r).method = "card"
      <4>1. credits[r][k] \in Credit
        BY <2>1
      <4> QED BY <4>1 DEF Classified, Credit, Methods
    <3>2. \A k \in DOMAIN credits[r] : credits'[r][k] = Classified(credits[r][k], r)
      BY <2>3
    <3>3. DOMAIN credits'[r] = DOMAIN credits[r] /\ DOMAIN credits[r] = 1 .. Len(credits[r])
          /\ Len(credits[r]) \in Nat
      BY <2>1, <2>3
    <3>4. credits'[r] \in Seq(Credit)
      BY <2>3, <3>1, <3>3
    <3>5. Len(credits'[r]) = Len(credits[r]) /\ (credits'[r] = <<>> <=> credits[r] = <<>>)
      BY <2>1, <3>3, <3>4, SameLength
    <3> QED BY <3>1, <3>2, <3>3, <3>5
  <2> QED BY <2>2, <2>3 DEF BackfillMethods
<1>4. ASSUME NEW r \in Rides PROVE RidePriced(r)'
  BY <1>1, <1>2, <1>3 DEF Priced, RidePriced, Untouched
<1>5. ASSUME NEW s \in Slots PROVE JobPriced(job[s])'
  <2>1. job[s].pc \notin {"idle", "insert"} => job[s].ride \in Rides
    BY JobFacts DEF JobOK
  <2>2. JobPriced(job[s]) /\ job'[s] = job[s]
    BY <1>1 DEF Priced
  <2>3. CASE job[s].ride \in Rides
    <3>1. PICK r \in Rides : r = job[s].ride
      BY <2>3
    <3>2. credits[r] \in Seq(Credit)
      BY DEF IInv, Typed
    <3>3. Len(credits[r]) = 1 => 1 \in DOMAIN credits[r]
      BY <3>2
    <3>4. Untouched(r) => Untouched(r)'
      BY <1>1, <1>3 DEF Untouched
    <3> QED BY <1>1, <1>2, <1>3, <2>2, <3>1, <3>3, <3>4 DEF JobPriced
  <2>4. CASE job[s].ride \notin Rides
    BY <1>1, <1>2, <2>1, <2>2, <2>4 DEF JobPriced
  <2> QED BY <2>3, <2>4
<1> QED BY <1>4, <1>5 DEF Priced

LEMMA PricedOthers ==
  ASSUME IInv, CreditsOrdered, Priced, credits' \in [Rides -> Seq(Credit)],
         Backfill \/ Stripe \/ Crash \/ UNCHANGED vars
  PROVE  Priced'
<1>1. CASE Stripe \/ UNCHANGED vars
  <2>1. UNCHANGED <<row, credits, orphans, job, edited, cashed>>
    BY <1>1 DEF Stripe, ClientPays, CardDeclined, IntentCanceled, vars, ledger, startup, history
  <2> QED BY <2>1 DEF Priced, RidePriced, JobPriced, Plain, Untouched
<1>2. CASE Crash
  <2>1. UNCHANGED <<row, credits, edited, cashed>> /\ orphans' = {} /\ \A s \in Slots : job'[s] = NoJob
    BY <1>2 DEF Crash, ledger, history
  <2>2. \A s \in Slots : JobPriced(job[s])'
    BY <2>1, NoJobPriced
  <2>3. \A r \in Rides : RidePriced(r)'
    BY <2>1 DEF Priced, RidePriced, Plain, Untouched
  <2> QED BY <2>2, <2>3 DEF Priced
<1> QED BY <1>1, <1>2, PricedScan, PricedBackfill, PricedForgone, PricedMethods DEF Backfill

LEMMA PricedInit == Init => Priced
<1> SUFFICES ASSUME Init PROVE Priced
  OBVIOUS
<1>1. ASSUME NEW s \in Slots PROVE JobPriced(job[s])
  <2>1. job[s].pc = "idle" /\ job[s].op = None /\ job[s].method = None
    BY DEF Init, NoJob
  <2> QED BY <2>1, MoneyAssumption DEF JobPriced
<1>2. ASSUME NEW r \in Rides PROVE RidePriced(r)
  <2>1. row[r].fare = 0 /\ row[r].intent = None /\ credits[r] = <<>> /\ orphans = {}
    BY DEF Init, FreshRide
  <2> QED BY <2>1 DEF RidePriced, Untouched
<1> QED BY <1>1, <1>2 DEF Priced

LEMMA PricedNext ==
  ASSUME IInv, CreditsOrdered, Priced, [Next]_vars
  PROVE  Priced'
<1>1. job' \in [Slots -> Job] /\ credits' \in [Rides -> Seq(Credit)]
  BY NextInv DEF IInv, Typed
<1>2. ASSUME NEW s \in Slots, Arrive(s) PROVE Priced'
  BY <1>1, <1>2, PricedRequests, PricedWebhooks, PricedQuiet DEF Arrive, Request
<1>3. ASSUME NEW s \in Slots, Continue(s) PROVE Priced'
  BY <1>1, <1>3, PricedClaim, PricedWebhooks, PricedQuiet, PricedSave, PricedLedger DEF Continue
<1> QED BY <1>1, <1>2, <1>3, PricedOthers DEF Next

\* markRidePaymentMethod: the credit of a ride that nobody corrects or marks cash loses
\* the card fee once, however often and in whatever order the webhooks are delivered.
THEOREM CardFeeOnce == Spec => []CardFeeTakenOnce
<1>1. Init => IInv /\ CreditsOrdered /\ Priced
  BY InitInv, OrderedInit, PricedInit
<1>2. IInv /\ CreditsOrdered /\ Priced /\ [Next]_vars => IInv' /\ CreditsOrdered' /\ Priced'
  BY NextInv, OrderedNext, PricedNext
<1>3. Priced => CardFeeTakenOnce
  BY DEF Priced, RidePriced, Plain, CardFeeTakenOnce, Bound
<1> QED BY <1>1, <1>2, <1>3, PTL DEF Spec

-----------------------------------------------------------------------------
(***************************************************************************)
(* Completed rides are credited.  A ride that has a fare, in the table or  *)
(* in an entity that may still be saved, is due: it has its credit, or the *)
(* last attempt at one entered none, or a handler or the backfill is about *)
(* to enter it, or the backfill has yet to look for it.                    *)
(***************************************************************************)
Answered(r) == credits[r] # <<>> \/ r \in forgone

Crediting(j, r) == j.ride = r /\ j.pc \in {"prior", "wipe", "credit"}

Due(r) ==
  \/ Answered(r)
  \/ \E o \in orphans : o.ride = r
  \/ \E s \in Slots : Crediting(job[s], r)

Awaited(r) == Due(r) \/ ("credits" \in booting /\ row[r].fare > 0)

Holding == {"select", "update", "create", "retrieve"}

JobOwed(j) ==
  /\ j.pc \in {"create", "retrieve"} => j.op # "edit"
  /\ j.op \in {"complete", "edit"} /\ j.pc \in {"claim", "select", "update"} => j.method = None
  /\ j.op \notin {"complete", "edit"} /\ j.pc \in Holding =>
       /\ j.ent.fare > 0 => Awaited(j.ride)
       /\ j.ent.fare = 0 /\ row[j.ride].fare > 0 => Due(j.ride)

Owed ==
  /\ "credits" \in booting => orphans = {}
  /\ \A r \in Rides : row[r].fare > 0 => row[r].status = "completed" /\ Awaited(r)
  /\ \A s \in Slots : JobOwed(job[s])

LEMMA DueKept ==
  ASSUME IInv, NEW s \in Slots, NEW j \in Job, job' = [job EXCEPT ![s] = j], NEW r \in Rides,
         orphans \subseteq orphans',
         Answered(r) \/ Crediting(job[s], r) => Answered(r)' \/ Crediting(j, r)
  PROVE  Due(r) => Due(r)'
<1>1. job'[s] = j /\ \A t \in Slots \ {s} : job'[t] = job[t]
  BY DEF IInv, Typed
<1>2. ASSUME Crediting(j, r) PROVE Due(r)'
  BY <1>1, <1>2 DEF Due, Crediting
<1>3. ASSUME NEW t \in Slots, Crediting(job[t], r) PROVE Due(r)'
  <2>1. CASE t = s
    BY <1>2, <1>3, <2>1 DEF Due
  <2>2. CASE t # s
    BY <1>1, <1>3, <2>2 DEF Due, Crediting
  <2> QED BY <2>1, <2>2
<1> QED BY <1>2, <1>3 DEF Due

\* One handler moves to j, in a step about ride r.
LEMMA OwedStep ==
  ASSUME IInv, Owed, NEW s \in Slots, NEW j \in Job, job' = [job EXCEPT ![s] = j],
         UNCHANGED startup, NEW r \in Rides,
         \A q \in Rides \ {r} : row'[q] = row[q],
         row'[r].fare > 0 => row'[r].status = "completed",
         (row'[r].fare > 0 <=> row[r].fare > 0) \/ Due(r)',
         \A q \in Rides : Due(q) => Due(q)',
         JobOwed(j)'
  PROVE  Owed'
<1>1. job'[s] = j /\ \A t \in Slots \ {s} : job'[t] = job[t]
  BY DEF IInv, Typed
<1>2. UNCHANGED <<booting, orphans>>
  BY DEF startup
<1>3. ASSUME NEW q \in Rides, Awaited(q) PROVE Awaited(q)'
  <2>1. CASE Due(q)
    BY <2>1 DEF Awaited
  <2>2. CASE "credits" \in booting /\ row[q].fare > 0
    BY <1>2, <2>2 DEF Awaited
  <2> QED BY <1>3, <2>1, <2>2 DEF Awaited
<1>4. ASSUME NEW q \in Rides, row'[q].fare > 0 PROVE row'[q].status = "completed" /\ Awaited(q)'
  <2>1. CASE row[q].fare > 0
    BY <1>3, <1>4, <2>1 DEF Owed
  <2>2. CASE ~(row[q].fare > 0)
    <3>1. q = r /\ Due(r)'
      BY <1>4, <2>2
    <3> QED BY <1>4, <3>1 DEF Awaited
  <2> QED BY <2>1, <2>2
<1>5. ASSUME NEW t \in Slots PROVE JobOwed(job[t])'
  <2>1. CASE t = s
    BY <1>1, <2>1 DEF JobOwed
  <2>2. CASE t # s
    <3>1. job'[t] = job[t] /\ JobOwed(job[t]) /\ (job[t].pc \in Holding => job[t].ride \in Rides)
      BY <1>1, <2>2, JobFacts DEF Owed, JobOK, Holding
    <3>2. CASE job[t].pc \notin Holding
      BY <3>1, <3>2 DEF JobOwed, Holding
    <3>3. CASE job[t].pc \in Holding
      <4>1. PICK q \in Rides : q = job[t].ride
        BY <3>1, <3>3
      <4>2. Awaited(q) => Awaited(q)'
        BY <1>3
      <4>3. (row[q].fare > 0 => Due(q)) /\ row'[q].fare > 0 => Due(q)'
        OBVIOUS
      <4> QED BY <3>1, <4>1, <4>2, <4>3 DEF JobOwed
    <3> QED BY <3>2, <3>3
  <2> QED BY <2>1, <2>2
<1> QED BY <1>2, <1>4, <1>5 DEF Owed

\* One handler moves to j and leaves rows and credits alone.
LEMMA OwedMove ==
  ASSUME IInv, Owed, NEW s \in Slots, NEW j \in Job, job' = [job EXCEPT ![s] = j],
         UNCHANGED <<row, credits, startup>>, forgone \subseteq forgone', JobOwed(j),
         \A q \in Rides : Crediting(job[s], q) => Crediting(j, q) \/ q \in forgone',
         j.pc \in Holding => j.ride \in Rides
  PROVE  Owed'
<1>1. \A q \in Rides : Due(q) => Due(q)'
  <2>1. ASSUME NEW q \in Rides, Answered(q) \/ Crediting(job[s], q)
        PROVE  Answered(q)' \/ Crediting(j, q)
    BY <2>1 DEF Answered
  <2> QED BY <2>1, DueKept DEF startup
<1>2. JobOwed(j)'
  BY <1>1 DEF JobOwed, Awaited, Holding, startup
<1>3. CASE Rides = {}
  <2>1. \A t \in Slots : job[t].pc \in {"idle", "insert"}
    BY <1>3, JobFacts DEF JobOK
  <2>2. job'[s] = j /\ \A t \in Slots \ {s} : job'[t] = job[t]
    BY DEF IInv, Typed
  <2>3. ASSUME NEW t \in Slots PROVE JobOwed(job[t])'
    <3>1. CASE t = s
      BY <1>2, <2>2, <3>1 DEF JobOwed
    <3>2. CASE t # s
      BY <2>1, <2>2, <3>2 DEF JobOwed, Holding
    <3> QED BY <3>1, <3>2
  <2> QED BY <1>3, <2>3 DEF Owed, startup
<1>4. CASE Rides # {}
  <2>1. PICK r \in Rides : TRUE
    BY <1>4
  <2> QED BY <1>1, <1>2, OwedStep DEF Owed
<1> QED BY <1>3, <1>4

LEMMA NoJobOwed == JobOwed(NoJob) /\ JobOwed(NoJob)' /\ \A r : ~Crediting(NoJob, r)
<1>1. NoJob.pc = "idle" /\ NoJob.op = None /\ NoJob \in Job
  BY NoJobOK DEF NoJob
<1>2. None \notin {"edit", "complete"}
  BY MoneyAssumption
<1> QED BY <1>1, <1>2 DEF JobOwed, Crediting, Holding

LEMMA OwedFinish ==
  ASSUME IInv, Owed, NEW s \in Slots, Finish(s), UNCHANGED <<row, credits, startup>>,
         forgone \subseteq forgone', \A q \in Rides : Crediting(job[s], q) => q \in forgone'
  PROVE  Owed'
<1>1. PICK j \in Job : j = NoJob
  BY NoJobOK
<1>2. JobOwed(j) /\ j.pc = "idle"
  BY <1>1, NoJobOwed DEF NoJob
<1>3. job' = [job EXCEPT ![s] = j]
  BY <1>1 DEF Finish, Become
<1> QED BY <1>2, <1>3, OwedMove DEF Holding

LEMMA OwedBegin ==
  ASSUME IInv, Owed, NEW s \in Slots, NEW op \in Ops,
         NEW pc \in {"select", "claim", "create", "retrieve"},
         NEW r \in Rides, NEW e \in Row, NEW g \in Nat, NEW m \in Methods \cup {None},
         Begin(s, op, pc, r, e, g, m),
         UNCHANGED <<row, credits, startup, forgone>>,
         \A q \in Rides : ~Crediting(job[s], q),
         op \in {"complete", "edit"} => m = None, op = "edit" => pc = "select",
         op \notin {"complete", "edit"} => e.fare = row[r].fare
  PROVE  Owed'
<1>1. PICK j : j = [NoJob EXCEPT !.op = op, !.pc = pc, !.ride = r, !.ent = e,
                                 !.gross = g, !.method = m]
  OBVIOUS
<1>2. j \in Job
  BY <1>1, NoJobOK DEF Job, PCs
<1>3. j.pc = pc /\ j.ride = r /\ j.ent = e /\ j.op = op /\ j.gross = g /\ j.method = m
  BY <1>1, NoJobOK DEF Job, NoJob
<1>4. PICK f \in Nat, n \in Nat : f = row[r].fare /\ n = e.fare
  BY RowFacts DEF Row
<1>5. f > 0 => Awaited(r)
  BY <1>4 DEF Owed
<1>6. op \notin {"complete", "edit"} => n = f
  BY <1>4
<1>7. JobOwed(j)
  BY <1>3, <1>4, <1>5, <1>6 DEF JobOwed, Holding
<1>8. job' = [job EXCEPT ![s] = j]
  BY <1>1 DEF Begin, Become
<1> QED BY <1>2, <1>3, <1>7, <1>8, OwedMove

LEMMA OwedRequests ==
  ASSUME IInv, Owed, NEW s \in Slots, NEW r \in Rides,
         Complete(s, r) \/ EditFare(s, r) \/ PayCash(s, r) \/ CreateIntent(s, r)
  PROVE  Owed'
<1>1. row[r] \in Row
  BY RowFacts
<1>2. /\ 0 \in Nat /\ None \in Methods \cup {None} /\ "cash" \in Methods \cup {None}
      /\ \A q \in Rides : ~Crediting(job[s], q)
  BY DEF Methods, Crediting, Complete, EditFare, PayCash, CreateIntent, At
<1>3. UNCHANGED <<row, credits, startup, forgone>>
  BY DEF Complete, EditFare, PayCash, CreateIntent, ledger
<1>4. CASE Complete(s, r)
  <2>1. PICK f \in Fares, a \in Absorbed :
          Begin(s, "complete", "claim", r, [row[r] EXCEPT !.status = "completed", !.fare = f], f + a, None)
    BY <1>4 DEF Complete
  <2>2. PICK g \in Nat : f \in Nat /\ g = f + a
    BY MoneyAssumption
  <2>3. PICK e : e = [row[r] EXCEPT !.status = "completed", !.fare = f]
    OBVIOUS
  <2>4. e \in Row
    BY <1>1, <2>2, <2>3 DEF Row
  <2>5. Begin(s, "complete", "claim", r, e, g, None)
    BY <2>1, <2>2, <2>3
  <2> QED BY <1>2, <1>3, <2>2, <2>4, <2>5, OwedBegin DEF Ops
<1>5. CASE EditFare(s, r)
  <2>1. PICK f \in NewFares :
          Begin(s, "edit", "select", r, [row[r] EXCEPT !.status = "completed", !.fare = f], f, None)
    BY <1>5 DEF EditFare
  <2>2. f \in Nat
    BY MoneyAssumption
  <2>3. PICK e : e = [row[r] EXCEPT !.status = "completed", !.fare = f]
    OBVIOUS
  <2>4. e \in Row
    BY <1>1, <2>2, <2>3 DEF Row
  <2> QED BY <1>2, <1>3, <2>1, <2>2, <2>3, <2>4, OwedBegin DEF Ops
<1>6. CASE PayCash(s, r)
  <2>1. PICK e : e = [row[r] EXCEPT !.pay = "paid"]
    OBVIOUS
  <2>2. e \in Row /\ e.fare = row[r].fare
    BY <1>1, <2>1 DEF Row
  <2>3. Begin(s, "cash", "select", r, e, 0, "cash")
    BY <1>6, <2>1 DEF PayCash
  <2> QED BY <1>2, <1>3, <2>2, <2>3, OwedBegin DEF Ops
<1>7. CASE CreateIntent(s, r)
  <2>1. PICK op \in {"sheet", "charge"}, pc \in {"create", "retrieve"} :
          Begin(s, op, pc, r, row[r], 0, None)
    BY <1>7 DEF CreateIntent
  <2> QED BY <1>1, <1>2, <1>3, <2>1, OwedBegin DEF Ops
<1> QED BY <1>4, <1>5, <1>6, <1>7

LEMMA OwedLookUp ==
  ASSUME IInv, Owed, NEW s \in Slots,
         NEW op \in {"succeeded", "failed", "canceled", "charge"}, NEW i \in Intents,
         LookUp(s, op, i), UNCHANGED <<row, credits, startup, forgone>>,
         \A q \in Rides : ~Crediting(job[s], q)
  PROVE  Owed'
<1>1. CASE Finish(s)
  BY <1>1, OwedFinish
<1>2. CASE ~Finish(s)
  <2>1. PICK m \in Methods \cup {None} : m = (IF op \in {"succeeded", "charge"} THEN "card" ELSE None)
    BY DEF Methods
  <2>2. PICK r \in Rides : Begin(s, op, "select", r, Outcome(op, row[r]), 0, m)
    BY <1>2, <2>1 DEF LookUp
  <2>3. row[r] \in Row
    BY RowFacts
  <2>4. PICK e : e = Outcome(op, row[r])
    OBVIOUS
  <2>5. e \in Row /\ e.fare = row[r].fare
    BY <2>3, <2>4 DEF Outcome, Row
  <2>6. op \in Ops /\ op # "complete" /\ op # "edit" /\ 0 \in Nat
    BY DEF Ops
  <2>7. Begin(s, op, "select", r, e, 0, m)
    BY <2>2, <2>4
  <2> QED BY <2>1, <2>5, <2>6, <2>7, OwedBegin
<1> QED BY <1>1, <1>2

LEMMA OwedWebhooks ==
  ASSUME IInv, Owed, NEW s \in Slots,
         Find(s) \/ \E type \in {"succeeded", "failed", "canceled"}, i \in Intents : Webhook(s, type, i)
  PROVE  Owed'
<1>1. \A q \in Rides : ~Crediting(job[s], q)
  BY DEF Crediting, Find, Webhook, At
<1>2. UNCHANGED <<row, credits, startup, forgone>>
  BY DEF Find, Webhook, ledger
<1>3. CASE Find(s)
  <2>1. job[s].intent \in Intents
    BY <1>3, JobFacts DEF Find, At, JobOK, Job
  <2>2. PICK i \in Intents : i = job[s].intent
    BY <2>1
  <2>3. LookUp(s, "charge", i)
    BY <1>3, <2>2 DEF Find
  <2> QED BY <1>1, <1>2, <2>3, OwedLookUp
<1>4. ASSUME NEW type \in {"succeeded", "failed", "canceled"}, NEW i \in Intents, Webhook(s, type, i)
      PROVE  Owed'
  <2>1. LookUp(s, type, i)
    BY <1>4 DEF Webhook
  <2> QED BY <1>1, <1>2, <2>1, OwedLookUp
<1> QED BY <1>3, <1>4

\* The steps of a handler that leave its row and credits alone.
LEMMA OwedQuiet ==
  ASSUME IInv, CreditsOrdered, Owed, NEW s \in Slots,
         \/ Retrieve(s) \/ Create(s) \/ CreateFails(s) \/ SaveSelect(s) \/ Prior(s) \/ ReadEntry(s)
         \/ PayoutInsert(s) \/ \E a \in PayoutAmounts : PayoutCheck(s, a),
         job' \in [Slots -> Job]
  PROVE  Owed'
<1>1. UNCHANGED <<row, credits, startup, forgone>>
  BY DEF Retrieve, Create, CreateFails, SaveSelect, Prior, ReadEntry, PayoutInsert, PayoutCheck, ledger
<1>2. /\ job \in [Slots -> Job] /\ job[s] \in Job /\ JobOwed(job[s]) /\ JobOrdered(job[s])
      /\ job[s].pc \notin {"idle", "insert"} => job[s].ride \in Rides
  BY JobFacts DEF IInv, Typed, Owed, CreditsOrdered, JobOK
<1>3. ASSUME NEW j, Become(s, j), JobOwed(j), \A q \in Rides : Crediting(job[s], q) => Crediting(j, q),
             j.pc \in Holding => j.ride \in Rides
      PROVE  Owed'
  <2>1. job'[s] = j /\ job' = [job EXCEPT ![s] = j]
    BY <1>2, <1>3 DEF Become
  <2>2. j \in Job
    BY <2>1
  <2> QED BY <1>1, <1>3, <2>1, <2>2, OwedMove
<1>4. CASE Finish(s) /\ ~SaveSelect(s) /\ ~Prior(s)
  <2>1. job[s].pc \notin {"select", "update", "prior", "wipe", "credit"}
    BY <1>4 DEF Retrieve, Create, CreateFails, ReadEntry, PayoutInsert, PayoutCheck, At
  <2> QED BY <1>1, <1>4, <2>1, OwedFinish DEF Crediting
<1>5. CASE Retrieve(s)
  <2>1. CASE Goto(s, "create")
    <3>1. PICK j : j = [job[s] EXCEPT !.pc = "create"]
      OBVIOUS
    <3>2. Become(s, j)
      BY <2>1, <3>1 DEF Goto
    <3>3. /\ j.pc = "create" /\ j.op = job[s].op /\ j.ride = job[s].ride /\ j.ent = job[s].ent
          /\ job[s].pc = "retrieve"
      BY <1>2, <1>5, <3>1 DEF Job, Retrieve, At
    <3>4. JobOwed(j) /\ \A q : ~Crediting(job[s], q)
      BY <1>2, <3>3 DEF JobOwed, Holding, Crediting
    <3> QED BY <1>2, <1>3, <3>2, <3>3, <3>4
  <2>2. CASE Finish(s)
    BY <1>4, <1>5, <2>2 DEF Retrieve, SaveSelect, Prior, At
  <2> QED BY <1>5, <2>1, <2>2 DEF Retrieve
<1>6. CASE Create(s)
  <2>1. PICK i \in Intents, n \in Intents \cup {None} : Become(s, [job[s] EXCEPT !.pc = "select", !.ent.intent = i, !.intent = n])
    BY <1>6 DEF Create
  <2>2. PICK j : j = [job[s] EXCEPT !.pc = "select", !.ent.intent = i, !.intent = n]
    OBVIOUS
  <2>3. job[s].ent \in Row
    BY JobFacts
  <2>4. /\ j.pc = "select" /\ j.op = job[s].op /\ j.ride = job[s].ride /\ j.ent.fare = job[s].ent.fare
    BY <1>2, <2>2, <2>3 DEF Job, Row
  <2>5. job[s].op # "complete" /\ job[s].pc = "create"
    BY <1>2, <1>6 DEF JobOrdered, Create, At
  <2>6. job[s].op # "edit"
    BY <1>2, <2>5 DEF JobOwed
  <2>7. JobOwed(j) /\ \A q : ~Crediting(job[s], q)
    BY <1>2, <2>4, <2>5, <2>6 DEF JobOwed, Holding, Crediting
  <2> QED BY <1>2, <1>3, <2>1, <2>2, <2>4, <2>5, <2>7
<1>7. CASE SaveSelect(s)
  <2>1. PICK j : j = [job[s] EXCEPT !.pc = "update", !.dirty = Differing(job[s].ent, row[job[s].ride])]
    OBVIOUS
  <2>2. /\ j.pc = "update" /\ j.op = job[s].op /\ j.ride = job[s].ride /\ j.ent = job[s].ent
        /\ j.gross = job[s].gross /\ j.method = job[s].method /\ job[s].pc = "select"
    BY <1>2, <1>7, <2>1 DEF Job, SaveSelect, At
  <2>3. JobOwed(j) /\ \A q : Crediting(job[s], q) => Crediting(j, q)
    BY <1>2, <2>2 DEF JobOwed, Holding, Crediting
  <2>4. Become(s, j)
    BY <1>7, <2>1 DEF SaveSelect
  <2> QED BY <1>2, <1>3, <2>2, <2>3, <2>4
<1>8. CASE Prior(s)
  <2>1. PICK m : Become(s, [job[s] EXCEPT !.pc = "wipe", !.method = m])
    BY <1>8 DEF Prior
  <2>2. PICK j : j = [job[s] EXCEPT !.pc = "wipe", !.method = m]
    OBVIOUS
  <2>3. /\ j.ride = job[s].ride /\ j.op = job[s].op /\ j.pc = "wipe" /\ j.gross = job[s].gross
        /\ job[s].op = "edit" /\ job[s].pc = "prior"
    BY <1>2, <1>8, <2>2 DEF Job, JobOrdered, Prior, At
  <2>4. JobOwed(j) /\ \A q : Crediting(job[s], q) => Crediting(j, q)
    BY <1>2, <2>3 DEF JobOwed, Holding, Crediting
  <2> QED BY <1>3, <2>1, <2>2, <2>3, <2>4 DEF Holding
<1>9. CASE ReadEntry(s)
  <2>1. PICK n : Become(s, [job[s] EXCEPT !.pc = "mark", !.amount = n])
    BY <1>9 DEF ReadEntry
  <2>2. PICK j : j = [job[s] EXCEPT !.pc = "mark", !.amount = n]
    OBVIOUS
  <2>3. j.pc = "mark" /\ job[s].pc = "entry"
    BY <1>2, <1>9, <2>2 DEF Job, ReadEntry, At
  <2>4. JobOwed(j) /\ \A q : ~Crediting(job[s], q)
    BY <2>3 DEF JobOwed, Holding, Crediting
  <2> QED BY <1>3, <2>1, <2>2, <2>3, <2>4 DEF Holding
<1>10. ASSUME NEW a \in PayoutAmounts, PayoutCheck(s, a) PROVE Owed'
  <2>1. PICK j : j = [NoJob EXCEPT !.op = "payout", !.pc = "insert", !.amount = a]
    OBVIOUS
  <2>2. j.pc = "insert" /\ j.op = "payout"
    BY <2>1 DEF NoJob
  <2>3. Become(s, j) /\ job[s].pc = "idle"
    BY <1>10, <2>1 DEF PayoutCheck, At
  <2>4. JobOwed(j) /\ \A q : ~Crediting(job[s], q)
    BY <2>2, <2>3 DEF JobOwed, Holding, Crediting
  <2> QED BY <1>3, <2>2, <2>3, <2>4 DEF Holding
<1>11. CASE CreateFails(s) \/ PayoutInsert(s)
  BY <1>4, <1>11 DEF CreateFails, PayoutInsert, SaveSelect, Prior, At
<1> QED BY <1>5, <1>6, <1>7, <1>8, <1>9, <1>10, <1>11

\* A completion claims a ride that has no fare yet.
LEMMA OwedClaim ==
  ASSUME IInv, CreditsOrdered, Owed, NEW s \in Slots, Claim(s), job' \in [Slots -> Job]
  PROVE  Owed'
<1>1. PICK r \in Rides : r = job[s].ride
  BY JobFacts DEF Claim, At
<1>2. /\ JobOwed(job[s]) /\ row \in [Rides -> Row] /\ job[s] \in Job
      /\ job[s].op = "complete" /\ job[s].pc = "claim" /\ job \in [Slots -> Job]
  BY DEF Owed, CreditsOrdered, JobOrdered, Claim, At, IInv, Typed
<1>3. UNCHANGED <<credits, startup, forgone>>
  BY DEF Claim, ledger
<1>4. CASE row[r].status # "in_progress"
  <2>1. Finish(s) /\ UNCHANGED row
    BY <1>1, <1>4 DEF Claim
  <2> QED BY <1>2, <1>3, <2>1, OwedFinish DEF Crediting
<1>5. CASE row[r].status = "in_progress"
  <2>1. row' = [row EXCEPT ![r].status = "completed"] /\ Goto(s, "select")
    BY <1>1, <1>5 DEF Claim
  <2>2. PICK j : j = [job[s] EXCEPT !.pc = "select"]
    OBVIOUS
  <2>3. job' = [job EXCEPT ![s] = j]
    BY <2>1, <2>2 DEF Goto, Become
  <2>4. job'[s] = j /\ j \in Job
    BY <1>2, <2>3
  <2>5. /\ j.pc = "select" /\ j.op = "complete" /\ j.ride = r /\ j.ent = job[s].ent
        /\ j.gross = job[s].gross /\ j.method = job[s].method
    BY <1>1, <1>2, <2>2 DEF Job
  <2>6. /\ row'[r].status = "completed" /\ row'[r].fare = row[r].fare
        /\ \A q \in Rides \ {r} : row'[q] = row[q]
    BY <1>2, <2>1 DEF Row
  <2>7. ~(row[r].fare > 0)
    BY <1>5 DEF Owed
  <2>8. \A q : ~Crediting(job[s], q)
    BY <1>2 DEF Crediting
  <2>9. \A q \in Rides : Due(q) => Due(q)'
    BY <1>3, <2>3, <2>4, <2>8, DueKept DEF startup, Answered
  <2>10. JobOwed(j)'
    BY <1>2, <2>5, <2>6, <2>7 DEF JobOwed
  <2> QED BY <1>3, <2>3, <2>4, <2>6, <2>9, <2>10, OwedStep
<1> QED BY <1>4, <1>5

\* A handler whose query or whose credit fails: what it was to enter is forgone.
LEMMA OwedFails ==
  ASSUME IInv, CreditsOrdered, Owed, NEW s \in Slots, CreditFails(s) \/ QueryFails(s),
         job' \in [Slots -> Job]
  PROVE  Owed'
<1>1. UNCHANGED <<row, credits, startup>> /\ forgone \subseteq forgone'
  BY DEF CreditFails, QueryFails
<1>2. job \in [Slots -> Job] /\ job[s] \in Job
  BY DEF IInv, Typed
<1>3. \A q \in Rides : Crediting(job[s], q) => q \in forgone'
  BY DEF Crediting, CreditFails, QueryFails, At
<1>4. CASE Finish(s)
  BY <1>1, <1>3, <1>4, OwedFinish
<1>5. ASSUME NEW pc \in {"entry", "mark"}, Goto(s, pc) PROVE Owed'
  <2>1. PICK j : j = [job[s] EXCEPT !.pc = pc] /\ job' = [job EXCEPT ![s] = j]
    BY <1>5 DEF Goto, Become
  <2>2. j.pc = pc /\ j \in Job
    BY <1>2, <2>1 DEF Job, PCs
  <2>3. JobOwed(j) /\ j.pc \notin Holding
    BY <2>2 DEF JobOwed, Holding
  <2> QED BY <1>1, <1>3, <2>1, <2>2, <2>3, OwedMove
<1> QED BY <1>4, <1>5 DEF CreditFails, AfterCredit, QueryFails

\* A credit that is entered is there, and hides none that was.
LEMMA Appended ==
  ASSUME NEW cs \in Seq(Credit), NEW g \in Nat
  PROVE  /\ cs # <<>> => cs \o NewCredit(g) # <<>>
         /\ NewCredit(g) # <<>> => cs \o NewCredit(g) # <<>>
<1>1. CASE NewCredit(g) = <<>>
  <2>1. cs \o <<>> = cs
    OBVIOUS
  <2> QED BY <1>1, <2>1
<1>2. CASE NewCredit(g) # <<>>
  <2>1. PICK c : c = [amount |-> Share(g), gross |-> g, method |-> "pending"]
    OBVIOUS
  <2>2. c \in Credit /\ NewCredit(g) = <<c>>
    BY <1>2, <2>1, Amounts DEF Credit, Methods, NewCredit
  <2>3. <<c>> \in Seq(Credit) /\ Len(<<c>>) = 1
    BY <2>2
  <2>4. Len(cs \o <<c>>) = Len(cs) + 1 /\ cs \o <<c>> \in Seq(Credit) /\ Len(cs) \in Nat
    BY <2>3
  <2>5. cs \o <<c>> # <<>>
    BY <2>4
  <2> QED BY <2>2, <2>5
<1> QED BY <1>1, <1>2

\* A save turns the fare of a row on or off only for a ride that is due.
LEMMA OwedSave ==
  ASSUME IInv, CreditsOrdered, Owed, NEW s \in Slots, SaveUpdate(s), job' \in [Slots -> Job]
  PROVE  Owed'
<1>1. PICK r \in Rides : r = job[s].ride
  BY JobFacts DEF SaveUpdate, At
<1>2. /\ JobOwed(job[s]) /\ row \in [Rides -> Row] /\ job[s] \in Job
      /\ JobOrdered(job[s]) /\ job[s].pc = "update" /\ job \in [Slots -> Job]
      /\ row[r] \in Row /\ job[s].ent \in Row
  BY JobFacts DEF Owed, CreditsOrdered, SaveUpdate, At, IInv, Typed, Job
<1>3. UNCHANGED <<credits, startup, forgone>>
  BY DEF SaveUpdate, ledger
<1>4. row' = [row EXCEPT ![r] = Merge(row[r], job[s].ent, job[s].dirty)]
  BY <1>1 DEF SaveUpdate
<1>5. /\ row'[r] = Merge(row[r], job[s].ent, job[s].dirty)
      /\ \A q \in Rides \ {r} : row'[q] = row[q]
  BY <1>2, <1>4
<1>6. row'[r].status = "completed" /\ row'[r].fare \in {row[r].fare, job[s].ent.fare}
  BY <1>1, <1>2, <1>5 DEF JobOrdered, Merge, Columns
<1>7. PICK f \in Nat, h \in Nat : f = row[r].fare /\ h = job[s].ent.fare
  BY <1>2 DEF Row
<1>8. PICK j : /\ job' = [job EXCEPT ![s] = j]
               /\ \/ AfterSave(job[s]) = "idle" /\ j = NoJob
                  \/ j = [job[s] EXCEPT !.pc = AfterSave(job[s]), !.ent = FreshRide, !.dirty = {}]
  BY DEF SaveUpdate, Finish, Become
<1>9. job'[s] = j /\ j \in Job
  BY <1>2, <1>8
<1>10. \A q \in Rides : Due(q) => Due(q)'
  <2>1. \A q : ~Crediting(job[s], q)
    BY <1>2 DEF Crediting
  <2> QED BY <1>3, <1>8, <1>9, <2>1, DueKept DEF startup, Answered
<1>11. CASE job[s].op \in {"complete", "edit"}
  <2>1. job[s].method = None
    BY <1>2, <1>11 DEF JobOwed
  <2>2. AfterSave(job[s]) = (IF job[s].op = "complete" THEN "credit" ELSE "prior")
    BY <1>11, <2>1, MoneyAssumption DEF AfterSave
  <2>3. j = [job[s] EXCEPT !.pc = AfterSave(job[s]), !.ent = FreshRide, !.dirty = {}]
    BY <1>8, <2>2
  <2>4. j.pc \in {"credit", "prior"} /\ j.ride = r
    BY <1>1, <1>2, <2>2, <2>3 DEF Job
  <2>5. Due(r)' /\ JobOwed(j)'
    BY <1>9, <2>4 DEF Due, Crediting, JobOwed, Holding
  <2> QED BY <1>3, <1>5, <1>6, <1>8, <1>9, <1>10, <2>5, OwedStep
<1>12. CASE job[s].op \notin {"complete", "edit"}
  <2>3. (row'[r].fare > 0 <=> row[r].fare > 0) \/ Due(r)'
    <3>1. CASE f = 0 /\ h > 0
      <4>1. Awaited(r)
        BY <1>1, <1>2, <1>7, <1>12, <3>1 DEF JobOwed, Holding
      <4>2. Due(r)
        BY <1>7, <3>1, <4>1 DEF Awaited
      <4> QED BY <1>10, <4>2
    <3>2. CASE f > 0 /\ h = 0
      <4>1. Due(r)
        BY <1>1, <1>2, <1>7, <1>12, <3>2 DEF JobOwed, Holding
      <4> QED BY <1>10, <4>1
    <3>3. CASE (f = 0 /\ h = 0) \/ (f > 0 /\ h > 0)
      BY <1>6, <1>7, <3>3
    <3> QED BY <3>1, <3>2, <3>3
  <2>4. JobOwed(j)'
    <3>1. CASE j = NoJob
      BY <3>1, NoJobOwed
    <3>2. CASE j = [job[s] EXCEPT !.pc = AfterSave(job[s]), !.ent = FreshRide, !.dirty = {}]
      <4>1. j.pc = AfterSave(job[s]) /\ j.op = job[s].op
        BY <1>2, <3>2 DEF Job
      <4>2. AfterSave(job[s]) \in {"mark", "entry", "find", "idle"}
        BY <1>12 DEF AfterSave
      <4> QED BY <1>12, <4>1, <4>2 DEF JobOwed, Holding
    <3> QED BY <1>8, <3>1, <3>2
  <2> QED BY <1>3, <1>5, <1>6, <1>8, <1>9, <1>10, <2>3, <2>4, OwedStep
<1> QED BY <1>11, <1>12

\* A handler of the wallet replaces the credits of its ride.
LEMMA OwedLedger ==
  ASSUME IInv, CreditsOrdered, Owed, NEW s \in Slots, Wipe(s) \/ AddCredit(s) \/ Mark(s),
         job' \in [Slots -> Job], credits' \in [Rides -> Seq(Credit)]
  PROVE  Owed'
<1>1. PICK r \in Rides : r = job[s].ride
  BY JobFacts DEF Wipe, AddCredit, Mark, At
<1>2. /\ JobOrdered(job[s]) /\ JobOwed(job[s]) /\ job[s] \in Job /\ job \in [Slots -> Job]
      /\ credits[r] \in Seq(Credit) /\ job[s].gross \in Nat /\ credits \in [Rides -> Seq(Credit)]
  BY JobFacts DEF Owed, CreditsOrdered, IInv, Typed, Job
<1>3. UNCHANGED <<row, startup>>
  BY DEF Wipe, AddCredit, Mark
<1>4. PICK cs \in Seq(Credit) : credits' = [credits EXCEPT ![r] = cs]
  <2>1. PICK cs : credits' = [credits EXCEPT ![r] = cs]
    BY <1>1 DEF Wipe, AddCredit, Enter, Mark, SetCredits
  <2> QED BY <1>2, <2>1
<1>5. credits'[r] = cs /\ \A q \in Rides \ {r} : credits'[q] = credits[q]
  BY <1>2, <1>4
<1>6. PICK j : job' = [job EXCEPT ![s] = j] /\ (j = NoJob \/ \E pc \in {"credit", "entry", "mark"} : j = [job[s] EXCEPT !.pc = pc])
  BY DEF Wipe, AddCredit, AfterCredit, Mark, Goto, Finish, Become
<1>7. job'[s] = j /\ j \in Job
  BY <1>2, <1>6
<1>8. ASSUME JobOwed(j), j.pc \notin Holding,
             Answered(r) \/ Crediting(job[s], r) => Answered(r)' \/ Crediting(j, r),
             \A q \in Rides \ {r} : q \in forgone => q \in forgone'
      PROVE  Owed'
  <2>1. \A q \in Rides \ {r} : ~Crediting(job[s], q)
    BY <1>1 DEF Crediting
  <2>2. ASSUME NEW q \in Rides, Due(q) PROVE Due(q)'
    <3>1. Answered(q) \/ Crediting(job[s], q) => Answered(q)' \/ Crediting(j, q)
      BY <1>5, <1>8, <2>1 DEF Answered
    <3> QED BY <1>3, <1>6, <1>7, <2>2, <3>1, DueKept DEF startup
  <2>3. JobOwed(j)'
    BY <1>8 DEF JobOwed, Holding
  <2>4. row'[r].fare > 0 => row'[r].status = "completed"
    BY <1>3 DEF Owed
  <2> QED BY <1>3, <1>6, <1>7, <2>2, <2>3, <2>4, OwedStep
<1>9. CASE Wipe(s)
  <2>1. CASE job[s].gross > 0
    <3>1. j = [job[s] EXCEPT !.pc = "credit"] /\ UNCHANGED forgone
      BY <1>2, <1>7, <1>9, <2>1 DEF Wipe, Goto, Become
    <3>2. j.pc = "credit" /\ j.ride = r
      BY <1>1, <1>2, <3>1 DEF Job
    <3>3. JobOwed(j) /\ Crediting(j, r) /\ j.pc \notin Holding
      BY <3>2 DEF JobOwed, Holding, Crediting
    <3> QED BY <1>8, <3>1, <3>3
  <2>2. CASE ~(job[s].gross > 0)
    <3>1. j = NoJob /\ forgone' = forgone \cup {r}
      BY <1>1, <1>2, <1>7, <1>9, <2>2 DEF Wipe, Finish, Become
    <3>2. JobOwed(j) /\ j.pc \notin Holding /\ Answered(r)'
      BY <3>1, NoJobOwed DEF NoJob, Holding, Answered
    <3> QED BY <1>8, <3>1, <3>2
  <2> QED BY <2>1, <2>2
<1>10. CASE AddCredit(s)
  <2>1. j.pc \in {"idle", "entry", "mark"}
    <3>1. CASE j = NoJob
      BY <3>1 DEF NoJob
    <3>2. CASE j # NoJob
      <4>1. PICK pc \in {"entry", "mark"} : Goto(s, pc)
        <5>1. ~Finish(s)
          BY <1>2, <1>7, <3>2 DEF Finish, Become
        <5> QED BY <1>10, <5>1 DEF AddCredit, AfterCredit
      <4>2. j = [job[s] EXCEPT !.pc = pc]
        BY <1>2, <1>7, <4>1 DEF Goto, Become
      <4> QED BY <1>2, <4>2 DEF Job
    <3> QED BY <3>1, <3>2
  <2>2. JobOwed(j) /\ j.pc \notin Holding
    BY <2>1 DEF JobOwed, Holding
  <2>3. PICK new : /\ new = NewCredit(job[s].gross) /\ cs = credits[r] \o new
                   /\ forgone' = IF new = <<>> THEN forgone \cup {r} ELSE forgone \ {r}
    BY <1>1, <1>2, <1>5, <1>10 DEF AddCredit, Enter, SetCredits
  <2>4. Answered(r)'
    <3>1. CASE new = <<>>
      BY <2>3, <3>1 DEF Answered
    <3>2. CASE new # <<>>
      BY <1>2, <1>5, <2>3, <3>2, Appended DEF Answered
    <3> QED BY <3>1, <3>2
  <2> QED BY <1>8, <2>2, <2>3, <2>4
<1>11. CASE Mark(s)
  <2>1. job[s].pc = "mark"
    BY <1>11 DEF Mark, At
  <2>2. j = NoJob
    BY <1>2, <1>7, <1>11 DEF Mark, Finish, Become
  <2>3. JobOwed(j) /\ j.pc \notin Holding
    BY <2>2, NoJobOwed DEF NoJob, Holding
  <2>4. ~Crediting(job[s], r)
    BY <2>1 DEF Crediting
  <2>5. DOMAIN cs = DOMAIN credits[r]
    BY <1>1, <1>2, <1>5, <1>11 DEF Mark, SetCredits
  <2>6. cs = <<>> <=> credits[r] = <<>>
    BY <1>2, <2>5, SameLength
  <2>7. Answered(r) => Answered(r)'
    BY <1>5, <1>11, <2>6 DEF Answered, Mark
  <2> QED BY <1>8, <1>11, <2>3, <2>4, <2>7 DEF Mark
<1> QED BY <1>9, <1>10, <1>11

\* The rows and handlers stay, and who was due or awaited still is.
LEMMA OwedKept ==
  ASSUME IInv, Owed, UNCHANGED <<row, job>>, "credits" \in booting' => orphans' = {},
         \A r \in Rides : (Due(r) => Due(r)') /\ (Awaited(r) => Awaited(r)')
  PROVE  Owed'
<1>1. ASSUME NEW s \in Slots PROVE JobOwed(job[s])'
  <2>1. JobOwed(job[s]) /\ job'[s] = job[s] /\ (job[s].pc \in Holding => job[s].ride \in Rides)
    BY JobFacts DEF Owed, JobOK, Holding
  <2>2. CASE job[s].pc \notin Holding
    BY <2>1, <2>2 DEF JobOwed, Holding
  <2>3. CASE job[s].pc \in Holding
    <3>1. PICK q \in Rides : q = job[s].ride
      BY <2>1, <2>3
    <3> QED BY <2>1, <3>1 DEF JobOwed
  <2> QED BY <2>2, <2>3
<1> QED BY <1>1 DEF Owed

LEMMA OwedScan ==
  ASSUME IInv, Owed, ScanOrphans
  PROVE  Owed'
<1>1. UNCHANGED <<row, credits, job, forgone>> /\ "credits" \in booting /\ "credits" \notin booting'
  BY DEF ScanOrphans, ledger
<1>2. orphans = {}
  BY <1>1 DEF Owed
<1>3. ASSUME NEW r \in Rides, Due(r) PROVE Due(r)'
  BY <1>1, <1>2, <1>3 DEF Due, Answered
<1>4. ASSUME NEW r \in Rides, row[r].fare > 0 PROVE Due(r)'
  <2>1. CASE credits[r] # <<>>
    BY <1>1, <2>1 DEF Due, Answered
  <2>2. CASE credits[r] = <<>>
    <3>1. row[r].status = "completed"
      BY <1>4 DEF Owed
    <3>2. PICK o : o = [ride |-> r, gross |-> row[r].fare]
      OBVIOUS
    <3>3. o \in orphans' /\ o.ride = r
      BY <1>4, <2>2, <3>1, <3>2 DEF ScanOrphans
    <3> QED BY <3>3 DEF Due
  <2> QED BY <2>1, <2>2
<1>5. \A r \in Rides : Awaited(r) => Awaited(r)'
  BY <1>3, <1>4 DEF Awaited
<1> QED BY <1>1, <1>3, <1>5, OwedKept

LEMMA OwedBackfill ==
  ASSUME IInv, Owed, BackfillCredit
  PROVE  Owed'
<1>1. PICK o \in orphans : /\ Enter(o.ride, NewCredit(o.gross))
                           /\ orphans' = orphans \ {o}
  BY DEF BackfillCredit
<1>2. PICK r \in Rides, g \in Nat : r = o.ride /\ g = o.gross
  BY DEF IInv, Typed
<1>3. UNCHANGED <<row, job, booting>>
  BY DEF BackfillCredit
<1>4. credits \in [Rides -> Seq(Credit)] /\ credits[r] \in Seq(Credit)
  BY DEF IInv, Typed
<1>5. PICK new, cs : /\ new = NewCredit(g) /\ cs = credits[r] \o new
                     /\ credits' = [credits EXCEPT ![r] = cs]
                     /\ forgone' = IF new = <<>> THEN forgone \cup {r} ELSE forgone \ {r}
  BY <1>1, <1>2 DEF Enter, SetCredits
<1>6. credits'[r] = cs /\ \A q \in Rides \ {r} : credits'[q] = credits[q]
  BY <1>4, <1>5
<1>7. Answered(r)' /\ \A q \in Rides : Answered(q) => Answered(q)'
  <2>1. CASE new = <<>>
    BY <1>4, <1>5, <1>6, <2>1, Appended DEF Answered
  <2>2. CASE new # <<>>
    BY <1>4, <1>5, <1>6, <2>2, Appended DEF Answered
  <2> QED BY <2>1, <2>2
<1>8. ASSUME NEW q \in Rides, Due(q) PROVE Due(q)'
  <2>1. CASE Answered(q)
    BY <1>7, <2>1 DEF Due
  <2>2. ASSUME NEW p \in orphans, p.ride = q PROVE Due(q)'
    <3>1. CASE p = o
      BY <1>2, <1>7, <2>2, <3>1 DEF Due
    <3>2. CASE p # o
      BY <1>1, <2>2, <3>2 DEF Due
    <3> QED BY <3>1, <3>2
  <2>3. ASSUME NEW s \in Slots, Crediting(job[s], q) PROVE Due(q)'
    BY <1>3, <2>3 DEF Due
  <2> QED BY <1>8, <2>1, <2>2, <2>3 DEF Due
<1>9. "credits" \in booting' => orphans' = {}
  BY <1>1, <1>3 DEF Owed
<1>10. \A q \in Rides : Awaited(q) => Awaited(q)'
  BY <1>3, <1>8 DEF Awaited
<1> QED BY <1>3, <1>8, <1>9, <1>10, OwedKept

LEMMA OwedForgone ==
  ASSUME IInv, Owed, BackfillFails
  PROVE  Owed'
<1>1. PICK o \in orphans : orphans' = orphans \ {o} /\ forgone' = forgone \cup {o.ride}
  BY DEF BackfillFails
<1>2. UNCHANGED <<row, credits, job, booting>>
  BY DEF BackfillFails
<1>3. ASSUME NEW q \in Rides, Due(q) PROVE Due(q)'
  BY <1>1, <1>2, <1>3 DEF Due, Answered
<1>4. \A q \in Rides : Awaited(q) => Awaited(q)'
  BY <1>2, <1>3 DEF Awaited
<1>5. "credits" \in booting' => orphans' = {}
  BY <1>1, <1>2 DEF Owed
<1> QED BY <1>2, <1>3, <1>4, <1>5, OwedKept

LEMMA OwedMethods ==
  ASSUME IInv, Owed, BackfillMethods
  PROVE  Owed'
<1>1. UNCHANGED <<row, job, orphans, forgone>> /\ booting' = booting \ {"methods"}
  BY DEF BackfillMethods
<1>2. ASSUME NEW r \in Rides PROVE credits[r] # <<>> => credits'[r] # <<>>
  <2>1. credits[r] \in Seq(Credit)
    BY DEF IInv, Typed
  <2>2. DOMAIN credits'[r] = DOMAIN credits[r]
    BY DEF BackfillMethods
  <2>3. ASSUME credits'[r] = <<>> PROVE credits[r] = <<>>
    <3>1. <<>> \in Seq(Credit) /\ DOMAIN credits[r] = DOMAIN <<>>
      BY <2>2, <2>3
    <3> QED BY <2>1, <3>1, SameLength
  <2> QED BY <2>3
<1>3. ASSUME NEW r \in Rides, Due(r) PROVE Due(r)'
  BY <1>1, <1>2, <1>3 DEF Due, Answered
<1>4. "credits" \in booting' <=> "credits" \in booting
  BY <1>1
<1>5. \A r \in Rides : Awaited(r) => Awaited(r)'
  BY <1>1, <1>3, <1>4 DEF Awaited
<1>6. "credits" \in booting' => orphans' = {}
  BY <1>1, <1>4 DEF Owed
<1> QED BY <1>1, <1>3, <1>5, <1>6, OwedKept

LEMMA OwedOthers ==
  ASSUME IInv, CreditsOrdered, Owed, Backfill \/ Stripe \/ Crash \/ UNCHANGED vars
  PROVE  Owed'
<1>1. CASE Stripe \/ UNCHANGED vars
  <2>1. UNCHANGED <<row, credits, startup, job, forgone>>
    BY <1>1 DEF Stripe, ClientPays, CardDeclined, IntentCanceled, vars, ledger
  <2> QED BY <2>1 DEF Owed, JobOwed, Awaited, Due, Answered, startup
<1>2. CASE Crash
  <2>1. /\ UNCHANGED <<row, credits>> /\ orphans' = {} /\ "credits" \in booting'
        /\ \A s \in Slots : job'[s] = NoJob
    BY <1>2 DEF Crash, ledger
  <2>2. \A s \in Slots : JobOwed(job[s])'
    BY <2>1, NoJobOwed DEF JobOwed, Holding, NoJob
  <2> QED BY <2>1, <2>2 DEF Owed, Awaited
<1> QED BY <1>1, <1>2, OwedScan, OwedBackfill, OwedForgone, OwedMethods DEF Backfill

LEMMA OwedInit == Init => Owed
<1> SUFFICES ASSUME Init PROVE Owed
  OBVIOUS
<1>1. \A s \in Slots : job[s] = NoJob
  BY DEF Init
<1>2. \A s \in Slots : JobOwed(job[s])
  BY <1>1, NoJobOwed
<1>3. \A r \in Rides : row[r].fare = 0
  BY DEF Init, FreshRide
<1>4. orphans = {}
  BY DEF Init
<1> QED BY <1>2, <1>3, <1>4 DEF Owed

LEMMA OwedNext ==
  ASSUME IInv, CreditsOrdered, Owed, [Next]_vars
  PROVE  Owed'
<1>1. job' \in [Slots -> Job] /\ credits' \in [Rides -> Seq(Credit)]
  BY NextInv DEF IInv, Typed
<1>2. ASSUME NEW s \in Slots, Arrive(s) PROVE Owed'
  BY <1>1, <1>2, OwedRequests, OwedWebhooks, OwedQuiet DEF Arrive, Request
<1>3. ASSUME NEW s \in Slots, Continue(s) PROVE Owed'
  BY <1>1, <1>3, OwedClaim, OwedWebhooks, OwedQuiet, OwedSave, OwedLedger, OwedFails
     DEF Continue
<1> QED BY <1>2, <1>3, OwedOthers DEF Next

\* completeRide, replaceCreditForRide, backfillMissingCredits: for any fares, corrections and
\* shares, wherever the process dies and whatever stale entities are saved, a completed ride
\* with a fare is left without a credit only if the last attempt at one failed or had nothing
\* to enter.
THEOREM RidesAreCredited == Spec => []CompletedRidesAreCredited
<1>1. Init => IInv /\ CreditsOrdered /\ Owed
  BY InitInv, OrderedInit, OwedInit
<1>2. IInv /\ CreditsOrdered /\ Owed /\ [Next]_vars => IInv' /\ CreditsOrdered' /\ Owed'
  BY NextInv, OrderedNext, OwedNext
<1>3. Owed => CompletedRidesAreCredited
  BY DEF Owed, Awaited, Due, Answered, Crediting, CompletedRidesAreCredited, At
<1> QED BY <1>1, <1>2, <1>3, PTL DEF Spec
=============================================================================
