----------------------------- MODULE Settlement -----------------------------
(***************************************************************************)
(* How a ride is paid for: the credits and payouts of one driver in the    *)
(* table driver_ledger (wallet/wallet.service.ts), the Stripe intents of   *)
(* the client (payments/payments.service.ts) and the handlers of           *)
(* rides/rides.service.ts that complete a ride, correct its fare and       *)
(* confirm cash.                                                           *)
(*                                                                         *)
(* As in RideLifecycle a handler is a job that moves from await to await,  *)
(* and saves an entity it loaded earlier by a SELECT and an UPDATE of the  *)
(* columns that differ.  A ride enters this module when it is in progress  *)
(* and, once completed, is not started again.                              *)
(***************************************************************************)
EXTENDS Integers, Sequences, SequencesExt

CONSTANTS
  Rides,          \* rides in progress of the driver
  Intents,        \* ids of the payment intents Stripe may create
  Slots,          \* handlers that may be in progress at once
  None,           \* SQL NULL
  Fares,          \* what the passenger of a completed ride owes, in cents; 0 is also "not known"
  Absorbed,       \* discounts the platform pays to the driver, in cents
  NewFares,       \* fares a driver may enter as a correction; 0 is one
  PayoutAmounts,  \* amounts the administrator may pay out
  Solo,           \* the driver drives for no company
  Pct,            \* commission of the platform on a solo driver, or the driver's share
  CardFeePct,     \* the card fee in force
  MaxBegun,       \* bound: how many handlers are begun
  MaxFailures,    \* bound: how many queries fail
  MaxCrashes      \* bound: how often the API process dies

ASSUME MoneyAssumption ==
  /\ IsFiniteSet(Rides)
  /\ Fares \cup Absorbed \cup NewFares \subseteq Nat
  /\ PayoutAmounts \subseteq Nat \ {0}
  /\ Solo \in BOOLEAN
  /\ Pct \in 0 .. 100 /\ CardFeePct \in 0 .. 100
  /\ MaxBegun \in Nat /\ MaxFailures \in Nat /\ MaxCrashes \in Nat
  /\ None \notin Rides \cup Intents \cup Slots \cup Int \cup {"cash", "card", "complete", "edit"}

VARIABLES
  row,            \* the rides table
  intent,         \* what Stripe knows
  credits,        \* driver_ledger: the credits of each ride, oldest first
  payouts,        \* driver_ledger: the sum of the payouts
  lock,           \* who holds the lock on the driver's row
  job,            \* the handlers in progress
  booting,        \* the backfills that the last start still has to run
  orphans,        \* the rides without a credit that the backfill has found
  crashes,        \* how often the process died
  begun,          \* how many handlers were begun
  edited,         \* history: rides whose fare was corrected
  cashed,         \* history: rides whose driver confirmed cash
  failures,       \* how many queries failed
  forgone,        \* history: rides whose last attempt to enter a credit entered none
  peak            \* history: the most that card rides ever had in the wallet

ledger  == <<credits, payouts, peak, forgone>>
startup == <<booting, orphans, crashes>>
history == <<begun, edited, cashed, failures>>
vars    == <<row, intent, ledger, lock, job, startup, history>>
-----------------------------------------------------------------------------
(***************************************************************************)
(* Records.                                                                *)
(***************************************************************************)
Row     == [status : {"in_progress", "completed"}, fare : Nat,
            pay : {"pending", "paid", "failed"}, intent : Intents \cup {None}]
Columns == {"status", "fare", "pay", "intent"}

FreshRide == [status |-> "in_progress", fare |-> 0, pay |-> "pending", intent |-> None]

\* "failed": Stripe has sent payment_failed, of which there may be a copy under
\* way for ever.  That of succeeded and of canceled follows from the state.
Intent   == [ride : Rides \cup {None}, state : {"none", "open", "succeeded", "canceled"},
             failed : BOOLEAN]
NoIntent == [ride |-> None, state |-> "none", failed |-> FALSE]

Methods == {"pending", "cash", "card"}
Credit  == [amount : Int, gross : Nat, method : Methods]

Ops == {"complete", "edit", "cash", "sheet", "charge", "succeeded", "failed", "canceled",
        "payout"}
PCs == {"idle", "claim", "select", "update", "prior", "wipe", "credit", "entry", "mark",
        "retrieve", "create", "find", "insert"}

Job == [op     : Ops \cup {None},
        pc     : PCs,
        ride   : Rides \cup {None},
        intent : Intents \cup {None},
        ent    : Row,
        dirty  : SUBSET Columns,
        gross  : Nat,                  \* the full price to credit
        method : Methods \cup {None},  \* the payment method to write
        amount : Int \cup {None}]      \* the amount to write, if it changes

NoJob == [op |-> None, pc |-> "idle", ride |-> None, intent |-> None, ent |-> FreshRide,
          dirty |-> {}, gross |-> 0, method |-> None, amount |-> None]

At(s, pc)    == job[s].pc = pc
Become(s, j) == job' = [job EXCEPT ![s] = j]
Goto(s, pc)  == Become(s, [job[s] EXCEPT !.pc = pc])
Finish(s)    == Become(s, NoJob)

\* A handler has loaded the ride and changed the entity to e.
Begin(s, op, pc, r, e, gross, method) ==
  Become(s, [NoJob EXCEPT !.op = op, !.pc = pc, !.ride = r, !.ent = e,
                          !.gross = gross, !.method = method])

(***************************************************************************)
(* Money, in cents.                                                        *)
(***************************************************************************)
Percent(x, p) == (x * p + 50) \div 100      \* Math.round(x * p) / 100, in euros

\* driverShareOfRide, before the card fee.
Share(gross) == IF Solo THEN gross - Percent(gross, Pct) ELSE Percent(gross, Pct)

\* Mutant of NewCredit: the entry is left without a payment method.
NewCreditUnmarked(gross) ==
  IF Share(gross) > 0 THEN <<[amount |-> Share(gross), gross |-> gross, method |-> None]>> ELSE <<>>

\* creditRide: nothing is entered for a share of nothing.
NewCredit(gross) ==
  IF Share(gross) > 0
  THEN <<[amount |-> Share(gross), gross |-> gross, method |-> "pending"]>>
  ELSE <<>>

Greater(a, b) == IF a > b THEN a ELSE b

\* The sum of one ride's card credits, and of all rides: settledCredits.
CardAmount(c) == IF c.method = "card" THEN c.amount ELSE 0
Settled(cs) ==
  LET RideTotal(r) == FoldSeq(LAMBDA c, n : CardAmount(c) + n, 0, cs[r])
  IN  MapThenFoldSet(+, 0, RideTotal, LAMBDA S : CHOOSE r \in S : TRUE, Rides)

Payable == Greater(0, Settled(credits) - payouts)

\* What becomes of the ledger when the credits of ride r become cs.
SetCredits(r, cs) ==
  /\ credits' = [credits EXCEPT ![r] = cs]
  /\ peak' = Greater(peak, Settled(credits'))
  /\ UNCHANGED payouts
-----------------------------------------------------------------------------
(***************************************************************************)
(* completeRide claims the status, works out the fare and the discount,    *)
(* saves the entity and credits the driver with the full price.            *)
(***************************************************************************)
Complete(s, r) ==
  /\ At(s, "idle")
  /\ row[r].status = "in_progress"
  /\ \E f \in Fares, a \in Absorbed :
       Begin(s, "complete", "claim", r,
             [row[r] EXCEPT !.status = "completed", !.fare = f], f + a, None)
  /\ UNCHANGED <<row, intent, ledger, lock, startup, edited, cashed, failures>>

\* Mutant of Claim: the status checked before the claim is the only one that counts.
ClaimTwice(s) ==
  /\ At(s, "claim")
  /\ row' = [row EXCEPT ![job[s].ride].status = "completed"]
  /\ Goto(s, "select")
  /\ UNCHANGED <<intent, ledger, lock, startup, history>>

Claim(s) ==
  LET r == job[s].ride IN
  /\ At(s, "claim")
  /\ IF row[r].status = "in_progress"
     THEN /\ row' = [row EXCEPT ![r].status = "completed"]
          /\ Goto(s, "select")
     ELSE /\ Finish(s)
          /\ UNCHANGED row
  /\ UNCHANGED <<intent, ledger, lock, startup, history>>

(***************************************************************************)
(* editRideFare: the fare is locked once the ride is paid for or a card    *)
(* payment has begun.                                                      *)
(***************************************************************************)
EditFare(s, r) ==
  /\ At(s, "idle")
  /\ row[r].pay # "paid" /\ row[r].intent = None
  /\ \E f \in NewFares :
       Begin(s, "edit", "select", r,
             [row[r] EXCEPT !.status = "completed", !.fare = f], f, None)
  /\ edited' = edited \cup {r}
  /\ UNCHANGED <<row, intent, ledger, lock, startup, cashed, failures>>

\* confirmCashPayment: not for a ride the client is paying for by card.
PayCash(s, r) ==
  /\ At(s, "idle")
  /\ row[r].status = "completed" /\ row[r].pay # "paid" /\ row[r].intent = None
  /\ Begin(s, "cash", "select", r, [row[r] EXCEPT !.pay = "paid"], 0, "cash")
  /\ cashed' = cashed \cup {r}
  /\ UNCHANGED <<row, intent, ledger, lock, startup, edited, failures>>

(***************************************************************************)
(* createPaymentIntent, for the payment sheet or with a saved card.  An    *)
(* intent the ride has already is used again as long as it is open.        *)
(***************************************************************************)
CreateIntent(s, r) ==
  /\ At(s, "idle")
  /\ row[r].status = "completed" /\ row[r].pay # "paid" /\ row[r].fare > 0
  /\ \E op \in {"sheet", "charge"} :
       Begin(s, op, IF row[r].intent = None THEN "create" ELSE "retrieve", r, row[r], 0, None)
  /\ UNCHANGED <<row, intent, ledger, lock, startup, edited, cashed, failures>>

\* An error of Stripe counts like an intent that is over.
Retrieve(s) ==
  /\ At(s, "retrieve")
  /\ \/ /\ intent[job[s].ent.intent].state = "open"
        /\ Finish(s)
     \/ Goto(s, "create")
  /\ UNCHANGED <<row, intent, ledger, lock, startup, history>>

\* A saved card is charged at once, or has to be confirmed by the client.
Create(s) ==
  LET j == job[s] IN
  /\ At(s, "create")
  /\ \E i \in Intents, state \in {"open"} \cup (IF j.op = "charge" THEN {"succeeded"} ELSE {}) :
       /\ intent[i].state = "none"
       /\ intent' = [intent EXCEPT ![i] = [ride |-> j.ride, state |-> state, failed |-> FALSE]]
       /\ Become(s, [j EXCEPT !.pc = "select", !.ent.intent = i,
                              !.intent = IF state = "succeeded" THEN i ELSE None])
  /\ UNCHANGED <<row, ledger, lock, startup, history>>

\* Stripe refuses the card or cannot be reached: the handler throws.
CreateFails(s) ==
  /\ At(s, "create")
  /\ Finish(s)
  /\ UNCHANGED <<row, intent, ledger, lock, startup, history>>
-----------------------------------------------------------------------------
(***************************************************************************)
(* Stripe sends every event at least once and in any order.                *)
(***************************************************************************)
Sent(type, i) == IF type = "failed" THEN intent[i].failed ELSE intent[i].state = type

\* onSucceeded, onFailed and onCanceled: find the ride that names the intent.  The
\* handler of a charge that succeeded at once goes on like onSucceeded.
Outcome(op, e) ==
  CASE op = "failed"   -> [e EXCEPT !.pay = "failed"]
    [] op = "canceled" -> [e EXCEPT !.intent = None]
    [] OTHER           -> [e EXCEPT !.pay = "paid"]

LookUp(s, op, i) ==
  LET found == {r \in Rides : /\ row[r].intent = i
                              /\ op = "canceled" => row[r].pay # "paid"}
      method == IF op \in {"succeeded", "charge"} THEN "card" ELSE None
  IN  IF found = {}
      THEN Finish(s)
      ELSE \E r \in found :
             Begin(s, op, "select", r, Outcome(op, row[r]), 0, method)

Webhook(s, type, i) ==
  /\ At(s, "idle")
  /\ Sent(type, i)
  /\ LookUp(s, type, i)
  /\ UNCHANGED <<row, intent, ledger, lock, startup, edited, cashed, failures>>

Find(s) ==
  /\ At(s, "find")
  /\ LookUp(s, "charge", job[s].intent)
  /\ UNCHANGED <<row, intent, ledger, lock, startup, history>>

(***************************************************************************)
(* Repository.save, and what the handler goes on with.                     *)
(***************************************************************************)
Differing(e, cur) == {c \in Columns : e[c] # cur[c]}
Merge(cur, e, cols) == [c \in Columns |-> IF c \in cols THEN e[c] ELSE cur[c]]

SaveSelect(s) ==
  LET j == job[s] IN
  /\ At(s, "select")
  /\ Become(s, [j EXCEPT !.pc = "update", !.dirty = Differing(j.ent, row[j.ride])])
  /\ UNCHANGED <<row, intent, ledger, lock, startup, history>>

\* A charge that has succeeded goes on like the webhook that reports it.
AfterSave(j) ==
  CASE j.op = "complete"               -> "credit"
    [] j.op = "edit"                   -> "prior"
    [] j.method = "cash"               -> "mark"
    [] j.method = "card"               -> "entry"
    [] j.op = "charge" /\ j.intent # None -> "find"
    [] OTHER                           -> "idle"

SaveUpdate(s) ==
  LET j == job[s]
      next == AfterSave(j)
  IN
  /\ At(s, "update")
  /\ row' = [row EXCEPT ![j.ride] = Merge(@, j.ent, j.dirty)]
  /\ IF next = "idle"
     THEN Finish(s)
     ELSE Become(s, [j EXCEPT !.pc = next, !.ent = FreshRide, !.dirty = {}])
  /\ UNCHANGED <<intent, ledger, lock, startup, history>>
-----------------------------------------------------------------------------
(***************************************************************************)
(* WalletService: replaceCreditForRide, creditRide, markRidePaymentMethod. *)
(***************************************************************************)
\* The method of a credit the ride has, if any.
Prior(s) ==
  LET j == job[s] IN
  /\ At(s, "prior")
  /\ \E m \in IF credits[j.ride] = <<>> THEN {None}
              ELSE {c.method : c \in ToSet(credits[j.ride])} :
       Become(s, [j EXCEPT !.pc = "wipe", !.method = m])
  /\ UNCHANGED <<row, intent, ledger, lock, startup, history>>

Wipe(s) ==
  LET j == job[s] IN
  /\ At(s, "wipe")
  /\ SetCredits(j.ride, <<>>)
  /\ IF j.gross > 0
     THEN Goto(s, "credit") /\ UNCHANGED forgone
     ELSE Finish(s) /\ forgone' = forgone \cup {j.ride}
  /\ UNCHANGED <<row, intent, lock, startup, history>>

\* One entry more for ride r.
Enter(r, new) ==
  /\ SetCredits(r, credits[r] \o new)
  /\ forgone' = IF new = <<>> THEN forgone \cup {r} ELSE forgone \ {r}

\* What replaceCreditForRide does once creditRide has returned.
AfterCredit(s) ==
  CASE job[s].method = "card" -> Goto(s, "entry")
    [] job[s].method = "cash" -> Goto(s, "mark")
    [] OTHER                  -> Finish(s)

AddCredit(s) ==
  /\ At(s, "credit")
  /\ Enter(job[s].ride, NewCredit(job[s].gross))
  /\ AfterCredit(s)
  /\ UNCHANGED <<row, intent, lock, startup, history>>

\* creditRide catches whatever its queries throw, and its caller goes on.
CreditFails(s) ==
  /\ At(s, "credit")
  /\ failures < MaxFailures
  /\ failures' = failures + 1
  /\ forgone' = forgone \cup {job[s].ride}
  /\ AfterCredit(s)
  /\ UNCHANGED <<row, intent, credits, payouts, peak, lock, startup, begun, edited, cashed>>

\* Mutant of ReadEntry: does not ask whether the credit is marked card.
ReadEntryAgain(s) ==
  LET j == job[s]
      Charged(c) == IF row[j.ride].fare = 0 THEN c.gross ELSE row[j.ride].fare
      Net(c) == IF Solo /\ CardFeePct > 0
                THEN c.amount - Percent(Charged(c), CardFeePct) ELSE None
  IN
  /\ At(s, "entry")
  /\ \E n \in IF credits[j.ride] = <<>> THEN {None} ELSE {Net(c) : c \in ToSet(credits[j.ride])} :
       Become(s, [j EXCEPT !.pc = "mark", !.amount = n])
  /\ UNCHANGED <<row, intent, ledger, lock, startup, history>>

\* The card fee comes off the credit of a solo driver, unless it is marked card
\* already.  Reading the credit and the fare of the ride is one step.
ReadEntry(s) ==
  LET j == job[s]
      Charged(c) == IF row[j.ride].fare = 0 THEN c.gross ELSE row[j.ride].fare
      Net(c) == IF Solo /\ CardFeePct > 0 /\ c.method # "card"
                THEN c.amount - Percent(Charged(c), CardFeePct) ELSE None
  IN
  /\ At(s, "entry")
  /\ \E n \in IF credits[j.ride] = <<>> THEN {None} ELSE {Net(c) : c \in ToSet(credits[j.ride])} :
       Become(s, [j EXCEPT !.pc = "mark", !.amount = n])
  /\ UNCHANGED <<row, intent, ledger, lock, startup, history>>

\* One UPDATE of every credit of the ride.
Mark(s) ==
  LET j == job[s]
      Marked(c) == [c EXCEPT !.method = j.method,
                             !.amount = IF j.amount = None THEN @ ELSE j.amount]
  IN
  /\ At(s, "mark")
  /\ SetCredits(j.ride, [k \in DOMAIN credits[j.ride] |-> Marked(credits[j.ride][k])])
  /\ Finish(s)
  /\ UNCHANGED <<row, intent, forgone, lock, startup, history>>

(***************************************************************************)
(* createPayout: a transaction that locks the driver, compares the amount  *)
(* with the payable balance and inserts the payout.                        *)
(***************************************************************************)
\* Mutant of PayoutCheck: the driver's row is not locked.
PayoutCheckUnlocked(s, a) ==
  /\ At(s, "idle")
  /\ a <= Payable
  /\ Become(s, [NoJob EXCEPT !.op = "payout", !.pc = "insert", !.amount = a])
  /\ UNCHANGED <<row, intent, ledger, lock, startup, edited, cashed, failures>>

PayoutCheck(s, a) ==
  /\ At(s, "idle")
  /\ lock = None
  /\ a <= Payable
  /\ lock' = s
  /\ Become(s, [NoJob EXCEPT !.op = "payout", !.pc = "insert", !.amount = a])
  /\ UNCHANGED <<row, intent, ledger, startup, edited, cashed, failures>>

PayoutInsert(s) ==
  /\ At(s, "insert")
  /\ payouts' = payouts + job[s].amount
  /\ lock' = None
  /\ Finish(s)
  /\ UNCHANGED <<row, intent, credits, peak, forgone, startup, history>>

\* Any other query may fail as well: a handler throws, a transaction is rolled back, and
\* what the wallet does beside a handler ends in its catch.
QueryFails(s) ==
  LET j == job[s] IN
  /\ j.pc \in {"claim", "select", "update", "find", "prior", "wipe", "entry", "mark", "insert"}
  /\ failures < MaxFailures
  /\ failures' = failures + 1
  /\ lock' = IF j.pc = "insert" THEN None ELSE lock
  /\ forgone' = IF j.pc \in {"prior", "wipe"} THEN forgone \cup {j.ride} ELSE forgone
  /\ Finish(s)
  /\ UNCHANGED <<row, intent, credits, payouts, peak, startup, begun, edited, cashed>>
-----------------------------------------------------------------------------
(***************************************************************************)
(* What the client does with an open intent, and what Stripe makes of it.  *)
(***************************************************************************)
ClientPays(i) ==
  /\ intent[i].state = "open"
  /\ intent' = [intent EXCEPT ![i].state = "succeeded"]
  /\ UNCHANGED <<row, ledger, lock, job, startup, history>>

CardDeclined(i) ==
  /\ intent[i].state = "open" /\ ~intent[i].failed
  /\ intent' = [intent EXCEPT ![i].failed = TRUE]
  /\ UNCHANGED <<row, ledger, lock, job, startup, history>>

IntentCanceled(i) ==
  /\ intent[i].state = "open"
  /\ intent' = [intent EXCEPT ![i].state = "canceled"]
  /\ UNCHANGED <<row, ledger, lock, job, startup, history>>

(***************************************************************************)
(* The process dies: its handlers are gone, its transaction is rolled      *)
(* back.  The next start fires the backfills of the wallet (onModuleInit). *)
(***************************************************************************)
\* Mutant of Crash: the next start does not look for missing credits.
CrashForgetful ==
  /\ crashes < MaxCrashes
  /\ crashes' = crashes + 1
  /\ job' = [s \in Slots |-> NoJob]
  /\ lock' = None
  /\ booting' = {"methods"} /\ orphans' = {}
  /\ UNCHANGED <<row, intent, ledger, history>>

Crash ==
  /\ crashes < MaxCrashes
  /\ crashes' = crashes + 1
  /\ job' = [s \in Slots |-> NoJob]
  /\ lock' = None
  /\ booting' = {"credits", "methods"} /\ orphans' = {}
  /\ UNCHANGED <<row, intent, ledger, history>>

\* backfillMissingCredits: one query, then a credit for each row it returned.
ScanOrphans ==
  /\ "credits" \in booting
  /\ booting' = booting \ {"credits"}
  /\ orphans' = {[ride |-> r, gross |-> row[r].fare] : r \in
                   {r \in Rides : /\ row[r].status = "completed" /\ row[r].fare > 0
                                  /\ credits[r] = <<>>}}
  /\ UNCHANGED <<row, intent, ledger, lock, job, crashes, history>>

BackfillCredit ==
  /\ \E o \in orphans :
       /\ Enter(o.ride, NewCredit(o.gross))
       /\ orphans' = orphans \ {o}
  /\ UNCHANGED <<row, intent, lock, job, booting, crashes, history>>

\* creditRide fails without a word, and the backfill counts the ride as done.
BackfillFails ==
  /\ failures < MaxFailures
  /\ failures' = failures + 1
  /\ \E o \in orphans :
       /\ orphans' = orphans \ {o}
       /\ forgone' = forgone \cup {o.ride}
  /\ UNCHANGED <<row, intent, credits, payouts, peak, lock, job, booting, crashes,
                 begun, edited, cashed>>

\* backfillPaymentMethods: one UPDATE, which takes no card fee.
Classified(c, r) ==
  IF c.method = "pending"
  THEN [c EXCEPT !.method = IF row[r].intent # None THEN "card" ELSE "cash"] ELSE c

\* Mutant of BackfillMethods: rides that are not paid are classified, too.
BackfillMethodsUnpaid ==
  /\ "methods" \in booting
  /\ booting' = booting \ {"methods"}
  /\ credits' = [r \in Rides |-> [k \in DOMAIN credits[r] |-> Classified(credits[r][k], r)]]
  /\ peak' = Greater(peak, Settled(credits'))
  /\ UNCHANGED <<row, intent, payouts, forgone, lock, job, orphans, crashes, history>>

BackfillMethods ==
  /\ "methods" \in booting
  /\ booting' = booting \ {"methods"}
  /\ credits' = [r \in Rides |-> IF row[r].status = "completed" /\ row[r].pay = "paid"
                   THEN [k \in DOMAIN credits[r] |-> Classified(credits[r][k], r)]
                   ELSE credits[r]]
  /\ peak' = Greater(peak, Settled(credits'))
  /\ UNCHANGED <<row, intent, payouts, forgone, lock, job, orphans, crashes, history>>
-----------------------------------------------------------------------------
Init ==
  /\ row = [r \in Rides |-> FreshRide]
  /\ intent = [i \in Intents |-> NoIntent]
  /\ credits = [r \in Rides |-> <<>>]
  /\ payouts = 0
  /\ lock = None
  /\ job = [s \in Slots |-> NoJob]
  /\ booting = {} /\ orphans = {} /\ crashes = 0
  /\ begun = 0
  /\ edited = {} /\ cashed = {}
  /\ peak = 0
  /\ failures = 0 /\ forgone = {}

Request(s) ==
  \/ \E r \in Rides : Complete(s, r) \/ EditFare(s, r) \/ PayCash(s, r) \/ CreateIntent(s, r)
  \/ \E type \in {"succeeded", "failed", "canceled"}, i \in Intents : Webhook(s, type, i)
  \/ \E a \in PayoutAmounts : PayoutCheck(s, a)

Arrive(s) ==
  /\ begun < MaxBegun
  /\ begun' = begun + 1
  /\ Request(s)

\* The next step of a handler in progress.
Continue(s) ==
  \/ Claim(s) \/ Retrieve(s) \/ Create(s) \/ CreateFails(s) \/ Find(s)
  \/ SaveSelect(s) \/ SaveUpdate(s)
  \/ Prior(s) \/ Wipe(s) \/ AddCredit(s) \/ CreditFails(s) \/ ReadEntry(s) \/ Mark(s)
  \/ PayoutInsert(s) \/ QueryFails(s)

Backfill == ScanOrphans \/ BackfillCredit \/ BackfillFails \/ BackfillMethods

Stripe == \E i \in Intents : ClientPays(i) \/ CardDeclined(i) \/ IntentCanceled(i)

Next ==
  \/ \E s \in Slots : Arrive(s) \/ Continue(s)
  \/ Backfill
  \/ Stripe
  \/ Crash

Spec == Init /\ [][Next]_vars
-----------------------------------------------------------------------------
(***************************************************************************)
(* Properties.                                                             *)
(***************************************************************************)
\* The types of what the program keeps and of what was asked of it.
Typed ==
  /\ row \in [Rides -> Row]
  /\ intent \in [Intents -> Intent]
  /\ credits \in [Rides -> Seq(Credit)]
  /\ payouts \in Nat
  /\ lock \in Slots \cup {None}
  /\ job \in [Slots -> Job]
  /\ booting \subseteq {"credits", "methods"}
  /\ orphans \subseteq [ride : Rides, gross : Nat]
  /\ crashes \in Nat
  /\ begun \in Nat
  /\ edited \subseteq Rides /\ cashed \subseteq Rides

\* Every variable holds a value of its type.
TypeOK == Typed /\ failures \in Nat /\ forgone \subseteq Rides

\* createPayout: two payouts that run together do not both spend the balance; the
\* sum of the payouts stays within the most the wallet ever held of card rides.
PayoutsWithinPeak == payouts <= peak

\* Stripe collected an intent of the ride, or the driver confirmed the cash.
PaidFor(r) ==
  \/ \E i \in Intents : intent[i].ride = r /\ intent[i].state = "succeeded"
  \/ r \in cashed

\* A credit stops being pending only for a ride that was paid for: Stripe collected
\* an intent of the ride or the driver confirmed the cash, however webhooks, edits,
\* stale saves and the backfill after a restart are interleaved.
SettledCreditsWerePaid ==
  \A r \in Rides : \A k \in DOMAIN credits[r] :
    credits[r][k].method # "pending" => PaidFor(r)

\* When no handler and no backfill has anything left to do, a completed ride with a fare
\* has its credit, if necessary from the backfill after a crash at any moment; stale saves
\* and crashes are never the reason why it has none.  The only reasons are those of
\* creditRide and replaceCreditForRide: the last attempt at a credit met an error, which
\* they only log, or had nothing to enter, as after a correction to nothing whose own
\* save was overwritten.
CompletedRidesAreCredited ==
  (/\ \A s \in Slots : At(s, "idle")
   /\ booting = {} /\ orphans = {})
    => \A r \in Rides : row[r].status = "completed" /\ row[r].fare > 0 =>
         credits[r] # <<>> \/ r \in forgone

\* completeRide: a double-tapped completion "must not finalize the fare and credit the
\* driver's wallet twice".  An edit of the fare and the backfill of a start may still
\* add a second credit beside a completion in progress.
OneCreditPerRide ==
  \A r \in Rides : r \notin edited /\ crashes = 0 => Len(credits[r]) <= 1

\* markRidePaymentMethod "must not take the card fee off a second time", though webhooks
\* are delivered again and beside the charge itself.  Where the entry is replaced by an
\* edit or marked cash in between, what remembers the fee is gone; and of two credits the
\* one update gives both the amount of either.
CardFeeTakenOnce ==
  \A r \in Rides : r \notin edited \cup cashed /\ Len(credits[r]) <= 1 =>
    \A k \in DOMAIN credits[r] :
      credits[r][k].amount >= Share(credits[r][k].gross) - Percent(credits[r][k].gross, CardFeePct)
=============================================================================
