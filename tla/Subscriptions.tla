--------------------------- MODULE Subscriptions ---------------------------
(***************************************************************************)
(* The subscription of one driver: the rows of driver_subscriptions, what  *)
(* subscriptions/subscriptions.service.ts does to them for the driver, for *)
(* Paysera and for an administrator, the state computed from them, and the *)
(* daily pass of subscription-cron that sends the reminders.  A handler    *)
(* reads a row and saves it some awaits later.  Time goes in ticks, Day of *)
(* them to a day.  Calls take no time; a pass begins at nine o'clock, or   *)
(* later by the clock that has no summer time, and goes on while it        *)
(* delivers, up to Drift ticks after nine.                                 *)
(***************************************************************************)
EXTENDS Integers, Sequences, FiniteSets

CONSTANTS
  Slots,         \* calls in progress at once
  Plans,         \* days of the plans on offer: a plan is known by its period
  Day,           \* ticks in a day: a day is taken from nine o'clock to nine o'clock
  Drift,         \* bound: how late after nine a pass may still be at work
  Grace,         \* GRACE_PERIOD_DAYS
  Offsets,       \* daysOffset of the RULES; each names the notice it sends
  Horizon,       \* bound: the last tick
  LastCall,      \* bound: the last tick at which a handler begins
  MaxCalls,      \* bound: calls of the handlers
  MaxRows,       \* bound: rows
  MaxMisses      \* bound: passes that do not reach their end

ASSUME SubscriptionsAssumption ==
  /\ Plans \subseteq Nat \ {0}
  /\ Day \in Nat \ {0} /\ Drift \in 0 .. Day - 1 /\ Grace \in Nat
  /\ Offsets \subseteq Int /\ -Grace \in Offsets
  /\ Horizon \in Nat /\ LastCall \in Nat /\ MaxCalls \in Nat /\ MaxRows \in Nat /\ MaxMisses \in Nat

VARIABLES
  now,
  contract,      \* drivers.billing_model
  rows,          \* driver_subscriptions of the driver, oldest first
  orders,        \* rows for which Paysera has an order
  job,           \* calls in progress
  pass,          \* the pass of the cron job
  ledger,        \* subscription_notifications
  calls,
  paid,          \* history: rows Paysera or an administrator found paid
  since,         \* history: when each row last changed
  told,          \* history: how often the driver got a notice
  lost,          \* history: notices delivered without an entry in the ledger
  missed,        \* history: days on which the pass did not take place or did not end
  excuse         \* history: what may leave a newer row beside one that is paid

vars == <<now, contract, rows, orders, job, pass, ledger, calls,
          paid, since, told, lost, missed, excuse>>
-----------------------------------------------------------------------------
Contracts == {"subscription", "commission"}
Statuses  == {"pending", "trialing", "active", "cancelled"}
Row       == [status : Statuses, plan : Plans, end : Nat]
Notice    == [id : Nat, end : Nat, offset : Offsets]

InForce(row) == row.status # "cancelled"

\* findOne({ order: { createdAt: 'DESC' } }) finds rows[Latest].
Latest == Len(rows)

\* periodFromPlan.
PeriodEnd(plan) == now + plan * Day

\* computeSubscriptionState.
SubscriptionState(id) ==
  IF id = 0 \/ rows[id].status = "pending" THEN "inactive"
  ELSE IF rows[id].status = "cancelled" THEN "blocked"
  ELSE IF now <= rows[id].end THEN "active"
  ELSE IF now <= rows[id].end + Grace * Day THEN "grace"
  ELSE "blocked"

\* getDriverWorkingState and isWorkingAllowed.
MayWork ==
  \/ contract = "commission"
  \/ SubscriptionState(Latest) \in {"active", "grace"}
-----------------------------------------------------------------------------
(***************************************************************************)
(* Handlers.  Each finds the row it is about, assigns to the entity it has *)
(* loaded and saves that: a row that is new is inserted, for another save  *)
(* looks up which columns differ, and updates those.                       *)
(***************************************************************************)
PCs == {"idle", "insert", "diff", "update"}
Job == [pc : PCs, id : 0 .. MaxRows, entity : Row \cup {<<>>},
        cols : SUBSET {"status", "plan", "end"}, card : BOOLEAN]
NoJob == [pc |-> "idle", id |-> 0, entity |-> <<>>, cols |-> {}, card |-> FALSE]

At(s, pc) == job[s].pc = pc
Busy      == {s \in Slots : ~At(s, "idle")}

Start(s, j) ==
  /\ At(s, "idle")
  /\ calls < MaxCalls /\ now <= LastCall
  /\ calls' = calls + 1
  /\ job' = [job EXCEPT ![s] = j]

Saving(id, entity) == [NoJob EXCEPT !.pc = "diff", !.id = id, !.entity = entity]
Creating(entity)   == [NoJob EXCEPT !.pc = "insert", !.entity = entity]

\* The call overlaps with another, or is about money for a row that is cancelled.
Excuses(late) ==
  excuse' = excuse \cup (IF Busy # {} THEN {"overlap"} ELSE {})
                   \cup (IF late THEN {"late payment"} ELSE {})

OnSubscription == contract = "subscription"

\* Mutant of Subscribe: changing the plan puts the subscription in force.
SubscribeActive(s, plan) ==
  /\ OnSubscription
  /\ IF Latest # 0 /\ InForce(rows[Latest])
     THEN /\ rows[Latest].plan # plan
          /\ Start(s, Saving(Latest, [status |-> "active", plan |-> plan, end |-> PeriodEnd(plan)]))
     ELSE Start(s, Creating([status |-> "trialing", plan |-> plan, end |-> PeriodEnd(plan)]))
  /\ Excuses(FALSE)
  /\ UNCHANGED <<now, contract, rows, orders, pass, ledger, paid, since, told, lost, missed>>

\* driverSubscribe: another plan for the row in force, or a trial.
Subscribe(s, plan) ==
  /\ OnSubscription
  /\ IF Latest # 0 /\ InForce(rows[Latest])
     THEN /\ rows[Latest].plan # plan
          /\ Start(s, Saving(Latest, [rows[Latest] EXCEPT !.plan = plan, !.end = PeriodEnd(plan)]))
     ELSE Start(s, Creating([status |-> "trialing", plan |-> plan, end |-> PeriodEnd(plan)]))
  /\ Excuses(FALSE)
  /\ UNCHANGED <<now, contract, rows, orders, pass, ledger, paid, since, told, lost, missed>>

\* driverCancel.
Cancel(s) ==
  /\ Latest # 0 /\ InForce(rows[Latest])
  /\ Start(s, Saving(Latest, [rows[Latest] EXCEPT !.status = "cancelled"]))
  /\ Excuses(FALSE)
  /\ UNCHANGED <<now, contract, rows, orders, pass, ledger, paid, since, told, lost, missed>>

\* Mutant of UpsertPending: only a row that waits for its payment is used again.
UpsertPendingAnew(s, plan, card) ==
  LET entity == [status |-> "pending", plan |-> plan, end |-> PeriodEnd(plan)] IN
  /\ OnSubscription
  /\ Start(s, [IF Latest # 0 /\ rows[Latest].status = "pending" THEN Saving(Latest, entity) ELSE Creating(entity)
               EXCEPT !.card = card])
  /\ Excuses(FALSE)
  /\ UNCHANGED <<now, contract, rows, orders, pass, ledger, paid, since, told, lost, missed>>

\* upsertPendingDriverSub, for startCardCheckout and for startCashRequest.
UpsertPending(s, plan, card) ==
  LET entity == [status |-> "pending", plan |-> plan, end |-> PeriodEnd(plan)] IN
  /\ OnSubscription
  /\ Start(s, [IF Latest # 0 /\ InForce(rows[Latest]) THEN Saving(Latest, entity) ELSE Creating(entity)
               EXCEPT !.card = card])
  /\ Excuses(FALSE)
  /\ UNCHANGED <<now, contract, rows, orders, pass, ledger, paid, since, told, lost, missed>>

\* applyPayseraCallback with status '1'; Paysera may call more than once.
PayseraCallback(s, id) ==
  /\ id \in orders
  /\ Start(s, Saving(id, [rows[id] EXCEPT !.status = "active", !.end = PeriodEnd(rows[id].plan)]))
  /\ paid' = paid \cup {id}
  /\ Excuses(~InForce(rows[id]))
  /\ UNCHANGED <<now, contract, rows, orders, pass, ledger, since, told, lost, missed>>

\* markSubscriptionPaid, for the plan the row has or another.  TypeORM saves the plan
\* of the relation or that of the column.
MarkPaid(s, id, plan, kept) ==
  /\ kept \in {plan, rows[id].plan}
  /\ Start(s, Saving(id, [status |-> "active", plan |-> kept, end |-> PeriodEnd(plan)]))
  /\ paid' = paid \cup {id}
  /\ Excuses(~InForce(rows[id]))
  /\ UNCHANGED <<now, contract, rows, orders, pass, ledger, since, told, lost, missed>>

\* adminUpdateSubscription: another plan or a day as a present.
AdminUpdate(s, id, plan, days) ==
  /\ plan = rows[id].plan <=> days = 1
  /\ Start(s, Saving(id, [rows[id] EXCEPT !.plan = plan, !.end = @ + days * Day]))
  /\ Excuses(FALSE)
  /\ UNCHANGED <<now, contract, rows, orders, pass, ledger, paid, since, told, lost, missed>>

\* Repository.save of a new row; a checkout then has its order.
Insert(s) ==
  /\ At(s, "insert")
  /\ Latest < MaxRows
  /\ rows' = Append(rows, job[s].entity)
  /\ since' = Append(since, now)
  /\ orders' = IF job[s].card THEN orders \cup {Latest + 1} ELSE orders
  /\ job' = [job EXCEPT ![s] = NoJob]
  /\ UNCHANGED <<now, contract, pass, ledger, calls, paid, told, lost, missed, excuse>>

Diff(s) ==
  /\ At(s, "diff")
  /\ LET e == job[s].entity IN
       job' = [job EXCEPT ![s].pc = "update",
                          ![s].cols = {c \in {"status", "plan", "end"} : e[c] # rows[job[s].id][c]}]
  /\ UNCHANGED <<now, contract, rows, orders, pass, ledger, calls, paid, since, told, lost, missed, excuse>>

Update(s) ==
  LET j == job[s] IN
  /\ At(s, "update")
  /\ rows' = [rows EXCEPT ![j.id] = [c \in DOMAIN @ |-> IF c \in j.cols THEN j.entity[c] ELSE @[c]]]
  /\ since' = IF j.cols = {} THEN since ELSE [since EXCEPT ![j.id] = now]
  /\ orders' = IF j.card THEN orders \cup {j.id} ELSE orders
  /\ job' = [job EXCEPT ![s] = NoJob]
  /\ UNCHANGED <<now, contract, pass, ledger, calls, paid, told, lost, missed, excuse>>

\* setDriverContract.
SetContract(c) ==
  /\ calls < MaxCalls /\ now <= LastCall
  /\ calls' = calls + 1
  /\ contract' = c /\ contract # c
  /\ UNCHANGED <<now, rows, orders, job, pass, ledger, paid, since, told, lost, missed, excuse>>
-----------------------------------------------------------------------------
(***************************************************************************)
(* The cron job: every day at nine, for each row that is in one of the     *)
(* statuses, the notice of the rule that matches.  A row's turn comes when *)
(* what the rows before it needed is delivered: each looks at the clock    *)
(* for itself.                                                             *)
(***************************************************************************)
PassPCs == {"idle", "due", "match", "deliver", "record"}
NoPass  == [pc |-> "idle", todo |-> {}, notice |-> <<>>]

Charged == {"active", "trialing"}

\* processDriverSubs: the rows as they are when the pass begins.
BeginPass ==
  /\ pass.pc = "due"
  /\ pass' = [NoPass EXCEPT !.pc = "match",
                !.todo = {<<id, rows[id].end>> : id \in {i \in DOMAIN rows : rows[i].status \in Charged}}]
  /\ UNCHANGED <<now, contract, rows, orders, job, ledger, calls, paid, since, told, lost, missed, excuse>>

\* Mutant of MatchRule: a day that has begun counts as a day left.
MatchRuleCeil(end) == Offsets \cap {(end - now + Day - 1) \div Day}

\* matchRule: the rule for floor((end - now) / day).
MatchRule(end) == Offsets \cap {(end - now) \div Day}

\* alreadySent.
Unsent(id, end) == {[id |-> id, end |-> end, offset |-> o] : o \in MatchRule(end)} \ ledger

\* Mutant of Match: the notice is recorded before it is delivered.
MatchRecords(id, end) ==
  /\ pass.pc = "match"
  /\ <<id, end>> \in pass.todo
  /\ pass' = IF Unsent(id, end) = {} THEN [pass EXCEPT !.todo = @ \ {<<id, end>>}]
             ELSE [pc |-> "deliver", todo |-> pass.todo \ {<<id, end>>}, notice |-> CHOOSE n \in Unsent(id, end) : TRUE]
  /\ ledger' = ledger \cup Unsent(id, end)
  /\ UNCHANGED <<now, contract, rows, orders, job, calls, paid, since, told, lost, missed, excuse>>

\* One row of the pass, whenever its turn comes.
Match(id, end) ==
  /\ pass.pc = "match"
  /\ <<id, end>> \in pass.todo
  /\ pass' = IF Unsent(id, end) = {} THEN [pass EXCEPT !.todo = @ \ {<<id, end>>}]
             ELSE [pc |-> "deliver", todo |-> pass.todo \ {<<id, end>>}, notice |-> CHOOSE n \in Unsent(id, end) : TRUE]
  /\ UNCHANGED <<now, contract, rows, orders, job, ledger, calls, paid, since, told, lost, missed, excuse>>

Count(n) == IF n \in DOMAIN told THEN told[n] ELSE 0
Told(n)  == [m \in DOMAIN told \cup {n} |-> Count(m) + (IF m = n THEN 1 ELSE 0)]

Today == now \div Day

\* The pass is over before its end; what is left of it is never made up for.
Abort ==
  /\ Cardinality(missed) < MaxMisses
  /\ missed' = missed \cup {Today}
  /\ pass' = NoPass

\* deliver: the push is out when the mail is refused, which ends the pass.
Deliver ==
  /\ pass.pc = "deliver"
  /\ told' = Told(pass.notice)
  /\ \/ pass' = [pass EXCEPT !.pc = "record"] /\ UNCHANGED <<lost, missed>>
     \/ Abort /\ lost' = lost \cup {pass.notice}
  /\ UNCHANGED <<now, contract, rows, orders, job, ledger, calls, paid, since, excuse>>

\* recordSent; it ignores every error.
RecordSent ==
  /\ pass.pc = "record"
  /\ \/ ledger' = ledger \cup {pass.notice} /\ UNCHANGED lost
     \/ lost' = lost \cup {pass.notice} /\ UNCHANGED ledger
  /\ pass' = [pass EXCEPT !.pc = "match", !.notice = <<>>]
  /\ UNCHANGED <<now, contract, rows, orders, job, calls, paid, since, told, missed, excuse>>

EndPass ==
  /\ pass.pc = "match" /\ pass.todo = {}
  /\ pass' = NoPass
  /\ UNCHANGED <<now, contract, rows, orders, job, ledger, calls, paid, since, told, lost, missed, excuse>>

\* The process is down at nine, or dies during the pass, and with it the calls.
Crash ==
  /\ pass.pc # "idle"
  /\ Abort
  /\ lost' = IF pass.pc = "record" THEN lost \cup {pass.notice} ELSE lost
  /\ job' = [s \in Slots |-> NoJob]
  /\ UNCHANGED <<now, contract, rows, orders, ledger, calls, paid, since, told, excuse>>

\* Mutant of Tick: the cron job runs more often than once a day.
TickOften ==
  /\ now < Horizon
  /\ Busy = {} /\ pass = NoPass
  /\ now' = now + 1
  /\ pass' = [NoPass EXCEPT !.pc = "due"]
  /\ UNCHANGED <<contract, rows, orders, job, ledger, calls, paid, since, told, lost, missed, excuse>>

\* Time goes on, also while a pass is at work.
Tick ==
  /\ now < Horizon
  /\ Busy = {} /\ (pass = NoPass \/ now % Day < Drift)
  /\ now' = now + 1
  /\ pass' = IF now' % Day = 0 THEN [NoPass EXCEPT !.pc = "due"] ELSE pass
  /\ UNCHANGED <<contract, rows, orders, job, ledger, calls, paid, since, told, lost, missed, excuse>>
-----------------------------------------------------------------------------
Init ==
  /\ now = 0
  /\ contract = "subscription"
  /\ rows = <<>> /\ orders = {}
  /\ job = [s \in Slots |-> NoJob]
  /\ pass = NoPass /\ ledger = {}
  /\ calls = 0
  /\ paid = {} /\ since = <<>> /\ told = [n \in {} |-> 0] /\ lost = {} /\ missed = {} /\ excuse = {}

Next ==
  \/ \E s \in Slots :
       \/ \E plan \in Plans : Subscribe(s, plan)
       \/ Cancel(s)
       \/ \E plan \in Plans, card \in BOOLEAN : UpsertPending(s, plan, card)
       \/ \E id \in orders : PayseraCallback(s, id)
       \/ \E id \in DOMAIN rows, plan, kept \in Plans : MarkPaid(s, id, plan, kept)
       \/ \E id \in DOMAIN rows, plan \in Plans, days \in {0, 1} : AdminUpdate(s, id, plan, days)
       \/ Insert(s) \/ Diff(s) \/ Update(s)
  \/ \E c \in Contracts : SetContract(c)
  \/ BeginPass
  \/ \E item \in pass.todo : Match(item[1], item[2])
  \/ Deliver \/ RecordSent \/ EndPass
  \/ Crash
  \/ Tick

Spec == Init /\ [][Next]_vars
-----------------------------------------------------------------------------
(***************************************************************************)
(* Properties.                                                             *)
(***************************************************************************)
\* Every variable holds a value of its type.
TypeOK ==
  /\ now \in Nat /\ calls \in Nat
  /\ contract \in Contracts
  /\ rows \in Seq(Row) /\ since \in Seq(Nat) /\ Len(since) = Len(rows) /\ Len(rows) <= MaxRows
  /\ orders \subseteq DOMAIN rows /\ paid \subseteq DOMAIN rows
  /\ job \in [Slots -> Job]
  /\ \A s \in Busy : job[s].entity \in Row /\ (~At(s, "insert") => job[s].id \in DOMAIN rows)
  /\ pass.pc \in PassPCs /\ pass.todo \subseteq Nat \X Nat
  /\ ledger \subseteq DOMAIN told /\ DOMAIN told \subseteq Notice
  /\ lost \subseteq DOMAIN told /\ missed \subseteq Nat
  /\ excuse \subseteq {"overlap", "late payment"}

\* applyPayseraCallback, markSubscriptionPaid: whatever stale entities are saved over
\* a row, it is active only if Paysera or an administrator has found it paid.
ActiveWasPaid == \A id \in DOMAIN rows : rows[id].status = "active" => id \in paid

\* getDriverWorkingState looks at the latest row alone.  Whoever has a row that covers
\* the present may work: it takes two calls that overlap, or a payment for a row
\* already cancelled, to hide it behind another.
CoveredMayWork ==
  excuse = {} /\ (\E id \in DOMAIN rows : SubscriptionState(id) \in {"active", "grace"}) => MayWork

\* RULES, matchRule: the window of a rule is the day that ends offset days before the
\* end of the period.  A row that kept its state from before the last nine o'clock of
\* the window until that pass was over has had the notice, unless the pass failed: the
\* row's turn falls into the window whatever was delivered before it.  Not so for a
\* period that ends within Drift after nine: one pass may be too early for it, the
\* next too late.
EveryNoticeIsSent ==
  \A id \in DOMAIN rows, o \in Offsets :
    LET day == rows[id].end \div Day - o
    IN  /\ rows[id].status \in Charged /\ rows[id].end % Day >= Drift
        /\ since[id] \div Day < day /\ day \notin missed
        /\ now > day * Day + Drift
        => [id |-> id, end |-> rows[id].end, offset |-> o] \in DOMAIN told

\* SubscriptionNotification: "ensures we never send the same reminder twice - survives
\* cron retries / restarts".  A pass that dies between delivery and recordSent leaves
\* no entry.  What saves the driver then is that the next pass is in the window of
\* another rule; a period that ends within Drift after nine may be in the window of
\* two passes, and only of two.
NoNoticeTwice ==
  \A n \in DOMAIN told :
    told[n] = 1 \/ (told[n] = 2 /\ n \in lost /\ n.end % Day < Drift)
=============================================================================
