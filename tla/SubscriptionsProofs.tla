------------------------ MODULE SubscriptionsProofs ------------------------
(***************************************************************************)
(* Proofs about Subscriptions: rows are active because they were paid, no  *)
(* row hides one that covers the present, and no reminder is sent twice.   *)
(***************************************************************************)
EXTENDS Subscriptions, TLAPS

(***************************************************************************)
(* The inductive invariant.  What a handler carries is as good as a row.   *)
(***************************************************************************)
JobOK(s) ==
  /\ job[s].entity.status = "active" => job[s].id \in paid
  /\ At(s, "insert") => job[s].entity.status # "active"

PaidInv == ActiveWasPaid /\ \A s \in Busy : JobOK(s)

\* What a handler carries hides no row in force behind another.
HidesNone(s) ==
  IF At(s, "insert") THEN \A id \in DOMAIN rows : rows[id].status = "cancelled"
  ELSE job[s].id # Latest => job[s].entity.status = "cancelled"

\* As long as nothing overlaps and nobody pays for a cancelled row, one handler is at
\* work, and all rows but the newest are cancelled.
OneRow ==
  excuse = {} =>
    /\ \A s, t \in Busy : s = t
    /\ \A id \in DOMAIN rows : id # Latest => rows[id].status = "cancelled"
    /\ \A s \in Busy : HidesNone(s)

PassType ==
  /\ pass \in [pc : PassPCs, todo : SUBSET (Nat \X Nat), notice : Notice \cup {<<>>}]
  /\ pass.pc \in {"deliver", "record"} => pass.notice \in Notice
  /\ pass.pc = "record" => pass.notice \in DOMAIN told

\* The pass of today may still get to the notice n.
Ahead(n) ==
  \/ pass.pc = "due"
  \/ <<n.id, n.end>> \in pass.todo
  \/ pass.pc = "deliver" /\ pass.notice = n

\* On the day of a notice the last nine o'clock of its window falls; the pass of the
\* day before may be in the window as well, for a period that ends within Drift.
DayOf(n) == n.end \div Day - n.offset
Matches(n, day) == day = DayOf(n) \/ (day + 1 = DayOf(n) /\ n.end % Day < Drift)

\* A notice was sent by the pass of a day; if that is today, the pass is past it.
SentOn(n, day) ==
  /\ day \in 0 .. Today
  /\ Matches(n, day)
  /\ day = Today => ~Ahead(n)

SentOnce(n)  == told[n] = 1 /\ \E day \in Int : SentOn(n, day)
SentTwice(n) == told[n] = 2 /\ n \in lost /\ n.end % Day < Drift /\ SentOn(n, DayOf(n))

NoticeInv ==
  /\ pass.pc # "idle" => now % Day <= Drift
  /\ pass.pc = "idle" => pass.todo = {}
  /\ pass.pc = "deliver" => pass.notice \notin ledger /\ Matches(pass.notice, Today)
  /\ pass.pc \in {"deliver", "record"} => <<pass.notice.id, pass.notice.end>> \notin pass.todo
  /\ \A n \in DOMAIN told : SentOnce(n) \/ SentTwice(n)
  /\ \A n \in DOMAIN told : n \in ledger \/ n \in lost \/ (pass.pc = "record" /\ pass.notice = n)

IInv == TypeOK /\ PaidInv /\ OneRow /\ PassType /\ NoticeInv
-----------------------------------------------------------------------------
(***************************************************************************)
(* Days, and the days on which a rule matches.                             *)
(***************************************************************************)
LEMMA MulMono ==
  ASSUME NEW a \in Int, NEW b \in Int, NEW d \in Nat, a <= b
  PROVE  d * a <= d * b
  OBVIOUS

LEMMA DayType == Day \in Nat /\ Day > 0 /\ Drift \in Nat /\ Drift < Day
  BY SubscriptionsAssumption

LEMMA TodayType ==
  ASSUME now \in Nat
  PROVE  Today \in Nat /\ now % Day \in 0 .. Day - 1 /\ now = Day * Today + (now % Day)
<1>1. Day \in Nat /\ Day > 0
  BY DayType
<1>2. PICK k \in Int, a \in Int : k = now \div Day /\ a = now % Day
  BY <1>1
<1>3. a \in 0 .. Day - 1 /\ now = Day * k + a
  BY <1>1, <1>2
<1>4. k >= 0
  <2>1. SUFFICES ASSUME k <= -1 PROVE FALSE
    BY <1>2
  <2>2. Day * k <= Day * (-1)
    BY <1>1, <1>2, <2>1, MulMono
  <2>3. Day * (-1) = -Day
    BY <1>1
  <2>. QED
    BY <1>1, <1>2, <1>3, <2>2, <2>3
<1>5. Today = k /\ k \in Nat
  BY <1>2, <1>4 DEF Today
<1>. QED
  BY <1>1, <1>2, <1>3, <1>5

\* floor((end - now) / day) counts the nine o'clocks until the end, and is one less as
\* soon as it is later in the day than the period ends.
LEMMA DaysLeft ==
  ASSUME NEW t \in Nat, NEW e \in Nat
  PROVE  (e - t) \div Day = e \div Day - t \div Day - (IF t % Day > e % Day THEN 1 ELSE 0)
<1>1. Day \in Nat /\ Day > 0
  BY DayType
<1>2. PICK k \in Int, a \in Int : k = t \div Day /\ a = t % Day /\ 0 <= a /\ a < Day
  BY <1>1
<1>3. PICK j \in Int, m \in Int : j = e \div Day /\ m = e % Day /\ 0 <= m /\ m < Day
  BY <1>1
<1>4. t = Day * k + a /\ e = Day * j + m
  BY <1>1, <1>2, <1>3
<1>5. PICK q \in Int : q = j - k - (IF a > m THEN 1 ELSE 0)
  <2>1. j - k - (IF a > m THEN 1 ELSE 0) \in Int
    BY <1>2, <1>3
  <2>. QED
    BY <2>1
<1>6. PICK r \in Int : r = m - a + (IF a > m THEN Day ELSE 0) /\ 0 <= r /\ r < Day
  BY <1>1, <1>2, <1>3
<1>7. e - t = Day * q + r
  <2>1. CASE a > m
    <3>1. Day * (j - k - 1) = Day * j - Day * k - Day
      BY <1>1
    <3>. QED
      BY <1>1, <1>4, <1>5, <1>6, <2>1, <3>1
  <2>2. CASE ~(a > m)
    <3>1. Day * (j - k) = Day * j - Day * k
      BY <1>1
    <3>. QED
      BY <1>1, <1>4, <1>5, <1>6, <2>2, <3>1
  <2>. QED
    BY <2>1, <2>2
<1>8. (e - t) \div Day = q
  BY <1>1, <1>5, <1>6, <1>7
<1>. QED
  BY <1>2, <1>3, <1>5, <1>8

\* A row that gets its turn by a pass has the notice of a rule that matches today.
LEMMA TurnOfToday ==
  ASSUME now \in Nat, now % Day <= Drift, NEW n, n.end \in Nat, n.offset \in Int,
         n.offset = (n.end - now) \div Day
  PROVE  Matches(n, Today) /\ (n.end % Day >= Drift => Today = DayOf(n))
<1>1. Day \in Nat /\ Day > 0 /\ Drift \in Nat
  BY DayType
<1>2. /\ n.end \div Day \in Int /\ n.end % Day \in Int
      /\ now \div Day \in Int /\ now % Day \in Int
  BY <1>1
<1>3. n.offset = n.end \div Day - now \div Day - (IF now % Day > n.end % Day THEN 1 ELSE 0)
  BY DaysLeft
<1>. QED
  BY <1>1, <1>2, <1>3 DEF Matches, DayOf, Today
-----------------------------------------------------------------------------
(***************************************************************************)
(* Steps that leave a part alone.                                          *)
(***************************************************************************)
LEMMA NoticeKept ==
  ASSUME PassType, NoticeInv, UNCHANGED <<pass, now, told, ledger, lost>>
  PROVE  PassType' /\ NoticeInv'
<1>1. \A n, day : SentOn(n, day)' = SentOn(n, day)
  BY DEF SentOn, Matches, DayOf, Ahead, Today
<1>. QED
  BY <1>1 DEF PassType, NoticeInv, SentOnce, SentTwice, Matches, DayOf, Today

LEMMA RowsKept ==
  ASSUME PaidInv, OneRow, rows' = rows, job' = job, paid' = paid, excuse' = excuse
  PROVE  PaidInv' /\ OneRow'
BY DEF PaidInv, ActiveWasPaid, JobOK, OneRow, HidesNone, Busy, At, Latest

LEMMA PeriodEndType ==
  ASSUME now \in Nat, NEW plan \in Plans
  PROVE  PeriodEnd(plan) \in Nat
<1>1. plan \in Nat /\ Day \in Nat
  BY SubscriptionsAssumption
<1>2. plan * Day \in Nat
  BY <1>1
<1>. QED
  BY <1>2 DEF PeriodEnd
-----------------------------------------------------------------------------
(***************************************************************************)
(* The handlers.                                                           *)
(***************************************************************************)
LEMMA Successor ==
  ASSUME NEW n \in Nat
  PROVE  n + 1 \in Nat
OBVIOUS

\* A handler begins: with an entity that is active only if it was paid, and that hides
\* no other row unless there is an excuse.
LEMMA BegunInv ==
  ASSUME IInv, NEW s \in Slots, NEW j \in Job, Start(s, j),
         j.pc \in {"insert", "diff"}, j.entity \in Row,
         j.pc = "diff" => j.id \in DOMAIN rows,
         j.pc = "insert" => j.entity.status # "active",
         j.entity.status = "active" => j.id \in paid',
         paid \subseteq paid', paid' \subseteq DOMAIN rows,
         excuse \subseteq excuse', excuse' \subseteq {"overlap", "late payment"},
         excuse' = {} => /\ Busy = {}
                         /\ IF j.pc = "insert" THEN \A id \in DOMAIN rows : rows[id].status = "cancelled"
                            ELSE j.id # Latest => j.entity.status = "cancelled",
         UNCHANGED <<now, contract, rows, orders, pass, ledger, since, told, lost, missed>>
  PROVE  IInv'
<1>1. TypeOK /\ PaidInv /\ OneRow /\ PassType /\ NoticeInv
  BY DEF IInv
<1>2. job \in [Slots -> Job] /\ job' = [job EXCEPT ![s] = j]
  BY <1>1 DEF TypeOK, Start
<1>3. job' \in [Slots -> Job] /\ job'[s] = j /\ \A t \in Slots \ {s} : job'[t] = job[t]
  BY <1>2
<1>4. Busy' = Busy \cup {s} /\ s \notin Busy
  BY <1>3 DEF Busy, At, Start
<1>5. TypeOK'
  <2>1. calls' \in Nat
    <3>1. calls \in Nat /\ calls' = calls + 1
      BY <1>1 DEF TypeOK, Start
    <3>. QED
      BY <3>1, Successor, Zenon
  <2>2. ASSUME NEW t \in Busy'
        PROVE  job'[t].entity \in Row /\ (job'[t].pc # "insert" => job'[t].id \in DOMAIN rows)
    <3>1. CASE t = s
      BY <1>3, <3>1
    <3>2. CASE t # s
      <4>1. t \in Busy /\ t \in Slots /\ job'[t] = job[t]
        BY <1>3, <1>4, <3>2 DEF Busy
      <4>. QED
        BY <1>1, <4>1 DEF TypeOK, At
    <3>. QED
      BY <3>1, <3>2
  <2>. QED
    BY <1>1, <1>3, <2>1, <2>2 DEF TypeOK, At
<1>6. PaidInv'
  <2>1. ActiveWasPaid'
    BY <1>1 DEF PaidInv, ActiveWasPaid
  <2>2. ASSUME NEW t \in Busy'
        PROVE  JobOK(t)'
    <3>1. CASE t = s
      BY <1>3, <3>1 DEF JobOK, At
    <3>2. CASE t # s
      <4>1. t \in Busy /\ job'[t] = job[t]
        BY <1>3, <1>4, <3>2 DEF Busy
      <4>. QED
        BY <1>1, <4>1 DEF PaidInv, JobOK, At
    <3>. QED
      BY <3>1, <3>2
  <2>. QED
    BY <2>1, <2>2 DEF PaidInv
<1>7. OneRow'
  BY <1>1, <1>3, <1>4 DEF OneRow, HidesNone, At, Latest
<1>8. PassType' /\ NoticeInv'
  BY <1>1, NoticeKept
<1>. QED
  BY <1>5, <1>6, <1>7, <1>8 DEF IInv

\* What Saving and Creating make of an entity is a job.
LEMMA NoJobType == NoJob \in Job
<1>1. 0 \in 0 .. MaxRows
  BY SubscriptionsAssumption
<1>2. \A e, E : [pc |-> "idle", id |-> 0, entity |-> e, cols |-> {}, card |-> FALSE]
        \in [pc : PCs, id : 0 .. MaxRows, entity : E \cup {e},
             cols : SUBSET {"status", "plan", "end"}, card : BOOLEAN]
  BY <1>1 DEF PCs
<1>. QED
  BY <1>2, Zenon DEF NoJob, Job

LEMMA SavingType ==
  ASSUME NEW entity \in Row, NEW id \in 0 .. MaxRows
  PROVE  /\ Saving(id, entity) \in Job
         /\ \A card \in BOOLEAN : [Saving(id, entity) EXCEPT !.card = card] \in Job
         /\ Saving(id, entity).pc = "diff" /\ Saving(id, entity).entity = entity /\ Saving(id, entity).id = id
<1>1. NoJob \in Job
  BY NoJobType
<1>. QED
  BY <1>1 DEF Saving, Job, PCs

LEMMA CreatingType ==
  ASSUME NEW entity \in Row
  PROVE  /\ Creating(entity) \in Job
         /\ \A card \in BOOLEAN : [Creating(entity) EXCEPT !.card = card] \in Job
         /\ Creating(entity).pc = "insert" /\ Creating(entity).entity = entity
<1>1. NoJob \in Job
  BY NoJobType
<1>. QED
  BY <1>1 DEF Creating, Job, PCs

\* The rows that a handler may find.
LEMMA Found ==
  ASSUME TypeOK
  PROVE  /\ Latest \in 0 .. MaxRows /\ DOMAIN rows \subseteq 0 .. MaxRows
         /\ Latest # 0 => Latest \in DOMAIN rows
         /\ \A id \in DOMAIN rows : rows[id] \in Row
<1>1. rows \in Seq(Row) /\ Len(rows) <= MaxRows
  BY DEF TypeOK
<1>2. MaxRows \in Nat
  BY SubscriptionsAssumption
<1>3. DOMAIN rows = 1 .. Len(rows) /\ Len(rows) \in Nat
  BY <1>1
<1>4. \A id \in DOMAIN rows : rows[id] \in Row
  BY <1>1
<1>. QED
  BY <1>1, <1>2, <1>3, <1>4 DEF Latest

LEMMA Excused ==
  ASSUME TypeOK, NEW late \in BOOLEAN, Excuses(late)
  PROVE  /\ excuse \subseteq excuse' /\ excuse' \subseteq {"overlap", "late payment"}
         /\ excuse' = {} => excuse = {} /\ Busy = {} /\ ~late
BY DEF TypeOK, Excuses

LEMMA SubscribeInv ==
  ASSUME IInv, NEW s \in Slots, NEW plan \in Plans, Subscribe(s, plan)
  PROVE  IInv'
<1>1. TypeOK /\ PaidInv /\ OneRow
  BY DEF IInv
<1>2. PeriodEnd(plan) \in Nat
  BY <1>1, PeriodEndType DEF TypeOK
<1>3. /\ excuse \subseteq excuse' /\ excuse' \subseteq {"overlap", "late payment"}
      /\ excuse' = {} => excuse = {} /\ Busy = {}
  BY <1>1, Excused DEF Subscribe
<1>4. CASE Latest # 0 /\ InForce(rows[Latest])
  <2> DEFINE entity == [rows[Latest] EXCEPT !.plan = plan, !.end = PeriodEnd(plan)]
  <2>1. rows[Latest] \in Row /\ Latest \in DOMAIN rows /\ Latest \in 0 .. MaxRows
    BY <1>1, <1>4, Found
  <2>2. entity \in Row /\ entity.status = rows[Latest].status
    BY <1>2, <2>1 DEF Row
  <2>3. Start(s, Saving(Latest, entity))
    BY <1>4 DEF Subscribe
  <2>4. entity.status = "active" => Latest \in paid
    BY <1>1, <2>1, <2>2 DEF PaidInv, ActiveWasPaid
  <2> HIDE DEF entity
  <2>5. /\ Saving(Latest, entity) \in Job /\ Saving(Latest, entity).pc = "diff"
        /\ Saving(Latest, entity).entity = entity /\ Saving(Latest, entity).id = Latest
    BY <2>1, <2>2, SavingType
  <2>. QED
    BY <1>1, <1>3, <2>1, <2>2, <2>3, <2>4, <2>5, BegunInv DEF Subscribe, TypeOK
<1>5. CASE ~(Latest # 0 /\ InForce(rows[Latest]))
  <2> DEFINE entity == [status |-> "trialing", plan |-> plan, end |-> PeriodEnd(plan)]
  <2>1. entity \in Row /\ entity.status = "trialing"
    BY <1>2 DEF Row, Statuses
  <2>2. Start(s, Creating(entity))
    BY <1>5 DEF Subscribe
  <2> HIDE DEF entity
  <2>3. Creating(entity) \in Job /\ Creating(entity).pc = "insert" /\ Creating(entity).entity = entity
    BY <2>1, CreatingType
  <2>4. excuse' = {} => \A id \in DOMAIN rows : rows[id].status = "cancelled"
    BY <1>1, <1>3, <1>5, Found DEF OneRow, Latest, InForce
  <2>. QED
    BY <1>1, <1>3, <2>1, <2>2, <2>3, <2>4, BegunInv DEF Subscribe, TypeOK
<1>. QED
  BY <1>4, <1>5

LEMMA CancelInv ==
  ASSUME IInv, NEW s \in Slots, Cancel(s)
  PROVE  IInv'
<1> DEFINE entity == [rows[Latest] EXCEPT !.status = "cancelled"]
<1>1. TypeOK /\ PaidInv /\ OneRow
  BY DEF IInv
<1>2. rows[Latest] \in Row /\ Latest \in DOMAIN rows /\ Latest \in 0 .. MaxRows
  BY <1>1, Found DEF Cancel
<1>3. entity \in Row /\ entity.status = "cancelled"
  BY <1>2 DEF Row, Statuses
<1>4. Start(s, Saving(Latest, entity))
  BY DEF Cancel
<1>5. /\ excuse \subseteq excuse' /\ excuse' \subseteq {"overlap", "late payment"}
      /\ excuse' = {} => excuse = {} /\ Busy = {}
  BY <1>1, Excused DEF Cancel
<1> HIDE DEF entity
<1>6. /\ Saving(Latest, entity) \in Job /\ Saving(Latest, entity).pc = "diff"
      /\ Saving(Latest, entity).entity = entity /\ Saving(Latest, entity).id = Latest
  BY <1>2, <1>3, SavingType
<1>. QED
  BY <1>1, <1>2, <1>3, <1>4, <1>5, <1>6, BegunInv DEF Cancel, TypeOK

LEMMA UpsertPendingInv ==
  ASSUME IInv, NEW s \in Slots, NEW plan \in Plans, NEW card \in BOOLEAN, UpsertPending(s, plan, card)
  PROVE  IInv'
<1> DEFINE entity == [status |-> "pending", plan |-> plan, end |-> PeriodEnd(plan)]
           saving == [Saving(Latest, entity) EXCEPT !.card = card]
           creating == [Creating(entity) EXCEPT !.card = card]
<1>1. TypeOK /\ PaidInv /\ OneRow
  BY DEF IInv
<1>2. entity \in Row /\ entity.status = "pending"
  BY <1>1, PeriodEndType DEF TypeOK, Row, Statuses
<1>3. /\ excuse \subseteq excuse' /\ excuse' \subseteq {"overlap", "late payment"}
      /\ excuse' = {} => excuse = {} /\ Busy = {}
  BY <1>1, Excused DEF UpsertPending
<1>4. IF Latest # 0 /\ InForce(rows[Latest]) THEN Start(s, saving) ELSE Start(s, creating)
  BY DEF UpsertPending
<1> HIDE DEF entity
<1>5. /\ saving \in Job /\ saving.pc = "diff" /\ saving.entity = entity /\ saving.id = Latest
      /\ creating \in Job /\ creating.pc = "insert" /\ creating.entity = entity
  <2>1. Latest \in 0 .. MaxRows
    BY <1>1, Found
  <2>. QED
    BY <1>2, <2>1, SavingType, CreatingType DEF Saving, Creating, NoJob
<1> HIDE DEF saving, creating
<1>6. CASE Latest # 0 /\ InForce(rows[Latest])
  <2>1. Start(s, saving) /\ Latest \in DOMAIN rows
    BY <1>1, <1>4, <1>6, Found
  <2>. QED
    BY <1>1, <1>2, <1>3, <1>5, <2>1, BegunInv DEF UpsertPending, TypeOK
<1>7. CASE ~(Latest # 0 /\ InForce(rows[Latest]))
  <2>1. excuse' = {} => \A id \in DOMAIN rows : rows[id].status = "cancelled"
    BY <1>1, <1>3, <1>7, Found DEF OneRow, Latest, InForce
  <2>2. Start(s, creating)
    BY <1>4, <1>7
  <2>. QED
    BY <1>1, <1>2, <1>3, <1>5, <2>1, <2>2, BegunInv DEF UpsertPending, TypeOK
<1>. QED
  BY <1>6, <1>7

\* A payment: the row is found paid as the handler begins.
LEMMA PaymentInv ==
  ASSUME IInv, NEW s \in Slots, NEW id \in DOMAIN rows, NEW entity \in Row,
         Start(s, Saving(id, entity)), paid' = paid \cup {id}, Excuses(~InForce(rows[id])),
         UNCHANGED <<now, contract, rows, orders, pass, ledger, since, told, lost, missed>>
  PROVE  IInv'
<1>1. TypeOK /\ PaidInv /\ OneRow
  BY DEF IInv
<1>2. /\ excuse \subseteq excuse' /\ excuse' \subseteq {"overlap", "late payment"}
      /\ excuse' = {} => excuse = {} /\ Busy = {} /\ InForce(rows[id])
  BY <1>1, Excused
<1>3. id \in 0 .. MaxRows
  BY <1>1, Found
<1>4. /\ Saving(id, entity) \in Job /\ Saving(id, entity).pc = "diff"
      /\ Saving(id, entity).entity = entity /\ Saving(id, entity).id = id
  BY <1>3, SavingType
<1>5. excuse' = {} => id = Latest
  BY <1>1, <1>2 DEF OneRow, InForce
<1>6. paid \subseteq paid' /\ paid' \subseteq DOMAIN rows
  BY <1>1 DEF TypeOK
<1>. QED
  BY <1>2, <1>4, <1>5, <1>6, BegunInv

LEMMA PayseraCallbackInv ==
  ASSUME IInv, NEW s \in Slots, NEW id \in orders, PayseraCallback(s, id)
  PROVE  IInv'
<1> DEFINE entity == [rows[id] EXCEPT !.status = "active", !.end = PeriodEnd(rows[id].plan)]
<1>1. TypeOK
  BY DEF IInv
<1>2. id \in DOMAIN rows /\ rows[id] \in Row
  BY <1>1, Found DEF TypeOK
<1>3. rows[id].plan \in Plans
  BY <1>2 DEF Row
<1>4. PeriodEnd(rows[id].plan) \in Nat
  BY <1>1, <1>3, PeriodEndType DEF TypeOK
<1>5. entity \in Row
  BY <1>2, <1>4 DEF Row, Statuses
<1>6. Start(s, Saving(id, entity))
  BY DEF PayseraCallback
<1> HIDE DEF entity
<1>. QED
  BY <1>2, <1>5, <1>6, PaymentInv DEF PayseraCallback

LEMMA MarkPaidInv ==
  ASSUME IInv, NEW s \in Slots, NEW id \in DOMAIN rows, NEW plan \in Plans, NEW kept \in Plans,
         MarkPaid(s, id, plan, kept)
  PROVE  IInv'
<1> DEFINE entity == [status |-> "active", plan |-> kept, end |-> PeriodEnd(plan)]
<1>1. TypeOK
  BY DEF IInv
<1>2. entity \in Row
  BY <1>1, PeriodEndType DEF TypeOK, Row, Statuses
<1>3. Start(s, Saving(id, entity))
  BY DEF MarkPaid
<1> HIDE DEF entity
<1>. QED
  BY <1>2, <1>3, PaymentInv DEF MarkPaid

LEMMA AdminUpdateInv ==
  ASSUME IInv, NEW s \in Slots, NEW id \in DOMAIN rows, NEW plan \in Plans, NEW days \in {0, 1},
         AdminUpdate(s, id, plan, days)
  PROVE  IInv'
<1> DEFINE entity == [rows[id] EXCEPT !.plan = plan, !.end = @ + days * Day]
<1>1. TypeOK /\ PaidInv /\ OneRow
  BY DEF IInv
<1>2. rows[id] \in Row /\ id \in 0 .. MaxRows
  BY <1>1, Found
<1>3. rows[id].end + days * Day \in Nat
  <2>1. days * Day \in Nat
    BY SubscriptionsAssumption
  <2>2. rows[id].end \in Nat
    BY <1>2 DEF Row
  <2>. QED
    BY <2>1, <2>2
<1>4. entity \in Row /\ entity.status = rows[id].status
  <2>1. entity = [rows[id] EXCEPT !.plan = plan, !.end = rows[id].end + days * Day]
    BY <1>2 DEF Row
  <2>. QED
    BY <1>2, <1>3, <2>1 DEF Row
<1>5. Start(s, Saving(id, entity))
  BY DEF AdminUpdate
<1>6. entity.status = "active" => id \in paid
  BY <1>1, <1>4 DEF PaidInv, ActiveWasPaid
<1>7. /\ excuse \subseteq excuse' /\ excuse' \subseteq {"overlap", "late payment"}
      /\ excuse' = {} => excuse = {} /\ Busy = {}
  BY <1>1, Excused DEF AdminUpdate
<1>8. excuse' = {} => (id # Latest => entity.status = "cancelled")
  BY <1>1, <1>4, <1>7 DEF OneRow
<1> HIDE DEF entity
<1>9. /\ Saving(id, entity) \in Job /\ Saving(id, entity).pc = "diff"
      /\ Saving(id, entity).entity = entity /\ Saving(id, entity).id = id
  BY <1>2, <1>4, SavingType
<1>. QED
  BY <1>1, <1>4, <1>5, <1>6, <1>7, <1>8, <1>9, BegunInv DEF AdminUpdate, TypeOK

\* A handler ends.
LEMMA Finished ==
  ASSUME job \in [Slots -> Job], NEW s \in Slots, job' = [job EXCEPT ![s] = NoJob]
  PROVE  /\ job' \in [Slots -> Job]
         /\ Busy' = Busy \ {s}
         /\ \A t \in Busy' : t # s /\ job'[t] = job[t]
<1>1. NoJob \in Job /\ NoJob.pc = "idle"
  BY NoJobType DEF NoJob
<1>2. job' \in [Slots -> Job] /\ job'[s] = NoJob /\ \A t \in Slots \ {s} : job'[t] = job[t]
  BY <1>1
<1>. QED
  BY <1>1, <1>2 DEF Busy, At

LEMMA InsertInv ==
  ASSUME IInv, NEW s \in Slots, Insert(s)
  PROVE  IInv'
<1>1. TypeOK /\ PaidInv /\ OneRow /\ PassType /\ NoticeInv
  BY DEF IInv
<1>2. /\ job' \in [Slots -> Job]
      /\ Busy' = Busy \ {s}
      /\ \A t \in Busy' : t # s /\ job'[t] = job[t]
  BY <1>1, Finished DEF Insert, TypeOK
<1>3. s \in Busy /\ job[s].entity \in Row /\ JobOK(s)
  BY <1>1 DEF Insert, TypeOK, PaidInv, Busy, At
<1>4. /\ rows' \in Seq(Row) /\ since' \in Seq(Nat) /\ Len(since') = Len(rows')
      /\ Len(rows') = Len(rows) + 1 /\ Len(rows') <= MaxRows
      /\ DOMAIN rows' = DOMAIN rows \cup {Len(rows) + 1}
      /\ rows'[Len(rows) + 1] = job[s].entity
      /\ \A id \in DOMAIN rows : rows'[id] = rows[id]
      /\ Len(rows) + 1 \notin DOMAIN rows
  <2>1. rows \in Seq(Row) /\ since \in Seq(Nat) /\ Len(since) = Len(rows) /\ now \in Nat
    BY <1>1 DEF TypeOK
  <2>2. rows' = Append(rows, job[s].entity) /\ since' = Append(since, now) /\ Len(rows) < MaxRows
    BY DEF Insert, Latest
  <2>. QED
    BY <1>3, <2>1, <2>2, SubscriptionsAssumption
<1>5. TypeOK'
  <2>1. orders' \subseteq DOMAIN rows' /\ paid' \subseteq DOMAIN rows'
    BY <1>1, <1>4 DEF TypeOK, Insert, Latest
  <2>2. \A t \in Busy' : job'[t].entity \in Row /\ (job'[t].pc # "insert" => job'[t].id \in DOMAIN rows')
    BY <1>1, <1>2, <1>4 DEF TypeOK, At
  <2>. QED
    BY <1>1, <1>2, <1>4, <2>1, <2>2 DEF TypeOK, Insert, At
<1>6. PaidInv'
  <2>1. job[s].entity.status # "active"
    BY <1>3 DEF Insert, JobOK
  <2>2. ActiveWasPaid'
    BY <1>1, <1>4, <2>1 DEF PaidInv, ActiveWasPaid, Insert
  <2>3. \A t \in Busy' : JobOK(t)'
    BY <1>1, <1>2 DEF PaidInv, JobOK, At, Insert
  <2>. QED
    BY <2>2, <2>3 DEF PaidInv
<1>7. OneRow'
  <2>1. SUFFICES ASSUME excuse = {} PROVE OneRow'
    BY DEF OneRow, Insert
  <2>2. Busy = {s} /\ HidesNone(s)
    BY <1>1, <1>3, <2>1 DEF OneRow
  <2>3. \A id \in DOMAIN rows : rows[id].status = "cancelled"
    BY <2>2 DEF HidesNone, Insert
  <2>4. Busy' = {} /\ Latest' = Len(rows) + 1
    BY <1>2, <1>4, <2>2 DEF Latest
  <2>. QED
    BY <1>4, <2>3, <2>4 DEF OneRow
<1>8. PassType' /\ NoticeInv'
  BY <1>1, NoticeKept DEF Insert
<1>. QED
  BY <1>5, <1>6, <1>7, <1>8 DEF IInv

LEMMA DiffInv ==
  ASSUME IInv, NEW s \in Slots, Diff(s)
  PROVE  IInv'
<1>1. TypeOK /\ PaidInv /\ OneRow /\ PassType /\ NoticeInv
  BY DEF IInv
<1>2. PICK cols \in SUBSET {"status", "plan", "end"} :
        job' = [job EXCEPT ![s].pc = "update", ![s].cols = cols]
  <2>1. \A c : {x \in {"status", "plan", "end"} : c[x]} \in SUBSET {"status", "plan", "end"}
    OBVIOUS
  <2>. QED
    BY <2>1 DEF Diff
<1>3. job \in [Slots -> Job] /\ job[s] \in Job
  BY <1>1 DEF TypeOK
<1>4. job'[s] = [job[s] EXCEPT !.pc = "update", !.cols = cols] /\ \A t \in Slots \ {s} : job'[t] = job[t]
  BY <1>2, <1>3
<1>5. /\ job'[s] \in Job /\ job'[s].pc = "update"
      /\ job'[s].entity = job[s].entity /\ job'[s].id = job[s].id
  BY <1>3, <1>4 DEF Job, PCs
<1>6. job' \in [Slots -> Job] /\ Busy' = Busy
  BY <1>2, <1>3, <1>4, <1>5 DEF Busy, At, Diff
<1>7. TypeOK'
  <2>1. ASSUME NEW t \in Busy'
        PROVE  job'[t].entity \in Row /\ (job'[t].pc # "insert" => job'[t].id \in DOMAIN rows)
    <3>3. t \in Busy /\ t \in Slots /\ job[s].pc # "insert"
      BY <1>6 DEF Busy, Diff, At
    <3>1. /\ job'[t].entity = job[t].entity /\ job'[t].id = job[t].id
          /\ job'[t].pc # "insert" => job[t].pc # "insert"
      <4>1. CASE t = s
        BY <1>5, <3>3, <4>1
      <4>2. CASE t # s
        BY <1>4, <3>3, <4>2
      <4>. QED
        BY <4>1, <4>2
    <3>2. job[t].entity \in Row /\ (job[t].pc # "insert" => job[t].id \in DOMAIN rows)
      BY <1>1, <3>3 DEF TypeOK, At
    <3>. QED
      BY <3>1, <3>2
  <2>. QED
    BY <1>1, <1>6, <2>1 DEF TypeOK, At, Diff
<1>8. PaidInv'
  <2>1. \A t \in Busy' : JobOK(t)'
    BY <1>1, <1>4, <1>5, <1>6 DEF PaidInv, JobOK, At, Diff, Busy
  <2>. QED
    BY <1>1, <2>1 DEF PaidInv, ActiveWasPaid, Diff
<1>9. OneRow'
  <2>1. ASSUME NEW t \in Busy, HidesNone(t)
        PROVE  HidesNone(t)'
    <3>1. /\ (job'[t].pc = "insert") <=> (job[t].pc = "insert")
          /\ job'[t].id = job[t].id /\ job'[t].entity = job[t].entity
      BY <1>4, <1>5 DEF Diff, At, Busy
    <3>2. rows' = rows
      BY DEF Diff
    <3>. QED
      BY <2>1, <3>1, <3>2 DEF HidesNone, At, Latest
  <2>. QED
    BY <1>1, <1>6, <2>1 DEF OneRow, Diff, Latest
<1>10. PassType' /\ NoticeInv'
  BY <1>1, NoticeKept DEF Diff
<1>. QED
  BY <1>7, <1>8, <1>9, <1>10 DEF IInv

\* What an UPDATE makes of a row.
LEMMA MergeColumns ==
  ASSUME NEW cur \in Row, NEW e \in Row, NEW cols
  PROVE  LET m == [c \in DOMAIN cur |-> IF c \in cols THEN e[c] ELSE cur[c]] IN
         m \in Row /\ m.status \in {e.status, cur.status}
BY DEF Row

LEMMA UpdateInv ==
  ASSUME IInv, NEW s \in Slots, Update(s)
  PROVE  IInv'
<1> DEFINE id == job[s].id
           e  == job[s].entity
<1>1. TypeOK /\ PaidInv /\ OneRow /\ PassType /\ NoticeInv
  BY DEF IInv
<1>2. /\ job' \in [Slots -> Job]
      /\ Busy' = Busy \ {s}
      /\ \A t \in Busy' : t # s /\ job'[t] = job[t]
  BY <1>1, Finished DEF Update, TypeOK
<1>3. s \in Busy /\ e \in Row /\ id \in DOMAIN rows /\ JobOK(s)
  BY <1>1 DEF Update, TypeOK, PaidInv, Busy, At
<1>4. /\ rows' \in Seq(Row) /\ Len(rows') = Len(rows) /\ DOMAIN rows' = DOMAIN rows
      /\ rows'[id].status \in {e.status, rows[id].status}
      /\ \A i \in DOMAIN rows \ {id} : rows'[i] = rows[i]
  <2>1. rows \in Seq(Row) /\ rows[id] \in Row
    BY <1>1, <1>3, Found DEF TypeOK
  <2> DEFINE m == [c \in DOMAIN rows[id] |-> IF c \in job[s].cols THEN e[c] ELSE rows[id][c]]
  <2>2. m \in Row /\ m.status \in {e.status, rows[id].status}
    BY <1>3, <2>1, MergeColumns
  <2>3. rows' = [rows EXCEPT ![id] = m]
    BY DEF Update
  <2> HIDE DEF m, id, e
  <2>. QED
    BY <1>3, <2>1, <2>2, <2>3
<1> HIDE DEF id, e
<1>5. since' \in Seq(Nat) /\ Len(since') = Len(since)
  <2>1. since \in Seq(Nat) /\ now \in Nat
    BY <1>1 DEF TypeOK
  <2>2. since' = since \/ since' = [since EXCEPT ![id] = now]
    BY DEF Update, id
  <2>. QED
    BY <2>1, <2>2
<1>6. TypeOK'
  <2>1. orders' \subseteq DOMAIN rows'
    BY <1>1, <1>3, <1>4 DEF TypeOK, Update, id
  <2>2. \A t \in Busy' : job'[t].entity \in Row /\ (job'[t].pc # "insert" => job'[t].id \in DOMAIN rows')
    BY <1>1, <1>2, <1>4 DEF TypeOK, At
  <2>3. Len(since') = Len(rows') /\ Len(rows') <= MaxRows
    BY <1>1, <1>4, <1>5 DEF TypeOK
  <2>. QED
    BY <1>1, <1>2, <1>4, <1>5, <2>1, <2>2, <2>3 DEF TypeOK, Update, At
<1>7. PaidInv'
  <2>1. e.status = "active" => id \in paid
    BY <1>3 DEF JobOK, id, e
  <2>2. ActiveWasPaid'
    BY <1>1, <1>3, <1>4, <2>1 DEF PaidInv, ActiveWasPaid, Update
  <2>3. \A t \in Busy' : JobOK(t)'
    BY <1>1, <1>2 DEF PaidInv, JobOK, At, Update
  <2>. QED
    BY <2>2, <2>3 DEF PaidInv
<1>8. OneRow'
  <2>1. SUFFICES ASSUME excuse = {} PROVE OneRow'
    BY DEF OneRow, Update
  <2>2. Busy = {s} /\ HidesNone(s) /\ \A i \in DOMAIN rows : i # Latest => rows[i].status = "cancelled"
    BY <1>1, <1>3, <2>1 DEF OneRow
  <2>3. id # Latest => e.status = "cancelled"
    BY <2>2 DEF HidesNone, Update, At, id, e
  <2>4. Busy' = {} /\ Latest' = Latest
    BY <1>2, <1>4, <2>2 DEF Latest
  <2>. QED
    BY <1>3, <1>4, <2>2, <2>3, <2>4 DEF OneRow
<1>9. PassType' /\ NoticeInv'
  BY <1>1, NoticeKept DEF Update
<1>. QED
  BY <1>6, <1>7, <1>8, <1>9 DEF IInv

LEMMA SetContractInv ==
  ASSUME IInv, NEW c \in Contracts, SetContract(c)
  PROVE  IInv'
<1>1. TypeOK /\ PaidInv /\ OneRow /\ PassType /\ NoticeInv
  BY DEF IInv
<1>2. calls' \in Nat
  <2>1. calls \in Nat /\ calls' = calls + 1
    BY <1>1 DEF TypeOK, SetContract
  <2>. QED
    BY <2>1, Successor, Zenon
<1>3. Busy' = Busy
  BY DEF SetContract, Busy, At
<1>4. TypeOK'
  BY <1>1, <1>2, <1>3 DEF TypeOK, SetContract, At
<1>5. PaidInv' /\ OneRow'
  BY <1>1, RowsKept DEF SetContract
<1>6. PassType' /\ NoticeInv'
  BY <1>1, NoticeKept DEF SetContract
<1>. QED
  BY <1>4, <1>5, <1>6 DEF IInv
-----------------------------------------------------------------------------
(***************************************************************************)
(* The pass of the reminders.                                              *)
(***************************************************************************)
\* There is no pass, and nothing ahead of it.
LEMMA NoPassType ==
  /\ NoPass \in [pc : PassPCs, todo : SUBSET (Nat \X Nat), notice : Notice \cup {<<>>}]
  /\ NoPass.pc = "idle" /\ NoPass.todo = {}
<1>1. \A e, E : [pc |-> "idle", todo |-> {}, notice |-> e]
                  \in [pc : PassPCs, todo : SUBSET (Nat \X Nat), notice : E \cup {e}]
  BY DEF PassPCs
<1>. QED
  BY <1>1, Zenon DEF NoPass

\* What was sent stays sent while the pass loses what is ahead of it.
LEMMA SentKept ==
  ASSUME NoticeInv, UNCHANGED <<told, now>>, lost \subseteq lost',
         \A n : Ahead(n)' => Ahead(n) \/ pass.pc = "due"
  PROVE  \A n \in DOMAIN told' : SentOnce(n)' \/ SentTwice(n)'
<1>1. \A n : Ahead(n)' => Ahead(n)
  BY DEF Ahead
<1>2. \A n, day : SentOn(n, day) => SentOn(n, day)'
  BY <1>1 DEF SentOn, Matches, DayOf, Today
<1>3. \A n \in DOMAIN told : SentOnce(n) => SentOnce(n)'
  BY <1>2 DEF SentOnce
<1>4. \A n \in DOMAIN told : SentTwice(n) => SentTwice(n)'
  BY <1>2 DEF SentTwice, DayOf
<1>. QED
  BY <1>3, <1>4 DEF NoticeInv

LEMMA PassOver ==
  ASSUME PassType, NoticeInv, pass' = NoPass, UNCHANGED <<told, now, ledger>>,
         lost \subseteq lost', pass.pc = "record" => pass.notice \in lost'
  PROVE  PassType' /\ NoticeInv'
<1>1. pass'.pc = "idle" /\ pass'.todo = {}
  BY NoPassType
<1>2. PassType'
  BY <1>1, NoPassType DEF PassType
<1>3. \A n : ~Ahead(n)'
  BY <1>1 DEF Ahead
<1>4. NoticeInv'
  BY <1>1, <1>3, SentKept DEF NoticeInv
<1>. QED
  BY <1>2, <1>4

\* A step of the pass that leaves rows and handlers alone.
LEMMA PassStep ==
  ASSUME IInv, PassType', NoticeInv', ledger' \subseteq DOMAIN told', DOMAIN told' \subseteq Notice,
         missed' \subseteq Nat, lost' \subseteq DOMAIN told',
         UNCHANGED <<now, contract, rows, orders, job, calls, paid, since, excuse>>
  PROVE  IInv'
<1>1. TypeOK /\ PaidInv /\ OneRow
  BY DEF IInv
<1>2. PaidInv' /\ OneRow' /\ Busy' = Busy
  BY <1>1, RowsKept DEF Busy, At
<1>3. pass'.pc \in PassPCs /\ pass'.todo \subseteq Nat \X Nat
  BY DEF PassType
<1>4. TypeOK'
  BY <1>1, <1>2, <1>3 DEF TypeOK, At
<1>. QED
  BY <1>2, <1>4 DEF IInv

LEMMA BeginPassInv ==
  ASSUME IInv, BeginPass
  PROVE  IInv'
<1>1. TypeOK /\ PassType /\ NoticeInv
  BY DEF IInv
<1> DEFINE todo == {<<id, rows[id].end>> : id \in {i \in DOMAIN rows : rows[i].status \in Charged}}
<1>2. todo \subseteq Nat \X Nat
  <2>1. ASSUME NEW id \in DOMAIN rows
        PROVE  id \in Nat /\ rows[id].end \in Nat
    BY <1>1, Found, SubscriptionsAssumption DEF Row
  <2>. QED
    BY <2>1
<1> HIDE DEF todo
<1>3. \A e, E : [[pc |-> "idle", todo |-> {}, notice |-> e] EXCEPT !.pc = "match", !.todo = todo]
                  \in [pc : PassPCs, todo : SUBSET (Nat \X Nat), notice : E \cup {e}]
  BY <1>2 DEF PassPCs
<1>4. pass' = [NoPass EXCEPT !.pc = "match", !.todo = todo]
  BY DEF BeginPass, todo
<1>5. pass' \in [pc : PassPCs, todo : SUBSET (Nat \X Nat), notice : Notice \cup {<<>>}]
  BY <1>3, <1>4, Zenon DEF NoPass
<1>6. pass'.pc = "match" /\ pass.pc = "due"
  BY <1>4 DEF NoPass, BeginPass
<1>7. PassType'
  BY <1>5, <1>6 DEF PassType
<1>8. NoticeInv'
  BY <1>1, <1>6, SentKept DEF NoticeInv, BeginPass
<1>. QED
  BY <1>1, <1>7, <1>8, PassStep DEF BeginPass, TypeOK

\* What a row is about to be sent is the notice of a rule that matches today.
LEMMA NoticeOfToday ==
  ASSUME TypeOK, PassType, NoticeInv, pass.pc = "match",
         NEW id, NEW end, <<id, end>> \in pass.todo, NEW n \in Unsent(id, end)
  PROVE  n \in Notice /\ n \notin ledger /\ n.id = id /\ n.end = end /\ Matches(n, Today)
<1>1. id \in Nat /\ end \in Nat /\ now \in Nat
  <2>1. pass.todo \subseteq Nat \X Nat
    BY DEF PassType
  <2>. QED
    BY <2>1 DEF TypeOK
<1>2. PICK o \in Offsets : n = [id |-> id, end |-> end, offset |-> o] /\ o = (end - now) \div Day
  BY DEF Unsent, MatchRule
<1>3. n \in Notice /\ n.id = id /\ n.end = end /\ n.offset = (end - now) \div Day
  BY <1>1, <1>2 DEF Notice
<1>4. n.offset \in Int
  BY <1>2, SubscriptionsAssumption
<1>5. Matches(n, Today)
  BY <1>1, <1>3, <1>4, TurnOfToday DEF NoticeInv
<1>. QED
  BY <1>3, <1>5 DEF Unsent

LEMMA MatchInv ==
  ASSUME IInv, NEW id, NEW end, Match(id, end)
  PROVE  IInv'
<1>1. TypeOK /\ PassType /\ NoticeInv
  BY DEF IInv
<1>2. pass \in [pc : PassPCs, todo : SUBSET (Nat \X Nat), notice : Notice \cup {<<>>}] /\ pass.pc = "match"
  BY <1>1 DEF PassType, Match
<1>3. CASE Unsent(id, end) = {}
  <2>1. pass' = [pass EXCEPT !.todo = pass.todo \ {<<id, end>>}]
    BY <1>2, <1>3 DEF Match
  <2>2. /\ pass' \in [pc : PassPCs, todo : SUBSET (Nat \X Nat), notice : Notice \cup {<<>>}]
        /\ pass'.pc = "match" /\ pass'.todo \subseteq pass.todo
    BY <1>2, <2>1
  <2>3. PassType'
    BY <2>2 DEF PassType
  <2>4. \A n : Ahead(n)' => Ahead(n)
    BY <2>2 DEF Ahead
  <2>5. NoticeInv'
    BY <1>1, <1>2, <2>2, <2>4, SentKept DEF NoticeInv, Match
  <2>. QED
    BY <1>1, <2>3, <2>5, PassStep DEF Match, TypeOK
<1>4. CASE Unsent(id, end) # {}
  <2>1. PICK n \in Unsent(id, end) : pass' = [pc |-> "deliver", todo |-> pass.todo \ {<<id, end>>}, notice |-> n]
    <3>1. (CHOOSE n \in Unsent(id, end) : TRUE) \in Unsent(id, end)
      BY <1>4
    <3>. QED
      BY <1>4, <3>1 DEF Match
  <2>2. n \in Notice /\ n \notin ledger /\ n.id = id /\ n.end = end /\ Matches(n, Today)
    BY <1>1, <1>2, NoticeOfToday DEF Match
  <2>3. /\ pass' \in [pc : PassPCs, todo : SUBSET (Nat \X Nat), notice : Notice \cup {<<>>}]
        /\ pass'.pc = "deliver" /\ pass'.notice = n
        /\ pass'.todo \subseteq pass.todo /\ <<id, end>> \notin pass'.todo
    BY <1>2, <2>1, <2>2 DEF PassPCs
  <2>4. PassType'
    BY <2>2, <2>3 DEF PassType
  <2>5. \A m : Ahead(m)' => Ahead(m)
    BY <2>2, <2>3 DEF Ahead, Match
  <2>6. Matches(pass.notice, Today)'
    BY <2>2, <2>3 DEF Matches, DayOf, Today, Match
  <2>7. NoticeInv'
    BY <1>1, <1>2, <2>2, <2>3, <2>5, <2>6, SentKept DEF NoticeInv, Match
  <2>. QED
    BY <1>1, <2>4, <2>7, PassStep DEF Match, TypeOK
<1>. QED
  BY <1>3, <1>4

LEMMA DeliverInv ==
  ASSUME IInv, Deliver
  PROVE  IInv'
<1>0. PICK n : n = pass.notice
  OBVIOUS
<1>1. TypeOK /\ PassType /\ NoticeInv
  BY DEF IInv
<1>2. /\ n \in Notice /\ n \notin ledger /\ Matches(n, Today) /\ Ahead(n)
      /\ <<n.id, n.end>> \notin pass.todo /\ now \in Nat /\ pass.pc = "deliver"
  BY <1>0, <1>1 DEF PassType, NoticeInv, Deliver, TypeOK, Ahead
<1>3. /\ DOMAIN told' = DOMAIN told \cup {n} /\ now' = now /\ ledger' = ledger
      /\ \A m \in DOMAIN told \ {n} : told'[m] = told[m]
      /\ told'[n] = (IF n \in DOMAIN told THEN told[n] ELSE 0) + 1
      /\ lost \subseteq lost' /\ lost' \subseteq DOMAIN told'
  <2>1. told' = [m \in DOMAIN told \cup {n} |-> Count(m) + (IF m = n THEN 1 ELSE 0)]
    BY <1>0 DEF Deliver, Told
  <2>2. \A m \in DOMAIN told : told[m] \in {1, 2}
    BY <1>1 DEF NoticeInv, SentOnce, SentTwice
  <2>3. /\ DOMAIN told' = DOMAIN told \cup {n}
        /\ \A m \in DOMAIN told \ {n} : told'[m] = Count(m) + 0
        /\ told'[n] = Count(n) + 1
    BY <2>1
  <2>4. \A m \in DOMAIN told \ {n} : told'[m] = told[m]
    BY <2>2, <2>3 DEF Count
  <2>5. lost \subseteq lost' /\ lost' \subseteq DOMAIN told' /\ now' = now /\ ledger' = ledger
    BY <1>0, <1>1, <2>3 DEF Deliver, TypeOK
  <2>. QED
    BY <2>3, <2>4, <2>5 DEF Count
<1>4. /\ pass' \in [pc : PassPCs, todo : SUBSET (Nat \X Nat), notice : Notice \cup {<<>>}]
      /\ pass'.pc \in {"record", "idle"} /\ pass'.todo \subseteq pass.todo
      /\ pass'.pc = "idle" => pass'.todo = {}
      /\ pass'.pc = "record" => pass'.notice = n
      /\ pass'.pc = "record" \/ n \in lost'
  <2>1. CASE pass' = [pass EXCEPT !.pc = "record"]
    BY <1>0, <1>1, <2>1 DEF PassType, PassPCs
  <2>2. CASE pass' = NoPass /\ n \in lost'
    BY <2>2, NoPassType
  <2>. QED
    BY <1>0, <2>1, <2>2 DEF Deliver, Abort
<1>5. PassType'
  BY <1>2, <1>3, <1>4 DEF PassType
<1>6. \A m, day : SentOn(m, day) => SentOn(m, day)'
  BY <1>3, <1>4 DEF SentOn, Matches, DayOf, Ahead, Today
<1>7. ASSUME NEW m \in DOMAIN told \ {n}
      PROVE  SentOnce(m)' \/ SentTwice(m)'
  BY <1>1, <1>3, <1>6 DEF NoticeInv, SentOnce, SentTwice, DayOf
<1>8. SentOn(n, Today)'
  <2>1. Today \in Nat /\ Today' = Today
    BY <1>2, <1>3, TodayType DEF Today
  <2>2. ~Ahead(n)' /\ Matches(n, Today)'
    BY <1>2, <1>3, <1>4, <2>1 DEF Ahead, Matches, DayOf, Today
  <2>. QED
    BY <2>1, <2>2 DEF SentOn
<1>9. SentOnce(n)' \/ SentTwice(n)'
  <2>0. Today \in Int /\ Today' = Today /\ DayOf(n) \in Int
    <3>1. n.end \in Nat /\ n.offset \in Int /\ Day \in Nat /\ Day > 0
      BY <1>2, DayType, SubscriptionsAssumption DEF Notice
    <3>. QED
      BY <1>2, <1>3, <3>1, TodayType DEF Today, DayOf
  <2>1. CASE n \notin DOMAIN told
    BY <1>3, <1>8, <2>0, <2>1 DEF SentOnce
  <2>2. CASE n \in DOMAIN told /\ SentOnce(n)
    <3>1. PICK day \in Int : SentOn(n, day)
      BY <2>2 DEF SentOnce
    <3>2. day < Today
      BY <1>2, <2>0, <3>1 DEF SentOn
    <3>3. Today = DayOf(n) /\ n.end % Day < Drift
      BY <1>2, <2>0, <3>1, <3>2 DEF SentOn, Matches
    <3>4. n \in lost
      BY <1>1, <1>2, <2>2 DEF NoticeInv
    <3>. QED
      BY <1>3, <1>8, <2>0, <2>2, <3>3, <3>4 DEF SentOnce, SentTwice, DayOf
  <2>3. CASE n \in DOMAIN told /\ SentTwice(n)
    <3>1. DayOf(n) < Today
      BY <1>2, <2>0, <2>3 DEF SentTwice, SentOn
    <3>. QED
      BY <1>2, <2>0, <3>1 DEF Matches
  <2>. QED
    BY <1>1, <2>1, <2>2, <2>3 DEF NoticeInv
<1>10. NoticeInv'
  BY <1>1, <1>2, <1>3, <1>4, <1>7, <1>9 DEF NoticeInv
<1>11. ledger' \subseteq DOMAIN told' /\ DOMAIN told' \subseteq Notice /\ missed' \subseteq Nat
  BY <1>1, <1>2, <1>3, TodayType DEF TypeOK, Deliver, Abort
<1>. QED
  BY <1>3, <1>5, <1>10, <1>11, PassStep DEF Deliver

LEMMA RecordSentInv ==
  ASSUME IInv, RecordSent
  PROVE  IInv'
<1>1. TypeOK /\ PassType /\ NoticeInv
  BY DEF IInv
<1>2. /\ pass' \in [pc : PassPCs, todo : SUBSET (Nat \X Nat), notice : Notice \cup {<<>>}]
      /\ pass'.pc = "match" /\ pass'.todo = pass.todo
  <2>1. \A e, E : pass \in [pc : PassPCs, todo : SUBSET (Nat \X Nat), notice : E \cup {e}] =>
          [pass EXCEPT !.pc = "match", !.notice = e] \in [pc : PassPCs, todo : SUBSET (Nat \X Nat), notice : E \cup {e}]
    BY DEF PassPCs
  <2>2. pass' = [pass EXCEPT !.pc = "match", !.notice = <<>>]
    BY DEF RecordSent
  <2>3. pass' \in [pc : PassPCs, todo : SUBSET (Nat \X Nat), notice : Notice \cup {<<>>}]
    BY <1>1, <2>1, <2>2, Zenon DEF PassType
  <2>4. pass'.pc = "match" /\ pass'.todo = pass.todo
    BY <1>1, <2>2 DEF PassType
  <2>. QED
    BY <2>3, <2>4
<1>3. PassType'
  BY <1>2 DEF PassType
<1>4. \A n : Ahead(n)' => Ahead(n)
  BY <1>2 DEF Ahead
<1>5. /\ ledger \subseteq ledger' /\ lost \subseteq lost' /\ pass.notice \in ledger' \cup lost'
      /\ ledger' \subseteq ledger \cup {pass.notice} /\ lost' \subseteq lost \cup {pass.notice}
  BY DEF RecordSent
<1>6. NoticeInv'
  BY <1>1, <1>2, <1>4, <1>5, SentKept DEF NoticeInv, RecordSent
<1>7. ledger' \subseteq DOMAIN told' /\ lost' \subseteq DOMAIN told'
  BY <1>1, <1>5 DEF TypeOK, PassType, RecordSent
<1>. QED
  BY <1>1, <1>3, <1>6, <1>7, PassStep DEF RecordSent, TypeOK

LEMMA EndPassInv ==
  ASSUME IInv, EndPass
  PROVE  IInv'
<1>1. TypeOK /\ PassType /\ NoticeInv
  BY DEF IInv
<1>2. PassType' /\ NoticeInv'
  BY <1>1, PassOver DEF EndPass, TypeOK
<1>. QED
  BY <1>1, <1>2, PassStep DEF EndPass, TypeOK

LEMMA CrashInv ==
  ASSUME IInv, Crash
  PROVE  IInv'
<1>1. TypeOK /\ PaidInv /\ OneRow /\ PassType /\ NoticeInv
  BY DEF IInv
<1>2. PassType' /\ NoticeInv'
  BY <1>1, PassOver DEF Crash, Abort
<1>3. job' \in [Slots -> Job] /\ Busy' = {}
  BY NoJobType DEF Crash, Busy, At, NoJob
<1>4. TypeOK'
  <2>1. pass'.pc \in PassPCs /\ pass'.todo \subseteq Nat \X Nat
    BY <1>2 DEF PassType
  <2>2. missed' \subseteq Nat
    BY <1>1, TodayType DEF TypeOK, Crash, Abort
  <2>3. lost' \subseteq DOMAIN told'
    BY <1>1 DEF TypeOK, PassType, Crash
  <2>. QED
    BY <1>1, <1>3, <2>1, <2>2, <2>3 DEF TypeOK, Crash
<1>5. PaidInv' /\ OneRow'
  BY <1>1, <1>3 DEF PaidInv, ActiveWasPaid, OneRow, Latest, Crash
<1>. QED
  BY <1>2, <1>4, <1>5 DEF IInv

\* A tick begins a day or goes on with the one there is.
LEMMA NextTick ==
  ASSUME now \in Nat, now' = now + 1
  PROVE  /\ now' \in Nat
         /\ now' % Day = 0 => Today' = Today + 1 /\ now % Day = Day - 1
         /\ now' % Day # 0 => Today' = Today /\ now' % Day = (now % Day) + 1
<1>1. /\ Day \in Nat /\ Day > 0
      /\ now \div Day \in Int /\ now % Day \in 0 .. Day - 1 /\ now = Day * (now \div Day) + (now % Day)
  BY DayType, TodayType DEF Today
<1>2. PICK k \in Int, a \in 0 .. Day - 1 : k = now \div Day /\ a = now % Day /\ now = Day * k + a
  BY <1>1
<1>3. CASE a + 1 < Day
  <2>1. now' = Day * k + (a + 1) /\ a + 1 \in 0 .. Day - 1
    BY <1>1, <1>2, <1>3
  <2>2. now' \div Day = k /\ now' % Day = a + 1
    BY <1>1, <1>2, <2>1
  <2>. QED
    BY <1>1, <1>2, <2>2 DEF Today
<1>4. CASE a + 1 = Day
  <2>1. now' = Day * (k + 1)
    <3>1. Day * (k + 1) = Day * k + Day
      BY <1>1, <1>2
    <3>. QED
      BY <1>1, <1>2, <1>4, <3>1
  <2>2. now' \div Day = k + 1 /\ now' % Day = 0
    BY <1>1, <1>2, <2>1
  <2>. QED
    BY <1>1, <1>2, <2>2 DEF Today
<1>. QED
  BY <1>1, <1>2, <1>3, <1>4

LEMMA TickInv ==
  ASSUME IInv, Tick
  PROVE  IInv'
<1>1. TypeOK /\ PaidInv /\ OneRow /\ PassType /\ NoticeInv
  BY DEF IInv
<1>2. now \in Nat /\ now' = now + 1 /\ Today \in Nat
  BY <1>1, TodayType DEF TypeOK, Tick
<1>3. ASSUME now' % Day = 0
      PROVE  PassType' /\ NoticeInv' /\ now' \in Nat
  <2>1. Today' = Today + 1 /\ now' \in Nat /\ now % Day = Day - 1
    BY <1>2, <1>3, NextTick
  <2>2. pass' = [NoPass EXCEPT !.pc = "due"]
    BY <1>3 DEF Tick
  <2>3. /\ pass' \in [pc : PassPCs, todo : SUBSET (Nat \X Nat), notice : Notice \cup {<<>>}]
        /\ pass'.pc = "due"
    <3>1. \A P : P \in [pc : PassPCs, todo : SUBSET (Nat \X Nat), notice : Notice \cup {<<>>}] =>
            /\ [P EXCEPT !.pc = "due"] \in [pc : PassPCs, todo : SUBSET (Nat \X Nat), notice : Notice \cup {<<>>}]
            /\ [P EXCEPT !.pc = "due"].pc = "due"
      BY DEF PassPCs
    <3>. QED
      BY <2>2, <3>1, NoPassType, Zenon
  <2>4. PassType'
    BY <2>3 DEF PassType
  <2>5. pass = NoPass
    <3>1. CASE pass # NoPass
      <4>1. now % Day < Drift
        BY <3>1 DEF Tick
      <4>. QED
        BY <2>1, <4>1, DayType
    <3>. QED
      BY <3>1
  <2>6. pass.pc = "idle"
    BY <2>5, NoPassType
  <2>7. \A n, day : SentOn(n, day) => SentOn(n, day)'
    BY <1>2, <2>1 DEF SentOn, Matches, DayOf
  <2>8. \A n \in DOMAIN told : SentOnce(n)' \/ SentTwice(n)'
    BY <1>1, <2>7 DEF NoticeInv, SentOnce, SentTwice, DayOf, Tick
  <2>9. NoticeInv'
    BY <1>1, <1>3, <2>3, <2>6, <2>8, DayType DEF NoticeInv, Tick
  <2>. QED
    BY <2>1, <2>4, <2>9
<1>4. ASSUME now' % Day # 0
      PROVE  PassType' /\ NoticeInv' /\ now' \in Nat
  <2>1. Today' = Today /\ now' % Day = (now % Day) + 1 /\ now' \in Nat
    BY <1>2, <1>4, NextTick
  <2>2. pass' = pass
    BY <1>4 DEF Tick
  <2>3. PassType'
    BY <1>1, <2>2 DEF PassType, Tick
  <2>4. pass.pc # "idle" => now' % Day <= Drift
    <3>1. pass.pc # "idle" => now % Day < Drift
      BY NoPassType DEF Tick
    <3>2. now % Day \in 0 .. Day - 1
      BY <1>2, TodayType
    <3>3. \A a \in 0 .. Day - 1 : a < Drift => a + 1 <= Drift
      BY DayType
    <3>. QED
      BY <2>1, <3>1, <3>2, <3>3
  <2>5. \A n, day : SentOn(n, day) => SentOn(n, day)'
    BY <2>1, <2>2 DEF SentOn, Matches, DayOf, Ahead
  <2>6. \A n \in DOMAIN told : SentOnce(n)' \/ SentTwice(n)'
    BY <1>1, <2>5 DEF NoticeInv, SentOnce, SentTwice, DayOf, Tick
  <2>7. NoticeInv'
    BY <1>1, <2>1, <2>2, <2>4, <2>6 DEF NoticeInv, Matches, DayOf, Tick
  <2>. QED
    BY <2>1, <2>3, <2>7
<1>5. PassType' /\ NoticeInv' /\ now' \in Nat
  BY <1>3, <1>4
<1>6. TypeOK'
  <2>1. pass'.pc \in PassPCs /\ pass'.todo \subseteq Nat \X Nat
    BY <1>5 DEF PassType
  <2>2. Busy' = Busy
    BY DEF Tick, Busy, At
  <2>. QED
    BY <1>1, <1>5, <2>1, <2>2 DEF TypeOK, Tick, At
<1>7. PaidInv' /\ OneRow'
  BY <1>1, RowsKept DEF Tick
<1>. QED
  BY <1>5, <1>6, <1>7 DEF IInv
-----------------------------------------------------------------------------
LEMMA InitInv ==
  ASSUME Init
  PROVE  IInv
<1>1. job \in [Slots -> Job] /\ Busy = {}
  BY NoJobType DEF Init, Busy, At, NoJob
<1>2. /\ pass \in [pc : PassPCs, todo : SUBSET (Nat \X Nat), notice : Notice \cup {<<>>}]
      /\ pass.pc = "idle" /\ pass.todo = {}
  <2>1. \A e, E : [pc |-> "idle", todo |-> {}, notice |-> e]
                    \in [pc : PassPCs, todo : SUBSET (Nat \X Nat), notice : E \cup {e}]
    BY DEF PassPCs
  <2>2. pass = NoPass
    BY DEF Init
  <2>3. pass \in [pc : PassPCs, todo : SUBSET (Nat \X Nat), notice : Notice \cup {<<>>}]
    BY <2>1, <2>2, Zenon DEF NoPass
  <2>. QED
    BY <2>2, <2>3 DEF NoPass
<1>3. PassType
  BY <1>2 DEF PassType
<1>4. DOMAIN told = {} /\ rows = <<>> /\ DOMAIN rows = {}
  BY DEF Init
<1>5. TypeOK
  <2>1. rows \in Seq(Row) /\ since \in Seq(Nat) /\ Len(rows) = 0 /\ Len(since) = 0
    BY DEF Init
  <2>. QED
    BY <1>1, <1>2, <1>4, <2>1, SubscriptionsAssumption DEF Init, TypeOK, Contracts
<1>6. PaidInv /\ OneRow
  BY <1>1, <1>4 DEF PaidInv, ActiveWasPaid, OneRow
<1>7. NoticeInv
  BY <1>2, <1>4 DEF NoticeInv
<1>. QED
  BY <1>3, <1>5, <1>6, <1>7 DEF IInv

LEMMA StutteringInv ==
  ASSUME IInv, UNCHANGED vars
  PROVE  IInv'
<1>1. TypeOK /\ PaidInv /\ OneRow /\ PassType /\ NoticeInv
  BY DEF IInv
<1>2. PaidInv' /\ OneRow' /\ PassType' /\ NoticeInv' /\ Busy' = Busy
  BY <1>1, RowsKept, NoticeKept DEF vars, Busy, At
<1>3. TypeOK'
  BY <1>1, <1>2 DEF TypeOK, vars, At
<1>. QED
  BY <1>2, <1>3 DEF IInv

LEMMA NextInv ==
  ASSUME IInv, Next
  PROVE  IInv'
<1>1. ASSUME NEW s \in Slots,
             \/ \E plan \in Plans : Subscribe(s, plan)
             \/ Cancel(s)
             \/ \E plan \in Plans, card \in BOOLEAN : UpsertPending(s, plan, card)
             \/ \E id \in orders : PayseraCallback(s, id)
             \/ \E id \in DOMAIN rows, plan, kept \in Plans : MarkPaid(s, id, plan, kept)
             \/ \E id \in DOMAIN rows, plan \in Plans, days \in {0, 1} : AdminUpdate(s, id, plan, days)
             \/ Insert(s) \/ Diff(s) \/ Update(s)
      PROVE  IInv'
  BY <1>1, SubscribeInv, CancelInv, UpsertPendingInv, PayseraCallbackInv, MarkPaidInv, AdminUpdateInv,
     InsertInv, DiffInv, UpdateInv
<1>2. CASE \E c \in Contracts : SetContract(c)
  BY <1>2, SetContractInv
<1>3. CASE BeginPass \/ (\E item \in pass.todo : Match(item[1], item[2])) \/ Deliver \/ RecordSent \/ EndPass
  BY <1>3, BeginPassInv, MatchInv, DeliverInv, RecordSentInv, EndPassInv
<1>4. CASE Crash \/ Tick
  BY <1>4, CrashInv, TickInv
<1>. QED
  BY <1>1, <1>2, <1>3, <1>4 DEF Next

\* Rows, handlers, the pass and its ledger are an invariant.
THEOREM SubscriptionsInvariance == Spec => []IInv
<1>1. IInv /\ [Next]_vars => IInv'
  BY NextInv, StutteringInv
<1>. QED
  BY InitInv, <1>1, PTL DEF Spec

\* Every variable holds a value of its type.
THEOREM SubscriptionsTypes == Spec => []TypeOK
<1>1. IInv => TypeOK
  BY DEF IInv
<1>. QED
  BY SubscriptionsInvariance, <1>1, PTL

\* A row is active only if Paysera or an administrator found it paid, whatever stale
\* entity is saved over it, for any number of handlers, rows and plans.
THEOREM ActiveRowsWerePaid == Spec => []ActiveWasPaid
<1>1. IInv => ActiveWasPaid
  BY DEF IInv, PaidInv
<1>. QED
  BY SubscriptionsInvariance, <1>1, PTL

\* Whoever has a row that covers the present may work, unless calls overlapped or a
\* row already cancelled was paid.
THEOREM CoveredDriversMayWork == Spec => []CoveredMayWork
<1>1. ASSUME IInv
      PROVE  CoveredMayWork
  <2>1. SUFFICES ASSUME excuse = {}, NEW id \in DOMAIN rows, SubscriptionState(id) \in {"active", "grace"}
                 PROVE  MayWork
    BY DEF CoveredMayWork
  <2>2. rows[id].status # "cancelled"
    BY <2>1 DEF SubscriptionState
  <2>3. id = Latest
    BY <1>1, <2>1, <2>2 DEF IInv, OneRow
  <2>. QED
    BY <2>1, <2>3 DEF MayWork
<1>. QED
  BY SubscriptionsInvariance, <1>1, PTL

\* Although a pass may die between delivery and recordSent no reminder is sent twice: the
\* next pass is in the window of another rule, for any periods and rules and however
\* late in its pass a row has its turn, within Drift.  Only one that left no entry, for a
\* period that ends within Drift after nine, is sent again, once.
THEOREM NoticesAreSentOnce == Spec => []NoNoticeTwice
<1>1. IInv => NoNoticeTwice
  BY DEF IInv, NoticeInv, NoNoticeTwice, SentOnce, SentTwice
<1>. QED
  BY SubscriptionsInvariance, <1>1, PTL
-----------------------------------------------------------------------------
(***************************************************************************)
(* Every notice is sent.  A row that has not changed since before the day  *)
(* of a notice has had it, or has the pass of today still ahead, unless    *)
(* that pass failed.                                                       *)
(***************************************************************************)
NoticeOf(id, o) == [id |-> id, end |-> rows[id].end, offset |-> o]

\* The row is in the pass of the day, which is that of the notice.
Matched(id, o, day) ==
  /\ rows[id].status \in Charged /\ since[id] \div Day < day /\ day <= Today
  /\ day \notin missed
  /\ rows[id].end % Day >= Drift /\ day = rows[id].end \div Day - o

NoneForgotten ==
  \A id \in DOMAIN rows, o \in Offsets, day \in Int : Matched(id, o, day) =>
    NoticeOf(id, o) \in DOMAIN told \/ (day = Today /\ Ahead(NoticeOf(id, o)))

\* As long as the rows stay, what was ahead of the pass may only be delivered, or fail.
LEMMA NoneForgottenKept ==
  ASSUME NoneForgotten, UNCHANGED <<rows, since, now>>,
         missed \subseteq missed', DOMAIN told \subseteq DOMAIN told',
         \A id \in DOMAIN rows, o \in Offsets :
           Matched(id, o, Today) /\ Ahead(NoticeOf(id, o))
           => Ahead(NoticeOf(id, o))' \/ NoticeOf(id, o) \in DOMAIN told' \/ Today \in missed'
  PROVE  NoneForgotten'
<1> SUFFICES ASSUME NEW id \in DOMAIN rows, NEW o \in Offsets, NEW day \in Int, Matched(id, o, day)'
             PROVE  NoticeOf(id, o)' \in DOMAIN told' \/ (day = Today' /\ Ahead(NoticeOf(id, o))')
  BY DEF NoneForgotten
<1>1. Matched(id, o, day) /\ day \notin missed' /\ Today' = Today
  BY DEF Matched, Today
<1>2. NoticeOf(id, o)' = NoticeOf(id, o)
  BY DEF NoticeOf
<1>3. CASE NoticeOf(id, o) \in DOMAIN told
  BY <1>2, <1>3
<1>4. CASE day = Today /\ Ahead(NoticeOf(id, o))
  BY <1>1, <1>2, <1>4
<1>. QED
  BY <1>1, <1>3, <1>4 DEF NoneForgotten

\* Rows that change, or come, do so today: it is another day that the pass has them.
LEMMA RowsChange ==
  ASSUME TypeOK, NoneForgotten, UNCHANGED <<now, missed, told, pass>>,
         DOMAIN rows \subseteq DOMAIN rows',
         \A id \in DOMAIN rows' :
           \/ since'[id] = now
           \/ id \in DOMAIN rows /\ rows'[id] = rows[id] /\ since'[id] = since[id]
  PROVE  NoneForgotten'
<1> SUFFICES ASSUME NEW id \in DOMAIN rows', NEW o \in Offsets, NEW day \in Int, Matched(id, o, day)'
             PROVE  NoticeOf(id, o)' \in DOMAIN told' \/ (day = Today' /\ Ahead(NoticeOf(id, o))')
  BY DEF NoneForgotten
<1>0. Today' = Today
  BY DEF Today
<1>1. since'[id] # now
  <2>1. Today \in Nat /\ since'[id] \div Day < day /\ day <= Today
    BY <1>0, TodayType DEF Matched, TypeOK
  <2>. QED
    BY <2>1 DEF Today
<1>2. id \in DOMAIN rows /\ rows'[id] = rows[id] /\ since'[id] = since[id]
  BY <1>1
<1>3. Matched(id, o, day) /\ NoticeOf(id, o)' = NoticeOf(id, o)
  BY <1>0, <1>2 DEF Matched, NoticeOf
<1>4. Ahead(NoticeOf(id, o)) => Ahead(NoticeOf(id, o))'
  BY <1>3 DEF Ahead
<1>. QED
  BY <1>0, <1>2, <1>3, <1>4 DEF NoneForgotten

\* The rule that matches, when a row has its turn on the day of a notice.
LEMMA TurnMatches ==
  ASSUME IInv, NEW id \in DOMAIN rows, NEW o \in Offsets, Matched(id, o, Today), pass.pc = "match"
  PROVE  MatchRule(rows[id].end) = {o}
<1>1. TypeOK /\ NoticeInv
  BY DEF IInv
<1>2. /\ rows[id].end \in Nat /\ now \in Nat /\ now % Day <= Drift /\ o \in Int
      /\ Day \in Nat /\ Day > 0 /\ Drift \in Nat
  BY <1>1, Found, DayType, SubscriptionsAssumption DEF NoticeInv, TypeOK, Row
<1>3. /\ rows[id].end \div Day \in Int /\ rows[id].end % Day \in Int
      /\ now \div Day \in Int /\ now % Day \in Int
  BY <1>2
<1>4. ~(now % Day > rows[id].end % Day)
  BY <1>2, <1>3 DEF Matched
<1>5. (rows[id].end - now) \div Day = rows[id].end \div Day - now \div Day
  BY <1>2, <1>3, <1>4, DaysLeft
<1>6. o = (rows[id].end - now) \div Day
  BY <1>2, <1>3, <1>5 DEF Matched, Today
<1>. QED
  BY <1>6 DEF MatchRule

LEMMA PassKeeps ==
  ASSUME IInv, NoneForgotten,
         \/ BeginPass \/ (\E item \in pass.todo : Match(item[1], item[2]))
         \/ Deliver \/ RecordSent \/ EndPass \/ Crash
  PROVE  NoneForgotten'
<1>1. TypeOK /\ PassType /\ NoticeInv
  BY DEF IInv
<1>2. CASE BeginPass
  <2>1. pass'.todo = {<<id, rows[id].end>> : id \in {i \in DOMAIN rows : rows[i].status \in Charged}}
    BY <1>2 DEF BeginPass, NoPass
  <2>2. \A id \in DOMAIN rows, o \in Offsets :
          rows[id].status \in Charged => Ahead(NoticeOf(id, o))'
    BY <1>2, <2>1 DEF Ahead, NoticeOf, BeginPass
  <2>. QED
    BY <1>2, <2>2, NoneForgottenKept DEF BeginPass, Matched
<1>3. ASSUME NEW id, NEW end, Match(id, end)
      PROVE  NoneForgotten'
  <2>1. pass.pc = "match" /\ DOMAIN told' = DOMAIN told /\ missed' = missed
        /\ UNCHANGED <<rows, since, now>>
    BY <1>3 DEF Match
  <2>2. ASSUME NEW i \in DOMAIN rows, NEW o \in Offsets, Matched(i, o, Today),
               Ahead(NoticeOf(i, o))
        PROVE  Ahead(NoticeOf(i, o))' \/ NoticeOf(i, o) \in DOMAIN told
    <3>1. <<i, rows[i].end>> \in pass.todo
      BY <2>1, <2>2 DEF Ahead, NoticeOf
    <3>2. pass'.todo = pass.todo \ {<<id, end>>}
      BY <1>1, <1>3 DEF Match, PassType
    <3>3. CASE <<i, rows[i].end>> # <<id, end>>
      BY <2>1, <3>1, <3>2, <3>3 DEF Ahead, NoticeOf
    <3>4. CASE <<i, rows[i].end>> = <<id, end>>
      <4>0. MatchRule(end) = {o}
        BY <2>1, <2>2, <3>4, TurnMatches
      <4>1. {[id |-> id, end |-> end, offset |-> p] : p \in MatchRule(end)} = {NoticeOf(i, o)}
        BY <3>4, <4>0 DEF NoticeOf
      <4>2. CASE NoticeOf(i, o) \in ledger
        BY <1>1, <4>2 DEF TypeOK
      <4>3. CASE NoticeOf(i, o) \notin ledger
        <5>1. Unsent(id, end) = {NoticeOf(i, o)}
          BY <4>1, <4>3 DEF Unsent
        <5>2. (CHOOSE n \in Unsent(id, end) : TRUE) = NoticeOf(i, o)
          BY <5>1
        <5>3. pass'.pc = "deliver" /\ pass'.notice = NoticeOf(i, o)
          BY <1>3, <5>1, <5>2 DEF Match
        <5>4. NoticeOf(i, o)' = NoticeOf(i, o)
          BY <2>1 DEF NoticeOf
        <5>. QED
          BY <5>3, <5>4 DEF Ahead
      <4>. QED
        BY <4>2, <4>3
    <3>. QED
      BY <3>3, <3>4
  <2>. QED
    BY <2>1, <2>2, NoneForgottenKept
<1>4. CASE Deliver
  <2>1. /\ DOMAIN told' = DOMAIN told \cup {pass.notice}
        /\ UNCHANGED <<rows, since, now>> /\ missed \subseteq missed'
        /\ pass' = [pass EXCEPT !.pc = "record"] \/ Today \in missed'
    BY <1>4 DEF Deliver, Told, Abort
  <2>2. ASSUME NEW i \in DOMAIN rows, NEW o \in Offsets, Ahead(NoticeOf(i, o)), Today \notin missed'
        PROVE  Ahead(NoticeOf(i, o))' \/ NoticeOf(i, o) \in DOMAIN told'
    <3>1. pass'.todo = pass.todo /\ pass.pc = "deliver" /\ NoticeOf(i, o)' = NoticeOf(i, o)
      BY <1>1, <1>4, <2>1, <2>2 DEF PassType, Deliver, NoticeOf
    <3>. QED
      BY <2>1, <2>2, <3>1 DEF Ahead
  <2>. QED
    BY <2>1, <2>2, NoneForgottenKept
<1>5. CASE RecordSent
  <2>1. /\ DOMAIN told' = DOMAIN told /\ missed' = missed /\ UNCHANGED <<rows, since, now>>
        /\ pass'.todo = pass.todo /\ pass.pc = "record"
    BY <1>1, <1>5 DEF RecordSent, PassType
  <2>2. \A i \in DOMAIN rows, o \in Offsets : Ahead(NoticeOf(i, o)) => Ahead(NoticeOf(i, o))'
    BY <2>1 DEF Ahead, NoticeOf
  <2>. QED
    BY <2>1, <2>2, NoneForgottenKept
<1>6. CASE EndPass
  <2>1. \A n : ~Ahead(n)
    BY <1>6 DEF Ahead, EndPass
  <2>. QED
    BY <1>6, <2>1, NoneForgottenKept DEF EndPass
<1>7. CASE Crash
  BY <1>7, NoneForgottenKept DEF Crash, Abort
<1>8. CASE \E item \in pass.todo : Match(item[1], item[2])
  BY <1>3, <1>8
<1>. QED
  BY <1>2, <1>4, <1>5, <1>6, <1>7, <1>8

\* Time goes on: the pass of today stays ahead, or a day begins and its pass is due.
LEMMA TickKeeps ==
  ASSUME IInv, NoneForgotten, Tick
  PROVE  NoneForgotten'
<1> SUFFICES ASSUME NEW id \in DOMAIN rows, NEW o \in Offsets, NEW day \in Int, Matched(id, o, day)'
             PROVE  NoticeOf(id, o)' \in DOMAIN told' \/ (day = Today' /\ Ahead(NoticeOf(id, o))')
  BY DEF NoneForgotten, Tick
<1>1. now \in Nat /\ now' = now + 1 /\ UNCHANGED <<rows, since, missed, told>> /\ Today \in Nat
  BY TodayType DEF IInv, TypeOK, Tick
<1>2. NoticeOf(id, o)' = NoticeOf(id, o)
  BY <1>1 DEF NoticeOf
<1>3. CASE now' % Day # 0
  <2>1. Today' = Today /\ pass' = pass
    BY <1>1, <1>3, NextTick DEF Tick
  <2>2. Matched(id, o, day)
    BY <1>1, <2>1 DEF Matched
  <2>3. Ahead(NoticeOf(id, o)) => Ahead(NoticeOf(id, o))'
    BY <1>2, <2>1 DEF Ahead
  <2>. QED
    BY <1>1, <1>2, <2>1, <2>2, <2>3 DEF NoneForgotten
<1>4. CASE now' % Day = 0
  <2>1. Today' = Today + 1 /\ pass' = [NoPass EXCEPT !.pc = "due"]
    BY <1>1, <1>4, NextTick DEF Tick
  <2>2. CASE day = Today'
    <3>1. pass'.pc = "due"
      BY <2>1 DEF NoPass
    <3>. QED
      BY <2>2, <3>1 DEF Ahead
  <2>3. CASE day # Today'
    <3>1. day <= Today
      BY <1>1, <2>1, <2>3 DEF Matched
    <3>2. Matched(id, o, day)
      BY <1>1, <3>1 DEF Matched
    <3>3. ~Ahead(NoticeOf(id, o))
      <4>1. pass = NoPass
        <5>1. CASE now % Day < Drift
          <6>. QED
            BY <1>1, <1>4, <5>1, NextTick, DayType
        <5>. QED
          BY <5>1 DEF Tick
      <4>2. pass.pc = "idle" /\ pass.todo = {}
        BY <4>1, NoPassType
      <4>. QED
        BY <4>2 DEF Ahead
    <3>. QED
      BY <1>1, <1>2, <3>2, <3>3 DEF NoneForgotten
  <2>. QED
    BY <2>2, <2>3
<1>. QED
  BY <1>3, <1>4

LEMMA NoneForgottenNext ==
  ASSUME IInv, NoneForgotten, [Next]_vars
  PROVE  NoneForgotten'
<1>1. TypeOK
  BY DEF IInv
<1>2. ASSUME UNCHANGED <<now, rows, since, missed, told, pass>> PROVE NoneForgotten'
  BY <1>1, <1>2, RowsChange
<1>3. ASSUME NEW s \in Slots, Insert(s) PROVE NoneForgotten'
  <2>1. /\ rows' = Append(rows, job[s].entity) /\ since' = Append(since, now)
        /\ UNCHANGED <<now, missed, told, pass>>
    BY <1>3 DEF Insert
  <2>2. rows \in Seq(Row) /\ since \in Seq(Nat) /\ Len(since) = Len(rows) /\ now \in Nat
    BY <1>1 DEF TypeOK
  <2>3. DOMAIN rows = 1 .. Len(rows) /\ DOMAIN rows' = 1 .. Len(rows) + 1
    BY <2>1, <2>2
  <2>4. /\ since'[Len(rows) + 1] = now
        /\ \A id \in 1 .. Len(rows) : rows'[id] = rows[id] /\ since'[id] = since[id]
    BY <2>1, <2>2
  <2>. QED
    BY <1>1, <2>1, <2>2, <2>3, <2>4, RowsChange
<1>4. ASSUME NEW s \in Slots, Update(s) PROVE NoneForgotten'
  <2>1. UNCHANGED <<now, missed, told, pass>> /\ DOMAIN rows' = DOMAIN rows
    BY <1>4 DEF Update
  <2>2. rows \in Seq(Row) /\ since \in Seq(Nat) /\ Len(since) = Len(rows)
    BY <1>1 DEF TypeOK
  <2>3. DOMAIN since = DOMAIN rows
    BY <2>2
  <2>4. ASSUME NEW id \in DOMAIN rows
        PROVE  since'[id] = now \/ (rows'[id] = rows[id] /\ since'[id] = since[id])
    <3>1. CASE id # job[s].id
      BY <1>4, <2>3, <3>1 DEF Update
    <3>2. CASE id = job[s].id /\ job[s].cols # {}
      BY <1>4, <2>3, <3>2 DEF Update
    <3>3. CASE id = job[s].id /\ job[s].cols = {}
      <4>1. rows'[id] = [c \in DOMAIN rows[id] |-> rows[id][c]]
        BY <1>4, <3>3 DEF Update
      <4>2. rows[id] \in Row
        BY <2>2
      <4>3. rows'[id] = rows[id]
        BY <4>1, <4>2 DEF Row
      <4>. QED
        BY <1>4, <3>3, <4>3 DEF Update
    <3>. QED
      BY <3>1, <3>2, <3>3
  <2>. QED
    BY <1>1, <2>1, <2>4, RowsChange
<1>5. ASSUME NEW s \in Slots,
             \/ \E plan \in Plans : Subscribe(s, plan)
             \/ Cancel(s)
             \/ \E plan \in Plans, card \in BOOLEAN : UpsertPending(s, plan, card)
             \/ \E id \in orders : PayseraCallback(s, id)
             \/ \E id \in DOMAIN rows, plan, kept \in Plans : MarkPaid(s, id, plan, kept)
             \/ \E id \in DOMAIN rows, plan \in Plans, days \in {0, 1} : AdminUpdate(s, id, plan, days)
             \/ Diff(s)
      PROVE  NoneForgotten'
  BY <1>2, <1>5 DEF Subscribe, Cancel, UpsertPending, PayseraCallback, MarkPaid, AdminUpdate, Diff
<1>6. CASE (\E c \in Contracts : SetContract(c)) \/ UNCHANGED vars
  BY <1>2, <1>6 DEF SetContract, vars
<1>7. CASE Tick
  BY <1>7, TickKeeps
<1>. QED
  BY <1>3, <1>4, <1>5, <1>6, <1>7, PassKeeps DEF Next

\* After the pass of a day the clock shows another day, or there is no pass any more.
LEMMA PassIsOver ==
  ASSUME IInv, NEW day \in Int, now > day * Day + Drift
  PROVE  day <= Today /\ (day = Today => \A n : ~Ahead(n))
<1>1. /\ TypeOK /\ NoticeInv /\ now \in Nat /\ Today \in Nat
      /\ now % Day \in 0 .. Day - 1 /\ now = Day * Today + (now % Day)
      /\ Day \in Nat /\ Drift \in Nat
  BY TodayType, DayType DEF IInv, TypeOK
<1>2. day <= Today
  <2>1. SUFFICES ASSUME Today + 1 <= day PROVE FALSE
    BY <1>1
  <2>2. Day * (Today + 1) <= Day * day
    BY <1>1, <2>1, MulMono
  <2>3. Day * (Today + 1) = Day * Today + Day /\ day * Day = Day * day /\ Day * day \in Int /\ Day * Today \in Int
    BY <1>1
  <2>. QED
    BY <1>1, <2>2, <2>3
<1>3. ASSUME day = Today PROVE pass.pc = "idle" /\ pass.todo = {}
  <2>1. now % Day > Drift
    BY <1>1, <1>3
  <2>. QED
    BY <1>1, <2>1 DEF NoticeInv
<1>. QED
  BY <1>2, <1>3 DEF Ahead

\* RULES, matchRule: a row that kept its state from before the day of a notice until the
\* pass of that day was over has had the notice, unless the pass failed, for any rules and
\* any period that ends later after nine than a pass goes on.
THEOREM NoNoticeIsForgotten == Spec => []EveryNoticeIsSent
<1>1. ASSUME Init PROVE NoneForgotten
  <2>1. DOMAIN rows = {}
    BY <1>1 DEF Init
  <2>. QED
    BY <2>1 DEF NoneForgotten
<1>2. ASSUME IInv, NoneForgotten PROVE EveryNoticeIsSent
  <2> SUFFICES ASSUME NEW id \in DOMAIN rows, NEW o \in Offsets, NEW day,
                      day = rows[id].end \div Day - o,
                      rows[id].status \in Charged, rows[id].end % Day >= Drift,
                      since[id] \div Day < day, day \notin missed,
                      now > day * Day + Drift
               PROVE  NoticeOf(id, o) \in DOMAIN told
    BY DEF EveryNoticeIsSent, NoticeOf
  <2>1. day \in Int
    <3>1. rows[id].end \in Nat /\ o \in Int /\ Day \in Nat /\ Day > 0
      BY <1>2, Found, DayType, SubscriptionsAssumption DEF IInv, Row
    <3>. QED
      BY <3>1
  <2>2. day <= Today /\ (day = Today => \A n : ~Ahead(n))
    BY <1>2, <2>1, PassIsOver
  <2>3. Matched(id, o, day)
    BY <2>2 DEF Matched
  <2>. QED
    BY <1>2, <2>1, <2>2, <2>3 DEF NoneForgotten
<1>3. Init => IInv /\ NoneForgotten
  BY <1>1, InitInv
<1>4. IInv /\ NoneForgotten /\ [Next]_vars => IInv' /\ NoneForgotten'
  BY NextInv, StutteringInv, NoneForgottenNext
<1>. QED
  BY <1>2, <1>3, <1>4, PTL DEF Spec
=============================================================================
