------------------------ MODULE RideLifecycleProofs ------------------------
(***************************************************************************)
(* Proofs about RideLifecycle, for any number of clients, drivers, rides,  *)
(* requests and scheduler passes.                                          *)
(*                                                                         *)
(* The argument.  No handler ever writes "requested" over another status,  *)
(* so a ride can be claimed by an accept only once.  All the later writes  *)
(* are made from entities loaded earlier, so the inductive invariant says  *)
(* for the entity of every handler in progress what DriverWonTheRide says  *)
(* for the row: whatever is stale in it, its driver is nobody or the       *)
(* winner, and its status is one a ride has only after it was claimed.     *)
(***************************************************************************)
EXTENDS RideLifecycle, TLAPS

Taken == {"accepted", "driving_to_pickup", "in_progress", "completed"}

\* A row or an entity of ride r says nothing of a driver that did not happen.
Earned(e, r) ==
  /\ e.driver \in {None, winner[r]}
  /\ e.status \in Taken => winner[r] # None
  /\ e.accepted => winner[r] # None
  /\ e.fee => winner[r] # None

RowInv ==
  \A r \in Rides :
    /\ Earned(row[r], r)
    /\ row[r].status \in {"none", "requested"} => winner[r] = None
    /\ row[r].status # "none" => row[r].client # None
    /\ row[r].intent => row[r].status # "requested"

Loaded == {"dispatch", "check", "claim", "drop", "reoffer", "select", "update", "clear", "bind"}

JobInv(s) ==
  LET j == job[s] IN
  /\ j.pc = "insert" => j.actor \in Clients
  /\ j.pc = "insert" /\ j.target # "scheduled" => j.target \in Drivers
  /\ j.pc \in Loaded => j.ride \in Rides /\ row[j.ride].status # "none"
  /\ j.pc = "dispatch" => j.target \in Drivers
  /\ j.pc \in Loaded \ {"dispatch"} =>
       /\ Earned(j.ent, j.ride)
       /\ j.ent.client = row[j.ride].client
       /\ j.ent.intent => row[j.ride].status # "requested"
       /\ j.op \in DriverOps => j.actor \in Drivers
  /\ j.pc \in {"check", "claim"} => j.op \notin {"start", "editFare", "request"}
  /\ j.pc = "claim" => j.op \in ByClaim \cup {"accept"}
  /\ j.pc \in {"check", "claim"} /\ j.op = "accept" => j.ent.status = "requested"
  /\ j.pc = "claim" /\ j.op = "complete" => j.ent.status = "in_progress"
  /\ j.pc = "drop" => j.op = "decline"
  /\ j.pc = "reoffer" => j.op \in {"decline", "tick"}
  /\ j.pc \in {"select", "update"} =>
       /\ j.ent.status \notin {"none", "requested"}
       /\ row[j.ride].status = "requested" => j.ent.status = "cancelled"
       /\ j.op = "payByCard" => row[j.ride].status # "requested"
  /\ j.pc \in {"select", "update", "clear", "bind"} /\ j.op = "accept" =>
       winner[j.ride] = j.actor
  /\ j.op = "start" => j.pc # "clear"
  /\ j.pc = "bind" => j.op \in {"accept", "start"} /\ winner[j.ride] = j.actor
  /\ j.pc \in {"select", "update"} /\ j.op = "start" => winner[j.ride] = j.actor

IInv == TypeOK /\ RowInv /\ (\A s \in Slots : JobInv(s)) /\ BindingsFollowTheWinner
-----------------------------------------------------------------------------
(***************************************************************************)
(* The operators the handlers are built from.                              *)
(***************************************************************************)
\* Editing an entity gives an entity.
LEMMA EditedType ==
  ASSUME NEW op \in Ops, NEW e \in Row, NEW a, op = "accept" => a \in Drivers
  PROVE  Edited(op, e, a) \in Row
<1>1. ASSUME NEW st \in Statuses, NEW fee \in BOOLEAN
      PROVE  /\ [e EXCEPT !.status = st] \in Row /\ [e EXCEPT !.arrived = TRUE] \in Row
             /\ [e EXCEPT !.status = st, !.fee = fee] \in Row
             /\ [e EXCEPT !.intent = fee] \in Row
  BY DEF Row
<1>2. a \in Drivers => [e EXCEPT !.status = "accepted", !.driver = a, !.accepted = TRUE] \in Row
  BY DEF Row, Statuses
<1>3. {"driving_to_pickup", "in_progress", "completed", "cancelled"} \subseteq Statuses
  BY DEF Statuses
<1>4. e.fee \in BOOLEAN
  BY DEF Row
<1>5. CASE op \in {"accept", "enRoute", "arrived", "start", "complete", "editFare"}
  BY <1>1, <1>2, <1>3, <1>4, <1>5 DEF Edited
<1>6. CASE op \notin {"accept", "enRoute", "arrived", "start", "complete", "editFare"}
  BY <1>1, <1>3, <1>4, <1>6 DEF Edited, Cancelled
<1> QED BY <1>5, <1>6

\* The fee of a cancellation is decided by the entity alone.
LEMMA CancelledType ==
  ASSUME NEW e \in Row, NEW fee \in OwesFee(e)
  PROVE  Cancelled(e, fee) \in Row
BY DEF Cancelled, OwesFee, Row, Statuses

\* Saving some columns of an entity gives a row.
LEMMA MergeType ==
  ASSUME NEW cur \in Row, NEW e \in Row, NEW cols
  PROVE  Merge(cur, e, cols) \in Row
BY DEF Merge, Row, Columns

\* Each column of the saved row is the entity's or the row's own.
LEMMA MergeColumns ==
  ASSUME NEW cur \in Row, NEW e \in Row, NEW cols
  PROVE  LET m == Merge(cur, e, cols) IN
         /\ m.status = IF "status" \in cols THEN e.status ELSE cur.status
         /\ m.client = IF "client" \in cols THEN e.client ELSE cur.client
         /\ m.driver = IF "driver" \in cols THEN e.driver ELSE cur.driver
         /\ m.accepted = IF "accepted" \in cols THEN e.accepted ELSE cur.accepted
         /\ m.fee = IF "fee" \in cols THEN e.fee ELSE cur.fee
         /\ m.intent = IF "intent" \in cols THEN e.intent ELSE cur.intent
BY DEF Merge, Row, Columns

LEMMA NoRowType == NoRow \in Row
BY DEF NoRow, Row, Statuses

LEMMA NoJobType == NoJob \in Job
BY NoRowType DEF NoJob, Job, PCs

-----------------------------------------------------------------------------
(***************************************************************************)
(* Type correctness.                                                       *)
(***************************************************************************)
LEMMA InitType == Init => TypeOK
BY NoRowType, NoJobType, ConstantsAssumption DEF Init, TypeOK

-----------------------------------------------------------------------------
(***************************************************************************)
(* How the handlers move.                                                  *)
(***************************************************************************)
Others(s) == \A t \in Slots : t # s => job'[t] = job[t]

\* One handler's move leaves every other handler where it was.
LEMMA BecomeType ==
  ASSUME job \in [Slots -> Job], NEW s \in Slots, NEW j \in Job, Become(s, j)
  PROVE  job' \in [Slots -> Job] /\ job'[s] = j /\ Others(s)
BY DEF Become, Others

\* A handler that finishes leaves its slot empty.
LEMMA FinishType ==
  ASSUME job \in [Slots -> Job], NEW s \in Slots, Finish(s)
  PROVE  job' \in [Slots -> Job] /\ job'[s] = NoJob /\ Others(s)
BY NoJobType, BecomeType DEF Finish

\* Going on changes the program counter of the handler and nothing else.
LEMMA GotoType ==
  ASSUME job \in [Slots -> Job], NEW s \in Slots, NEW pc \in PCs, Goto(s, pc)
  PROVE  /\ job' \in [Slots -> Job]
         /\ job'[s] = [job[s] EXCEPT !.pc = pc]
         /\ Others(s)
<1>1. [job[s] EXCEPT !.pc = pc] \in Job
  BY DEF Job
<1> QED
  BY <1>1, BecomeType DEF Goto

\* Going on to save an entity changes the program counter and the entity.
LEMMA SaveType ==
  ASSUME job \in [Slots -> Job], NEW s \in Slots, NEW e \in Row, Save(s, e)
  PROVE  /\ job' \in [Slots -> Job]
         /\ job'[s] = [job[s] EXCEPT !.pc = "select", !.ent = e]
         /\ Others(s)
<1>1. "select" \in PCs
  BY DEF PCs
<1>2. [job[s] EXCEPT !.pc = "select", !.ent = e] \in Job
  BY <1>1 DEF Job
<1> QED
  BY <1>2, BecomeType DEF Save

\* Forgetting a key of a map of Redis, or none, leaves a map with that key empty.
LEMMA DropType ==
  ASSUME NEW S, NEW T, NEW f \in [S -> T \cup {None}], NEW key \in S \cup {None}
  PROVE  /\ Drop(f, key) \in [S -> T \cup {None}]
         /\ \A x \in S : Drop(f, key)[x] \in {None, f[x]}
BY DEF Drop

-----------------------------------------------------------------------------
(***************************************************************************)
(* What no step of the others can take away from a handler.                *)
(***************************************************************************)
Benign ==
  \A r \in Rides :
    /\ winner[r] # None => winner'[r] = winner[r]
    /\ row[r].status # "none" => row'[r].status # "none" /\ row'[r].client = row[r].client
    /\ row'[r].status = "requested" => row[r].status \in {"none", "requested"}

\* A handler that does not move keeps its invariant while the rows change benignly.
LEMMA JobKept ==
  ASSUME TypeOK, RowInv, Benign, NEW s \in Slots, JobInv(s), job'[s] = job[s]
  PROVE  JobInv(s)'
<1> DEFINE j == job[s]
<1>1. j \in Job
  BY DEF TypeOK
<1>2. CASE j.pc \notin Loaded
  BY <1>1, <1>2 DEF JobInv, Loaded, PCs
<1>3. CASE j.pc \in Loaded
  <2>1. j.ride \in Rides /\ row[j.ride].status # "none"
    BY <1>3 DEF JobInv
  <2>2. /\ row'[j.ride].status # "none"
        /\ row'[j.ride].client = row[j.ride].client
        /\ row'[j.ride].status = "requested" => row[j.ride].status = "requested"
        /\ winner[j.ride] # None => winner'[j.ride] = winner[j.ride]
    BY <2>1 DEF Benign
  <2>3. Earned(j.ent, j.ride) => Earned(j.ent, j.ride)'
    BY <2>2 DEF Earned
  <2>4. j.pc \in {"select", "update", "clear", "bind"} /\ j.op = "accept" => j.actor \in Drivers
    BY DEF JobInv, Loaded, DriverOps
  <2>5. j.pc \in {"select", "update", "bind"} /\ j.op = "start" => j.actor \in Drivers
    BY DEF JobInv, Loaded, DriverOps
  <2> QED
    BY <1>3, <2>1, <2>2, <2>3, <2>4, <2>5, ConstantsAssumption DEF JobInv, Earned
<1> QED
  BY <1>2, <1>3

\* The keys of Redis stay right while they and the winners do.
LEMMA BindingsKept ==
  ASSUME TypeOK, RowInv, Benign, BindingsFollowTheWinner,
         \A d \in Drivers : relay'[d] \in {None, relay[d]},
         \A c \in Clients : chat'[c] \in {None, chat[c]},
         \A d \in Drivers : track'[d] \in {None, track[d]}
  PROVE  BindingsFollowTheWinner'
<1>1. \A r \in Rides : winner[r] # None => winner'[r] = winner[r] /\ row'[r].client = row[r].client
  BY DEF Benign, RowInv
<1>2. ASSUME NEW d \in Drivers, relay'[d] # None
      PROVE  \E r \in Rides : winner'[r] = d /\ row'[r].client = relay'[d]
  BY <1>1, <1>2, ConstantsAssumption DEF BindingsFollowTheWinner
<1>3. ASSUME NEW c \in Clients, chat'[c] # None
      PROVE  \E r \in Rides : winner'[r] = chat'[c] /\ row'[r].client = c
  BY <1>1, <1>3, ConstantsAssumption DEF BindingsFollowTheWinner
<1>4. ASSUME NEW d \in Drivers, track'[d] # None
      PROVE  winner'[track'[d]] = d
  BY <1>1, <1>4, ConstantsAssumption DEF BindingsFollowTheWinner, TypeOK
<1> QED
  BY <1>2, <1>3, <1>4 DEF BindingsFollowTheWinner

\* A step that leaves the rows and the bindings alone keeps the invariant if it
\* keeps the types and that of the handler that moves.
LEMMA QuietStep ==
  ASSUME IInv, UNCHANGED <<row, relay, chat, track, history>>, TypeOK',
         NEW s \in Slots, Others(s), JobInv(s)'
  PROVE  IInv'
<1>1. Benign
  BY DEF Benign, history
<1>2. RowInv'
  BY DEF IInv, RowInv, Earned, history
<1>3. \A t \in Slots : JobInv(t)'
  BY <1>1, JobKept DEF IInv, Others
<1>4. BindingsFollowTheWinner'
  BY DEF IInv, BindingsFollowTheWinner, history
<1> QED
  BY <1>2, <1>3, <1>4 DEF IInv

\* A finished handler promises nothing.
LEMMA IdleInv ==
  ASSUME NEW s \in Slots, job'[s] = NoJob
  PROVE  JobInv(s)'
BY DEF NoJob, JobInv, Loaded

\* A handler about to save an entity in which all is earned keeps its invariant.
LEMMA SelectInv ==
  ASSUME NEW s \in Slots, job[s] \in Job, NEW e,
         job'[s] = [job[s] EXCEPT !.pc = "select", !.ent = e],
         job[s].ride \in Rides,
         row'[job[s].ride].status # "none",
         e.client = row'[job[s].ride].client,
         e.driver \in {None, winner'[job[s].ride]},
         e.status \in Taken \/ e.accepted \/ e.fee => winner'[job[s].ride] # None,
         e.status \notin {"none", "requested"},
         row'[job[s].ride].status = "requested" => e.status = "cancelled",
         job[s].op \notin {"start", "payByCard"},
         e.intent => row'[job[s].ride].status # "requested",
         job[s].op \in DriverOps => job[s].actor \in Drivers,
         job[s].op = "accept" => winner'[job[s].ride] = job[s].actor
  PROVE  JobInv(s)'
<1>1. /\ job'[s].pc = "select" /\ job'[s].ride = job[s].ride /\ job'[s].ent = e
      /\ job'[s].op = job[s].op /\ job'[s].actor = job[s].actor
  BY DEF Job
<1> QED
  BY <1>1 DEF JobInv, Earned

-----------------------------------------------------------------------------
(***************************************************************************)
(* Every action keeps the invariant.                                       *)
(***************************************************************************)
\* A request that found no active ride will insert one for its client.
LEMMA RequestCheckInv ==
  ASSUME IInv, NEW s \in Slots, NEW c \in Clients, RequestCheck(s, c)
  PROVE  IInv'
<1>1. PICK t \in Drivers \cup {"scheduled"} :
        Become(s, [NoJob EXCEPT !.op = "request", !.pc = "insert", !.actor = c, !.target = t])
  BY DEF RequestCheck
<1> DEFINE k == [NoJob EXCEPT !.op = "request", !.pc = "insert", !.actor = c, !.target = t]
<1>2. k \in Job
  BY NoRowType DEF NoJob, Job, PCs, Ops, Actors
<1>3. job' \in [Slots -> Job] /\ job'[s] = k /\ Others(s)
  BY <1>1, <1>2, BecomeType DEF IInv, TypeOK
<1>4. TypeOK'
  BY <1>3 DEF RequestCheck, IInv, TypeOK, store, history
<1>5. JobInv(s)'
  BY <1>3 DEF NoJob, JobInv, Loaded
<1> QED
  BY <1>3, <1>4, <1>5, QuietStep DEF RequestCheck, store

\* The new row belongs to the client who asked and to no driver.
LEMMA RequestInsertInv ==
  ASSUME IInv, NEW s \in Slots, RequestInsert(s)
  PROVE  IInv'
<1>1. PICK r \in Rides :
        /\ row[r].status = "none"
        /\ row' = [row EXCEPT ![r] = [NoRow EXCEPT !.status = "requested",
                     !.client = job[s].actor, !.scheduled = (job[s].target = "scheduled")]]
        /\ due' = [due EXCEPT ![r] = IF job[s].target = "scheduled" THEN "early" ELSE None]
        /\ IF job[s].target = "scheduled" THEN Finish(s)
           ELSE Become(s, [job[s] EXCEPT !.pc = "dispatch", !.ride = r])
  BY DEF RequestInsert
<1> DEFINE k == [job[s] EXCEPT !.pc = "dispatch", !.ride = r]
<1> DEFINE new == [NoRow EXCEPT !.status = "requested",
                     !.client = job[s].actor, !.scheduled = (job[s].target = "scheduled")]
<1>2. job[s] \in Job /\ job[s].actor \in Clients /\ (job[s].target # "scheduled" => job[s].target \in Drivers)
  BY DEF RequestInsert, At, IInv, TypeOK, JobInv
<1>3. k \in Job /\ k.pc = "dispatch" /\ k.ride = r /\ k.target = job[s].target /\ k.op = job[s].op
  <2>1. "dispatch" \in PCs
    BY DEF PCs
  <2> QED
    BY <1>2, <2>1 DEF Job
<1>4. new \in Row /\ new.status = "requested" /\ new.client = job[s].actor /\ new.driver = None
        /\ ~new.accepted /\ ~new.fee /\ ~new.intent
  BY <1>2 DEF NoRow, Row, Statuses
<1>5. job' \in [Slots -> Job] /\ Others(s) /\ job'[s] = IF job[s].target = "scheduled" THEN NoJob ELSE k
  BY <1>1, <1>3, BecomeType, FinishType DEF IInv, TypeOK
<1>6. row' = [row EXCEPT ![r] = new]
  BY <1>1
<1>7. row' \in [Rides -> Row] /\ row'[r] = new /\ \A q \in Rides : q # r => row'[q] = row[q]
  BY <1>4, <1>6 DEF IInv, TypeOK
<1>8. TypeOK'
  <2>1. due' \in [Rides -> Phases \cup {None}]
    BY <1>1 DEF IInv, TypeOK, Phases
  <2> QED
    BY <1>5, <1>7, <2>1 DEF IInv, TypeOK, RequestInsert, redis, history
<1>9. Benign
  BY <1>1, <1>7 DEF Benign, RequestInsert, history
<1>10. RowInv'
  <2>1. UNCHANGED <<winner, starts, completions>>
    BY DEF RequestInsert, history
  <2>2. winner[r] = None
    BY <1>1 DEF IInv, RowInv
  <2>3. new.client # None
    BY <1>2, <1>4, ConstantsAssumption
  <2> HIDE DEF new
  <2>4. ASSUME NEW q \in Rides PROVE  Earned(row[q], q)'
    <3>1. CASE q = r
      BY <3>1, <1>4, <1>7, <2>1, <2>2 DEF Earned, Taken
    <3>2. CASE q # r
      BY <3>2, <1>7, <2>1 DEF IInv, RowInv, Earned
    <3> QED
      BY <3>1, <3>2
  <2> QED
    BY <1>4, <1>7, <2>1, <2>2, <2>3, <2>4 DEF IInv, RowInv
<1>11. JobInv(s)'
  BY <1>1, <1>2, <1>3, <1>4, <1>5, <1>7, IdleInv DEF JobInv, Loaded
<1>12. \A t \in Slots : JobInv(t)'
  BY <1>5, <1>9, <1>11, JobKept DEF IInv, Others
<1>13. BindingsFollowTheWinner'
  BY <1>9, BindingsKept DEF IInv, RequestInsert, redis
<1> QED
  BY <1>8, <1>10, <1>12, <1>13 DEF IInv

\* The offer goes to the driver that was picked.
LEMMA DispatchInv ==
  ASSUME IInv, NEW s \in Slots, Dispatch(s)
  PROVE  IInv'
<1>1. job' \in [Slots -> Job] /\ job'[s] = NoJob /\ Others(s)
  BY FinishType DEF Dispatch, IInv, TypeOK
<1>2. job[s].target \in Drivers
  BY DEF Dispatch, At, IInv, JobInv
<1>3. TypeOK'
  BY <1>1, <1>2 DEF Dispatch, IInv, TypeOK, history
<1> QED
  BY <1>1, <1>3, IdleInv, QuietStep DEF Dispatch

\* What a handler's assignments make of each column.
LEMMA EditedColumns ==
  ASSUME NEW op \in Ops, NEW e \in Row, NEW a
  PROVE  /\ Edited(op, e, a).client = e.client
         /\ op = "accept" => Edited(op, e, a).driver = a /\ Edited(op, e, a).status = "accepted"
         /\ op # "accept" => /\ Edited(op, e, a).driver = e.driver
                             /\ Edited(op, e, a).accepted = e.accepted
         /\ op = "enRoute" => Edited(op, e, a).status = "driving_to_pickup"
         /\ op = "arrived" => Edited(op, e, a).status = e.status
         /\ op = "start" => Edited(op, e, a).status = "in_progress"
         /\ op \in {"complete", "editFare"} => Edited(op, e, a).status = "completed"
         /\ op \in {"payByCard"} \cup OtherOps =>
              Edited(op, e, a).status = e.status
         /\ op # "payByCard" => (Edited(op, e, a).intent => e.intent)
         /\ op \in {"cancelByDriver", "noShowByClient", "noShowByDriver", "decline", "tick"} =>
              Edited(op, e, a).status = "cancelled"
         /\ op # "noShowByDriver" => (Edited(op, e, a).fee => e.fee)
<1>1. CASE op = "accept"
  <2>1. Edited(op, e, a) = [e EXCEPT !.status = "accepted", !.driver = a, !.accepted = TRUE]
    BY <1>1 DEF Edited, Cancelled
  <2> QED
    BY <1>1, <2>1 DEF Row, OtherOps
<1>2. CASE op = "enRoute"
  <2>1. Edited(op, e, a) = [e EXCEPT !.status = "driving_to_pickup"]
    BY <1>2 DEF Edited, Cancelled
  <2> QED
    BY <1>2, <2>1 DEF Row, OtherOps
<1>3. CASE op = "arrived"
  <2>1. Edited(op, e, a) = [e EXCEPT !.arrived = TRUE]
    BY <1>3 DEF Edited, Cancelled
  <2> QED
    BY <1>3, <2>1 DEF Row, OtherOps
<1>4. CASE op = "start"
  <2>1. Edited(op, e, a) = [e EXCEPT !.status = "in_progress"]
    BY <1>4 DEF Edited, Cancelled
  <2> QED
    BY <1>4, <2>1 DEF Row, OtherOps
<1>5. CASE op \in {"complete", "editFare"}
  <2>1. Edited(op, e, a) = [e EXCEPT !.status = "completed"]
    BY <1>5 DEF Edited, Cancelled
  <2> QED
    BY <1>5, <2>1 DEF Row, OtherOps
<1>6. CASE op = "noShowByDriver"
  <2>1. Edited(op, e, a) = [e EXCEPT !.status = "cancelled", !.fee = TRUE]
    BY <1>6 DEF Edited, Cancelled
  <2> QED
    BY <1>6, <2>1 DEF Row, OtherOps
<1>7. CASE op \in {"noShowByClient", "cancelByDriver"}
  <2>1. Edited(op, e, a) = [e EXCEPT !.status = "cancelled", !.fee = FALSE]
    BY <1>7 DEF Edited, Cancelled
  <2> QED
    BY <1>7, <2>1 DEF Row, OtherOps
<1>8. CASE op \in {"decline", "tick"}
  <2>1. Edited(op, e, a) = [e EXCEPT !.status = "cancelled", !.fee = e.fee]
    BY <1>8 DEF Edited, Cancelled
  <2> QED
    BY <1>8, <2>1 DEF Row, OtherOps
<1>9. CASE op \in {"cancelByClient", "request", "settle"}
  <2>1. Edited(op, e, a) = e
    BY <1>9 DEF Edited, Cancelled
  <2> QED
    BY <1>9, <2>1 DEF Row, OtherOps
<1>10. CASE op \in {"payByCard", "paymentCanceled"}
  <2>1. PICK i \in BOOLEAN : Edited(op, e, a) = [e EXCEPT !.intent = i] /\ (i => op = "payByCard")
    BY <1>10 DEF Edited, Cancelled
  <2> QED
    BY <1>10, <2>1 DEF Row, OtherOps
<1> QED
  BY <1>1, <1>2, <1>3, <1>4, <1>5, <1>6, <1>7, <1>8, <1>9, <1>10 DEF Ops, ClientOps, DriverOps, OtherOps

\* A handler loads a row it may work on; what it makes of the entity is earned.
LEMMA LoadInv ==
  ASSUME IInv, NEW s \in Slots, NEW r \in Rides, NEW op \in ClientOps \cup DriverOps \cup OtherOps,
         NEW a \in Actors \cup {None}, op \in DriverOps => a \in Drivers, Load(s, op, r, a)
  PROVE  IInv'
<1> DEFINE pc == IF op \in ByOffer THEN "check" ELSE IF op \in ByClaim THEN "claim" ELSE "select"
<1> DEFINE e == IF pc = "select" THEN Edited(op, row[r], a) ELSE row[r]
<1> DEFINE k == [op |-> op, pc |-> pc, ride |-> r, actor |-> a, target |-> None,
                 late |-> FALSE, ent |-> e, dirty |-> {}]
<1>1. row[r] \in Row /\ op \in Ops
  BY DEF IInv, TypeOK, Ops
<1>2. e \in Row
  BY <1>1, EditedType DEF DriverOps
<1>3. pc \in PCs
  BY DEF PCs
<1> HIDE DEF e, pc
<1>4. k \in Job
  BY <1>1, <1>2, <1>3 DEF Job
<1>5. job' \in [Slots -> Job] /\ job'[s] = k /\ Others(s)
  BY <1>4, BecomeType DEF Load, Begin, IInv, TypeOK, e, pc
<1>6. TypeOK'
  BY <1>5 DEF Load, IInv, TypeOK, store, history
<1>7. UNCHANGED <<row, winner>> /\ row[r].status # "none" /\ MayLoad(op, row[r], a)
  BY DEF Load, store, history
<1>8. /\ Earned(row[r], r) /\ (row[r].status \in {"none", "requested"} => winner[r] = None)
      /\ row[r].intent => row[r].status # "requested"
  BY DEF IInv, RowInv
<1>9. /\ k.op = op /\ k.pc = pc /\ k.ride = r /\ k.actor = a /\ k.ent = e
  OBVIOUS
<1> HIDE DEF k
<1>10. JobInv(s)'
  <2>1. CASE op \in ByOffer \cup ByClaim
    <3>1. e = row[r] /\ pc \in {"check", "claim"} /\ (pc = "claim" <=> op \notin ByOffer)
      BY <2>1 DEF e, pc
    <3>2. /\ op \notin {"start", "editFare", "request"}
          /\ op = "complete" => row[r].status = "in_progress"
          /\ op = "accept" => row[r].status = "requested"
      BY <2>1, <1>7 DEF ByOffer, ByClaim, MayLoad, OtherOps
    <3>3. Earned(e, r)
      BY <1>7, <1>8, <3>1 DEF Earned
    <3> QED
      BY <2>1, <1>5, <1>7, <1>8, <1>9, <3>1, <3>2, <3>3 DEF JobInv, ByOffer, Earned
  <2>2. CASE op \notin ByOffer \cup ByClaim
    <3>1. pc = "select" /\ e = Edited(op, row[r], a)
      BY <2>2 DEF e, pc
    <3>2. op \in {"enRoute", "arrived", "start", "editFare", "noShowByDriver", "noShowByClient", "payByCard"} \cup OtherOps
      BY <2>2 DEF ByOffer, ByClaim, ClientOps, DriverOps
    <3>3. /\ e.client = row[r].client /\ e.driver = row[r].driver /\ e.accepted = row[r].accepted
          /\ e.status \notin {"none", "requested"}
          /\ op = "start" => e.status = "in_progress"
          /\ e.fee => row[r].fee \/ op = "noShowByDriver"
      <4>1. /\ e.client = row[r].client /\ e.driver = row[r].driver /\ e.accepted = row[r].accepted
            /\ e.fee => row[r].fee \/ op = "noShowByDriver"
        BY <1>1, <3>1, <3>2, EditedColumns DEF OtherOps
      <4>2. op = "arrived" => e.status = row[r].status /\ row[r].status \in {"accepted", "driving_to_pickup"}
        BY <1>1, <1>7, <3>1, <3>2, EditedColumns DEF MayLoad, OtherOps
      <4>3. op \in {"payByCard"} \cup OtherOps =>
              e.status = row[r].status /\ row[r].status \notin {"none", "requested"}
        <5>1. op = "payByCard" => row[r].status = "completed"
          BY <1>7 DEF MayLoad, OtherOps
        <5>2. op \in OtherOps => row[r].status # "requested"
          BY <1>7, <1>8 DEF MayLoad, OtherOps
        <5> QED
          BY <1>1, <1>7, <3>1, <5>1, <5>2, EditedColumns
      <4>4. /\ e.status \notin {"none", "requested"}
            /\ op = "start" => e.status = "in_progress"
        BY <1>1, <3>1, <3>2, <4>2, <4>3, EditedColumns
      <4> QED
        BY <4>1, <4>4
    <3>4. /\ row[r].status # "requested"
          /\ op \notin OtherOps => winner[r] # None
          /\ op = "start" => winner[r] = a
      BY <1>7, <1>8, <3>2, ConstantsAssumption DEF MayLoad, Taken, Earned, DriverOps, OtherOps
    <3>5. Earned(e, r)
      <4>1. CASE op \notin OtherOps
        BY <1>7, <1>8, <3>3, <3>4, <4>1 DEF Earned
      <4>2. CASE op \in OtherOps
        <5>1. e.status = row[r].status
          BY <1>1, <3>1, <4>2, EditedColumns
        <5> QED
          BY <1>8, <3>3, <4>2, <5>1 DEF Earned, OtherOps
      <4> QED
        BY <4>1, <4>2
    <3> QED
      <4>1. k.pc = "select" /\ op \notin {"accept", "complete", "decline", "tick"}
        BY <1>9, <3>1, <3>2 DEF OtherOps
      <4> QED
        BY <1>5, <1>7, <1>9, <3>3, <3>4, <3>5, <4>1 DEF JobInv, Earned
  <2> QED
    BY ONLY <2>1, <2>2
<1> QED
  BY <1>5, <1>6, <1>10, QuietStep DEF Load, store

\* A scheduler pass begins with the row as it is.
LEMMA TickLoadInv ==
  ASSUME IInv, NEW s \in Slots, NEW r \in Rides, TickLoad(s, r)
  PROVE  IInv'
<1> DEFINE k == [op |-> "tick", pc |-> "check", ride |-> r, actor |-> None, target |-> None,
                 late |-> (due[r] = "late"), ent |-> row[r], dirty |-> {}]
<1>1. /\ row[r] \in Row /\ row[r].status # "none" /\ Earned(row[r], r)
      /\ row[r].intent => row[r].status # "requested"
  BY DEF TickLoad, IInv, TypeOK, RowInv
<1>2. k \in Job
  BY <1>1 DEF Job, PCs, Ops
<1>3. Become(s, k)
  BY DEF TickLoad, Begin, ByOffer
<1>4. job' \in [Slots -> Job] /\ job'[s] = k /\ Others(s)
  BY <1>2, <1>3, BecomeType DEF IInv, TypeOK
<1>5. TypeOK'
  BY <1>4 DEF TickLoad, IInv, TypeOK, store, history
<1>6. k.op = "tick" /\ k.pc = "check" /\ k.ride = r /\ k.ent = row[r]
  OBVIOUS
<1> HIDE DEF k
<1>7. JobInv(s)'
  BY <1>1, <1>4, <1>6 DEF JobInv, Earned, TickLoad, store, history, DriverOps
<1> QED
  BY <1>4, <1>5, <1>7, QuietStep DEF TickLoad, store

\* A driver who is being asked goes on, another one is turned away.
LEMMA CheckOfferInv ==
  ASSUME IInv, NEW s \in Slots, CheckOffer(s)
  PROVE  IInv'
<1> DEFINE pc == IF job[s].op = "accept" THEN "claim" ELSE "drop"
<1>1. job[s] \in Job /\ pc \in PCs /\ job[s].pc = "check" /\ job[s].op \in {"accept", "decline"} /\ JobInv(s)
  BY DEF CheckOffer, At, IInv, TypeOK, PCs
<1>2. Finish(s) \/ Goto(s, pc)
  BY DEF CheckOffer
<1>3. job' \in [Slots -> Job] /\ Others(s) /\ job'[s] \in {NoJob, [job[s] EXCEPT !.pc = pc]}
  BY <1>1, <1>2, FinishType, GotoType DEF IInv, TypeOK
<1>4. TypeOK'
  BY <1>3 DEF CheckOffer, IInv, TypeOK, store, history
<1>5. JobInv(s)'
  <2>1. CASE job'[s] = NoJob
    BY <2>1, IdleInv
  <2>2. CASE job'[s] = [job[s] EXCEPT !.pc = pc]
    <3>1. /\ job'[s].pc = pc /\ job'[s].ride = job[s].ride /\ job'[s].ent = job[s].ent
          /\ job'[s].op = job[s].op /\ job'[s].actor = job[s].actor
      BY <1>1, <2>2 DEF Job
    <3>2. UNCHANGED <<row, winner>>
      BY DEF CheckOffer, store, history
    <3> QED
      BY <1>1, <3>1, <3>2 DEF JobInv, Earned, Loaded
  <2> QED
    BY <1>3, <2>1, <2>2
<1> QED
  BY <1>3, <1>4, <1>5, QuietStep DEF CheckOffer, store

\* The scheduler leaves an offered ride alone and gives up a late one.
LEMMA CheckNoOfferInv ==
  ASSUME IInv, NEW s \in Slots, CheckNoOffer(s)
  PROVE  IInv'
<1> DEFINE e == Edited("tick", job[s].ent, None)
<1>1. job[s] \in Job /\ job[s].pc = "check" /\ job[s].op = "tick" /\ JobInv(s)
  BY DEF CheckNoOffer, At, IInv, TypeOK
<1>2. e \in Row /\ e.status = "cancelled" /\ e.client = job[s].ent.client
        /\ e.driver = job[s].ent.driver /\ e.accepted = job[s].ent.accepted
        /\ (e.fee => job[s].ent.fee) /\ (e.intent => job[s].ent.intent)
  <2>1. job[s].ent \in Row /\ "tick" \in Ops
    BY <1>1 DEF Job, Ops, DriverOps
  <2> QED
    BY <2>1, EditedType, EditedColumns
<1>3. /\ job' \in [Slots -> Job] /\ Others(s)
      /\ job'[s] \in {NoJob, [job[s] EXCEPT !.pc = "reoffer"],
                       [job[s] EXCEPT !.pc = "select", !.ent = e]}
  <2>1. job \in [Slots -> Job] /\ "reoffer" \in PCs
    BY DEF IInv, TypeOK, PCs
  <2>2. Finish(s) \/ Goto(s, "reoffer") \/ Save(s, e)
    BY DEF CheckNoOffer
  <2> HIDE DEF e
  <2> QED
    BY <1>2, <2>1, <2>2, FinishType, GotoType, SaveType
<1>4. TypeOK'
  BY <1>3 DEF CheckNoOffer, IInv, TypeOK, store, history
<1>5. UNCHANGED <<row, winner>>
  BY DEF CheckNoOffer, store, history
<1> HIDE DEF e
<1>6. JobInv(s)'
  <2>1. CASE job'[s] = NoJob
    BY <2>1, IdleInv
  <2>2. CASE job'[s] = [job[s] EXCEPT !.pc = "reoffer"]
    BY <1>1, <1>5, <2>2 DEF JobInv, Earned, Loaded, Job
  <2>3. CASE job'[s] = [job[s] EXCEPT !.pc = "select", !.ent = e]
    <3>1. job[s].ride \in Rides /\ row[job[s].ride].status # "none"
            /\ job[s].ent.client = row[job[s].ride].client /\ Earned(job[s].ent, job[s].ride)
            /\ (job[s].ent.intent => row[job[s].ride].status # "requested")
      BY <1>1 DEF JobInv, Loaded
    <3>2. e.status \notin Taken /\ (e.accepted \/ e.fee => winner[job[s].ride] # None)
      BY <1>2, <3>1 DEF Earned, Taken
    <3> QED
      BY <1>1, <1>2, <1>5, <2>3, <3>1, <3>2, SelectInv DEF Earned, DriverOps
  <2> QED
    BY <1>3, <2>1, <2>2, <2>3
<1> QED
  BY <1>3, <1>4, <1>6, QuietStep DEF CheckNoOffer, store

\* A declined driver is remembered and the offer is gone, whoever holds it now.
LEMMA DropOfferInv ==
  ASSUME IInv, NEW s \in Slots, DropOffer(s)
  PROVE  IInv'
<1>1. job[s] \in Job /\ job[s].pc = "drop" /\ JobInv(s)
  BY DEF DropOffer, At, IInv, TypeOK
<1>2. job' \in [Slots -> Job] /\ Others(s) /\ job'[s] = [job[s] EXCEPT !.pc = "reoffer"]
  BY GotoType DEF DropOffer, IInv, TypeOK, PCs
<1>3. job[s].actor \in Drivers
  BY <1>1 DEF JobInv, Loaded, DriverOps
<1>4. TypeOK'
  BY <1>2, <1>3 DEF DropOffer, IInv, TypeOK, history
<1>5. UNCHANGED <<row, winner>>
  BY DEF DropOffer, history
<1>6. JobInv(s)'
  BY <1>1, <1>2, <1>5 DEF JobInv, Earned, Loaded, Job
<1> QED
  BY <1>2, <1>4, <1>6, QuietStep DEF DropOffer

\* The next driver is picked, the ride is left to the scheduler, or it is given up.
LEMMA ReofferInv ==
  ASSUME IInv, NEW s \in Slots, Reoffer(s)
  PROVE  IInv'
<1> DEFINE e == Edited("decline", job[s].ent, None)
<1>1. job[s] \in Job /\ job[s].pc = "reoffer" /\ JobInv(s)
  BY DEF Reoffer, At, IInv, TypeOK
<1>2. e \in Row /\ e.status = "cancelled" /\ e.client = job[s].ent.client
        /\ e.driver = job[s].ent.driver /\ e.accepted = job[s].ent.accepted
        /\ (e.fee => job[s].ent.fee) /\ (e.intent => job[s].ent.intent)
  <2>1. job[s].ent \in Row /\ "decline" \in Ops
    BY <1>1 DEF Job, Ops, DriverOps
  <2> QED
    BY <2>1, EditedType, EditedColumns
<1>3. UNCHANGED <<row, winner>>
  BY DEF Reoffer, store, history
<1>4. CASE \E d \in Drivers : Become(s, [job[s] EXCEPT !.pc = "dispatch", !.target = d])
  <2>1. PICK d \in Drivers : Become(s, [job[s] EXCEPT !.pc = "dispatch", !.target = d])
    BY <1>4
  <2> DEFINE k == [job[s] EXCEPT !.pc = "dispatch", !.target = d]
  <2>2. "dispatch" \in PCs
    BY DEF PCs
  <2>3. k \in Job /\ k.pc = "dispatch" /\ k.target = d /\ k.ride = job[s].ride /\ k.op = job[s].op
    BY <1>1, <2>2 DEF Job
  <2>4. job' \in [Slots -> Job] /\ job'[s] = k /\ Others(s)
    BY <2>1, <2>3, BecomeType DEF IInv, TypeOK
  <2>5. TypeOK'
    BY <2>4 DEF Reoffer, IInv, TypeOK, store, history
  <2> HIDE DEF k
  <2>6. JobInv(s)'
    BY <1>1, <1>3, <2>3, <2>4 DEF JobInv, Loaded
  <2> QED
    BY <2>4, <2>5, <2>6, QuietStep DEF Reoffer, store
<1>5. CASE Finish(s)
  <2>1. job' \in [Slots -> Job] /\ job'[s] = NoJob /\ Others(s)
    BY <1>5, FinishType DEF IInv, TypeOK
  <2>2. TypeOK'
    BY <2>1 DEF Reoffer, IInv, TypeOK, store, history
  <2> QED
    BY <2>1, <2>2, IdleInv, QuietStep DEF Reoffer, store
<1>6. CASE job[s].op = "decline" /\ Save(s, e)
  <2>1. job' \in [Slots -> Job] /\ Others(s) /\ job'[s] = [job[s] EXCEPT !.pc = "select", !.ent = e]
    BY <1>2, <1>6, SaveType DEF IInv, TypeOK
  <2>2. TypeOK'
    BY <2>1 DEF Reoffer, IInv, TypeOK, store, history
  <2> HIDE DEF e
  <2>3. job[s].ride \in Rides /\ row[job[s].ride].status # "none"
          /\ job[s].ent.client = row[job[s].ride].client /\ Earned(job[s].ent, job[s].ride)
          /\ job[s].actor \in Drivers
          /\ (job[s].ent.intent => row[job[s].ride].status # "requested")
    BY <1>1, <1>6 DEF JobInv, Loaded, DriverOps
  <2>4. e.status \notin Taken /\ (e.accepted \/ e.fee => winner[job[s].ride] # None)
    BY <1>2, <2>3 DEF Earned, Taken
  <2>5. JobInv(s)'
    BY <1>1, <1>2, <1>3, <1>6, <2>1, <2>3, <2>4, SelectInv DEF Earned
  <2> QED
    BY <2>1, <2>2, <2>5, QuietStep DEF Reoffer, store
<1> QED
  BY <1>4, <1>5, <1>6 DEF Reoffer

\* A claim that fails ends the handler.
LEMMA ClaimConflictInv ==
  ASSUME IInv, NEW s \in Slots, ClaimConflict(s)
  PROVE  IInv'
<1>1. job' \in [Slots -> Job] /\ job'[s] = NoJob /\ Others(s)
  BY FinishType DEF ClaimConflict, IInv, TypeOK
<1>2. TypeOK'
  BY <1>1 DEF ClaimConflict, IInv, TypeOK, store, history
<1> QED
  BY <1>1, <1>2, IdleInv, QuietStep DEF ClaimConflict, store

\* The columns to be written are noted; nothing else happens.
LEMMA SaveSelectInv ==
  ASSUME IInv, NEW s \in Slots, SaveSelect(s)
  PROVE  IInv'
<1> DEFINE D == Differing(job[s].ent, row[job[s].ride])
<1> DEFINE k == [job[s] EXCEPT !.pc = "update", !.dirty = D]
<1>1. job[s] \in Job /\ job[s].pc = "select" /\ JobInv(s)
  BY DEF SaveSelect, At, IInv, TypeOK
<1>2. D \in SUBSET Columns /\ "update" \in PCs
  BY DEF Differing, PCs
<1>3. Become(s, k)
  BY DEF SaveSelect
<1> HIDE DEF D
<1>4. k \in Job /\ k.pc = "update" /\ k.op = job[s].op /\ k.ride = job[s].ride
        /\ k.ent = job[s].ent /\ k.actor = job[s].actor
  BY <1>1, <1>2 DEF Job
<1>5. job' \in [Slots -> Job] /\ job'[s] = k /\ Others(s)
  BY <1>3, <1>4, BecomeType DEF IInv, TypeOK
<1>6. UNCHANGED <<row, winner, starts, completions, relay, chat>>
  BY DEF SaveSelect, history
<1> HIDE DEF k
<1>7. track' \in [Drivers -> Rides \cup {None}] /\ \A d \in Drivers : track'[d] \in {None, track[d]}
  <2>1. job[s].op = "complete" => job[s].actor \in Drivers
    BY <1>1 DEF JobInv, Loaded, DriverOps
  <2>2. PICK key \in Drivers \cup {None} : track' = Drop(track, key)
    BY <2>1 DEF SaveSelect
  <2> QED
    BY <2>2, DropType DEF IInv, TypeOK
<1>8. TypeOK'
  BY <1>5, <1>7 DEF SaveSelect, IInv, TypeOK, history
<1>9. Benign
  BY <1>6 DEF Benign
<1>10. RowInv'
  BY <1>6 DEF IInv, RowInv, Earned
<1>11. JobInv(s)'
  BY <1>1, <1>4, <1>5, <1>6 DEF JobInv, Loaded, Earned
<1>12. \A x \in Slots : JobInv(x)'
  BY <1>5, <1>9, <1>11, JobKept DEF IInv, Others
<1>13. BindingsFollowTheWinner'
  BY <1>6, <1>7, <1>9, BindingsKept DEF IInv
<1> QED
  BY <1>8, <1>10, <1>12, <1>13 DEF IInv

\* An accept finds the ride requested, so nobody won it before; a complete finds
\* it in progress, so somebody did.
LEMMA ClaimInv ==
  ASSUME IInv, NEW s \in Slots, Claim(s)
  PROVE  IInv'
<1> DEFINE j == job[s]
<1> DEFINE r == j.ride
<1>1. j \in Job /\ j.pc = "claim" /\ JobInv(s) /\ row[r].status = j.ent.status
  BY DEF Claim, At, IInv, TypeOK
<1>2. /\ r \in Rides /\ row[r].status # "none" /\ j.ent.client = row[r].client
      /\ Earned(j.ent, r) /\ j.op \in ByClaim \cup {"accept"}
      /\ j.op # "cancelByClient" => j.actor \in Drivers
      /\ j.op = "accept" => row[r].status = "requested"
      /\ j.op = "complete" => row[r].status = "in_progress"
      /\ j.ent.intent => row[r].status # "requested"
  <2>1. r \in Rides /\ row[r].status # "none" /\ j.ent.client = row[r].client /\ Earned(j.ent, r)
    BY <1>1 DEF JobInv, Loaded
  <2>2. j.op \in ByClaim \cup {"accept"} /\ (j.op \in DriverOps => j.actor \in Drivers)
    BY <1>1 DEF JobInv, Loaded
  <2>3. /\ j.op = "accept" => j.ent.status = "requested"
        /\ j.op = "complete" => j.ent.status = "in_progress"
        /\ j.ent.intent => row[r].status # "requested"
    BY <1>1 DEF JobInv, Loaded
  <2> QED
    BY <1>1, <2>1, <2>2, <2>3 DEF ByClaim, DriverOps
<1>3. PICK e \in Row :
        /\ Save(s, e)
        /\ e.client = j.ent.client
        /\ e.driver = IF j.op = "accept" THEN j.actor ELSE j.ent.driver
        /\ e.status = ClaimTo(j.op)
        /\ e.accepted \/ e.fee => j.ent.accepted \/ j.ent.fee \/ j.op = "accept"
  <2>1. j.ent \in Row /\ j.op \in Ops
    BY <1>1, <1>2 DEF Job, Ops, ByClaim, ClientOps, DriverOps
  <2>2. CASE j.op = "cancelByClient"
    <3>1. PICK fee \in OwesFee(j.ent) : Save(s, Cancelled(j.ent, fee))
      BY <2>2 DEF Claim
    <3>2. Cancelled(j.ent, fee) \in Row
      BY <2>1, <3>1, CancelledType
    <3>3. /\ Cancelled(j.ent, fee).client = j.ent.client /\ Cancelled(j.ent, fee).driver = j.ent.driver
          /\ Cancelled(j.ent, fee).status = "cancelled"
          /\ Cancelled(j.ent, fee).accepted = j.ent.accepted
          /\ Cancelled(j.ent, fee).fee => j.ent.accepted
      BY <2>1, <3>1 DEF Cancelled, OwesFee, Row
    <3> QED
      BY <2>2, <3>1, <3>2, <3>3 DEF ClaimTo
  <2>3. CASE j.op # "cancelByClient"
    <3>1. Save(s, Edited(j.op, j.ent, j.actor))
      BY <2>3 DEF Claim
    <3>2. j.op \in {"accept", "complete", "cancelByDriver"}
      BY <1>2, <2>3 DEF ByClaim
    <3>3. Edited(j.op, j.ent, j.actor) \in Row
      BY <1>2, <2>1, <2>3, EditedType
    <3> QED
      BY <2>1, <3>1, <3>2, <3>3, EditedColumns DEF ClaimTo
  <2> QED
    BY <2>2, <2>3
<1>4. job' \in [Slots -> Job] /\ Others(s) /\ job'[s] = [j EXCEPT !.pc = "select", !.ent = e]
  BY <1>3, SaveType DEF IInv, TypeOK
<1>5. /\ row' \in [Rides -> Row] /\ row'[r] = [row[r] EXCEPT !.status = ClaimTo(j.op)]
      /\ \A q \in Rides : q # r => row'[q] = row[q]
  <2>1. ClaimTo(j.op) \in Statuses
    BY DEF ClaimTo, Statuses
  <2>2. [row[r] EXCEPT !.status = ClaimTo(j.op)] \in Row
    BY <1>2, <2>1 DEF Row, IInv, TypeOK
  <2>3. row' = [row EXCEPT ![r] = [row[r] EXCEPT !.status = ClaimTo(j.op)]]
    BY DEF Claim
  <2> QED
    BY <1>2, <2>2, <2>3 DEF IInv, TypeOK
<1>6. /\ row'[r].status = ClaimTo(j.op) /\ row'[r].client = row[r].client
       /\ row'[r].driver = row[r].driver /\ row'[r].accepted = row[r].accepted /\ row'[r].fee = row[r].fee
  BY <1>2, <1>5 DEF Row, IInv, TypeOK
<1>7. /\ winner' \in [Rides -> Drivers \cup {None}]
      /\ winner'[r] = IF j.op = "accept" THEN j.actor ELSE winner[r]
      /\ \A q \in Rides : q # r => winner'[q] = winner[q]
  BY <1>2 DEF Claim, IInv, TypeOK
<1>8. /\ completions' \in [Rides -> Nat]
      /\ completions'[r] = IF j.op = "complete" THEN completions[r] + 1 ELSE completions[r]
      /\ \A q \in Rides : q # r => completions'[q] = completions[q]
  BY <1>2 DEF Claim, IInv, TypeOK
<1>9. TypeOK'
  BY <1>4, <1>5, <1>7, <1>8 DEF Claim, IInv, TypeOK, redis
<1> HIDE DEF j, r
<1>10. /\ ClaimTo(j.op) \in {"accepted", "completed", "cancelled"}
       /\ ClaimTo(j.op) \in Taken => j.op \in {"accept", "complete"}
  BY <1>2 DEF ClaimTo, Taken, ByClaim
<1>11. /\ j.op = "accept" => winner[r] = None
       /\ j.op = "complete" => winner[r] # None
  BY <1>2 DEF IInv, RowInv, Earned, Taken
<1>12. winner'[r] = winner[r] \/ winner[r] = None
  BY <1>7, <1>11
<1>13. Earned(row[r], r) /\ row[r].client # None
  BY <1>2 DEF IInv, RowInv
<1>14. Benign
  BY <1>2, <1>5, <1>7, <1>6, <1>10, <1>12 DEF Benign
<1>15. RowInv'
  <2>1. ASSUME NEW q \in Rides, q # r
        PROVE  row'[q] = row[q] /\ winner'[q] = winner[q]
    BY <2>1, <1>5, <1>7
  <2>2. ASSUME NEW q \in Rides
        PROVE  Earned(row[q], q)'
    <3>1. CASE q = r
      BY <3>1, <1>2, <1>7, <1>6, <1>10, <1>11, <1>13, ConstantsAssumption DEF Earned, Taken
    <3>2. CASE q # r
      BY <3>2, <2>1 DEF IInv, RowInv, Earned
    <3> QED
      BY <3>1, <3>2
  <2>3. ASSUME NEW q \in Rides
        PROVE  /\ row'[q].status \in {"none", "requested"} => winner'[q] = None
               /\ row'[q].status # "none" => row'[q].client # None
               /\ row'[q].intent => row'[q].status # "requested"
    <3>1. CASE q = r
      BY <3>1, <1>6, <1>10, <1>13
    <3>2. CASE q # r
      BY <3>2, <2>1 DEF IInv, RowInv
    <3> QED
      BY <3>1, <3>2
  <2> QED
    BY <2>2, <2>3 DEF RowInv
<1>16. JobInv(s)'
  <2>1. row'[r].status # "none" /\ row'[r].status # "requested" /\ e.client = row'[r].client
    BY <1>2, <1>3, <1>6, <1>10
  <2>2. e.driver \in {None, winner'[r]}
    BY <1>2, <1>3, <1>7 DEF Earned
  <2>3. e.status \in Taken \/ e.accepted \/ e.fee => winner'[r] # None
    BY <1>2, <1>3, <1>7, <1>10, <1>11, ConstantsAssumption DEF Earned
  <2>4. e.status \notin {"none", "requested"} /\ j.op \notin {"start", "payByCard"}
    BY <1>2, <1>3, <1>10 DEF ByClaim
  <2>5. j.op \in DriverOps => j.actor \in Drivers
    BY <1>1 DEF JobInv, Loaded, j
  <2> QED
    BY <1>1, <1>2, <1>4, <1>7, <2>1, <2>2, <2>3, <2>4, <2>5, SelectInv DEF j, r
<1>17. \A t \in Slots : JobInv(t)'
  BY <1>4, <1>14, <1>16, JobKept DEF IInv, Others
<1>18. BindingsFollowTheWinner'
  BY <1>14, BindingsKept DEF IInv, Claim, redis
<1> QED
  BY <1>9, <1>15, <1>17, <1>18 DEF IInv

\* Whatever columns a stale entity overwrites, each of them was earned, and only
\* startRide, which is counted, can put the ride back in progress.
LEMMA SaveUpdateInv ==
  ASSUME IInv, NEW s \in Slots, SaveUpdate(s)
  PROVE  IInv'
<1> DEFINE j == job[s]
<1> DEFINE r == j.ride
<1> DEFINE m == Merge(row[r], j.ent, j.dirty)
<1> DEFINE e == [NoRow EXCEPT !.client = j.ent.client, !.driver = j.ent.driver]
<1> DEFINE k == [NoJob EXCEPT !.op = j.op, !.pc = AfterSave(j.op), !.ride = r,
                              !.actor = j.actor, !.ent = e]
<1>1. j \in Job /\ j.pc = "update" /\ JobInv(s) /\ j.ent \in Row
  BY DEF SaveUpdate, At, IInv, TypeOK, Job
<1>2. /\ r \in Rides /\ row[r].status # "none" /\ j.ent.client = row[r].client /\ Earned(j.ent, r)
      /\ j.op \in DriverOps => j.actor \in Drivers
  BY <1>1 DEF JobInv, Loaded
<1>3. /\ j.ent.status \notin {"none", "requested"}
      /\ row[r].status = "requested" => j.ent.status = "cancelled"
      /\ j.ent.intent => row[r].status # "requested"
      /\ j.op \in {"accept", "start"} => winner[r] = j.actor
  BY <1>1 DEF JobInv, Loaded
<1>4. row[r] \in Row /\ Earned(row[r], r) /\ row[r].client # None
        /\ (row[r].status = "requested" => winner[r] = None)
        /\ (row[r].intent => row[r].status # "requested")
  BY <1>2 DEF IInv, TypeOK, RowInv
<1>5. m \in Row
  BY <1>1, <1>4, MergeType
<1>6. /\ m.status = IF "status" \in j.dirty THEN j.ent.status ELSE row[r].status
      /\ m.client = row[r].client
      /\ m.driver \in {j.ent.driver, row[r].driver}
      /\ m.accepted => j.ent.accepted \/ row[r].accepted
      /\ m.fee => j.ent.fee \/ row[r].fee
      /\ m.intent => j.ent.intent \/ row[r].intent
  BY <1>1, <1>2, <1>4, MergeColumns
<1>7. row' = [row EXCEPT ![r] = m]
  BY DEF SaveUpdate
<1> HIDE DEF m
<1>8. row' \in [Rides -> Row] /\ row'[r] = m /\ \A q \in Rides : q # r => row'[q] = row[q]
  BY <1>2, <1>5, <1>7 DEF IInv, TypeOK
<1>9. /\ starts' \in [Rides -> Nat]
      /\ starts'[r] = IF j.op = "start" /\ "status" \in j.dirty THEN starts[r] + 1 ELSE starts[r]
  BY <1>2 DEF SaveUpdate, IInv, TypeOK
<1>10. UNCHANGED <<winner, completions, relay, chat, track>>
  BY DEF SaveUpdate, redis
<1>11. AfterSave(j.op) \in PCs /\ AfterSave(j.op) \in {"idle", "bind", "clear"}
         /\ (AfterSave(j.op) = "bind" <=> j.op = "start")
  BY DEF AfterSave, PCs
<1>12. e \in Row /\ e.client = j.ent.client /\ e.driver = j.ent.driver /\ e.status = "none"
         /\ ~e.accepted /\ ~e.fee /\ ~e.intent
  BY <1>1 DEF NoRow, Row, Statuses
<1> HIDE DEF e
<1>13. k \in Job /\ k.op = j.op /\ k.pc = AfterSave(j.op) /\ k.ride = r /\ k.actor = j.actor /\ k.ent = e
  BY <1>1, <1>11, <1>12 DEF NoJob, Job
<1>14. Finish(s) \/ (Become(s, k) /\ AfterSave(j.op) # "idle")
  <2>1. IF AfterSave(j.op) = "idle" THEN Finish(s) ELSE Become(s, k)
    BY DEF SaveUpdate, e
  <2> HIDE DEF k
  <2> QED
    BY <2>1
<1> HIDE DEF k
<1>15. job' \in [Slots -> Job] /\ Others(s) /\ (job'[s] = NoJob \/ (job'[s] = k /\ AfterSave(j.op) # "idle"))
  BY <1>13, <1>14, BecomeType, FinishType DEF IInv, TypeOK
<1>16. TypeOK'
  BY <1>8, <1>9, <1>15 DEF SaveUpdate, IInv, TypeOK, redis
<1> HIDE DEF j, r
<1>17. Benign
  BY <1>2, <1>3, <1>6, <1>8, <1>10 DEF Benign
<1>18. RowInv'
  <2>1. ASSUME NEW q \in Rides
        PROVE  Earned(row[q], q)'
    <3>1. CASE q = r
      BY <3>1, <1>2, <1>4, <1>6, <1>8, <1>10 DEF Earned
    <3>2. CASE q # r
      BY <3>2, <1>8, <1>10 DEF IInv, RowInv, Earned
    <3> QED
      BY <3>1, <3>2
  <2>2. ASSUME NEW q \in Rides
        PROVE  /\ row'[q].status \in {"none", "requested"} => winner'[q] = None
               /\ row'[q].status # "none" => row'[q].client # None
               /\ row'[q].intent => row'[q].status # "requested"
    <3>1. CASE q = r
      BY <3>1, <1>2, <1>3, <1>4, <1>6, <1>8, <1>10
    <3>2. CASE q # r
      BY <3>2, <1>8, <1>9, <1>10 DEF IInv, RowInv
    <3> QED
      BY <3>1, <3>2
  <2> QED
    BY <2>1, <2>2 DEF RowInv
<1>19. JobInv(s)'
  <2>1. CASE job'[s] = NoJob
    BY <2>1, IdleInv
  <2>2. CASE job'[s] = k /\ AfterSave(j.op) # "idle"
    <3>1. row'[r].status # "none" /\ row'[r].client = j.ent.client
      BY <1>2, <1>3, <1>6, <1>8
    <3>2. e.driver \in {None, winner'[r]} /\ e.status \notin Taken
      BY <1>2, <1>10, <1>12 DEF Earned, Taken
    <3> QED
      BY <2>2, <1>2, <1>3, <1>10, <1>11, <1>12, <1>13, <3>1, <3>2 DEF JobInv, Earned
  <2> QED
    BY <1>15, <2>1, <2>2
<1>20. \A t \in Slots : JobInv(t)'
  BY <1>15, <1>17, <1>19, JobKept DEF IInv, Others
<1>21. BindingsFollowTheWinner'
  BY <1>10, <1>17, BindingsKept DEF IInv
<1> QED
  BY <1>16, <1>18, <1>20, <1>21 DEF IInv

\* Clearing keys binds nobody; an accept goes on to bind its own.
LEMMA ClearKeysInv ==
  ASSUME IInv, NEW s \in Slots, ClearKeys(s)
  PROVE  IInv'
<1> DEFINE j == job[s]
<1> DEFINE r == j.ride
<1> DEFINE d == IF j.op \in Cancels \cup {"complete"} THEN j.ent.driver ELSE None
<1> DEFINE c == IF j.op # "noShowByDriver" /\ d # None THEN j.ent.client ELSE None
<1> DEFINE t == IF j.op \in {"cancelByClient", "cancelByDriver"} THEN d ELSE None
<1>1. j \in Job /\ j.pc = "clear" /\ JobInv(s) /\ j.ent \in Row /\ r \in Rides
  BY DEF ClearKeys, At, IInv, TypeOK, Job, JobInv, Loaded
<1>2. d \in Drivers \cup {None} /\ c \in Clients \cup {None} /\ t \in Drivers \cup {None}
  BY <1>1 DEF Row
<1>3. UNCHANGED <<row, due, crashes, winner, starts, completions>>
  BY DEF ClearKeys, history
<1>4. relay' = Drop(relay, d) /\ chat' = Drop(chat, c) /\ track' = Drop(track, t)
  BY DEF ClearKeys
<1> HIDE DEF d, c, t
<1>5. /\ relay' \in [Drivers -> Clients \cup {None}] /\ \A x \in Drivers : relay'[x] \in {None, relay[x]}
      /\ chat' \in [Clients -> Drivers \cup {None}] /\ \A x \in Clients : chat'[x] \in {None, chat[x]}
      /\ track' \in [Drivers -> Rides \cup {None}] /\ \A x \in Drivers : track'[x] \in {None, track[x]}
  BY <1>2, <1>4, DropType DEF IInv, TypeOK
<1>6. pending' \in [Rides -> Drivers \cup {None}] /\ declined' \in [Rides -> SUBSET Drivers]
  <2>1. pending' \in {pending, Drop(pending, r)}
    BY DEF ClearKeys
  <2>2. declined' = declined \/ declined' = [declined EXCEPT ![r] = {}]
    BY DEF ClearKeys
  <2>3. Drop(pending, r) \in [Rides -> Drivers \cup {None}]
    BY <1>1, DropType DEF IInv, TypeOK
  <2> HIDE DEF r
  <2> QED
    BY <1>1, <2>1, <2>2, <2>3 DEF IInv, TypeOK
<1>7. /\ job' \in [Slots -> Job] /\ Others(s)
      /\ job'[s] = NoJob \/ (j.op = "accept" /\ job'[s] = [j EXCEPT !.pc = "bind"])
  <2>1. "bind" \in PCs
    BY DEF PCs
  <2>2. Finish(s) \/ (j.op = "accept" /\ Goto(s, "bind"))
    BY DEF ClearKeys
  <2> QED
    BY <2>1, <2>2, GotoType, FinishType DEF IInv, TypeOK
<1>8. TypeOK'
  BY <1>3, <1>5, <1>6, <1>7 DEF IInv, TypeOK
<1>9. Benign
  BY <1>3 DEF Benign
<1>10. RowInv'
  BY <1>3 DEF IInv, RowInv, Earned
<1>11. JobInv(s)'
  <2>1. CASE job'[s] = NoJob
    BY <2>1, IdleInv
  <2>2. CASE j.op = "accept" /\ job'[s] = [j EXCEPT !.pc = "bind"]
    <3>1. /\ job'[s].pc = "bind" /\ job'[s].ride = j.ride /\ job'[s].ent = j.ent
          /\ job'[s].op = "accept" /\ job'[s].actor = j.actor
      BY <1>1, <2>2 DEF Job
    <3> QED
      BY <1>1, <1>3, <2>2, <3>1 DEF JobInv, Earned, Loaded
  <2> QED
    BY <1>7, <2>1, <2>2
<1>12. \A x \in Slots : JobInv(x)'
  BY <1>7, <1>9, <1>11, JobKept DEF IInv, Others
<1>13. BindingsFollowTheWinner'
  BY <1>5, <1>9, BindingsKept DEF IInv
<1> QED
  BY <1>8, <1>10, <1>12, <1>13 DEF IInv

\* An accept binds its winner to the client of the row, a start the same driver
\* to the ride.
LEMMA BindKeysInv ==
  ASSUME IInv, NEW s \in Slots, BindKeys(s)
  PROVE  IInv'
<1> DEFINE j == job[s]
<1>1. j \in Job /\ j.pc = "bind" /\ JobInv(s) /\ j.ent \in Row
  BY DEF BindKeys, At, IInv, TypeOK, Job
<1>2. /\ j.ride \in Rides /\ row[j.ride].status # "none" /\ j.ent.client = row[j.ride].client
      /\ j.op \in {"accept", "start"} /\ winner[j.ride] = j.actor /\ j.actor \in Drivers
  BY <1>1 DEF JobInv, Loaded, DriverOps
<1>3. j.ent.client \in Clients
  BY <1>1, <1>2 DEF IInv, RowInv, Row
<1>4. UNCHANGED <<row, pending, declined, due, crashes, winner, starts, completions>>
  BY DEF BindKeys, history
<1>5. job' \in [Slots -> Job] /\ Others(s) /\ job'[s] = NoJob
  BY FinishType DEF BindKeys, IInv, TypeOK
<1> HIDE DEF j
<1>6. \/ /\ relay' = [relay EXCEPT ![j.actor] = j.ent.client]
         /\ chat' = [chat EXCEPT ![j.ent.client] = j.actor]
         /\ track' = track
      \/ relay' = relay /\ chat' = chat /\ track' = [track EXCEPT ![j.actor] = j.ride]
  BY DEF BindKeys, j
<1>7. TypeOK'
  BY <1>2, <1>3, <1>4, <1>5, <1>6 DEF IInv, TypeOK
<1>8. Benign
  BY <1>4 DEF Benign
<1>9. RowInv'
  BY <1>4 DEF IInv, RowInv, Earned
<1>10. \A x \in Slots : JobInv(x)'
  BY <1>5, <1>8, JobKept, IdleInv DEF IInv, Others
<1>11. BindingsFollowTheWinner'
  BY <1>2, <1>3, <1>4, <1>6 DEF IInv, TypeOK, BindingsFollowTheWinner
<1> QED
  BY <1>7, <1>9, <1>10, <1>11 DEF IInv

\* Time and a crash touch no row; a crash forgets every handler.
LEMMA EnvironmentInv ==
  ASSUME IInv, Environment
  PROVE  IInv'
<1>1. UNCHANGED <<row, relay, chat, track, history>>
  BY DEF Environment, OfferExpires, DeclinedExpire, TimePasses, Crash, store
<1>2. job' = job \/ job' = [s \in Slots |-> NoJob]
  BY DEF Environment, OfferExpires, DeclinedExpire, TimePasses, Crash
<1>3. TypeOK'
  <2>1. ASSUME NEW r \in Rides, OfferExpires(r) \/ DeclinedExpire(r) \/ TimePasses(r)
        PROVE  TypeOK'
    BY <2>1 DEF OfferExpires, DeclinedExpire, TimePasses, IInv, TypeOK, store, history, Phases
  <2>2. ASSUME Crash
        PROVE  TypeOK'
    BY <2>2, NoJobType DEF Crash, IInv, TypeOK, store, history
  <2> QED
    BY <2>1, <2>2 DEF Environment
<1>4. Benign /\ RowInv' /\ BindingsFollowTheWinner'
  BY <1>1 DEF Benign, IInv, RowInv, Earned, BindingsFollowTheWinner, history
<1>5. \A s \in Slots : JobInv(s)'
  BY <1>2, <1>4, JobKept, IdleInv DEF IInv
<1> QED
  BY <1>3, <1>4, <1>5 DEF IInv

-----------------------------------------------------------------------------
(***************************************************************************)
(* The invariant and what follows from it.                                 *)
(***************************************************************************)
\* Nothing is booked at first.
LEMMA InitInv == Init => IInv
<1> SUFFICES ASSUME Init PROVE IInv
  OBVIOUS
<1>1. TypeOK
  BY NoRowType, NoJobType, ConstantsAssumption DEF Init, TypeOK
<1>2. RowInv
  BY DEF Init, RowInv, Earned, Taken, NoRow
<1>3. \A s \in Slots : JobInv(s)
  BY DEF Init, JobInv, Loaded, NoJob
<1>4. BindingsFollowTheWinner
  BY DEF Init, BindingsFollowTheWinner
<1> QED
  BY <1>1, <1>2, <1>3, <1>4 DEF IInv

\* A request that is let in is a booking or one of the handlers that load a row.
LEMMA ArriveLoads ==
  ASSUME Arrive
  PROVE  \E s \in Slots :
           \/ \E c \in Clients : RequestCheck(s, c)
           \/ \E r \in Rides, op \in ClientOps \cup DriverOps \cup OtherOps, a \in Actors \cup {None} :
                (op \in DriverOps => a \in Drivers) /\ Load(s, op, r, a)
<1>1. PICK s \in Requests :
        \/ \E c \in Clients : RequestCheck(s, c)
        \/ \E r \in Rides, op \in ClientOps, c \in Clients : Load(s, op, r, c)
        \/ \E r \in Rides, op \in DriverOps, d \in Drivers : Load(s, op, r, d)
        \/ \E r \in Rides, op \in OtherOps : Load(s, op, r, None)
  BY DEF Arrive, Accept, Decline, EnRoute, Arrived, Start, Complete, EditFare,
     CancelByDriver, NoShowByDriver, CancelByClient, NoShowByClient, PayByCard,
     Settle, PaymentCanceled, ClientOps, DriverOps, OtherOps
<1>2. \A op \in ClientOps \cup OtherOps : op \notin DriverOps
  BY DEF ClientOps, DriverOps, OtherOps
<1> QED
  BY <1>1, <1>2 DEF Slots, Actors

\* One step of any handler, of the scheduler or of the environment.
LEMMA NextInv == IInv /\ [Next]_vars => IInv'
<1> SUFFICES ASSUME IInv, [Next]_vars PROVE IInv'
  OBVIOUS
<1>1. Requests \subseteq Slots /\ Ticks \subseteq Slots
  BY DEF Slots
<1>2. CASE Arrive
  BY <1>2, ArriveLoads, RequestCheckInv, LoadInv
<1>3. CASE StartTick
  BY <1>1, <1>3, TickLoadInv DEF StartTick
<1>4. ASSUME NEW s \in Slots, Continue(s)
      PROVE  IInv'
  BY <1>4, RequestInsertInv, DispatchInv, CheckOfferInv, CheckNoOfferInv, DropOfferInv, ReofferInv,
     ClaimInv, ClaimConflictInv, SaveSelectInv, SaveUpdateInv, ClearKeysInv, BindKeysInv DEF Continue
<1>5. CASE Environment
  BY <1>5, EnvironmentInv
<1>6. CASE UNCHANGED vars
  <2>1. TypeOK' /\ RowInv' /\ BindingsFollowTheWinner' /\ Benign
    BY <1>6 DEF vars, store, history, IInv, TypeOK, RowInv, Earned, BindingsFollowTheWinner, Benign
  <2>2. \A s \in Slots : JobInv(s)'
    BY <1>6, <2>1, JobKept DEF vars, IInv
  <2> QED
    BY <2>1, <2>2 DEF IInv
<1> QED
  BY <1>2, <1>3, <1>4, <1>5, <1>6 DEF Next

\* The inductive invariant holds of every behaviour.
THEOREM Invariance == Spec => []IInv
BY InitInv, NextInv, PTL DEF Spec

\* Every variable always holds a value of its type.
THEOREM TypeCorrect == Spec => []TypeOK
<1>1. IInv => TypeOK
  BY DEF IInv
<1> QED
  BY <1>1, Invariance, PTL

\* Whatever stale entities are saved, a row only ever names the driver whose
\* accept claimed the ride, and is past "requested" only after such a claim.
THEOREM WonRides == Spec => []DriverWonTheRide
<1>1. IInv => DriverWonTheRide
  BY DEF IInv, RowInv, Earned, Taken, DriverWonTheRide
<1> QED
  BY <1>1, Invariance, PTL

\* A cancellation fee is owed only for a ride some driver had claimed.
THEOREM EarnedFees == Spec => []FeesAreEarned
<1>1. IInv => FeesAreEarned
  BY DEF IInv, RowInv, Earned, FeesAreEarned
<1> QED
  BY <1>1, Invariance, PTL

\* Positions and chats are relayed, and routes recorded, only for won rides.
THEOREM RightBindings == Spec => []BindingsFollowTheWinner
<1>1. IInv => BindingsFollowTheWinner
  BY DEF IInv
<1> QED
  BY <1>1, Invariance, PTL

-----------------------------------------------------------------------------
(***************************************************************************)
(* Why a ride that was started once is completed once.  A ride goes back   *)
(* in progress only by startRide, which is counted, or by a webhook that   *)
(* saves an entity it loaded while the ride was in progress.  A webhook    *)
(* finds only rides with an intent, which were completed before: a ride    *)
(* that has an intent and is in progress was started twice.                *)
(***************************************************************************)
Paying(r) == starts[r] >= 1 /\ (row[r].status = "in_progress" => starts[r] >= 2)

CountInv(r) ==
  /\ starts[r] <= 1 => completions[r] + (IF row[r].status = "in_progress" THEN 1 ELSE 0) <= starts[r]
  /\ row[r].status \in {"in_progress", "completed"} => starts[r] >= 1
  /\ row[r].intent => Paying(r)

CarryInv(s) ==
  LET j == job[s] IN
  j.pc \in Loaded \ {"dispatch"} =>
    /\ j.ent.status \in {"in_progress", "completed"} /\ j.op # "start" => starts[j.ride] >= 1
    /\ j.pc \in {"select", "update"} /\ j.op # "start" /\ j.ent.status = "in_progress" =>
         starts[j.ride] >= 2
    /\ j.ent.intent \/ j.op = "payByCard" => Paying(j.ride)

StartsInv == (\A r \in Rides : CountInv(r)) /\ (\A s \in Slots : CarryInv(s))

\* No step takes back a start, or reopens a paid ride without a second one.
Grows ==
  \A r \in Rides : starts'[r] >= starts[r] /\ (Paying(r) => Paying(r)')

\* A handler that does not move still knows what it knew of the starts.
LEMMA CarryKept ==
  ASSUME IInv, TypeOK', Grows, NEW s \in Slots, CarryInv(s), job'[s] = job[s]
  PROVE  CarryInv(s)'
<1>1. job[s].pc \in Loaded => job[s].ride \in Rides
  BY DEF IInv, JobInv
<1>2. \A r \in Rides : starts[r] \in Nat /\ starts'[r] \in Nat
  BY DEF IInv, TypeOK
<1>3. CASE job[s].pc \in Loaded \ {"dispatch"}
  BY <1>1, <1>2, <1>3 DEF CarryInv, Grows
<1>4. CASE job[s].pc \notin Loaded \ {"dispatch"}
  BY <1>4 DEF CarryInv
<1> QED
  BY <1>3, <1>4

\* A step of one handler that touches neither rows nor counters.
LEMMA QuietCounts ==
  ASSUME IInv, TypeOK', StartsInv, UNCHANGED <<row, starts, completions>>,
         NEW s \in Slots, Others(s), CarryInv(s)'
  PROVE  StartsInv'
<1>1. Grows
  BY DEF Grows, Paying, IInv, TypeOK
<1>2. \A r \in Rides : CountInv(r)'
  BY DEF StartsInv, CountInv, Paying
<1>3. \A t \in Slots : CarryInv(t)'
  BY <1>1, CarryKept DEF StartsInv, Others
<1> QED
  BY <1>2, <1>3 DEF StartsInv

\* A handler that finishes, goes on with its entity or gives the ride up.
LEMMA CarryMoves ==
  ASSUME IInv, StartsInv, UNCHANGED <<row, starts>>, NEW s \in Slots,
         \/ job'[s] = NoJob
         \/ job'[s].pc = "dispatch"
         \/ /\ job[s].pc \in Loaded \ {"dispatch"}
            /\ job'[s].ride = job[s].ride /\ job'[s].op = job[s].op
            /\ \/ /\ job'[s].ent = job[s].ent
                  /\ job'[s].pc \in {"select", "update"} => job[s].pc = "select"
               \/ job'[s].ent.status = "cancelled" /\ (job'[s].ent.intent => job[s].ent.intent)
  PROVE  CarryInv(s)'
<1>1. CASE job'[s] = NoJob
  BY <1>1 DEF NoJob, CarryInv, Loaded
<1>2. CASE job'[s].pc = "dispatch"
  BY <1>2 DEF CarryInv
<1>3. CASE job'[s] # NoJob /\ job'[s].pc # "dispatch"
  BY <1>3 DEF StartsInv, CarryInv, Paying
<1> QED
  BY <1>1, <1>2, <1>3

\* An entity loaded now is as old as the row: what is in progress and has an intent
\* was started twice.
LEMMA LoadCounts ==
  ASSUME IInv, TypeOK', StartsInv, NEW s \in Slots, NEW r \in Rides,
         NEW op \in ClientOps \cup DriverOps \cup OtherOps,
         NEW a \in Actors \cup {None}, op \in DriverOps => a \in Drivers, Load(s, op, r, a)
  PROVE  StartsInv'
<1> DEFINE pc == IF op \in ByOffer THEN "check" ELSE IF op \in ByClaim THEN "claim" ELSE "select"
<1> DEFINE e == IF pc = "select" THEN Edited(op, row[r], a) ELSE row[r]
<1> DEFINE k == [op |-> op, pc |-> pc, ride |-> r, actor |-> a, target |-> None,
                 late |-> FALSE, ent |-> e, dirty |-> {}]
<1>1. row[r] \in Row /\ op \in Ops /\ job \in [Slots -> Job]
  BY DEF IInv, TypeOK, Ops
<1>2. job' = [job EXCEPT ![s] = k]
  BY DEF Load, Begin, Become
<1>3. k.op = op /\ k.pc = pc /\ k.ride = r /\ k.ent = e
  OBVIOUS
<1> HIDE DEF k
<1>4. job'[s] = k /\ Others(s)
  BY <1>1, <1>2 DEF Others
<1>5. UNCHANGED <<row, starts, completions>> /\ MayLoad(op, row[r], a)
  BY DEF Load, store, history
<1>6. CountInv(r) /\ starts[r] \in Nat
  BY DEF StartsInv, IInv, TypeOK
<1>7. /\ e.status \in {"in_progress", "completed"} /\ op # "start" => starts[r] >= 1
      /\ pc \in {"select", "update"} /\ op # "start" /\ e.status = "in_progress" => starts[r] >= 2
      /\ e.intent \/ op = "payByCard" => Paying(r)
  <2>1. CASE pc # "select"
    <3>1. e = row[r] /\ pc \in {"check", "claim"} /\ op # "payByCard"
      BY <2>1 DEF ByOffer, ByClaim
    <3> QED
      BY <1>6, <3>1 DEF CountInv
  <2>2. CASE pc = "select"
    <3>1. e = Edited(op, row[r], a)
      BY <2>2
    <3>2. op \notin ByOffer \cup ByClaim
      BY <2>2
    <3> HIDE DEF e, pc
    <3>3. CASE op \in {"payByCard", "editFare"}
      <4>1. /\ row[r].status \in {"in_progress", "completed"}
            /\ op # "editFare" => row[r].status = "completed"
        BY <1>5, <3>3 DEF MayLoad, OtherOps
      <4>3. e.status = "completed"
        BY <1>1, <3>1, <3>3, <4>1, EditedColumns
      <4>2. e.intent => row[r].intent \/ op = "payByCard"
        BY <1>1, <3>1, EditedColumns
      <4> QED
        BY <1>6, <3>3, <4>1, <4>2, <4>3 DEF CountInv, Paying
    <3>4. CASE op \in OtherOps
      <4>1. /\ row[r].intent \/ row[r].status = "completed"
            /\ e.status = row[r].status /\ (e.intent => row[r].intent)
            /\ op \notin {"start", "payByCard"}
        BY <1>1, <1>5, <3>1, <3>4, EditedColumns DEF MayLoad, OtherOps
      <4> QED
        BY <1>6, <4>1 DEF CountInv, Paying
    <3>5. CASE op \in {"enRoute", "arrived", "start", "noShowByDriver", "noShowByClient"}
      <4>3. op = "arrived" => row[r].status \in {"accepted", "driving_to_pickup"}
        BY <1>5 DEF MayLoad, OtherOps
      <4>1. op # "start" => e.status \notin {"in_progress", "completed"}
        BY <1>1, <3>1, <3>5, <4>3, EditedColumns
      <4>2. e.intent => row[r].intent
        BY <1>1, <3>1, <3>5, EditedColumns
      <4> QED
        BY <1>6, <3>5, <4>1, <4>2 DEF CountInv
    <3> QED
      BY <3>2, <3>3, <3>4, <3>5 DEF ByOffer, ByClaim, ClientOps, DriverOps
  <2> QED
    BY <2>1, <2>2
<1> HIDE DEF e, pc
<1>8. CarryInv(s)'
  BY <1>3, <1>4, <1>5, <1>7 DEF CarryInv, Paying
<1> QED
  BY <1>4, <1>5, <1>8, QuietCounts

\* The steps of a handler that touch no row.
LEMMA QuietMoves ==
  ASSUME IInv, TypeOK', StartsInv, NEW s \in Slots,
         \/ Dispatch(s) \/ CheckOffer(s) \/ CheckNoOffer(s) \/ DropOffer(s) \/ Reoffer(s)
         \/ ClaimConflict(s) \/ SaveSelect(s) \/ ClearKeys(s) \/ BindKeys(s)
  PROVE  StartsInv'
<1> DEFINE j == job[s]
<1>1. job \in [Slots -> Job] /\ j \in Job /\ JobInv(s)
  BY DEF IInv, TypeOK
<1>2. UNCHANGED <<row, starts, completions>>
  BY DEF Dispatch, CheckOffer, CheckNoOffer, DropOffer, Reoffer, ClaimConflict, SaveSelect,
     ClearKeys, BindKeys, store, history
<1>3. CASE Finish(s)
  BY <1>1, <1>2, <1>3, FinishType, CarryMoves, QuietCounts
<1>4. ASSUME NEW pc \in PCs \ {"select", "update"}, Goto(s, pc), j.pc \in Loaded \ {"dispatch"}
      PROVE  StartsInv'
  <2>1. job'[s] = [j EXCEPT !.pc = pc] /\ Others(s)
    BY <1>1, <1>4, GotoType
  <2>2. job'[s].ride = j.ride /\ job'[s].op = j.op /\ job'[s].ent = j.ent /\ job'[s].pc = pc
    BY <1>1, <2>1 DEF Job
  <2> QED
    BY <1>2, <1>4, <2>1, <2>2, CarryMoves, QuietCounts
<1>5. ASSUME NEW op \in {"decline", "tick"}, Save(s, Edited(op, j.ent, None)), j.pc \in Loaded \ {"dispatch"}
      PROVE  StartsInv'
  <2> DEFINE e == Edited(op, j.ent, None)
  <2>1. j.ent \in Row /\ op \in Ops
    BY <1>1 DEF Job, Ops, DriverOps
  <2>2. e \in Row /\ e.status = "cancelled" /\ (e.intent => j.ent.intent)
    BY <2>1, EditedType, EditedColumns
  <2>3. Save(s, e)
    BY <1>5
  <2> HIDE DEF e
  <2>4. job'[s] = [j EXCEPT !.pc = "select", !.ent = e] /\ Others(s)
    BY <1>1, <2>2, <2>3, SaveType
  <2>5. job'[s].ride = j.ride /\ job'[s].op = j.op /\ job'[s].ent = e
    BY <1>1, <2>4 DEF Job
  <2> QED
    BY <1>2, <1>5, <2>2, <2>4, <2>5, CarryMoves, QuietCounts
<1>6. CASE Dispatch(s) \/ ClaimConflict(s) \/ BindKeys(s)
  BY <1>3, <1>6 DEF Dispatch, ClaimConflict, BindKeys
<1>7. CASE CheckOffer(s) \/ DropOffer(s)
  BY <1>3, <1>4, <1>7 DEF CheckOffer, DropOffer, At, PCs, Loaded
<1>8. CASE CheckNoOffer(s)
  <2>1. j.pc \in Loaded \ {"dispatch"} /\ "reoffer" \in PCs \ {"select", "update"}
    BY <1>8 DEF CheckNoOffer, At, Loaded, PCs
  <2>2. Finish(s) \/ Save(s, Edited("tick", j.ent, None)) \/ Goto(s, "reoffer")
    BY <1>8 DEF CheckNoOffer
  <2> QED
    BY <1>3, <1>4, <1>5, <2>1, <2>2
<1>9. CASE Reoffer(s)
  <2>1. j.pc \in Loaded \ {"dispatch"}
    BY <1>9 DEF Reoffer, At, Loaded
  <2>2. CASE \E d \in Drivers : Become(s, [j EXCEPT !.pc = "dispatch", !.target = d])
    <3>1. PICK d \in Drivers : Become(s, [j EXCEPT !.pc = "dispatch", !.target = d])
      BY <2>2
    <3>2. job'[s] = [j EXCEPT !.pc = "dispatch", !.target = d] /\ Others(s)
      BY <1>1, <3>1 DEF Become, Others
    <3>3. job'[s].pc = "dispatch"
      BY <1>1, <3>2 DEF Job
    <3> QED
      BY <1>2, <3>2, <3>3, CarryMoves, QuietCounts
  <2>3. Finish(s) \/ Save(s, Edited("decline", j.ent, None))
          \/ \E d \in Drivers : Become(s, [j EXCEPT !.pc = "dispatch", !.target = d])
    BY <1>9 DEF Reoffer
  <2> QED
    BY <1>3, <1>5, <2>1, <2>2, <2>3
<1>10. CASE SaveSelect(s)
  <2> DEFINE k == [j EXCEPT !.pc = "update", !.dirty = Differing(j.ent, row[j.ride])]
  <2>1. job'[s] = k /\ Others(s)
    BY <1>1, <1>10 DEF SaveSelect, Become, Others
  <2>2. k.ride = j.ride /\ k.op = j.op /\ k.ent = j.ent /\ j.pc = "select"
    BY <1>1, <1>10 DEF Job, SaveSelect, At
  <2> HIDE DEF k
  <2>3. j.pc \in Loaded \ {"dispatch"}
    BY <2>2 DEF Loaded
  <2> QED
    BY <1>2, <2>1, <2>2, <2>3, CarryMoves, QuietCounts
<1>11. CASE ClearKeys(s)
  <2>1. j.pc \in Loaded \ {"dispatch"} /\ "bind" \in PCs \ {"select", "update"}
    BY <1>11 DEF ClearKeys, At, Loaded, PCs
  <2>2. Finish(s) \/ Goto(s, "bind")
    BY <1>11 DEF ClearKeys
  <2> QED
    BY <1>3, <1>4, <2>1, <2>2
<1> QED
  BY <1>6, <1>7, <1>8, <1>9, <1>10, <1>11

\* A new row has neither status nor intent that matter.
LEMMA InsertCounts ==
  ASSUME IInv, TypeOK', StartsInv, NEW s \in Slots, RequestInsert(s)
  PROVE  StartsInv'
<1>1. PICK r \in Rides :
        /\ row[r].status = "none"
        /\ row' = [row EXCEPT ![r] = [NoRow EXCEPT !.status = "requested",
                     !.client = job[s].actor, !.scheduled = (job[s].target = "scheduled")]]
        /\ Finish(s) \/ Become(s, [job[s] EXCEPT !.pc = "dispatch", !.ride = r])
  BY DEF RequestInsert
<1>2. job \in [Slots -> Job] /\ job[s] \in Job
  BY DEF IInv, TypeOK
<1>3. Others(s) /\ (job'[s] = NoJob \/ job'[s].pc = "dispatch")
  BY <1>1, <1>2, FinishType DEF Become, Others, Job
<1>4. row'[r].status = "requested" /\ ~row'[r].intent /\ \A q \in Rides : q # r => row'[q] = row[q]
  BY <1>1 DEF IInv, TypeOK, NoRow
<1>5. UNCHANGED <<starts, completions>>
  BY DEF RequestInsert, history
<1>6. Grows
  BY <1>4, <1>5 DEF Grows, Paying, IInv, TypeOK
<1>7. \A q \in Rides : CountInv(q)'
  <2>1. ASSUME NEW q \in Rides, q # r PROVE CountInv(q)'
    BY <2>1, <1>4, <1>5 DEF StartsInv, CountInv, Paying
  <2>2. CountInv(r)'
    BY <1>1, <1>4, <1>5 DEF StartsInv, CountInv, IInv, TypeOK
  <2> QED
    BY <2>1, <2>2
<1>8. CarryInv(s)'
  BY <1>3 DEF CarryInv, NoJob, Loaded
<1>9. \A t \in Slots : CarryInv(t)'
  BY <1>3, <1>6, <1>8, CarryKept DEF StartsInv, Others
<1> QED
  BY <1>7, <1>9 DEF StartsInv

\* A claim completes a ride that is in progress; nobody puts one in progress by it.
LEMMA ClaimCounts ==
  ASSUME IInv, TypeOK', StartsInv, NEW s \in Slots, Claim(s)
  PROVE  StartsInv'
<1> DEFINE j == job[s]
<1>1. j \in Job /\ j.ent \in Row /\ JobInv(s) /\ j.pc = "claim" /\ row[j.ride].status = j.ent.status
  BY DEF Claim, At, IInv, TypeOK, Job
<1>0. PICK r \in Rides : r = j.ride
  BY <1>1 DEF JobInv, Loaded
<1>2. /\ row[r].status = j.ent.status /\ j.op \in ByClaim \cup {"accept"}
      /\ j.op = "complete" => row[r].status = "in_progress"
      /\ j.op \in DriverOps => j.actor \in Drivers
  BY <1>0, <1>1 DEF JobInv, Loaded
<1>3. ClaimTo(j.op) = "completed" <=> j.op = "complete"
  BY DEF ClaimTo
<1>4. ClaimTo(j.op) \in {"accepted", "completed", "cancelled"}
  BY DEF ClaimTo
<1>5. /\ row' = [row EXCEPT ![r].status = ClaimTo(j.op)]
      /\ completions' = IF j.op = "complete" THEN [completions EXCEPT ![r] = @ + 1] ELSE completions
      /\ starts' = starts
  BY <1>0 DEF Claim
<1>6. PICK e \in Row :
        /\ Save(s, e)
        /\ e.status = ClaimTo(j.op)
        /\ e.intent => j.ent.intent
  <2>1. CASE j.op = "cancelByClient"
    <3>1. PICK fee \in OwesFee(j.ent) : Save(s, Cancelled(j.ent, fee))
      BY <2>1 DEF Claim
    <3>2. /\ Cancelled(j.ent, fee) \in Row /\ Cancelled(j.ent, fee).status = "cancelled"
          /\ Cancelled(j.ent, fee).intent = j.ent.intent
      BY <1>1, CancelledType DEF Cancelled, Row
    <3> QED
      BY <2>1, <3>1, <3>2 DEF ClaimTo
  <2>2. CASE j.op # "cancelByClient"
    <3>1. Save(s, Edited(j.op, j.ent, j.actor))
      BY <2>2 DEF Claim
    <3>2. j.op \in {"accept", "complete", "cancelByDriver"}
      BY <1>2, <2>2 DEF ByClaim
    <3>3. j.op \in Ops /\ (j.op = "accept" => j.actor \in Drivers)
      BY <1>2, <3>2 DEF Ops, DriverOps
    <3>4. Edited(j.op, j.ent, j.actor) \in Row
      BY <1>1, <3>3, EditedType
    <3>5. /\ Edited(j.op, j.ent, j.actor).status = ClaimTo(j.op)
          /\ Edited(j.op, j.ent, j.actor).intent => j.ent.intent
      BY <1>1, <3>2, <3>3, EditedColumns DEF ClaimTo
    <3> QED
      BY <3>1, <3>4, <3>5
  <2> QED
    BY <2>1, <2>2
<1>7. job' \in [Slots -> Job] /\ Others(s) /\ job'[s] = [j EXCEPT !.pc = "select", !.ent = e]
  BY <1>6, SaveType DEF IInv, TypeOK
<1>8. job'[s].ride = r /\ job'[s].op = j.op /\ job'[s].ent = e
  BY <1>0, <1>1, <1>7 DEF Job
<1>9. /\ row'[r].status = ClaimTo(j.op) /\ row'[r].intent = row[r].intent
      /\ \A q \in Rides : q # r => row'[q] = row[q] /\ completions'[q] = completions[q]
      /\ completions'[r] = IF j.op = "complete" THEN completions[r] + 1 ELSE completions[r]
  <2>1. row[r] \in Row /\ row \in [Rides -> Row] /\ completions \in [Rides -> Nat]
    BY <1>2 DEF IInv, TypeOK
  <2> HIDE DEF j
  <2>2. row' = [row EXCEPT ![r] = [row[r] EXCEPT !.status = ClaimTo(j.op)]]
    BY <1>5
  <2> QED
    BY <1>2, <1>5, <2>1, <2>2 DEF Row
<1>10. \A q \in Rides : starts[q] \in Nat /\ completions[q] \in Nat
  BY DEF IInv, TypeOK
<1> HIDE DEF j
<1>11. Grows
  BY <1>2, <1>4, <1>5, <1>9, <1>10 DEF Grows, Paying
<1>12. \A q \in Rides : CountInv(q)'
  <2>1. ASSUME NEW q \in Rides, q # r PROVE CountInv(q)'
    BY <2>1, <1>5, <1>9 DEF StartsInv, CountInv, Paying
  <2>2. CountInv(r)'
    <3>1. CountInv(r)
      BY <1>2 DEF StartsInv
    <3> QED
      BY <1>2, <1>3, <1>4, <1>5, <1>9, <1>10, <3>1 DEF CountInv, Paying
  <2> QED
    BY <2>1, <2>2
<1>13. CarryInv(s)'
  <2>1. CarryInv(s) /\ CountInv(r)
    BY <1>2 DEF StartsInv
  <2>2. j.op # "start" /\ j.op # "payByCard"
    BY <1>2 DEF ByClaim
  <2>3. e.status = "completed" => starts[r] >= 1
    BY <1>2, <1>3, <1>6, <2>1 DEF CountInv
  <2>4. e.intent => Paying(r)'
    <3>1. e.intent => Paying(r)
      BY <1>0, <1>1, <1>6, <2>1 DEF CarryInv, Loaded, j
    <3> QED
      BY <1>2, <1>11, <3>1 DEF Grows
  <2> QED
    BY <1>4, <1>5, <1>6, <1>8, <2>2, <2>3, <2>4 DEF CarryInv, Paying
<1>14. \A t \in Slots : CarryInv(t)'
  BY <1>7, <1>11, <1>13, CarryKept DEF StartsInv, Others
<1> QED
  BY <1>12, <1>14 DEF StartsInv

\* A save puts a ride in progress only as a counted start, or as a webhook whose
\* ride was started twice; what it saves besides was true when it was loaded.
LEMMA SaveUpdateCounts ==
  ASSUME IInv, TypeOK', StartsInv, NEW s \in Slots, SaveUpdate(s)
  PROVE  StartsInv'
<1> DEFINE j == job[s]
<1>1. j \in Job /\ j.pc = "update" /\ JobInv(s) /\ j.ent \in Row
  BY DEF SaveUpdate, At, IInv, TypeOK, Job
<1>0. PICK r \in Rides : r = j.ride
  BY <1>1 DEF JobInv, Loaded
<1> DEFINE m == Merge(row[r], j.ent, j.dirty)
<1>2. row[r] \in Row
  BY DEF IInv, TypeOK
<1>3. /\ m.status = IF "status" \in j.dirty THEN j.ent.status ELSE row[r].status
      /\ m.intent => j.ent.intent \/ row[r].intent
  BY <1>1, <1>2, MergeColumns
<1>4. row' = [row EXCEPT ![r] = m] /\ completions' = completions
  BY <1>0 DEF SaveUpdate
<1>5. starts' = IF j.op = "start" /\ "status" \in j.dirty THEN [starts EXCEPT ![r] = @ + 1] ELSE starts
  BY <1>0 DEF SaveUpdate
<1> HIDE DEF m
<1>6. /\ row'[r] = m /\ \A q \in Rides : q # r => row'[q] = row[q] /\ starts'[q] = starts[q]
      /\ starts'[r] = IF j.op = "start" /\ "status" \in j.dirty THEN starts[r] + 1 ELSE starts[r]
  BY <1>2, <1>4, <1>5 DEF IInv, TypeOK
<1>7. job \in [Slots -> Job] /\ \A q \in Rides : starts[q] \in Nat /\ completions[q] \in Nat
  BY DEF IInv, TypeOK
<1>8. /\ CountInv(r)
      /\ j.ent.status \in {"in_progress", "completed"} /\ j.op # "start" => starts[r] >= 1
      /\ j.op # "start" /\ j.ent.status = "in_progress" => starts[r] >= 2
      /\ j.ent.intent => Paying(r)
  BY <1>0, <1>1, <1>2 DEF StartsInv, CarryInv, Loaded
<1>10. Others(s) /\ (job'[s] = NoJob \/ job'[s] =
          [NoJob EXCEPT !.op = j.op, !.pc = AfterSave(j.op), !.ride = r, !.actor = j.actor,
             !.ent = [NoRow EXCEPT !.client = j.ent.client, !.driver = j.ent.driver]])
  <2>1. Finish(s) \/ Become(s, [NoJob EXCEPT !.op = j.op, !.pc = AfterSave(j.op), !.ride = r,
          !.actor = j.actor, !.ent = [NoRow EXCEPT !.client = j.ent.client, !.driver = j.ent.driver]])
    BY <1>0 DEF SaveUpdate
  <2> HIDE DEF j
  <2> QED
    BY <1>7, <2>1 DEF Finish, Become, Others
<1> HIDE DEF j
<1>11. Grows
  <2>1. Paying(r) => Paying(r)'
    BY <1>2, <1>3, <1>6, <1>7, <1>8 DEF Paying
  <2>2. ASSUME NEW q \in Rides, q # r PROVE Paying(q) => Paying(q)'
    BY <2>2, <1>6 DEF Paying
  <2>3. \A q \in Rides : starts'[q] >= starts[q]
    BY <1>2, <1>6, <1>7
  <2> QED
    BY <2>1, <2>2, <2>3 DEF Grows
<1>12. \A q \in Rides : CountInv(q)'
  <2>1. ASSUME NEW q \in Rides, q # r PROVE CountInv(q)'
    BY <2>1, <1>4, <1>6 DEF StartsInv, CountInv, Paying
  <2>2. CountInv(r)'
    <3>1. m.intent => Paying(r)'
      BY <1>2, <1>3, <1>8, <1>11 DEF CountInv, Grows
    <3>2. m.status \in {"in_progress", "completed"} => starts'[r] >= 1
      BY <1>3, <1>6, <1>7, <1>8 DEF CountInv
    <3>3. starts'[r] <= 1 =>
            completions[r] + (IF m.status = "in_progress" THEN 1 ELSE 0) <= starts'[r]
      <4>1. CASE "status" \notin j.dirty
        BY <4>1, <1>3, <1>6, <1>7, <1>8 DEF CountInv
      <4>2. CASE "status" \in j.dirty /\ j.op = "start"
        BY <4>2, <1>2, <1>3, <1>6, <1>7, <1>8 DEF CountInv
      <4>3. CASE "status" \in j.dirty /\ j.op # "start"
        BY <4>3, <1>2, <1>3, <1>6, <1>7, <1>8 DEF CountInv
      <4> QED
        BY <4>1, <4>2, <4>3
    <3> QED
      BY <1>4, <1>6, <3>1, <3>2, <3>3 DEF CountInv
  <2> QED
    BY <2>1, <2>2
<1>13. CarryInv(s)'
  <2>1. CASE job'[s] = NoJob
    BY <2>1 DEF NoJob, CarryInv, Loaded
  <2>2. CASE job'[s] # NoJob
    <3> DEFINE e == [NoRow EXCEPT !.client = j.ent.client, !.driver = j.ent.driver]
    <3>1. e.status = "none" /\ ~e.intent
      BY DEF NoRow
    <3>2. AfterSave(j.op) \notin {"select", "update"} /\ (j.op = "payByCard" => AfterSave(j.op) = "idle")
      BY DEF AfterSave
    <3> HIDE DEF e
    <3>3. job'[s].ent = e /\ job'[s].pc = AfterSave(j.op) /\ job'[s].op = j.op
      BY <1>10, <2>2 DEF NoJob, e
    <3> QED
      BY <3>1, <3>2, <3>3 DEF CarryInv, Loaded
  <2> QED
    BY <2>1, <2>2
<1>14. \A t \in Slots : CarryInv(t)'
  BY <1>10, <1>11, <1>13, CarryKept DEF StartsInv, Others
<1> QED
  BY <1>12, <1>14 DEF StartsInv

\* A pass of the scheduler and a booking begin without a started ride.
LEMMA BeginCounts ==
  ASSUME IInv, TypeOK', StartsInv, NEW s \in Slots,
         (\E r \in Rides : TickLoad(s, r)) \/ (\E c \in Clients : RequestCheck(s, c))
  PROVE  StartsInv'
<1>1. UNCHANGED <<row, starts, completions>> /\ job \in [Slots -> Job]
  BY DEF TickLoad, RequestCheck, store, history, IInv, TypeOK
<1>2. CASE \E r \in Rides : TickLoad(s, r)
  <2>1. PICK r \in Rides : TickLoad(s, r)
    BY <1>2
  <2> DEFINE k == [op |-> "tick", pc |-> "check", ride |-> r, actor |-> None, target |-> None,
                   late |-> due[r] = "late", ent |-> row[r], dirty |-> {}]
  <2>2. job' = [job EXCEPT ![s] = k] /\ row[r].status = "requested"
    BY <2>1 DEF TickLoad, Begin, Become, ByOffer
  <2>3. job'[s].ent = row[r] /\ job'[s].ride = r /\ job'[s].op = "tick" /\ Others(s)
    BY <1>1, <2>2 DEF Others
  <2>4. row[r].intent => Paying(r)
    BY DEF StartsInv, CountInv
  <2>5. CarryInv(s)'
    BY <1>1, <2>2, <2>3, <2>4 DEF CarryInv, Paying
  <2> QED
    BY <1>1, <2>3, <2>5, QuietCounts
<1>3. CASE \E c \in Clients : RequestCheck(s, c)
  <2>1. PICK c \in Clients, t \in Drivers \cup {"scheduled"} :
          Become(s, [NoJob EXCEPT !.op = "request", !.pc = "insert", !.actor = c, !.target = t])
    BY <1>3 DEF RequestCheck
  <2>2. job'[s].pc = "insert" /\ Others(s)
    BY <1>1, <2>1 DEF Become, Others, NoJob
  <2>3. CarryInv(s)'
    BY <2>2 DEF CarryInv, Loaded
  <2> QED
    BY <1>1, <2>2, <2>3, QuietCounts
<1> QED
  BY <1>2, <1>3

\* Time and a crash start nothing; the crash takes every entity with it.
LEMMA EnvironmentCounts ==
  ASSUME IInv, TypeOK', StartsInv, Environment
  PROVE  StartsInv'
<1>1. UNCHANGED <<row, starts, completions>>
  BY DEF Environment, OfferExpires, DeclinedExpire, TimePasses, Crash, store, history
<1>2. Grows /\ \A r \in Rides : CountInv(r)'
  BY <1>1 DEF Grows, Paying, IInv, TypeOK, StartsInv, CountInv
<1>3. CASE Crash
  <2>1. \A s \in Slots : job'[s] = NoJob
    BY <1>3 DEF Crash
  <2> QED
    BY <1>2, <2>1 DEF StartsInv, CarryInv, NoJob, Loaded
<1>4. CASE ~Crash
  <2>1. job' = job
    BY <1>4 DEF Environment, OfferExpires, DeclinedExpire, TimePasses
  <2> QED
    BY <1>2, <2>1, CarryKept DEF StartsInv
<1> QED
  BY <1>3, <1>4

LEMMA InitCounts == Init => StartsInv
BY DEF Init, StartsInv, CountInv, CarryInv, NoRow, NoJob, Loaded

\* One step of anybody, the starts counted.
LEMMA NextCounts == IInv /\ StartsInv /\ [Next]_vars => StartsInv'
<1> SUFFICES ASSUME IInv, StartsInv, [Next]_vars PROVE StartsInv'
  OBVIOUS
<1>1. TypeOK'
  BY NextInv DEF IInv
<1>2. Requests \subseteq Slots /\ Ticks \subseteq Slots
  BY DEF Slots
<1>3. CASE Arrive
  BY <1>1, <1>2, <1>3, ArriveLoads, BeginCounts, LoadCounts
<1>4. CASE StartTick
  BY <1>1, <1>2, <1>4, BeginCounts DEF StartTick
<1>5. ASSUME NEW s \in Slots, Continue(s)
      PROVE  StartsInv'
  BY <1>1, <1>5, InsertCounts, QuietMoves, ClaimCounts, SaveUpdateCounts DEF Continue
<1>6. CASE Environment
  BY <1>1, <1>6, EnvironmentCounts
<1>7. CASE UNCHANGED vars
  BY <1>7 DEF vars, store, history, StartsInv, CountInv, CarryInv, Paying
<1> QED
  BY <1>3, <1>4, <1>5, <1>6, <1>7 DEF Next

\* A ride that was started once is completed once, whatever is sent twice, saved
\* late or reported by Stripe.
THEOREM CompletedOnce == Spec => []CompletedOnceIfStartedOnce
<1>1. IInv /\ StartsInv => CompletedOnceIfStartedOnce
  BY DEF IInv, TypeOK, StartsInv, CountInv, CompletedOnceIfStartedOnce
<1> QED
  BY <1>1, Invariance, InitCounts, NextCounts, PTL DEF Spec

-----------------------------------------------------------------------------
(***************************************************************************)
(* The handlers implement the assignment of rides.                         *)
(***************************************************************************)
StageMap == [r \in Rides |-> Stage(r)]

\* What a step does to the stage of one ride is a step of the assignment.
LEMMA StageStep ==
  ASSUME TypeOK, TypeOK', NEW r \in Rides,
         \A q \in Rides : q # r => row'[q] = row[q] /\ winner'[q] = winner[q],
         \/ Stage(r)' = Stage(r) /\ winner'[r] = winner[r]
         \/ Stage(r) = "unbooked" /\ Stage(r)' = "open" /\ winner'[r] = winner[r]
         \/ Stage(r) = "open" /\ Stage(r)' = "closed" /\ winner'[r] \in Drivers \cup {winner[r]}
  PROVE  [Assignment!Next]_<<StageMap, winner>>
<1>1. \A q \in Rides : q # r => Stage(q)' = Stage(q)
  BY DEF Stage
<1>2. StageMap' = [StageMap EXCEPT ![r] = Stage(r)']
  BY <1>1 DEF StageMap
<1>3. winner' = [winner EXCEPT ![r] = winner'[r]]
  BY DEF TypeOK
<1>4. CASE Stage(r)' = Stage(r) /\ winner'[r] = winner[r]
  <2>1. StageMap' = StageMap
    BY <1>2, <1>4 DEF StageMap
  <2>2. winner' = winner
    BY <1>3, <1>4 DEF TypeOK
  <2> QED
    BY <2>1, <2>2
<1>5. CASE Stage(r) = "unbooked" /\ Stage(r)' = "open" /\ winner'[r] = winner[r]
  <2>1. Assignment!Book(r)
    BY <1>2, <1>3, <1>5 DEF Assignment!Book, StageMap, TypeOK
  <2> QED
    BY <2>1 DEF Assignment!Next
<1>6. CASE Stage(r) = "open" /\ Stage(r)' = "closed" /\ winner'[r] = winner[r]
  <2>1. Assignment!Withdraw(r)
    BY <1>2, <1>3, <1>6 DEF Assignment!Withdraw, StageMap, TypeOK
  <2> QED
    BY <2>1 DEF Assignment!Next
<1>7. CASE Stage(r) = "open" /\ Stage(r)' = "closed" /\ winner'[r] \in Drivers
  <2>1. Assignment!Award(r, winner'[r])
    BY <1>2, <1>3, <1>7 DEF Assignment!Award, StageMap
  <2> QED
    BY <1>7, <2>1 DEF Assignment!Next
<1> QED
  BY <1>4, <1>5, <1>6, <1>7

\* Booking a ride, claiming it and saving over it are the only steps that are
\* more than a stutter of the assignment.
LEMMA StepRefines ==
  ASSUME IInv, IInv', [Next]_vars
  PROVE  [Assignment!Next]_<<StageMap, winner>>
<1>1. TypeOK /\ TypeOK'
  BY DEF IInv
<1>2. CASE UNCHANGED <<row, winner>>
  <2>1. StageMap' = StageMap
    BY <1>2 DEF StageMap, Stage
  <2> QED
    BY <1>2, <2>1
<1>3. ASSUME NEW s \in Slots, RequestInsert(s)
      PROVE  [Assignment!Next]_<<StageMap, winner>>
  <2>1. PICK r \in Rides :
          /\ row[r].status = "none"
          /\ row' = [row EXCEPT ![r] = [NoRow EXCEPT !.status = "requested",
                       !.client = job[s].actor, !.scheduled = (job[s].target = "scheduled")]]
    BY <1>3 DEF RequestInsert
  <2>2. row'[r].status = "requested" /\ \A q \in Rides : q # r => row'[q] = row[q]
    BY <1>1, <2>1 DEF TypeOK, NoRow
  <2>3. winner' = winner
    BY <1>3 DEF RequestInsert, history
  <2>4. Stage(r) = "unbooked" /\ Stage(r)' = "open"
    BY <2>1, <2>2 DEF Stage
  <2> QED
    BY <1>1, <2>2, <2>3, <2>4, StageStep
<1>4. ASSUME NEW s \in Slots, Claim(s)
      PROVE  [Assignment!Next]_<<StageMap, winner>>
  <2>0. PICK r \in Rides : r = job[s].ride
    BY <1>4 DEF Claim, At, IInv, JobInv, Loaded
  <2>1. /\ row[r].status # "none"
        /\ job[s].op \in ByClaim \cup {"accept"} /\ (job[s].op = "accept" => job[s].actor \in Drivers)
        /\ job[s].op = "accept" => row[r].status = "requested"
    BY <2>0, <1>4 DEF Claim, At, IInv, JobInv, Loaded, DriverOps
  <2>2. row'[r].status = ClaimTo(job[s].op) /\ \A q \in Rides : q # r => row'[q] = row[q]
    BY <2>0, <1>1, <1>4, <2>1 DEF Claim, TypeOK, Row
  <2>3. /\ winner'[r] = IF job[s].op = "accept" THEN job[s].actor ELSE winner[r]
        /\ \A q \in Rides : q # r => winner'[q] = winner[q]
    BY <2>0, <1>1, <1>4, <2>1 DEF Claim, TypeOK
  <2>4. Stage(r)' = "closed"
    BY <2>2 DEF Stage, ClaimTo
  <2>5. Stage(r) \in {"open", "closed"} /\ (job[s].op = "accept" => Stage(r) = "open")
    BY <2>1 DEF Stage
  <2> QED
    BY <1>1, <2>1, <2>2, <2>3, <2>4, <2>5, StageStep
<1>5. ASSUME NEW s \in Slots, SaveUpdate(s)
      PROVE  [Assignment!Next]_<<StageMap, winner>>
  <2>0. PICK r \in Rides : r = job[s].ride
    BY <1>5 DEF SaveUpdate, At, IInv, JobInv, Loaded
  <2> DEFINE m == Merge(row[r], job[s].ent, job[s].dirty)
  <2>1. /\ row[r].status # "none"
        /\ job[s].ent.status \notin {"none", "requested"}
    BY <2>0, <1>5 DEF SaveUpdate, At, IInv, JobInv, Loaded
  <2>2. job[s].ent \in Row /\ row[r] \in Row
    BY <1>1, <2>1 DEF TypeOK, Job
  <2>3. m.status \in {job[s].ent.status, row[r].status}
    BY <2>2, MergeColumns
  <2>4. row' = [row EXCEPT ![r] = m] /\ winner' = winner
    BY <2>0, <1>5 DEF SaveUpdate
  <2> HIDE DEF m
  <2>5. row'[r] = m /\ \A q \in Rides : q # r => row'[q] = row[q]
    BY <1>1, <2>1, <2>4 DEF TypeOK
  <2>6. \/ Stage(r)' = Stage(r)
        \/ Stage(r) = "open" /\ Stage(r)' = "closed"
    BY <2>1, <2>3, <2>5 DEF Stage
  <2> QED
    BY <1>1, <2>1, <2>4, <2>5, <2>6, StageStep
<1>6. CASE Arrive \/ StartTick \/ Environment
  <2>1. UNCHANGED <<row, winner>>
    BY <1>6, ArriveLoads DEF StartTick, Environment, RequestCheck, Load, TickLoad, OfferExpires,
       DeclinedExpire, TimePasses, Crash, store, history
  <2> QED
    BY <1>2, <2>1
<1>7. ASSUME NEW s \in Slots, Continue(s)
      PROVE  [Assignment!Next]_<<StageMap, winner>>
  <2>1. CASE RequestInsert(s) \/ Claim(s) \/ SaveUpdate(s)
    BY <2>1, <1>3, <1>4, <1>5
  <2>2. CASE ~(RequestInsert(s) \/ Claim(s) \/ SaveUpdate(s))
    <3>1. UNCHANGED <<row, winner>>
      BY <1>7, <2>2 DEF Continue, Dispatch, CheckOffer, CheckNoOffer, DropOffer, Reoffer,
         ClaimConflict, SaveSelect, ClearKeys, BindKeys, store, history
    <3> QED
      BY <1>2, <3>1
  <2> QED
    BY <2>1, <2>2
<1>8. CASE UNCHANGED vars
  BY <1>2, <1>8 DEF vars, store, history
<1> QED
  BY <1>6, <1>7, <1>8 DEF Next

\* A ride is awarded to at most one driver, never changes hands, and is never
\* awarded once it was withdrawn, however the handlers interleave.
THEOREM Refinement == Spec => AwardedAtMostOnce
<1>1. Init => Assignment!Init
  <2> SUFFICES ASSUME Init PROVE Assignment!Init
    OBVIOUS
  <2>1. \A r \in Rides : Stage(r) = "unbooked"
    BY DEF Init, Stage, NoRow
  <2> QED
    BY <2>1 DEF Init, Assignment!Init
<1>2. IInv /\ IInv' /\ [Next]_vars => [Assignment!Next]_<<StageMap, winner>>
  BY StepRefines
<1>3. StageMap = [r \in Rides |-> Stage(r)]
  BY DEF StageMap
<1> QED
  BY <1>1, <1>2, Invariance, PTL DEF Spec, AwardedAtMostOnce, Assignment!Spec, StageMap
=============================================================================
