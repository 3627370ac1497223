---------------------------- MODULE RideLifecycle ----------------------------
(***************************************************************************)
(* The life of a ride in TaxiAPI/src/rides/rides.service.ts: one row of    *)
(* the table "rides" in PostgreSQL, the offer keys of the ride in Redis,   *)
(* and the HTTP handlers and scheduler passes that work on them at the     *)
(* same time.                                                              *)
(*                                                                         *)
(* NestJS runs the handlers on one thread and interleaves them at every    *)
(* await, so a handler is a job with a program counter: it loads the row   *)
(* into an entity of its own, may claim a status change with one atomic    *)
(* UPDATE, and later saves the entity.  Saving is two statements of        *)
(* TypeORM: a SELECT that finds the columns in which the entity differs    *)
(* from the row, and an UPDATE of those columns.  Nothing locks the row    *)
(* between any two of these steps.                                         *)
(***************************************************************************)
EXTENDS Naturals, FiniteSets

CONSTANTS
  Clients,        \* client accounts with a verified phone
  Drivers,        \* approved drivers
  Rides,          \* ids of the rides that may be booked
  Requests,       \* HTTP requests that may be in progress at once
  Ticks,          \* scheduler passes over one ride that may be in progress at once
  None,           \* SQL NULL and the absent Redis key
  Kinds,          \* kinds of booking in use, a subset of {"immediate", "scheduled"}
  MaxStarts,      \* bound: a ride is not started again after so many starts
  MaxCompletions, \* bound: nor completed again after so many completions
  MaxCrashes      \* bound: how often the API process dies

Slots == Requests \cup Ticks

ASSUME ConstantsAssumption ==
  /\ None \notin Clients \cup Drivers \cup Rides
  /\ Requests \cap Ticks = {}
  /\ Kinds \subseteq {"immediate", "scheduled"}
  /\ MaxStarts \in Nat /\ MaxCompletions \in Nat
  /\ MaxCrashes \in Nat

VARIABLES
  row,            \* the rides table
  pending,        \* ride:{id}:pending, the driver being asked (60 s TTL)
  declined,       \* ride:{id}:declined, the drivers who said no
  relay,          \* driver:active_client:{id} and driver:pickup_coords:{id}
  chat,           \* client:active_driver_user:{id}
  track,          \* the driver's ride whose route is recorded
  due,            \* where the clock stands for a scheduled ride
  job,            \* the handlers in progress
  crashes,        \* how often the process died
  winner,         \* history: the driver whose accept claimed the ride
  starts,         \* history: how often startRide wrote IN_PROGRESS
  completions     \* history: how often completeRide won its claim

store   == <<row, pending, declined, relay, chat, track>>
redis   == <<pending, declined, relay, chat, track>>
history == <<winner, starts, completions>>
vars    == <<store, due, job, crashes, history>>

(***************************************************************************)
(* Rows.  Of the timestamps only those are kept that a handler reads, as   *)
(* the fact that they are set; of the cancellation fee, that one is owed;  *)
(* of the Stripe intent, that the row names one.                           *)
(***************************************************************************)
Statuses == {"none", "requested", "accepted", "driving_to_pickup",
             "in_progress", "completed", "cancelled"}
Phases   == {"early", "due", "late"}

Row == [status    : Statuses,
        client    : Clients \cup {None},
        scheduled : BOOLEAN,
        driver    : Drivers \cup {None},
        accepted  : BOOLEAN,
        arrived   : BOOLEAN,
        fee       : BOOLEAN,
        intent    : BOOLEAN]

Columns == {"status", "client", "scheduled", "driver", "accepted", "arrived", "fee", "intent"}

NoRow == [status |-> "none", client |-> None, scheduled |-> FALSE,
          driver |-> None, accepted |-> FALSE, arrived |-> FALSE, fee |-> FALSE, intent |-> FALSE]

(***************************************************************************)
(* Handlers in progress.                                                   *)
(***************************************************************************)
\* "settle" is whatever saves the ride with columns set that are not modelled, and who
\* asked for it makes no difference: confirmCashPayment of the driver and rateRide, which
\* want a completed ride, and the webhooks onSucceeded and onFailed of Stripe.  Those and
\* onCanceled, "paymentCanceled", load the ride that names the intent, in any status.
ClientOps == {"cancelByClient", "noShowByClient", "payByCard"}
DriverOps == {"accept", "decline", "enRoute", "arrived", "start", "complete",
              "editFare", "cancelByDriver", "noShowByDriver"}
OtherOps  == {"settle", "paymentCanceled"}
Ops       == ClientOps \cup DriverOps \cup OtherOps \cup {"request", "tick"}

PCs == {"idle", "insert", "check", "claim", "select", "update", "clear",
        "bind", "drop", "reoffer", "dispatch"}

Actors == Clients \cup Drivers

Job == [op     : Ops \cup {None},
        pc     : PCs,
        ride   : Rides \cup {None},
        actor  : Actors \cup {None},
        target : Drivers \cup {None, "scheduled"},
        late   : BOOLEAN,
        ent    : Row,
        dirty  : SUBSET Columns]

NoJob == [op |-> None, pc |-> "idle", ride |-> None, actor |-> None,
          target |-> None, late |-> FALSE, ent |-> NoRow, dirty |-> {}]

At(s, pc)   == job[s].pc = pc
Become(s, j) == job' = [job EXCEPT ![s] = j]
Goto(s, pc)  == Become(s, [job[s] EXCEPT !.pc = pc])
Save(s, e)   == Become(s, [job[s] EXCEPT !.pc = "select", !.ent = e])
Finish(s)    == Become(s, NoJob)

Active(r) == row[r].status \notin {"none", "completed", "cancelled"}
-----------------------------------------------------------------------------
(***************************************************************************)
(* requestRide: look for an active ride of the client, insert the row and, *)
(* unless the ride is for later, ask the first candidate.  Which drivers   *)
(* are online, near and allowed to work changes by itself, so the list of  *)
(* candidates is any set of the drivers not excluded.                      *)
(***************************************************************************)
RequestCheck(s, c) ==
  /\ At(s, "idle")
  /\ ~ \E r \in Rides : Active(r) /\ row[r].client = c
  /\ \E t \in (IF "immediate" \in Kinds THEN Drivers ELSE {})
                \cup ({"scheduled"} \cap Kinds) :
       Become(s, [NoJob EXCEPT !.op = "request", !.pc = "insert", !.actor = c, !.target = t])
  /\ UNCHANGED <<store, due, crashes, history>>

RequestInsert(s) ==
  LET later == job[s].target = "scheduled" IN
  /\ At(s, "insert")
  /\ \E r \in Rides :
       /\ row[r].status = "none"
       /\ row' = [row EXCEPT ![r] = [NoRow EXCEPT !.status = "requested",
                                                  !.client = job[s].actor,
                                                  !.scheduled = later]]
       /\ due' = [due EXCEPT ![r] = IF later THEN "early" ELSE None]
       /\ IF later THEN Finish(s)
                   ELSE Become(s, [job[s] EXCEPT !.pc = "dispatch", !.ride = r])
  /\ UNCHANGED <<redis, crashes, history>>

\* dispatchToDriver: the offer is a Redis key, set whatever the row says by now.
Dispatch(s) ==
  /\ At(s, "dispatch")
  /\ pending' = [pending EXCEPT ![job[s].ride] = job[s].target]
  /\ Finish(s)
  /\ UNCHANGED <<row, declined, relay, chat, track, due, crashes, history>>

(***************************************************************************)
(* Every other handler begins by loading the row and checking who may do   *)
(* what in which status.                                                   *)
(***************************************************************************)
MayLoad(op, e, a) ==
  CASE op \in {"accept", "decline"} -> e.status = "requested"
    [] op = "enRoute"   -> e.driver = a /\ e.status = "accepted"
    [] op \in {"arrived", "start", "cancelByDriver"} ->
         e.driver = a /\ e.status \in {"accepted", "driving_to_pickup"}
    [] op = "complete"  -> e.driver = a /\ e.status = "in_progress"
    [] op = "editFare"  ->
         e.driver = a /\ e.status \in {"in_progress", "completed"} /\ ~e.intent
    [] op = "payByCard" -> e.client = a /\ e.status = "completed"
    [] op = "settle"    -> e.status = "completed" \/ e.intent
    [] op = "paymentCanceled" -> e.intent
    [] op = "noShowByDriver" ->
         e.driver = a /\ e.status = "driving_to_pickup" /\ e.arrived
    [] op = "cancelByClient" ->
         e.client = a /\ e.status \in {"requested", "accepted", "driving_to_pickup"}
    [] op = "noShowByClient" ->
         /\ e.client = a /\ e.status \in {"accepted", "driving_to_pickup"}
         /\ ~e.arrived /\ e.accepted

\* Mutant of OwesFee: the fee does not depend on a driver having accepted.
OwesFeeAlways(e) == {FALSE, TRUE}

\* computeCancellationFee: nothing before a driver accepted and while the grace
\* period lasts, which is over or not.
OwesFee(e) == {FALSE, e.accepted}

\* The entity after the handler's assignments, ready to be saved.
Cancelled(e, fee) == [e EXCEPT !.status = "cancelled", !.fee = fee]

Edited(op, e, a) ==
  CASE op = "accept"   -> [e EXCEPT !.status = "accepted", !.driver = a, !.accepted = TRUE]
    [] op = "enRoute"  -> [e EXCEPT !.status = "driving_to_pickup"]
    [] op = "arrived"  -> [e EXCEPT !.arrived = TRUE]
    [] op = "start"    -> [e EXCEPT !.status = "in_progress"]
    [] op \in {"complete", "editFare"} -> [e EXCEPT !.status = "completed"]
    [] op = "noShowByDriver" -> Cancelled(e, TRUE)
    [] op \in {"noShowByClient", "cancelByDriver"} -> Cancelled(e, FALSE)
    [] op \in {"decline", "tick"} -> Cancelled(e, e.fee)
    [] op = "payByCard" -> [e EXCEPT !.intent = TRUE]
    [] op = "paymentCanceled" -> [e EXCEPT !.intent = FALSE]
    [] OTHER -> e

\* Handlers that check the offer key, that claim the status, and that only save.
ByOffer == {"accept", "decline", "tick"}
ByClaim == {"complete", "cancelByClient", "cancelByDriver"}

Begin(s, op, r, a, late) ==
  LET pc == IF op \in ByOffer THEN "check" ELSE IF op \in ByClaim THEN "claim" ELSE "select"
      e  == IF pc = "select" THEN Edited(op, row[r], a) ELSE row[r]
  IN  Become(s, [op |-> op, pc |-> pc, ride |-> r, actor |-> a, target |-> None,
                 late |-> late, ent |-> e, dirty |-> {}])

Load(s, op, r, a) ==
  /\ At(s, "idle")
  /\ row[r].status # "none"
  /\ MayLoad(op, row[r], a)
  /\ op = "start" => starts[r] < MaxStarts
  /\ op = "complete" => completions[r] < MaxCompletions
  /\ Begin(s, op, r, a, FALSE)
  /\ UNCHANGED <<store, due, crashes, history>>

(***************************************************************************)
(* The handlers: what each goes on to do depends on the operation.         *)
(***************************************************************************)
Accept(s, r, d)         == Load(s, "accept", r, d)
Decline(s, r, d)        == Load(s, "decline", r, d)
EnRoute(s, r, d)        == Load(s, "enRoute", r, d)
Arrived(s, r, d)        == Load(s, "arrived", r, d)
Start(s, r, d)          == Load(s, "start", r, d)
Complete(s, r, d)       == Load(s, "complete", r, d)
EditFare(s, r, d)       == Load(s, "editFare", r, d)
CancelByDriver(s, r, d) == Load(s, "cancelByDriver", r, d)
NoShowByDriver(s, r, d) == Load(s, "noShowByDriver", r, d)
CancelByClient(s, r, c) == Load(s, "cancelByClient", r, c)
NoShowByClient(s, r, c) == Load(s, "noShowByClient", r, c)
PayByCard(s, r, c)      == Load(s, "payByCard", r, c)

Settle(s, r)          == Load(s, "settle", r, None)
PaymentCanceled(s, r) == Load(s, "paymentCanceled", r, None)

(***************************************************************************)
(* dispatchScheduledRides loads the due rides in one query; each is then   *)
(* worked on with the entity loaded at the start of the pass.              *)
(***************************************************************************)
TickLoad(s, r) ==
  /\ At(s, "idle")
  /\ row[r].scheduled /\ row[r].status = "requested" /\ row[r].driver = None
  /\ due[r] \in {"due", "late"}
  /\ Begin(s, "tick", r, None, due[r] = "late")
  /\ UNCHANGED <<store, due, crashes, history>>

\* acceptRide and declineRide: is this driver the one being asked?
CheckOffer(s) ==
  /\ At(s, "check") /\ job[s].op \in {"accept", "decline"}
  /\ IF pending[job[s].ride] = job[s].actor
     THEN Goto(s, IF job[s].op = "accept" THEN "claim" ELSE "drop")
     ELSE Finish(s)
  /\ UNCHANGED <<store, due, crashes, history>>

\* Mutant of CheckNoOffer: no grace period, the scheduler retries for ever.
CheckNoOfferForever(s) ==
  /\ At(s, "check") /\ job[s].op = "tick"
  /\ IF pending[job[s].ride] # None THEN Finish(s) ELSE Goto(s, "reoffer")
  /\ UNCHANGED <<store, due, crashes, history>>

\* The scheduler skips a ride that is being offered and gives up on a late one.
CheckNoOffer(s) ==
  LET j == job[s] IN
  /\ At(s, "check") /\ j.op = "tick"
  /\ IF pending[j.ride] # None
     THEN Finish(s)
     ELSE IF j.late
     THEN Save(s, Edited("tick", j.ent, None))
     ELSE Goto(s, "reoffer")
  /\ UNCHANGED <<store, due, crashes, history>>

DropOffer(s) ==
  LET j == job[s] IN
  /\ At(s, "drop")
  /\ declined' = [declined EXCEPT ![j.ride] = @ \cup {j.actor}]
  /\ pending'  = [pending EXCEPT ![j.ride] = None]
  /\ Goto(s, "reoffer")
  /\ UNCHANGED <<row, relay, chat, track, due, crashes, history>>

\* declineRide and the scheduler look for a driver who has not declined.
Reoffer(s) ==
  LET j == job[s] IN
  /\ At(s, "reoffer")
  /\ \/ \E d \in Drivers \ declined[j.ride] :
          Become(s, [j EXCEPT !.pc = "dispatch", !.target = d])
     \/ /\ j.op = "tick" \/ j.ent.scheduled
        /\ Finish(s)
     \/ /\ j.op = "decline" /\ ~j.ent.scheduled
        /\ Save(s, Edited("decline", j.ent, None))
  /\ UNCHANGED <<store, due, crashes, history>>
-----------------------------------------------------------------------------
(***************************************************************************)
(* claimStatus: UPDATE rides SET status = to WHERE id AND status = from.   *)
(* No row affected is a 409 and the end of the handler.                    *)
(***************************************************************************)
ClaimTo(op) == CASE op = "accept" -> "accepted" [] op = "complete" -> "completed"
                 [] OTHER -> "cancelled"

\* Mutant of Claim: the UPDATE does not test the status the handler has read.
ClaimUnchecked(s) ==
  LET j == job[s] IN
  /\ At(s, "claim")
  /\ row' = [row EXCEPT ![j.ride].status = ClaimTo(j.op)]
  /\ winner' = IF j.op = "accept" THEN [winner EXCEPT ![j.ride] = j.actor] ELSE winner
  /\ completions' = IF j.op = "complete" THEN [completions EXCEPT ![j.ride] = @ + 1]
                                         ELSE completions
  /\ Save(s, Edited(j.op, j.ent, j.actor))
  /\ UNCHANGED <<redis, due, crashes, starts>>

Claim(s) ==
  LET j == job[s] IN
  /\ At(s, "claim")
  /\ row[j.ride].status = j.ent.status
  /\ row' = [row EXCEPT ![j.ride].status = ClaimTo(j.op)]
  /\ winner' = IF j.op = "accept" THEN [winner EXCEPT ![j.ride] = j.actor] ELSE winner
  /\ completions' = IF j.op = "complete" THEN [completions EXCEPT ![j.ride] = @ + 1]
                                         ELSE completions
  /\ IF j.op = "cancelByClient"
     THEN \E fee \in OwesFee(j.ent) : Save(s, Cancelled(j.ent, fee))
     ELSE Save(s, Edited(j.op, j.ent, j.actor))
  /\ UNCHANGED <<redis, due, crashes, starts>>

\* Mutant of ClaimConflict: the handler goes on although no row was affected.
ClaimConflictIgnored(s) ==
  /\ At(s, "claim")
  /\ row[job[s].ride].status # job[s].ent.status
  /\ Save(s, Edited(job[s].op, job[s].ent, job[s].actor))
  /\ UNCHANGED <<store, due, crashes, history>>

ClaimConflict(s) ==
  /\ At(s, "claim")
  /\ row[job[s].ride].status # job[s].ent.status
  /\ Finish(s)
  /\ UNCHANGED <<store, due, crashes, history>>

\* Forget a key of Redis, or none.
Drop(f, key) == IF key = None THEN f ELSE [f EXCEPT ![key] = None]

(***************************************************************************)
(* Repository.save: SELECT the row, note which columns differ, UPDATE just *)
(* those, with the entity's values, whatever the row holds by then.        *)
(***************************************************************************)
Differing(e, cur) == {c \in Columns : e[c] # cur[c]}
Merge(cur, e, cols) == [c \in Columns |-> IF c \in cols THEN e[c] ELSE cur[c]]

SaveSelect(s) ==
  LET j == job[s] IN
  /\ At(s, "select")
  /\ Become(s, [j EXCEPT !.pc = "update", !.dirty = Differing(j.ent, row[j.ride])])
  \* A claimed complete has ended the recording of the route before it saves.
  /\ track' = Drop(track, IF j.op = "complete" THEN j.actor ELSE None)
  /\ UNCHANGED <<row, pending, declined, relay, chat, due, crashes, history>>

AfterSave(op) ==
  IF op = "start" THEN "bind"
  ELSE IF op \in {"enRoute", "arrived", "editFare", "payByCard"} \cup OtherOps THEN "idle"
  ELSE "clear"

SaveUpdate(s) ==
  LET j == job[s] IN
  /\ At(s, "update")
  /\ row' = [row EXCEPT ![j.ride] = Merge(@, j.ent, j.dirty)]
  /\ starts' = IF j.op = "start" /\ "status" \in j.dirty
               THEN [starts EXCEPT ![j.ride] = @ + 1] ELSE starts
  /\ IF AfterSave(j.op) = "idle"
     THEN Finish(s)
     ELSE Become(s, [NoJob EXCEPT
            !.op = j.op, !.pc = AfterSave(j.op), !.ride = j.ride, !.actor = j.actor,
            !.ent = [NoRow EXCEPT !.client = j.ent.client, !.driver = j.ent.driver]])
  /\ UNCHANGED <<redis, due, crashes, winner, completions>>

(***************************************************************************)
(* What a handler leaves in Redis once the row is saved.                   *)
(***************************************************************************)
Cancels == {"cancelByClient", "cancelByDriver", "noShowByClient", "noShowByDriver"}

ClearKeys(s) ==
  LET j == job[s]
      r == j.ride
      d == IF j.op \in Cancels \cup {"complete"} THEN j.ent.driver ELSE None
      c == IF j.op # "noShowByDriver" /\ d # None THEN j.ent.client ELSE None
      t == IF j.op \in {"cancelByClient", "cancelByDriver"} THEN d ELSE None
  IN
  /\ At(s, "clear")
  /\ pending'  = IF j.op \in Cancels \cup {"accept"} THEN Drop(pending, r) ELSE pending
  /\ declined' = IF j.op = "complete" THEN declined ELSE [declined EXCEPT ![r] = {}]
  /\ relay' = Drop(relay, d)
  /\ chat'  = Drop(chat, c)
  /\ track' = Drop(track, t)
  /\ IF j.op = "accept" THEN Goto(s, "bind") ELSE Finish(s)
  /\ UNCHANGED <<row, due, crashes, history>>

\* Mutant of BindKeys: the key of the live position holds the driver's own id.
BindKeysToDriver(s) ==
  LET j == job[s] IN
  /\ At(s, "bind")
  /\ relay' = [relay EXCEPT ![j.actor] = j.actor]
  /\ Finish(s)
  /\ UNCHANGED <<row, pending, declined, chat, track, due, crashes, history>>

BindKeys(s) ==
  LET j == job[s] IN
  /\ At(s, "bind")
  /\ IF j.op = "accept"
     THEN /\ relay' = [relay EXCEPT ![j.actor] = j.ent.client]
          /\ chat'  = [chat EXCEPT ![j.ent.client] = j.actor]
          /\ UNCHANGED track
     ELSE /\ track' = [track EXCEPT ![j.actor] = j.ride]
          /\ UNCHANGED <<relay, chat>>
  /\ Finish(s)
  /\ UNCHANGED <<row, pending, declined, due, crashes, history>>
-----------------------------------------------------------------------------
(***************************************************************************)
(* Time and failures.                                                      *)
(***************************************************************************)
\* The 60 s of an offer are over.
OfferExpires(r) ==
  /\ pending[r] # None
  /\ pending' = [pending EXCEPT ![r] = None]
  /\ UNCHANGED <<row, declined, relay, chat, track, due, job, crashes, history>>

\* The 15 minutes of the declined set of a scheduled ride are over.  They begin
\* anew with every decline, so they outlast the last offers of a late ride.
DeclinedExpire(r) ==
  /\ row[r].scheduled /\ declined[r] # {} /\ due[r] # "late"
  /\ declined' = [declined EXCEPT ![r] = {}]
  /\ UNCHANGED <<row, pending, relay, chat, track, due, job, crashes, history>>

\* scheduledAt comes within LEAD_MS, then GRACE_MS pass.
TimePasses(r) ==
  /\ row[r].scheduled /\ row[r].status = "requested" /\ due[r] # "late"
  /\ due' = [due EXCEPT ![r] = IF @ = "early" THEN "due" ELSE "late"]
  /\ UNCHANGED <<store, job, crashes, history>>

\* The process dies and is restarted: PostgreSQL and Redis keep what they hold.
Crash ==
  /\ crashes < MaxCrashes
  /\ \E s \in Slots : ~At(s, "idle")
  /\ crashes' = crashes + 1
  /\ job' = [s \in Slots |-> NoJob]
  /\ UNCHANGED <<store, due, history>>
-----------------------------------------------------------------------------
Init ==
  /\ row = [r \in Rides |-> NoRow]
  /\ pending = [r \in Rides |-> None]
  /\ declined = [r \in Rides |-> {}]
  /\ relay = [d \in Drivers |-> None]
  /\ chat = [c \in Clients |-> None]
  /\ track = [d \in Drivers |-> None]
  /\ due = [r \in Rides |-> None]
  /\ job = [s \in Slots |-> NoJob]
  /\ crashes = 0
  /\ winner = [r \in Rides |-> None]
  /\ starts = [r \in Rides |-> 0]
  /\ completions = [r \in Rides |-> 0]

\* Users and Stripe send requests as they like; the timer starts passes over due rides.
Arrive ==
  \E s \in Requests :
    \/ \E c \in Clients : RequestCheck(s, c)
    \/ \E r \in Rides, c \in Clients :
         \/ CancelByClient(s, r, c) \/ NoShowByClient(s, r, c)
         \/ PayByCard(s, r, c)
    \/ \E r \in Rides : Settle(s, r) \/ PaymentCanceled(s, r)
    \/ \E r \in Rides, d \in Drivers :
         \/ Accept(s, r, d) \/ Decline(s, r, d)
         \/ EnRoute(s, r, d) \/ Arrived(s, r, d) \/ Start(s, r, d)
         \/ Complete(s, r, d) \/ EditFare(s, r, d)
         \/ CancelByDriver(s, r, d) \/ NoShowByDriver(s, r, d)

StartTick == \E s \in Ticks, r \in Rides : TickLoad(s, r)

\* The next step of a handler in progress.
Continue(s) ==
  \/ RequestInsert(s) \/ Dispatch(s)
  \/ CheckOffer(s) \/ CheckNoOffer(s) \/ DropOffer(s) \/ Reoffer(s)
  \/ Claim(s) \/ ClaimConflict(s)
  \/ SaveSelect(s) \/ SaveUpdate(s)
  \/ ClearKeys(s) \/ BindKeys(s)

Environment ==
  \/ \E r \in Rides : OfferExpires(r) \/ DeclinedExpire(r) \/ TimePasses(r)
  \/ Crash

Next ==
  \/ Arrive
  \/ StartTick
  \/ \E s \in Slots : Continue(s)
  \/ Environment

Spec == Init /\ [][Next]_vars

(***************************************************************************)
(* The process runs every handler it has begun, the 30 s timer keeps       *)
(* starting passes over each due ride, keys expire and time goes on.       *)
(* Nobody has to book, answer, cancel or drive.                            *)
(***************************************************************************)
Fairness ==
  /\ \A s \in Slots : WF_vars(Continue(s))
  /\ \A r \in Rides : WF_vars(\E s \in Ticks : TickLoad(s, r))
  /\ \A r \in Rides : WF_vars(OfferExpires(r)) /\ WF_vars(TimePasses(r))

FairSpec == Spec /\ Fairness
-----------------------------------------------------------------------------
(***************************************************************************)
(* Properties.                                                             *)
(***************************************************************************)
\* Every variable holds a value of its type.
TypeOK ==
  /\ row \in [Rides -> Row]
  /\ pending \in [Rides -> Drivers \cup {None}]
  /\ declined \in [Rides -> SUBSET Drivers]
  /\ relay \in [Drivers -> Clients \cup {None}]
  /\ chat \in [Clients -> Drivers \cup {None}]
  /\ track \in [Drivers -> Rides \cup {None}]
  /\ due \in [Rides -> Phases \cup {None}]
  /\ job \in [Slots -> Job]
  /\ crashes \in Nat
  /\ winner \in [Rides -> Drivers \cup {None}]
  /\ starts \in [Rides -> Nat]
  /\ completions \in [Rides -> Nat]

\* A row never names a driver other than the one whose accept claimed the ride,
\* and a ride gets beyond "requested" with a driver only through such a claim,
\* whatever stale entities are saved over the row afterwards.
DriverWonTheRide ==
  \A r \in Rides :
    /\ row[r].driver \in {None, winner[r]}
    /\ row[r].status \in {"accepted", "driving_to_pickup", "in_progress", "completed"}
         => winner[r] # None

\* completeRide passes its claim, and so credits the driver, a second time only if
\* startRide has put the ride in progress a second time: a complete that is sent twice
\* or retried, a stale save of another handler and a webhook of Stripe are not enough.
\* (Once it was started twice, a webhook that loaded the row meanwhile may reopen it.)
CompletedOnceIfStartedOnce ==
  \A r \in Rides : starts[r] <= 1 => completions[r] <= starts[r]

\* A passenger is charged for a cancellation only if some driver had claimed the
\* ride, whichever of several cancellations wins.
FeesAreEarned ==
  \A r \in Rides : row[r].fee => winner[r] # None

\* The live position and the chat of a driver are relayed only to clients whose
\* ride the driver has won, and only the route of such a ride is recorded.
BindingsFollowTheWinner ==
  /\ \A d \in Drivers : relay[d] # None =>
       \E r \in Rides : winner[r] = d /\ row[r].client = relay[d]
  /\ \A c \in Clients : chat[c] # None =>
       \E r \in Rides : winner[r] = chat[c] /\ row[r].client = c
  /\ \A d \in Drivers : track[d] # None => winner[track[d]] = d

\* acceptRide: "claim the ride atomically so a concurrent cancel (or another
\* accept) can't be silently overwritten".
CancelNotOverwritten ==
  [][\A r \in Rides : row[r].status = "cancelled" => row'[r].status = "cancelled"]_vars

\* A scheduled ride does not stay "requested": a driver takes it, its client
\* cancels it, or the scheduler gives it up after the grace period.
ScheduledRideIsSettled ==
  \A r \in Rides :
    (row[r].scheduled /\ row[r].status = "requested") ~> row[r].status # "requested"

(***************************************************************************)
(* What the bookings promise, see RideAssignment: a ride is awarded at     *)
(* most once, and never after it was withdrawn.                            *)
(***************************************************************************)
Stage(r) ==
  CASE row[r].status = "none"      -> "unbooked"
    [] row[r].status = "requested" -> "open"
    [] OTHER                       -> "closed"

Assignment == INSTANCE RideAssignment WITH stage <- [r \in Rides |-> Stage(r)], holder <- winner

\* The handlers implement the assignment of rides.
AwardedAtMostOnce == Assignment!Spec
=============================================================================
