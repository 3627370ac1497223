# TLA+ models of TaxiMeIAfert

TaxiMeIAfert is a taxi booking platform: an API (TaxiAPI: NestJS, TypeORM on
PostgreSQL, Redis, Socket.io, Stripe), a mobile app for clients and drivers and a
dashboard for companies. This directory holds TLA+ models of the logic of the API and
of the app's session and socket, the TLC configurations that check them and the theorems
TLAPS proves about them. Paths below are relative to `src/TaxiAPI/src/`, those that begin
with `mobile:` to `src/TaxiMobile/src/`.

## 1. Inventory

The API is one Node process. Its handlers run on one thread and are interleaved at
every `await`; nothing serialises two handlers that work on the same row except the
SQL statement they happen to use. That is where the hard behaviour is.

| Component | State | Operations | What makes it correct |
|---|---|---|---|
| Ride lifecycle (`rides/rides.service.ts`) | table `rides`; Redis `ride:{id}:pending` (60 s), `ride:{id}:declined` | request, accept, decline, en-route, arrived, start, complete, edit fare, cancel, no-show, pay cash, rate; scheduler pass every 30 s | one driver wins a ride; a ride is completed and credited once; a cancelled ride stays cancelled; a scheduled ride is settled |
| Fraud checks (`fraud/`) | table of fraud events, lockouts in Redis | concurrent-ride check, failure counters | one active ride per client |
| Route tracking (`rides/route-tracker.service.ts`) | Redis: driver -> ride, buffer of waypoints | set, clear, record, finalize | a route is recorded for the ride the driver drives; no waypoint is lost or counted twice |
| Presence and dispatch (`gps/`, `gateway/`, `mobile:services/socket.ts`) | Redis geo index and heartbeat `driver:loc:{id}` (90 s), sockets, the driver's switch | connect, disconnect, go online/offline, position, prune on dispatch | offers go to drivers who are there; who is there is offered rides |
| Wallet (`wallet/`) | table `driver_ledger` | credit, mark payment method, replace credit, payout, backfill | one credit per ride; the card fee once; no payout above the balance |
| Payments (`payments/`) | `rides.payment_status`, intent id; Stripe | create intent, webhooks, cash confirmation | a paid ride stays paid; no cash mark on a card ride |
| Subscriptions (`subscriptions/`, `common/subscription-state.ts`) | `driver_subscriptions`, orders of Paysera, contracts | subscribe, change plan, cancel, checkout, callback, administrator's payment and edit, state at a time | who paid may work, nobody works on an unpaid row |
| Reminders (`subscription-cron/`) | `subscription_notifications` | the daily pass at nine | every reminder, once |
| Company billing (`company-billing/`) | contracts, `platform_commission_pct` of each ride, payments | set contract, statement | what a ride owes the platform is what was agreed when it ended |
| Finances (`company-finances/`, `admin-finances/`, `platform-fees/`) | percentages, card fee; sums over rides, credits and ledger | set percentage and fee, pages per driver | the pages agree with the wallet |
| Promo codes, first-ride offer (`first-ride-offer/`, the rides service) | `promo_codes`, `promo_fingerprints`, `platform_credits`, `clients.total_rides` | book with a code, discount at completion, count, refund, remember on deletion | limits of use; the driver is paid in full; nobody gets the offer twice |
| Verification (`phone-verification/`, `password-reset/`) | codes and attempts in Redis | send, verify, attach, reset | a code works once, within its limits |
| Authentication (`auth/`, `registration/`) and session (`mobile:api/client.ts`, `mobile:stores/authStore.ts`) | hash of the refresh token with the user; Keychain, user, queue of requests | login, refresh, logout, delete account; intercept a request and a 401 | one refresh at a time, no request waits for ever, no tokens of another user |
| Driver tariffs (`tariffs` of companies, solo drivers and the platform, `rides/rides.service.ts`) | table of tariffs, `rides.tariff_id`, `rides.estimated_fare` | create, replace, update, deactivate; choose for an estimate, an offer, an acceptance, the meter, the bill | whoever drives at whatever hour is priced by a tariff in force; the fare said with the offer is the fare charged |
| The rest | documents, messages, support, expenses, favourites, reports, notifications | storage and delivery | no protocol of their own |

How they interact: the ride handlers call the wallet (`void creditRide`, not
awaited), the route tracker (`void setActiveRide`), the fraud check and the
subscription check, write the Redis keys the gateway reads to relay positions and
chats, and publish events through the gateway. Payments save the same `rides` row as
the ride handlers. The scheduler is a `setInterval` in the rides service.

Hard behaviours:
- **check, await, save.** Every handler loads the row into an entity, checks it, and
  saves the entity later. `save` is TypeORM's: a SELECT, then an UPDATE of the columns
  in which the entity differs from what the SELECT returned. A stale entity
  therefore rewrites every column that has changed meanwhile.
- **claims.** accept, cancel and complete first move the status with
  `UPDATE ... WHERE status = from` (`claimStatus`); the other handlers do not.
- **overlap** of scheduler passes, of a pass and a decline, of double taps.
- **expiry** of Redis keys, and calls fired without `await`.
- **two clocks**: a reminder's window is whole days, the right to work an instant; the
  server hears of a lost connection only after a timeout.
- **the same number twice**: what a ride earns is in the ledger, in its breakdown, on the
  page of the company, on that of the administrators and in the statement, each computed
  from other tables.
- **crash** between two statements: PostgreSQL and Redis keep what they have,
  handlers are gone.

PROJECT.json lists each hazard at its line.

## 2. Plan

| # | Modules | Status | Content |
|---|---|---|---|
| 1 | `RideAssignment`, `RideLifecycle`, `MCRideLifecycle`, `RideLifecycleProofs` | done | the ride's row, offers and handlers; refinement of the assignment of rides; proofs |
| 2 | `Settlement`, `MCSettlement`, `SettlementProofs` | done | ledger, payment intents, webhooks, cash, edits of the fare, payouts, backfills; proofs |
| 3 | `Presence`, `MCPresence` | done | socket, gateway, geo index and heartbeat of a driver |
| 4 | `RouteRecording`, `MCRouteRecording`, `RouteRecordingProofs` | done | buffer, flushes, completion: what is billed for the distance; proofs |
| 5 | `Subscriptions`, `MCSubscriptions`, `SubscriptionsProofs` | done | rows, handlers, payments, state in time, reminders; proofs |
| 6 | `Session`, `MCSession`, `SessionProofs` | done | tokens of the app, refreshes, logins and logouts; proofs |
| 7 | `Discounts`, `MCDiscounts`, `DiscountsProofs` | done | promo code and first-ride offer from booking to completion; proofs |
| 8 | `Books`, `MCBooks`, `BooksProofs` | done | amounts: split, fee, breakdown, finances pages, statement; proofs |
| 9 | `Tariffs`, `MCTariffs`, `TariffsProofs` | done | which tariff prices a ride, by day and by night; the fare against what was offered; proofs |
| 10 | `Verification` (codes, attempts, cooldown) | open | a code succeeds at most once |

`Presence` has no proofs: its two properties are liveness.

The modules are composed through what they share: `Settlement` takes the completion of
`RideLifecycle` as its `Complete`, `Discounts` and `Books` the fare, `RouteRecording` the
binding of the driver and `Presence` yields the candidates. The races of one ride are in
`RideLifecycle` and `Settlement`, so `Books` and `Tariffs` may take the handlers of a ride one
after the other and look at amounts.

Abstract specification: `RideAssignment`. Theorems: section 12. No module that is proved about uses a
RECURSIVE operator.

## 3. The ride lifecycle

`RideLifecycle` models a handler as a *job* with a program counter. A slot of
`Requests` holds an HTTP request in progress, a slot of `Ticks` one ride's turn in a
scheduler pass.

| Model | Code |
|---|---|
| `row` | the columns of `rides` that decide something: status, client, scheduled or not, driver, acceptedAt and pickupArrivedAt as "is set", cancellationFee as "is owed", the payment intent as "is named" |
| `pending`, `declined` | the Redis keys of the offer |
| `relay`, `chat`, `track` | `driver:active_client` and `driver:pickup_coords`, `client:active_driver_user`, the route tracker's active ride |
| `due` | whether a scheduled ride is before its window, in it, or past the grace period |
| `job[s].ent` | the entity the handler loaded and edited |
| `job[s].dirty` | the columns TypeORM's SELECT found to differ |
| `winner`, `starts`, `completions` | history variables: whose claim won, how often start and complete succeeded |

The steps of a handler are its awaits: load and guard (`Load`, one named action per
handler: `Accept`, `Decline`, `EnRoute`, ...), look at the offer key (`CheckOffer`,
`CheckNoOffer`), claim (`Claim`, `ClaimConflict`), the two halves of the save
(`SaveSelect`, `SaveUpdate`), the Redis clean-up (`ClearKeys`) and the keys set last
(`BindKeys`). A decline deletes the offer (`DropOffer`), looks for another driver
(`Reoffer`) and asks him (`Dispatch`). A booking is `RequestCheck`, `RequestInsert`,
`Dispatch`. Time is `OfferExpires`, `DeclinedExpire` and `TimePasses`; `Crash` empties
all jobs and keeps the store.

Abstractions: who is online, near, approved and subscribed changes by itself, so the list of
candidates is any set of drivers who have not declined. Neighbouring Redis commands of a handler
are one step. Saves that touch only columns not modelled (`confirmCashPayment`, `rateRide`, and
`onSucceeded` and `onFailed` of Stripe) are one handler, `Settle`: they matter because they save a
whole entity. So do the payment calls, which also set and clear the intent: `PayByCard` and
`PaymentCanceled`. `confirmCashPayment`, `rateRide` and `PayByCard` ask for a completed ride, but
the three events of Stripe (payments.service.ts, lines 319, 369 and 398) find the ride by its intent
and check no status. UPDATEs of a single column not modelled (estimated fare, share token, card fee
snapshot) cannot disturb these columns and are left out, as is the two-hour expiry of the relay
keys and `ride:company`.

`RideAssignment` is what the booking promises: a ride is booked once and closes once,
awarded to one driver or withdrawn. `RideLifecycle` implements it under
`stage <- Stage(row)`, `holder <- winner`.

### Runs

| Run | Instance | Shows |
|---|---|---|
| `ride_handlers` | 1 client, 2 drivers, 1 immediate ride, 2 requests at once, 1 crash; 2 881 118 states | `TypeOK`, `DriverWonTheRide`, `CompletedOnceIfStartedOnce`, `FeesAreEarned`, `BindingsFollowTheWinner`, and the refinement `AwardedAtMostOnce` |
| `ride_scheduled` | the same with 1 scheduled ride, 1 request beside 2 scheduler passes; 307 388 states | `ScheduledRideIsSettled` under fairness |
| `ride_cancel_overwritten` | 2 requests | violation of `CancelNotOverwritten` |

The last is a disagreement of the code with its own comment: an accept claims; the client
loads the accepted ride and cancels; the accept's save, whose entity says ACCEPTED, puts it
back. Two more interleavings of the model contradict comments and are noted as hazards:
between a decline's deletion of the offer and the next offer a scheduler pass finds no offer
and sends one of its own, and two bookings of one client both pass the check for an active
ride. Neither lets two drivers win a ride.

`CompletedOnceIfStartedOnce` says no more than the code keeps. A start that was tapped twice may
put a completed ride back in progress, with a second completion and a second credit; and once it
did, a webhook that loaded the row meanwhile may do so again, without any start, because it saves the
whole entity: three completions for two starts, if `MaxCompletions` lets them. So the completions of
a ride are not bounded by its starts in general, and the property is about a ride that was
started once: nothing but a second start, that is no double tap on "complete", no retry,
no stale save and no event of Stripe, completes it twice.

### Bounds

Two handlers at once are enough for every race the properties are about: each is between the load
of one handler and the save of another. Two drivers are what it takes to have a loser. One ride is
enough because handlers of different rides share only the keys of a driver. `MaxStarts` keeps a
ride from being started anew without end (a stale start may reopen a completed ride): the guard
applies when the handler loads the row, so two starts still race. `MaxCompletions` does the same
for completions. `MaxCrashes` bounds the crashes of the process. The proofs need none of these
bounds.

Deadlock is not checked: a world in which every ride is over and nobody books is a
proper end. Symmetry of drivers and requests is used only in the run of safety
properties.

### Fairness

`FairSpec` assumes that the process runs every handler it has begun (`WF` of
`Continue`: Node's event loop, and every awaited call returns), that the 30 s timer
keeps starting passes over each due ride (`WF` of `TickLoad`; the query takes the 20
oldest, so a ride gets its turn), that offers expire and that time goes on. Nobody is
assumed to accept, decline or cancel. After the bounded number of crashes the process
stays up, which `ScheduledRideIsSettled` needs.

## 4. The settlement of a ride

`Settlement` models the money of one driver: the wallet, the Stripe intents and the three
handlers of the rides service that write the fare and the payment of a ride. Handlers are
jobs, as in `RideLifecycle`, and save entities in the same two halves.

| Model | Code |
|---|---|
| `row` | the columns of `rides` that matter here: status (in progress or completed), total_fare (0 is also NULL), payment_status, stripe_payment_intent_id |
| `intent` | what Stripe knows of each payment intent: the ride, its state, whether a payment_failed was sent |
| `credits` | the credits of each ride in `driver_ledger`: amount, gross_fare, payment_method |
| `payouts` | the sum of the payouts in `driver_ledger` |
| `lock` | the row lock of `createPayout` |
| `job[s]` | a handler: entity, columns found to differ, gross to credit, method and amount to write |
| `booting`, `orphans` | the backfills the last start still has to run, the rides its query returned |
| `edited`, `cashed`, `peak`, `forgone` | history: fares corrected, cash confirmed, the most that card rides ever had in the wallet, rides whose last attempt at a credit entered none |

| Operation | Actions |
|---|---|
| `completeRide` | `Complete`, `Claim`, `SaveSelect`, `SaveUpdate`, `AddCredit` or `CreditFails` |
| `editRideFare`, `replaceCreditForRide` | `EditFare`, the save, `Prior`, `Wipe`, `AddCredit` or `CreditFails`, then `ReadEntry` and `Mark` |
| `confirmCashPayment` | `PayCash`, the save, `Mark` |
| `createPaymentIntent` | `CreateIntent`, `Retrieve`, `Create` or `CreateFails`, the save; for a charge that succeeded at once `Find` and what `onSucceeded` does |
| `onSucceeded`, `onFailed`, `onCanceled` | `Webhook`, the save; after a success `ReadEntry`, `Mark` |
| `createPayout` | `PayoutCheck`, `PayoutInsert` |
| `onModuleInit` of the wallet | `ScanOrphans`, `BackfillCredit` or `BackfillFails`, `BackfillMethods` |
| a query that throws in any of these | `QueryFails`: the handler ends, a transaction is rolled back |
| Stripe and the client | `ClientPays`, `CardDeclined`, `IntentCanceled` |

Stripe may deliver an event of any intent in a state that warrants it, as often and as late
as it likes; payment_failed even after the success. A request is answered whether or not the
calls it fired have ended, so a slot is a thread of control and not a client.

Abstractions: the fare, the discount the platform absorbs and the payouts come from small
sets; the commission is a function of the gross (`Share`), the card fee a constant (the code
takes a snapshot on the ride, the first time); `markRidePaymentMethod` reads the credit and
the fare in one step; `creditRide` is one step, since what it reads does not change here. A
ride begins in progress and, once completed, is not started again: the stale start that may
reopen it is in `RideLifecycle`. When several credits exist, `Prior` and `ReadEntry` take
any of them, as `findOne` without an order does; a mark updates all of them.

### Runs

| Run | Instance | Shows |
|---|---|---|
| `settlement_ledger` | 1 ride, solo driver on 5 % commission, 2 intents, a discount, corrections to 0 and 1 EUR, 4 handlers of which 2 at once, 1 failed query, 1 crash; 2 850 000 states | `TypeOK`, `PayoutsWithinPeak`, `SettledCreditsWerePaid`, `OneCreditPerRide`, `CardFeeTakenOnce`, `CompletedRidesAreCredited` |

`OneCreditPerRide` speaks of rides whose fare nobody edited, as long as the process did not
die: an edit that overlaps the completion leaves two credits, one that it wrote and one that
the completion inserts. `CardFeeTakenOnce` speaks of rides with one credit, neither edited nor
confirmed in cash: a confirmation that was already under way marks the entry cash after the
card's fee was taken, a success delivered again takes it off the rest, and of two credits the
one UPDATE of the mark gives both the amount computed from either. `CompletedRidesAreCredited`
is about quiescent states: no handler, no call that was fired and no backfill is under way,
and every ride completed with a fare has its credit. The exceptions are those of the code:
`creditRide` and `replaceCreditForRide` log an error and go on (`CreditFails`, `QueryFails`,
`BackfillFails`), and `creditRide` enters nothing for a share of nothing; `forgone` has the rides
whose last attempt came to that. The next start finds them and tries again, so with another
crash they may still be credited; without one they stay without.

### Bounds

`MaxBegun` counts the handlers that ever begin, of which `Slots` run at once. Two at once are
what each race needs; four in a row are a completion, a payment and two payouts, or a
completion, a card payment, its webhook and another. One ride suffices
for the run because handlers of different rides share only the sums and the lock; the
proofs hold for any finite number. `NewFares` has the fare once more and 0, which
`EditFareDto` allows (rides.controller.ts, line 45): the correction to nothing deletes the credit
and enters none, while a completion that is still to save leaves the row its fare, a ride with
a fare and no credit, which counts as `forgone`. `MaxFailures` counts the queries that fail,
`MaxCrashes` the crashes: one of each meets every step of every handler. `Absorbed` is a
discount, so that the gross and the fare of a ride differ. The amount to pay out is more than
half of what a ride earns, so that two
payouts of it do not fit. No fairness is assumed.

## 5. Presence and dispatch

`Presence` models one driver from the app's socket to the geo index: who is there, and who
is offered rides. A connection delivers its events in order, but the server starts each
handler without waiting for the one before, and the events of an old connection mix with
those of the new one.

| Model | Code |
|---|---|
| `phase`, `live`, `wants` | the socket of the app and the driver's switch (`mobile:services/socket.ts`); "expired" is a socket that tries to connect with an access token the server refuses |
| `calls[s]` | what connection `s` sent, in order, each with the next step of its handler in `gateway/events.gateway.ts` |
| `known[s]` | `socket.data.driverId`, filled in by `handleConnection` |
| `geo`, `loc` | the driver's member of `drivers:geo` and the heartbeat `driver:loc:{id}` |
| `pruning` | the ZREM that `findNearestDrivers` fires for a driver without heartbeat |
| `heard` | history: a position of this spell online has reached Redis |

The app's actions are `Launch`, `Connected`, `ConnectionLost`, `TokenExpires`, `Quit`,
`GoOnline`, `GoOffline`, `SendGpsUpdate`; the gateway's `Receive` and `LookUp`; those of the GPS
service `GeoAdd`, `HSet` (`updateLocation`), `ZRem`, `Del` (`removeFromGeo`). A lost
connection loses its last events (`Cut`), and the server hears of the loss as an event behind
those that remain. `ServerCrash` ends all handlers without any disconnect being handled.

### Runs

| Run | Instance | Shows |
|---|---|---|
| `presence_dispatch` | 2 connections that overlap, as many reconnections and crashes as one likes; 467 433 states | under fairness `OnlineDriversStayDispatchable` and `GoneDriversLeaveDispatch` |
| `presence_silent` | the same, with connections made again and again | violation of `NeverSilentlyOffline` |

The violation: the socket keeps the access token it was opened with, nothing gives it the
new one, and a connection lost after a quarter of an hour is refused for good, although the
comment in socket.ts says that a driver never falls offline silently.

**Bounds.** Two connections are the old and the new one; a third would need the first to be
over, and a connection that is over is used again. `MaxCalls` = 1 lets a position wait while
another event is sent; two events of each connection may then be in progress, which is what it
takes for a removal to overtake a position.

**Fairness.** `FairSpec` assumes that the server runs the first handler of every connection
(`Step(s, 1)`: the event loop), that a pruning that has begun ends, that Redis expires keys and
that the app of a driver who is online sends positions, which its location task does every few
seconds. Connections need not be made again: both liveness properties are about drivers who
stay online, or offline, from some time on. `RetrySpec` adds strong fairness of `Reconnect`:
socket.io tries ten times and the listener of the foreground again, so a network that is
back again and again is enough.

## 6. Route recording

`RouteRecording` models what is billed for the distance of one ride: each position may leave
a waypoint in a Redis list, every `FlushEvery` waypoints a flush moves the list to
`ride_waypoints`, and `completeRide` flushes once more and sums the rows up.

| Model | Code |
|---|---|
| `bound`, `last`, `buf` | `driver:active_ride`, `ride:wp:last`, `ride:wp` in Redis |
| `rows` | table `ride_waypoints` |
| `job[s]` | a position, a flush or a completion in progress |
| `ended`, `billed` | the claim of `completeRide`, the result of `finalizeRoute` |
| `pushed`, `due`, `mishap` | history: waypoints recorded, how many when the completion read the list, what may lose some |

| Operation | Actions |
|---|---|
| `updateLocation` beside the position, `recordWaypoint` | `Fix`, `ReadRide`, `ReadLast`, `SetLast`, `Push` |
| `flushBuffer` | `LRange`, `LTrim`, `Save` (whose INSERT may fail: only the log hears of it) |
| `completeRide`, `finalizeRoute`, `clearActiveRide` | `Complete`, the flush, `DelLast`, `SumUp`, `ClearActiveRide` |

A position that is spoofed, mocked or inaccurate, and one within the accuracy of the last
waypoint, is a choice of `ReadRide` and `ReadLast`. The road is a line and distance the
difference of places: the triangle inequality, all the properties need, holds there as it does
on the sphere.

Run `route_recording` (positions 0, 1 and 3, 3 positions sent, 3 calls at once, a flush every 2
waypoints, 2 crashes; 1 486 730 states) shows `NeverBilledBeyondTheRoute`,
`QuietRoutesAreBilledInFull` and `WaypointsSurvive`. Types are part of the
invariant that is proved.

Two flushes may read the same entries: they are saved twice, and the second LTRIM then removes
entries that nobody saved. `NeverBilledBeyondTheRoute` says what is left of such a route is
never longer than the route; the other two properties say that nothing is lost without such a
`mishap` (overlap of flushes, failed INSERT, crash).

A waypoint carries `Date.now()`, in milliseconds, and `ORDER BY recorded_at` says nothing of
rows with the same time: `Now` lets the next waypoint have the time of the last, and `Orders`
is every arrangement the SELECT may return. Two waypoints `a`, `b` of one millisecond that
overlapping flushes save twice may come back as `a, b, a, b` and are then billed three times
their distance; saved once, they may come back the wrong way round. Both properties about the
bill therefore say so: they are about routes on which no two waypoints have the same time
(`StampsAreApart`). TLC finds both violated without that premise. The number `id` only tells
waypoints apart in the properties. The clock of the server is assumed not to step back.

**Bounds.** Three calls at once are two flushes and a position between them, or a flush, the
completion and a position; three positions start a flush and leave one waypoint to the next,
and the completion's flush is the second that overlaps. Three places on a line go there and
back, which is what a route in the wrong order would lengthen or shorten. No fairness is
assumed.

## 7. Subscriptions and reminders

`Subscriptions` models the rows of one driver: the handlers of subscriptions.service.ts that
save them, Paysera, the administrator, the state computed from the newest row, and the daily
pass of the reminders. Time goes in ticks, half days in the run, counted from nine to nine. A
call takes none. A pass does: it begins at nine or later, each row has its turn whenever the
deliveries before it are done, looks at the clock then (subscription-cron.service.ts, lines
109-119 and 153), and the pass is over at most `Drift` ticks after nine.

| Model | Code |
|---|---|
| `contract` | `drivers.billing_model` |
| `rows`, `orders` | `driver_subscriptions` by `created_at`; those of them with an order of Paysera |
| `job[s]` | a handler: the entity it loaded and edited, the columns found to differ |
| `pass`, `ledger` | the pass of subscription-cron.service.ts, `subscription_notifications` |
| `paid`, `since`, `excuse` | history: rows found paid, when each row changed, what may hide a row |
| `told`, `lost`, `missed` | history: notices delivered, those of them without an entry, days whose pass failed |

| Operation | Actions |
|---|---|
| `driverSubscribe`, `driverCancel`, `startCardCheckout`, `startCashRequest` | `Subscribe`, `Cancel`, `UpsertPending` |
| `applyPayseraCallback`, `markSubscriptionPaid`, `adminUpdateSubscription`, `setDriverContract` | `PayseraCallback`, `MarkPaid`, `AdminUpdate`, `SetContract` |
| `Repository.save` | `Insert`, or `Diff` and `Update` |
| `computeSubscriptionState`, `getDriverWorkingState` | `SubscriptionState`, `MayWork` |
| the pass at nine | `BeginPass`, `Match`, `Deliver`, `RecordSent`, `EndPass`; `Crash`, `Tick` |

Run `subscription_renewal` (2 calls at once, 3 in all in the first 3 half days, plans of 1 and 2
days, 1 day of grace, 6 half days, passes of up to a half day, 2 rows, 2 rules, 1 pass that
fails; 2 528 781 states) shows `TypeOK`, `ActiveWasPaid`,
`CoveredMayWork`, `EveryNoticeIsSent` and `NoNoticeTwice`.

`CoveredMayWork` is about a newer row that hides an older one: with `excuse`, two calls that
overlap or a payment for a row already cancelled, it happens. `EveryNoticeIsSent` is about
windows: the rule of `matchRule` compares whole days, rounded down, and the last nine o'clock
in a window is followed by a turn of the row that is in the window too. `NoNoticeTwice` holds
although a pass may die between delivery and entry: the next pass is in the window of the next
rule.

Both have an exception, which they name: a period that ends within `Drift` after nine (a driver
who subscribed then). The turn of its row may come before that time of the day on one day and
after it on the next: then no pass falls into the window and the
notice is never sent, or two do, and a notice without an entry is sent twice. The run reaches
both. `Drift` stands for all that moves
a turn: summer time, since nine is nine on the server's clock, and the pushes, mails and SMS to
the drivers before. That it is less than a day is an assumption on the volume of deliveries; a
pass that lasted longer would overlap with the next.

Three things the model shows and a reader might not expect. They need one call each, so no
run is spent on them:
- `driverCancel` blocks at once: the state looks at the status before the period. The app asks
  (`mobile:i18n/translations/en.ts`, line 775): "Your plan stays active until the end of the
  billing period."
- The notice that work is blocked is sent in the window of the rule `-Grace`, the day that
  ends when the grace ends (subscription-cron.service.ts, line 154): up to a day before
  `computeSubscriptionState` blocks the driver.
- A checkout turns a row that is active into one that is pending: the driver who renews early
  may not work until the payment arrives.

**Bounds.** Half days let periods end at nine, where a pass of a half day comes too late, and
later. Two calls at once are what a
stale save needs; the third is the call that the first two disturb. Days of grace, periods and
offsets are scaled down together, so that each rule keeps a window of its own. The company's
subscription has the same handlers over a table of its own. No fairness is assumed: after the
horizon nothing happens.

## 8. The session of the app

`Session` models the tokens of the app: the Keychain, the interceptors of `mobile:api/client.ts`,
the store of the session, and the hash of the refresh token with the user on the server.

| Model | Code |
|---|---|
| `tokens`, `user`, `refreshing` | `tokenStorage`, the user of `mobile:stores/authStore.ts`, `isRefreshing` |
| `header` | `apiClient.defaults.headers.common.Authorization`, set by a refresh and never cleared |
| `call[c]` | a request, a logout, a login or a `refreshSession` in progress, with the token it carries |
| `hash` | `users.refresh_token`, by the number of the token |
| `issued`, `expired` | tokens issued, access tokens that have expired |
| `crossed`, `stranded` | history: a refresh was on its way while a session ended; requests queued when the queue had been drained |
| `strayed` | history: a request of a signed-in user went out with a token of somebody else |

| Operation | Actions |
|---|---|
| the request interceptor | `Request`, `Attach`, `Answer`, `NetworkError` |
| the 401 | `Unauthorized`, `ReadRefreshToken`, `Validate`, `IssueTokens`, `SetTokens`, `Stored`, or `RefreshFails`, `Cleared` |
| `refreshSession` | `RefreshSession`, then `Validate` onwards |
| `login` and its kin, `logout`, `initialize` | `Login`; `Logout`, `Wipe`, `Leave`; `Restart` |

`Matches` is faithful to bcrypt, which compares 72 bytes: in those the refresh tokens of a user
are all the same, so the server accepts any of them as long as the user has one.

A request that is made takes the default header along; the interceptor replaces it if the storage
has a token (`Carried`), and a queued one that is repeated has the token `drainQueue` gave it.

Run `session_calls` (2 users, 2 calls at once, 5 in all, 1 expiry, 1 failure; 428 744 states)
shows `TypeOK`, `OneRefreshAtATime`, `QueueHasARefresh`, `TokensOfTheUser`,
`SessionSurvivesRefreshes` and, under fairness, `CallsSettle`.

The histories mark what the code leaves open: a refresh that was on its way stores its tokens
after the logout (`crossed`); a 401 that arrives after the queue was rejected and before the
flag is down waits for ever (`stranded`); and a refresh that fails clears the tokens but not the
user on the screen, who stays "signed in" until the next start. While the storage is empty the
default header speaks: after such a failure ("Clear tokens — force re-login",
`mobile:api/client.ts:104`), and between the wipe of a logout and the end of it, requests still
carry the token of the last refresh, which may be that of whoever used the phone before. So
`TokensOfTheUser` claims that no request strays only as long as no refresh has failed and nobody
is signing out; TLC finds a stray request after a failure at once.

The POST of a refresh, by the interceptor or by `refreshSession`, is a bare `axios.post` without
the time limit of `apiClient`: one that is never answered keeps `isRefreshing` up, and everything
that gets a 401 afterwards is queued for ever. `CallsSettle` says that this (`Hangs`) and the
stranded request are the only ways to wait for ever.

**Bounds.** Five calls are a sign-in, a request that refreshes, a sign-out, the sign-in of the
other user and a request of theirs, so that the header of one meets the session of the other; two
at once are a refresh and what it overlaps: a request queued for it, another refresh, a logout.
The safety properties are proved for any number. **Fairness**: `WF` of each call's `Step` except
while a refresh is on the wire: requests of `apiClient` are answered or time out after 30 s, and
the Keychain answers, in the order in which it is asked.

## 9. Discounts

`Discounts` models one promo code and the first-ride offer from the booking to the completion.
`Fare` is what the tariff makes of a ride; a discount is taken off it and the platform, or the
company of the driver, makes up for it.

| Model | Code |
|---|---|
| `account`, `leaving`, `ridden` | a person's accounts, one after the other, the deletion in progress (auth.controller.ts), `clients.total_rides` |
| `fingerprints` | `promo_fingerprints` |
| `promo`, `edit` | the row of `promo_codes`; the `usedCount` in the entity an administrator is editing |
| `ride[r]` | a ride, from the look at the code to the clean-up of its completion |
| `fired` | effects fired without `await`: refund of a use, credit of the platform, count of the ride, the driver's earning |
| `credit`, `earned` | `platform_credits`, what was credited to the driver |
| `overlapped`, `raced`, `late` | history: checks of the limit that overlapped, completions of an account that overlapped, rides counted after the deletion began |
| `lost`, `unrecorded`, `muddled` | history: credits and earnings whose INSERT failed, accounts whose identities could not be written, whether a count was overwritten by an edit or a request broke off |

| Operation | Actions |
|---|---|
| `requestRide` | `Request`, `Look` (`findValidPromo`), `Save`, `CountUse` |
| `completeRide` | `Claim`, `ApplyPromo` or `ApplyOffer`, `Store`, `CleanUp`, then `Refund`, `LogCredit`, `CountRide`, `Earn` in any order |
| accounts | `Register`, `DeleteAccount`, `Record` or `RecordFails`, `Erase` or `EraseFails` |
| the code's administration | `ReadPromo`, `SavePromo`; also `Cancel` |
| failures | `Fails`, `Breaks`, `Crash` |

Run `discount_booking` (1 person with 2 accounts, 2 rides, a code for one use, 1 edit, 1 fault;
4 096 828 states) shows `TypeOK`, `UsesAreCounted`, `LimitIsKept`, `OneOfferPerAccount`,
`RidersAreRemembered` and `DriverIsMadeWhole`.

**Failures.** A statement may fail at every place, and what the code makes of it differs.
`recordUsage` (first-ride-offer.service.ts, line 141) logs the error, and `deleteAccount` goes on
to erase the identities that nobody has remembered: `RecordFails`, noted in `unrecorded`, which
`RidersAreRemembered` excuses by name. When the transaction of the deletion fails it is rolled
back and the account stays: `EraseFails`. `creditRide` (wallet.service.ts, line 277) and the save
of the platform's credit (rides.service.ts, line 1792) log the error too: `Fails`, noted in
`lost`. `DriverIsMadeWhole` says what such a ride comes to: an earning that was lost is missing as
a whole until the backfill of the next start (which credits what the passenger paid, see section
4), a credit that was lost is missing from the platform's books while the driver has his fare.
`increment` and `decrement` of the counts are fired without `catch`; no handler of
`unhandledRejection` is installed, so their failure ends the process: `Crash`. A statement that a
request awaits ends the request, and what follows in it does not happen: `Breaks`. After `Breaks`
and `Crash` the counts and the money may be wrong and `muddled` is set; the properties that name
it then say nothing, `RidersAreRemembered` still holds.

`RidersAreRemembered` is about the table; what the offer makes of it is another matter.
`completeRide` (rides.service.ts, line 2567) passes to `isEligible` and `recordUsage` a user loaded
with the columns `id` and `fcmToken` alone, in which `fingerprints` finds no identity. So the
offer never recognises anybody, although the comment of line 1745 says that deleting the account
does not repeat it. It takes one call to see, so no run is spent on it; `ApplyOffer` models what
the code does.

**Bounds.** Two rides are two bookings that look at the same count and two completions that
look at the same `total_rides`; a code for one use is at its limit with the first. The code
is worth more than the fare, so that the cap matters. One fault, `MaxFaults`, meets every statement
of every request; the proofs hold for any number of them. No fairness is assumed.

## 10. The books

`Books` computes in cents. Of one completed ride money-split.ts and the wallet make an entry;
later the wallet's breakdown, the pages of company-finances and admin-finances and the
statement of company-billing compute what is owed, each from other tables, while rates
change. The handlers of one ride follow each other here; their races are in `Settlement`.

| Model | Code |
|---|---|
| `pct`, `deal`, `cardFee` | the driver's percentage under a company, the commission of the contract, the card fee |
| `ride[r]` | fare, discount, `platform_commission_pct` and the fee noted with the ride, how it was paid |
| `credit`, `entry` | `platform_credits`, the ride's credit in `driver_ledger` |
| `fired`, `booting` | effects fired without `await`; the backfill of methods a start has still to run |
| `forgotten`, `feeless` | history: rides whose discount an edit or a restart left out or of which an effect failed, entries a start has classified |
| `SplitDown`, `FeeDown` | the half cents that the two expressions in doubles round down |

| Operation | Definitions |
|---|---|
| `ROUND` of Postgres; `r2` of `splitRide`; `Math.round` of `markRidePaymentMethod` | `Part`; `SplitPart`; `FeePart` |
| `splitRide` | `SplitRide` |
| the errors `creditRide`, `replaceCreditForRide`, `markRidePaymentMethod` and the platform's credit log | `Fails`, `EditFareFails` |
| `completeRide`, `editRideFare`, `confirmCashPayment`, `onSucceeded` | `Complete`, `EditFare`, `Pay` |
| `creditRide`, `markRidePaymentMethod`, the platform's credit | `Credit`, `Mark`, `LogCredit` |
| `onModuleInit` of the wallet | `Restart`, `BackfillCredit`, `BackfillMethods` |
| `setDriverCommission`, `setContract`, `PlatformFeesService.update` | `SetDriverPct`, `SetContract`, `SetCardFee` |
| `toDto`, `commissionTotals`, `getDrivers`, the statement, the balance | `Breakdown`, `Commission`, `Withheld`, `DriverEarning`, `PlatformEarning`, `OwedToCompany`, `OwedToPlatform`, `OwedToDriver` |

Three expressions round to cents. The pages and the statement use `ROUND` of Postgres on exact
decimals, half a cent up. The wallet has `Math.round(gross * pct / 100 * 100) / 100` and, for the
reduction of an entry by the card's fee, `Math.round(charged * feePct) / 100`, on doubles: where
the exact amount is half a cent, the product may come out just below, and the result is a cent
less. (Away from half a cent both agree with `ROUND`: the error of a double is far smaller than
the hundredth of a cent by which such a product differs from half a cent.) Which half cents are
rounded down is a constant of each expression, `SplitDown` and `FeeDown`; the theorems hold for
all values. For example 5 % of 20.10 EUR is 1.00 EUR in the wallet and 1.01 EUR on the pages, and
10 % of 10.05 EUR is 1.00 EUR in the breakdown and 1.01 EUR in the reduction of the entry.

Run `books_views` (2 rides of a driver, solo or of a company with 0 or 75 %, 5 % commission or
none, fees of 3, 10 and the legacy 7 %, a fare of 20.10 with discounts of 0, 10.05 or all of it,
a correction to 5.01, 1 change of a rate, 1 restart or failure; 2 414 164 states) shows:
- `EntriesAddUp`: an entry is the driver's part of its breakdown, but for a cent where the fee of
  a solo driver's card ride is half a cent (the 10.05 EUR above: the entry has a cent less);
- `FinancesMatchTheWallet`: pages and wallet agree, to half a cent a ride for a company's driver
  (the page rounds the sum, the wallet each ride), and to one cent for each half cent of a
  commission or of a card's fee;
- `OnlyCashDiscountsAreLost`: cash, wallet, company page and statement leave the driver with his
  part of the gross fare, with those tolerances. Of a ride with a discount that counts as paid in
  cash his part of the discount is missing, no more and no less: `computeTotals` excludes cash
  entries from what is owed as a whole. The comment "drivers are paid in full" does not hold for
  those rides.
The type invariant is proved.

What the conditions of the last two leave out is what the books do not do:
- The pages use the driver's percentage of today, the entry the one of its day: they differ
  for older rides once a company changes it.
- A correction of the fare, and a credit made up for by a start of the process, forget the
  discount the platform absorbed. That includes a ride that earned its driver nothing because
  his percentage was 0, once a start finds it without a credit and the percentage has been
  raised, which is why the run has that percentage; the proof asked for it.
- An entry that a start classifies as card is not reduced by the fee.
- A ride one of whose effects failed (`creditRide`, `replaceCreditForRide`,
  `markRidePaymentMethod` and the log of the platform's credit catch their errors and go on) may
  have no entry, no credit of the platform or an entry that is never classified, until a start
  makes up for the entry or its method, if at all.

The company's part is what is left of the gross, and negative when percentage, commission and
fee together exceed it. `editRideFare` completes a ride without noting a commission.

**Bounds.** Odd amounts and percentages make every product need rounding; two rides are what
sums need to differ from the parts they are rounded from. The proofs hold for any amounts and
any finite number of rides. No
fairness is assumed.

## 11. Tariffs

`Tariffs` models which tariff prices a ride: the table with the edits of administrators,
companies and solo drivers, and the places of `rides.service.ts` that choose from it. The
handlers of the ride follow each other here; their races are in `RideLifecycle`.

| Model | Code |
|---|---|
| `hour` | the hour of the day, in UTC |
| `tariffs` | the table `tariffs`, by `created_at`: owner, type of vehicle, night and its window, rates, active |
| `ride` | the ride with its route, the estimates, `tariff_id` and the hours in which it was asked for, accepted and started |
| `ride.since`, `ride.until` | history: changes of the table before the offer and before the fare |

| Operation | Definitions |
|---|---|
| `createTariff`, `createGlobalTariff` | `CreateTariff` |
| `upsertMyTariff` | `UpsertMyTariff` |
| `updateTariff`, `updateGlobalTariff`; `deactivate` and its kin | `UpdateTariff`; `DeactivateTariff` |
| `selectActiveTariff`, `pickFromPool`, `isInNightWindow` | `SelectActiveTariff`, `PickFromPool`, `InNightWindow` |
| `computeTariffFare`, `computeDispatchEstimate`, `resolveLiveTariffSnapshot` | `ComputeTariffFare`, `Estimate`, `LiveTariff` |
| `requestRide`, `dispatchToDriver` | `Request`, `Dispatch` |
| `acceptRide`, `startRide`, `completeRide` | `Accept`, `Start`, `Complete` |

Run `tariff_choice` (a solo driver with a van, one of the company with a van, a solo driver
without a type of vehicle; a table of two rows out of six offered, three changes; a day of
three hours with a night around midnight, of which one passes; 1 655 633 states) shows
`SelectionFollowsPriority` and `EstimateIsKept`.

What the model shows and the conditions of `EstimateIsKept` leave out, each within reach of
reading and not worth a run:
- The running meter asks `resolveLiveTariffSnapshot`, which chooses anew at the hour of the
  start and ignores the tariff noted at the acceptance; the bill goes by the one noted, although
  the comment of line 2795 says that the logic is that of the final fare.
- `estimateFare` is not modelled, since nothing later reads what it said: the flat fare of an
  intercity route is what the passenger is told before the booking (lines 552 to 573: "the
  actual price they'll pay"), and nobody charges it.
- The pool of last resort is "no company" (line 2254), which includes the personal tariffs of
  other solo drivers.
- The controller's `getActiveTariff`, which only displays, reads a window whose ends are equal
  and that pool differently from `selectActiveTariff`.

**Bounds.** Two rows are a row and the one it is chosen against; three changes create both and
alter one. Three hours are what a window over midnight needs to have hours on both sides and
one outside. The proofs hold for any table, hours and rates. No fairness is assumed.

## 12. What is proved

`RideLifecycleProofs` proves, for every value of the constants under
`ConstantsAssumption`:

- `TypeCorrect`: `TypeOK`.
- `WonRides`: `DriverWonTheRide`. `EarnedFees`: `FeesAreEarned`.
- `CompletedOnce`: `CompletedOnceIfStartedOnce`.
- `RightBindings`: `BindingsFollowTheWinner`.
- `Refinement`: every behaviour is one of `RideAssignment`.

None of these is inductive alone, since what a stale entity may do to the row depends
on what the entity holds. The invariant `IInv` adds
- `RowInv`: a row names only its winner, is past "requested", accepted or owes a fee only if
  it has one, an unbooked or requested ride has no winner and no payment intent;
- `JobInv(s)`: the entity a handler carries is *earned* in the same sense, it belongs to
  the client of the row, and an entity about to be saved is past "requested".

`CompletedOnce` rests on `StartsInv` besides: a ride started once has a completion to spend only
while it is in progress (`CountInv`), it names an intent only if it was started and, should it be
in progress then, started twice, and a handler other than a start is about to save "in_progress"
only for a ride started twice (`CarryInv`). That is what keeps the webhooks, which check nothing,
from reopening a ride that was started once: they find it by an intent, and an intent is created
for completed rides.

That is why saves, however stale, are harmless to these properties: whatever column a
save takes from the entity or leaves in the row, both sides are earned. `JobKept` states
that a handler that does not move keeps its invariant when the rows change in the ways
any action changes them (`Benign`); each action then has a lemma of its own, `NextInv`
collects them, and `StepRefines` maps booking, claim and save to steps of the assignment
and everything else to a stutter.

`SettlementProofs` proves, under `MoneyAssumption`:

- `SettlementTypes`: `TypeOK`.
- `SettledWerePaid`: `SettledCreditsWerePaid`.
- `OneCredit`: `OneCreditPerRide`. `CardFeeOnce`: `CardFeeTakenOnce`.
- `PayoutsAreCovered`: `PayoutsWithinPeak`.
- `RidesAreCredited`: `CompletedRidesAreCredited`, for any fares, corrections and failures.

`SettledCreditsWerePaid` is not inductive: a webhook believes the row's intent, the backfill believes
the row's `payment_status`, an edit copies the method of the entry it deletes, and each of
these may have been written by a stale save. `IInv` adds that a row and the entity of every
handler are *honest* (marked paid only if the ride was paid for; the intent they name was
created for that ride), and that a handler that will write a method knows of a payment
(`JobOK`). `Evolves` states what every step leaves standing: an intent keeps its ride,
collected money stays collected, confirmed cash confirmed. Every action has a lemma;
`QuietStep`, `RowStep`, `LedgerStep` are the three kinds of steps. The other four have an
invariant each on top of `IInv`:
- `CreditsOrdered`: of the handlers of a ride one has claimed it and is on its way to the credit
  (`Finishing`), and as long as it is, an untouched ride has none.
- `Covered`: who is about to insert a payout holds the lock, and the payout fits. Settled credits
  are a sum over a finite set, so the lemmas about it go by induction over its subsets, with
  the well-founded minimum (`WFMin`) for the induction the provers cannot instantiate.
- `Priced`: the fare of a ride nobody corrects is set by the one completion that claimed it, is
  no more than the gross of its credit, and every entity loaded later has it; so whatever mark
  comes late takes the fee of that fare, once.
- `Owed`: a fare, in the row or in an entity that may still be saved, has its credit, or a
  handler or the backfill is about to enter it, or the backfill has yet to look, or the last
  attempt came to nothing (`forgone`). Crashes and stale saves move a ride between these cases
  and never out of them; only an attempt that fails or has nothing to enter adds to the last.

`SessionProofs` proves, under `SessionAssumption`, for any number of users, calls, expiries
and failures:

- `SessionTypes`: `TypeOK`. `OneRefresh`: `OneRefreshAtATime`.
- `QueueIsServed`: `QueueHasARefresh`.
- `OwnTokens`: `TokensOfTheUser`, tokens stored and tokens sent. `SessionSurvives`:
  `SessionSurvivesRefreshes`.

`IInv` adds `CallOK` (at which step each kind of call may be, and with which token),
`OneAtTheDoor` (at most one logout and one login), `RefreshInv` (the flag and the one call that
refreshes), `OwnerInv` (whose tokens are stored and on their way, as long as nothing crossed)
and `KeptInv` (the server has a hash for whoever is signed in, as long as nobody signs out).
The last is why refreshes that overlap do no harm: whichever token a refresh carries, the
server accepts it while the hash is there.

`DiscountsProofs` proves, under `DiscountsAssumption`, for any people, rides, limits and worths:

- `DiscountsTypes`: `TypeOK`. `DriversAreMadeWhole`: `DriverIsMadeWhole`.
- `RidersAreKnown`: `RidersAreRemembered`. `OneOffer`: `OneOfferPerAccount`.
- `UseCount`: `UsesAreCounted`. `UseLimit`: `LimitIsKept`.

`IInv` adds, per ride, `RideOK`, `FiredOK` and `MoneyOK`: what is taken off, which effects are
still to happen at which step or have failed, and what has been paid so far. `DeadRide` is what a
request that breaks off leaves, alone or with the process. `MemoryInv`, `RacedInv` and
`OfferInv` relate the rides of an account to its count. `UseInv` is about cardinalities: the
counter is the number of rides counted, and the bookings that are past their look at the code
without having overlapped another are no more than the limit. The lemmas on `Cardinality` are those of
`FiniteSetTheorems`.

`BooksProofs` proves, under `BooksAssumption`, for any amounts and percentages:

- `BooksTypes`: the type invariant; nobody pays less than nothing.
- `EntriesAreSums`: `EntriesAddUp`. `DriversAreWhole`: `OnlyCashDiscountsAreLost`.
- `FinancesAgree`: `FinancesMatchTheWallet`.

`IInv` adds `EntryOK`: an entry belongs to a completed ride, to a driver under a company or a
solo driver once and for all, its method is pending or what was paid, and its amount is the
one `Noted`, with the roundings of the steps that wrote it, but for the card rides of solo
drivers a start has classified. `PartType` relates the three roundings.

`DiscountsKnown` follows a discount from the completion to the platform's credit and into the
gross of the entry, unless it was forgotten. `SumsAreClose` says that two sums over the same
rides differ by no more than the sum of what their terms may differ by, which is how the earnings
on the page of the finances and the entries of the wallet are related.

`SubscriptionsProofs` proves, under `SubscriptionsAssumption`, for any plans, grace, rules of
reminders and horizon, and passes that take less than a day:

- `SubscriptionsTypes`: `TypeOK`. `ActiveRowsWerePaid`: `ActiveWasPaid`.
- `CoveredDriversMayWork`: `CoveredMayWork`. `NoticesAreSentOnce`: `NoNoticeTwice`.
- `NoNoticeIsForgotten`: `EveryNoticeIsSent`.

`IInv` adds what the entity of a handler may hold (`PaidInv`); that without an excuse one handler
is at work and every row but the newest is cancelled (`OneRow`); and that every notice sent was
sent on its day (`DayOf`, the day of the last nine o'clock in its window) or, for a period that
ends within `Drift`, on the day before, and that the pass of today has it behind it if that day
is today (`NoticeInv`). One that was sent on both has no entry. `DaysLeft` is the arithmetic:
floor((end - t) / day) is the difference of the days, less one as soon as t is later in its day
than the end. `NoneForgotten` is the other half, on top of `IInv`: a row that has not changed
since before the day of a notice has had it, or the day is today and the notice is still ahead
of the pass. A row that changes does so on another day than the notice's (`RowsChange`), a
notice leaves the pass by being delivered or because the pass failed (`PassKeeps`), and a day
ends only when its pass has (`TickKeeps`).

`RouteRecordingProofs` proves, under `RouteAssumption`, for any positions, calls and flush size:

- `NoWaypointIsLost`: `WaypointsSurvive`.
- `FlushesTrimWhatTheyRead`: an LTRIM removes the entries its flush has read, if nothing has
  gone wrong, whatever was pushed in between.
- `BilledWithinTheRoute`: `NeverBilledBeyondTheRoute`.
- `QuietRoutesAreBilled`: `QuietRoutesAreBilledInFull`.

`IInv` adds the types, that only a flush holds waypoints, and that one does at a time
(`HeldWhileFlushing`, `OneFlush`).

The two about the bill are inductions over sequences of any length, which the provers cannot do by
a rule: they go by sets of naturals that have 0 and each successor (`AllNaturals`, from `WFMin`).
`Upto(w)[n]` is the length of the first n waypoints; `Triangle` says it grows between two
waypoints by no less than their distance. `OrdersHold` is about ORDER BY: a row occurs as often in
the result as in the table, so at least once; by `OrdersAreSorted` the result is in the order of
the route if no two waypoints have the same time (`Apart`). Hence some waypoints of the route, in
order, however often each was saved, are no longer than the route (`NeverLonger`), and as long as
its beginning if all of that is among them (`NeverShorter`). `BillInv` adds to `IInv` what makes
this apply: a waypoint in the list, with a flush or in the table is one of the route (`Stamped`,
`AllOnRoute`), one call completes the ride (`OneCompletes`), and until a mishap it has everything
that was due in its batch or in the table (`Collects`).

`TariffsProofs` proves, under `TariffsAssumption`, for any table, hours and rates:

- `OfferedFareIsCharged`: `EstimateIsKept`.
- `TariffFollowsTheClock`: `SelectionFollowsPriority`.

The first follows the estimate through the stages (`OfferStands`, `AcceptedAsOffered`); the second
rests on `NightIsCounted`, which says of every window that `isInNightWindow` is membership in
the hours counted on from its start, over midnight or not.

Only model-checked: liveness, out of the prover's reach (`ScheduledRideIsSettled`,
`CallsSettle`, `OnlineDriversStayDispatchable`, `GoneDriversLeaveDispatch`), and the two
violations. Every safety property a passing run checks is stated by a theorem.

## 13. Not modelled

Parts with a state of their own that no module has yet: phone verification and password
reset (codes, attempts and cooldowns in Redis), the reminders of scheduled rides, the company's
subscription (the same handlers over another table), the settlements and commission payments
that are subtracted from what is owed, expenses, and the backfill of gross_fare for rows older
than the column.

Data the models take as given: distances; intercity routes, whose flat fare is never charged; a
ride's stops; codes that a company issues to its own driver, beyond the lower price they make; the
ranking of candidates; plans and their prices; passwords and the tokens of Google and Apple; setup
intents and saved cards. The columns `is_online` and `current_lat` are read by dashboards only,
and the relays of positions and chats keep no state but the keys in `RideLifecycle`.

Storage without a protocol: documents, messages, support, reports, settings, favourites.

TaxiMobile's screens, its translations and TaxiDashboard are most of the lines of the
repository. Their control is that of the navigation and interface libraries, which are not
part of it, and what their users do is the environment of the models: any order of requests
the API accepts. Of the app only the session and the socket keep a state that outlives a
screen, and both are modelled.

An immediate ride whose offer expires unanswered stays "requested": the code relies on
the driver's app, which declines after 55 s when it is open. No document promises that
such a ride is settled, so no property says so.
