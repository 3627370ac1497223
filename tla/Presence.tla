------------------------------ MODULE Presence ------------------------------
(***************************************************************************)
(* Which driver can be offered a ride: the socket of the driver's app      *)
(* (TaxiMobile services/socket.ts), the gateway that receives its events   *)
(* (gateway/events.gateway.ts) and the geo index and heartbeat in Redis    *)
(* (gps/gps.service.ts).  One driver: nothing here relates two of them.    *)
(*                                                                         *)
(* A socket delivers in order, but the handlers of its events are          *)
(* interleaved at every await, and those of an old socket with those of    *)
(* the new one: the server hears of a lost connection only after a         *)
(* timeout.                                                                *)
(***************************************************************************)
EXTENDS Naturals, Sequences, SequencesExt

CONSTANTS
  Sockets,       \* connections; one that is over is used again
  None,
  MaxCalls       \* bound: events of a socket sent and not yet handled

ASSUME PresenceAssumption ==
  /\ None \notin Sockets
  /\ MaxCalls \in Nat \ {0}

VARIABLES
  phase,         \* the socket of the app
  live,          \* the connection it is up with
  wants,         \* driverOnline, the switch of the driver
  heard,         \* history: a fix of this spell online has reached Redis
  calls,         \* what each socket sent, in order, until its handler has ended
  known,         \* socket.data.driverId is filled in
  geo,           \* the driver is in drivers:geo
  loc,           \* driver:loc:{id} exists
  pruning        \* findNearestDrivers is about to take the driver out of the index

app    == <<phase, live, wants>>
store  == <<geo, loc>>
vars   == <<app, heard, calls, known, store, pruning>>

Dispatchable == geo /\ loc
Online       == phase = "up" /\ wants
-----------------------------------------------------------------------------
(***************************************************************************)
(* Events: op as sent, pc the next step of the handler.  "hello" and "bye" *)
(* stand for handleConnection and handleDisconnect.                        *)
(***************************************************************************)
Ops  == {"hello", "gps_update", "driver_online", "driver_offline", "bye"}
PCs  == {"wire", "lookup", "geoadd", "hset", "zrem", "del"}
Call == [op : Ops, pc : PCs]

Sent(op)     == [op |-> op, pc |-> "wire"]
Emit(s, ops) == calls' = [calls EXCEPT ![s] = @ \o [k \in DOMAIN ops |-> Sent(ops[k])]]

\* emit() of the app: dropped when the socket is not connected.
EmitLive(op) == IF phase = "up" THEN Emit(live, <<op>>) ELSE UNCHANGED calls

Over(s) == s # live /\ calls[s] = <<>>

\* The connection is over: what the server has not read yet may be lost, from some
\* event on, and it will hear of the end.
Cut(s) ==
  \E k \in 0 .. Len(calls[s]) :
    /\ \A i \in DOMAIN calls[s] : calls[s][i].pc # "wire" => i <= k
    /\ calls' = [calls EXCEPT ![s] = Append(SubSeq(@, 1, k), Sent("bye"))]

(***************************************************************************)
(* The app.                                                                *)
(***************************************************************************)
\* "trying": socket.io tries ten times to connect, and again when the app comes to
\* the foreground; "expired": the same in vain, the server refuses the access token.
Phases == {"off", "trying", "expired", "up"}

\* connect(): at the start of the app with the stored token, which may have expired
\* by now, or after a login.
Launch ==
  /\ phase = "off"
  /\ phase' \in {"trying", "expired"}
  /\ UNCHANGED <<live, wants, heard, calls, known, store, pruning>>

\* A token that expires while the socket is up matters when the connection is lost,
\* and may as well expire then.
TokenExpires ==
  /\ phase = "trying"
  /\ phase' = "expired"
  /\ UNCHANGED <<live, wants, heard, calls, known, store, pruning>>

\* A connection is made, and driver_online sent anew if the switch is on.
Connected(s) ==
  /\ phase = "trying"
  /\ Over(s)
  /\ phase' = "up" /\ live' = s
  /\ known' = [known EXCEPT ![s] = FALSE]
  /\ Emit(s, IF wants THEN <<"hello", "driver_online">> ELSE <<"hello">>)
  /\ UNCHANGED <<wants, heard, store, pruning>>

ConnectionLost ==
  /\ phase = "up"
  /\ phase' = "trying" /\ live' = None /\ heard' = FALSE
  /\ Cut(live)
  /\ UNCHANGED <<wants, known, store, pruning>>

\* disconnect() at the logout, or the app is killed.
Quit ==
  /\ phase # "off"
  /\ phase' = "off" /\ live' = None /\ wants' = FALSE /\ heard' = FALSE
  /\ IF phase = "up" THEN Cut(live) ELSE UNCHANGED calls
  /\ UNCHANGED <<known, store, pruning>>

\* The bound on fixes leaves room for one more event.
Room(n) == phase = "up" => Len(calls[live]) < n

GoOnline ==
  /\ phase # "off" /\ ~wants /\ Room(MaxCalls + 1)
  /\ wants' = TRUE
  /\ EmitLive("driver_online")
  /\ UNCHANGED <<phase, live, heard, known, store, pruning>>

GoOffline ==
  /\ wants /\ Room(MaxCalls + 1)
  /\ wants' = FALSE /\ heard' = FALSE
  /\ EmitLive("driver_offline")
  /\ UNCHANGED <<phase, live, known, store, pruning>>

SendGpsUpdate ==
  /\ Online /\ Room(MaxCalls)
  /\ EmitLive("gps_update")
  /\ UNCHANGED <<app, heard, known, store, pruning>>
-----------------------------------------------------------------------------
(***************************************************************************)
(* The gateway.                                                            *)
(***************************************************************************)
\* The event that call i of socket s is, and it goes on with pc or ends.
At(s, i, pc)   == i \in DOMAIN calls[s] /\ calls[s][i].pc = pc
Goto(s, i, pc) == calls' = [calls EXCEPT ![s][i].pc = pc]
End(s, i)      == calls' = [calls EXCEPT ![s] = RemoveAt(@, i)]

\* A handler that knows the driver goes on with updateLocation or removeFromGeo; the
\* others, driver_online among them, only had to find out.
Resume(s, i) ==
  CASE calls[s][i].op = "gps_update"              -> Goto(s, i, "geoadd")
    [] calls[s][i].op \in {"driver_offline", "bye"} -> Goto(s, i, "zrem")
    [] OTHER                                      -> End(s, i)

\* handleConnection looks the driver up, and so do gps_update and driver_online if
\* they come before it has ended; driver_offline and the disconnect do nothing then.
Receive(s, i) ==
  LET op == calls[s][i].op IN
  /\ At(s, i, "wire")
  /\ \A k \in 1 .. i - 1 : ~At(s, k, "wire")
  /\ \/ op # "hello" /\ known[s] /\ Resume(s, i)
     \/ op \in {"gps_update", "driver_online"} /\ ~known[s] /\ Goto(s, i, "lookup")
     \/ op \in {"driver_offline", "bye"} /\ ~known[s] /\ End(s, i)
     \/ op = "hello" /\ Goto(s, i, "lookup")
  /\ UNCHANGED <<app, heard, known, store, pruning>>

LookUp(s, i) ==
  /\ At(s, i, "lookup")
  /\ known' = [known EXCEPT ![s] = TRUE]
  /\ Resume(s, i)
  /\ UNCHANGED <<app, heard, store, pruning>>

\* updateLocation.
\* Mutant of GeoAdd: a driver with a heartbeat is not entered again.
GeoAddOnce(s, i) ==
  /\ At(s, i, "geoadd")
  /\ geo' = (geo \/ ~loc)
  /\ Goto(s, i, "hset")
  /\ UNCHANGED <<app, heard, known, loc, pruning>>

GeoAdd(s, i) ==
  /\ At(s, i, "geoadd")
  /\ geo' = TRUE
  /\ Goto(s, i, "hset")
  /\ UNCHANGED <<app, heard, known, loc, pruning>>

HSet(s, i) ==
  /\ At(s, i, "hset")
  /\ loc' = TRUE
  /\ heard' = (heard \/ (Online /\ s = live))
  /\ End(s, i)
  /\ UNCHANGED <<app, known, geo, pruning>>

\* removeFromGeo.
ZRem(s, i) ==
  /\ At(s, i, "zrem")
  /\ geo' = FALSE
  /\ Goto(s, i, "del")
  /\ UNCHANGED <<app, heard, known, loc, pruning>>

Del(s, i) ==
  /\ At(s, i, "del")
  /\ loc' = FALSE
  /\ End(s, i)
  /\ UNCHANGED <<app, heard, known, geo, pruning>>

Step(s, i) ==
  \/ Receive(s, i) \/ LookUp(s, i)
  \/ GeoAdd(s, i) \/ HSet(s, i)
  \/ ZRem(s, i) \/ Del(s, i)

\* The process dies: no handler runs, no disconnect is handled, Redis and the
\* table stay.
ServerCrash ==
  /\ calls' = [s \in Sockets |-> <<>>]
  /\ pruning' = FALSE
  /\ phase' = (IF phase = "up" THEN "trying" ELSE phase) /\ live' = None
  /\ heard' = FALSE
  /\ UNCHANGED <<wants, known, store>>

(***************************************************************************)
(* The heartbeat lives for 90 s and the app sends a fix every few seconds, *)
(* so it expires only when none has arrived since the driver went online.  *)
(***************************************************************************)
\* Mutant of Expire: the heartbeat has no time to live.
ExpireNever == FALSE /\ UNCHANGED vars

Expire ==
  /\ loc /\ ~heard
  /\ loc' = FALSE
  /\ UNCHANGED <<app, heard, calls, known, geo, pruning>>

(***************************************************************************)
(* findNearestDrivers: GEOSEARCH, EXISTS, and for a driver whose heartbeat *)
(* has expired a ZREM that nobody waits for.                               *)
(***************************************************************************)
\* GEOSEARCH has returned the driver some time ago.
Exists ==
  /\ ~pruning /\ ~loc
  /\ pruning' = TRUE
  /\ UNCHANGED <<app, heard, calls, known, store>>

PruneStale ==
  /\ pruning
  /\ geo' = FALSE
  /\ pruning' = FALSE
  /\ UNCHANGED <<app, heard, calls, known, loc>>
-----------------------------------------------------------------------------
Init ==
  /\ phase = "off" /\ live = None /\ wants = FALSE
  /\ heard = FALSE
  /\ calls = [s \in Sockets |-> <<>>]
  /\ known = [s \in Sockets |-> FALSE]
  /\ geo = FALSE /\ loc = FALSE
  /\ pruning = FALSE

Reconnect == \E s \in Sockets : Connected(s)
Driver    == Launch \/ Quit \/ GoOnline \/ GoOffline

Next ==
  \/ Driver \/ TokenExpires \/ Reconnect \/ ConnectionLost \/ SendGpsUpdate
  \/ \E s \in Sockets : \E i \in DOMAIN calls[s] : Step(s, i)
  \/ ServerCrash
  \/ Expire
  \/ Exists \/ PruneStale

Spec == Init /\ [][Next]_vars

(***************************************************************************)
(* The process runs the handlers it has begun and reads the events that    *)
(* have arrived (the first call of a socket moves, and so all do), Redis   *)
(* expires keys, and the app of a driver who is online sends fixes.        *)
(***************************************************************************)
Fairness ==
  /\ \A s \in Sockets : WF_vars(Step(s, 1))
  /\ WF_vars(PruneStale)
  /\ WF_vars(Expire)
  /\ WF_vars(SendGpsUpdate)

FairSpec == Spec /\ Fairness

\* The network is there again and again when the app tries to connect, or the driver
\* brings it to the foreground again and again.
RetrySpec == FairSpec /\ SF_vars(Reconnect)
-----------------------------------------------------------------------------
(***************************************************************************)
(* Properties.                                                             *)
(***************************************************************************)
\* A driver who is online for good can be offered rides for good, in the end: that
\* a late disconnect of an old connection, a stale offline or a pruning that saw
\* no heartbeat takes her out of the index is repaired by the next fix.
OnlineDriversStayDispatchable == <>[]Online => <>[]Dispatchable

\* A driver who is gone for good, without a word, by switching off or because the
\* process died, is not offered rides for ever, although fixes that were still
\* under way put her back into the index.
GoneDriversLeaveDispatch == <>[]~Online => <>[]~Dispatchable

\* socket.ts: "so the driver never silently falls offline until an app restart": who
\* was online and left the switch on gets a connection again.
NeverSilentlyOffline ==
  [](Online => []((wants /\ ~Online) => <>(~wants \/ Online)))
=============================================================================
