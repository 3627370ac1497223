--------------------------- MODULE RouteRecording ---------------------------
(***************************************************************************)
(* The recording of the route of one ride in progress, from which its      *)
(* distance is billed: the part of gps/gps.service.ts that runs beside a   *)
(* fix, rides/route-tracker.service.ts and finalizeRoute within            *)
(* completeRide.  Waypoints are buffered in a Redis list and moved to the  *)
(* table ride_waypoints in batches.  Every step between two awaits may be  *)
(* interleaved with those of other fixes, flushes and the completion.      *)
(***************************************************************************)
EXTENDS Integers, Sequences, SequencesExt

CONSTANTS
  Positions,     \* places on a road, in units of MIN_MOVE_M
  Slots,         \* calls in progress at once
  None,
  FlushEvery,    \* FLUSH_EVERY
  MaxFixes,      \* bound: fixes received
  MaxCrashes     \* bound: how often the process dies

ASSUME RouteAssumption ==
  /\ Positions \subseteq Int
  /\ FlushEvery \in Nat \ {0}
  /\ MaxFixes \in Nat /\ MaxCrashes \in Nat
  /\ None \notin Int

VARIABLES
  bound,         \* driver:active_ride:{driver} names the ride
  last,          \* ride:wp:last:{ride}
  buf,           \* ride:wp:{ride}
  rows,          \* ride_waypoints, in the order of insertion
  ended,         \* completeRide has claimed the ride
  billed,        \* what finalizeRoute returned; None is null, or not yet
  job,           \* calls in progress
  fixes,         \* fixes received so far
  crashes,
  pushed,        \* history: the waypoints recorded, in order
  due,           \* history: how many were recorded when the completion read the buffer
  mishap         \* history: what has happened that may lose waypoints

redis == <<bound, last, buf>>
vars  == <<redis, rows, ended, billed, job, fixes, crashes, pushed, due, mishap>>
-----------------------------------------------------------------------------
\* ts is Date.now() in milliseconds.  id only tells the waypoints apart in what is
\* said of them below: the code has no such number and nothing it does depends on it.
Waypoint == [id : Nat, ts : Nat, pos : Positions]
PCs == {"idle", "ride", "last", "setlast", "push", "lrange", "ltrim", "save",
        "dellast", "sum", "clear"}
Job == [pc : PCs, pos : Positions \cup {None}, batch : Seq(Waypoint), final : BOOLEAN]
NoJob == [pc |-> "idle", pos |-> None, batch |-> <<>>, final |-> FALSE]

At(s, pc)    == job[s].pc = pc
Goto(s, pc)  == job' = [job EXCEPT ![s].pc = pc]
End(s)       == job' = [job EXCEPT ![s] = NoJob]

Distance(a, b) == IF a < b THEN b - a ELSE a - b

\* The length of a route: that of its first n waypoints, for n up to all of them.
Length(wps) ==
  LET upto[n \in 0 .. Len(wps)] ==
        IF n < 2 THEN 0 ELSE upto[n - 1] + Distance(wps[n - 1].pos, wps[n].pos)
  IN  upto[Len(wps)]

SameRows(q, wps) ==
  \A w \in ToSet(wps) : Cardinality({i \in DOMAIN wps : q[i] = w})
                           = Cardinality({i \in DOMAIN wps : wps[i] = w})

\* Mutant of Orders: the SELECT has no ORDER BY.
OrdersAny(wps) == {q \in [DOMAIN wps -> ToSet(wps)] : SameRows(q, wps)}

\* ORDER BY recorded_at: rows of one millisecond come in any order.
Orders(wps) ==
  {q \in [DOMAIN wps -> ToSet(wps)] :
     /\ \A i, j \in DOMAIN wps : i < j => q[i].ts <= q[j].ts
     /\ SameRows(q, wps)}
-----------------------------------------------------------------------------
(***************************************************************************)
(* updateLocation, beside the live position.  A fix that is spoofed,       *)
(* mocked or inaccurate goes no further than ReadRide.                     *)
(***************************************************************************)
Fix(s, p) ==
  /\ At(s, "idle")
  /\ fixes < MaxFixes
  /\ fixes' = fixes + 1
  /\ job' = [job EXCEPT ![s] = [NoJob EXCEPT !.pc = "ride", !.pos = p]]
  /\ UNCHANGED <<redis, rows, ended, billed, crashes, pushed, due, mishap>>

\* getActiveRideId.
ReadRide(s) ==
  /\ At(s, "ride")
  /\ \/ bound /\ Goto(s, "last")
     \/ End(s)
  /\ UNCHANGED <<redis, rows, ended, billed, fixes, crashes, pushed, due, mishap>>

(***************************************************************************)
(* recordWaypoint: a fix within the accuracy of the last waypoint counts   *)
(* as jitter, one at the very same place always does.                      *)
(***************************************************************************)
ReadLast(s) ==
  /\ At(s, "last")
  /\ \/ last # job[s].pos /\ Goto(s, "setlast")
     \/ last # None /\ End(s)
  /\ UNCHANGED <<redis, rows, ended, billed, fixes, crashes, pushed, due, mishap>>

SetLast(s) ==
  /\ At(s, "setlast")
  /\ last' = job[s].pos
  /\ Goto(s, "push")
  /\ UNCHANGED <<bound, buf, rows, ended, billed, fixes, crashes, pushed, due, mishap>>

FlushIsDue(len) == len % FlushEvery = 0

\* Date.now(): the next waypoint is recorded in the millisecond of the last, or later.
Now == IF pushed = <<>> THEN {1} ELSE {pushed[Len(pushed)].ts + d : d \in {0, 1}}

\* RPUSH, with the time; every FLUSH_EVERY waypoints a flush nobody waits for.
Push(s) ==
  /\ At(s, "push")
  /\ \E ms \in Now :
       LET wp == [id |-> Len(pushed) + 1, ts |-> ms, pos |-> job[s].pos]
       IN  buf' = Append(buf, wp) /\ pushed' = Append(pushed, wp)
  /\ IF FlushIsDue(Len(buf'))
     THEN job' = [job EXCEPT ![s] = [NoJob EXCEPT !.pc = "lrange"]]
     ELSE End(s)
  /\ UNCHANGED <<bound, last, rows, ended, billed, fixes, crashes, due, mishap>>
-----------------------------------------------------------------------------
(***************************************************************************)
(* flushBuffer: LRANGE, LTRIM by as many entries, INSERT.  Of an INSERT    *)
(* that fails only the log hears.                                          *)
(***************************************************************************)
AfterFlush(s) == IF job[s].final THEN Goto(s, "dellast") ELSE End(s)

Flushing(s) == job[s].pc \in {"ltrim", "save"}

\* Mutant of LRange: no more than FLUSH_EVERY entries are read.
LRangeSome(s) ==
  /\ At(s, "lrange")
  /\ IF buf = <<>>
     THEN AfterFlush(s)
     ELSE job' = [job EXCEPT ![s].pc = "ltrim",
                             ![s].batch = SubSeq(buf, 1, Min({FlushEvery, Len(buf)}))]
  /\ due' = IF job[s].final THEN Len(pushed) ELSE due
  /\ mishap' = IF \E t \in Slots \ {s} : Flushing(t) THEN mishap \cup {"overlap"} ELSE mishap
  /\ UNCHANGED <<redis, rows, ended, billed, fixes, crashes, pushed>>

LRange(s) ==
  /\ At(s, "lrange")
  /\ IF buf = <<>>
     THEN AfterFlush(s)
     ELSE job' = [job EXCEPT ![s].pc = "ltrim", ![s].batch = buf]
  /\ due' = IF job[s].final THEN Len(pushed) ELSE due
  /\ mishap' = IF \E t \in Slots \ {s} : Flushing(t) THEN mishap \cup {"overlap"} ELSE mishap
  /\ UNCHANGED <<redis, rows, ended, billed, fixes, crashes, pushed>>

\* Mutant of LTrim: the list is deleted.
LTrimAll(s) ==
  /\ At(s, "ltrim")
  /\ buf' = <<>>
  /\ Goto(s, "save")
  /\ UNCHANGED <<bound, last, rows, ended, billed, fixes, crashes, pushed, due, mishap>>

LTrim(s) ==
  /\ At(s, "ltrim")
  /\ buf' = SubSeq(buf, Len(job[s].batch) + 1, Len(buf))
  /\ Goto(s, "save")
  /\ UNCHANGED <<bound, last, rows, ended, billed, fixes, crashes, pushed, due, mishap>>

Save(s) ==
  /\ At(s, "save")
  /\ \/ rows' = rows \o job[s].batch /\ UNCHANGED mishap
     \/ mishap' = mishap \cup {"failure"} /\ UNCHANGED rows
  /\ job' = [job EXCEPT ![s] = IF @.final THEN [@ EXCEPT !.pc = "dellast", !.batch = <<>>]
                                          ELSE NoJob]
  /\ UNCHANGED <<redis, ended, billed, fixes, crashes, pushed, due>>

(***************************************************************************)
(* completeRide, once it has claimed the ride: finalizeRoute, and then     *)
(* clearActiveRide.                                                        *)
(***************************************************************************)
Complete(s) ==
  /\ At(s, "idle")
  /\ ~ended
  /\ ended' = TRUE
  /\ job' = [job EXCEPT ![s] = [NoJob EXCEPT !.pc = "lrange", !.final = TRUE]]
  /\ UNCHANGED <<redis, rows, billed, fixes, crashes, pushed, due, mishap>>

DelLast(s) ==
  /\ At(s, "dellast")
  /\ last' = None
  /\ Goto(s, "sum")
  /\ UNCHANGED <<bound, buf, rows, ended, billed, fixes, crashes, pushed, due, mishap>>

SumUp(s) ==
  /\ At(s, "sum")
  /\ \E route \in Orders(rows) : billed' = IF Len(rows) < 2 THEN None ELSE Length(route)
  /\ Goto(s, "clear")
  /\ UNCHANGED <<redis, rows, ended, fixes, crashes, pushed, due, mishap>>

ClearActiveRide(s) ==
  /\ At(s, "clear")
  /\ bound' = FALSE
  /\ End(s)
  /\ UNCHANGED <<last, buf, rows, ended, billed, fixes, crashes, pushed, due, mishap>>

\* The process dies; Redis and the table stay.
Crash ==
  /\ crashes < MaxCrashes
  /\ crashes' = crashes + 1
  /\ job' = [s \in Slots |-> NoJob]
  /\ mishap' = mishap \cup {"crash"}
  /\ UNCHANGED <<redis, rows, ended, billed, fixes, pushed, due>>
-----------------------------------------------------------------------------
Init ==
  /\ bound = TRUE /\ last = None /\ buf = <<>>
  /\ rows = <<>>
  /\ ended = FALSE /\ billed = None
  /\ job = [s \in Slots |-> NoJob]
  /\ fixes = 0 /\ crashes = 0
  /\ pushed = <<>> /\ due = 0 /\ mishap = {}

Next ==
  \/ \E s \in Slots :
       \/ \E p \in Positions : Fix(s, p)
       \/ ReadRide(s) \/ ReadLast(s) \/ SetLast(s) \/ Push(s)
       \/ LRange(s) \/ LTrim(s) \/ Save(s)
       \/ Complete(s) \/ DelLast(s) \/ SumUp(s) \/ ClearActiveRide(s)
  \/ Crash

Spec == Init /\ [][Next]_vars
-----------------------------------------------------------------------------
(***************************************************************************)
(* Properties.                                                             *)
(***************************************************************************)
\* No two waypoints were recorded in one millisecond.
StampsAreApart == \A i, j \in DOMAIN pushed : i < j => pushed[i].ts < pushed[j].ts

\* completeRide: "prefer the GPS distance the server recorded".  If every waypoint has
\* a time of its own, those that two flushes save twice, or in the wrong order, and
\* those that are lost never make the billed distance longer than the route through
\* all recorded waypoints.
NeverBilledBeyondTheRoute ==
  billed # None /\ StampsAreApart => billed <= Length(pushed)

\* finalizeRoute: "Flush remaining buffer, compute Haversine sum of all persisted
\* waypoints".  If no two flushes overlapped, no INSERT failed, the process stayed up
\* and every waypoint has a time of its own, the bill covers every waypoint recorded
\* before the completion read the buffer.
QuietRoutesAreBilledInFull ==
  mishap = {} /\ StampsAreApart => \A s \in Slots : At(s, "clear") /\ due > 1 =>
                                      billed >= Length(SubSeq(pushed, 1, due))

\* flushBuffer: "Atomically remove the consumed entries".  It takes two flushes that
\* overlap, a failed INSERT or the death of the process to lose a waypoint: until
\* then each is in the buffer, with a flush, or in the table.
WaypointsSurvive ==
  mishap = {} => \A k \in DOMAIN pushed :
    \/ pushed[k] \in ToSet(buf) \cup ToSet(rows)
    \/ \E s \in Slots : pushed[k] \in ToSet(job[s].batch)
=============================================================================
