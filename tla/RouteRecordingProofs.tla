------------------------ MODULE RouteRecordingProofs ------------------------
(***************************************************************************)
(* No waypoint is lost without a mishap, no bill exceeds the route and, if *)
(* there was none, it covers every waypoint that was due: for any number   *)
(* of calls, fixes, places and crashes.                                    *)
(***************************************************************************)
EXTENDS RouteRecording, SequenceTheorems, FiniteSetTheorems, WellFoundedInduction, TLAPS

\* Nothing below depends on where a fix was.
Recorded == [id : Nat, ts : Nat, pos : Positions \cup {None}]
Call == [pc : PCs, pos : Positions \cup {None}, batch : Seq(Recorded), final : BOOLEAN]

Types ==
  /\ buf \in Seq(Recorded) /\ rows \in Seq(Recorded) /\ pushed \in Seq(Recorded)
  /\ job \in [Slots -> Call]

\* The calls that hold waypoints are those between their LRANGE and their INSERT.
HeldWhileFlushing == \A s \in Slots : Flushing(s) \/ job[s].batch = <<>>

\* Until something has gone wrong, one flush at a time holds waypoints.
OneFlush == mishap = {} => \A s, t \in Slots : Flushing(s) /\ Flushing(t) => s = t

\* ... and what it is about to trim is what it has read, whatever was pushed since.
TrimsWhatItRead ==
  mishap = {} => \A s \in Slots : At(s, "ltrim") =>
    /\ Len(job[s].batch) <= Len(buf)
    /\ \A i \in 1 .. Len(job[s].batch) : job[s].batch[i] = buf[i]

IInv == Types /\ HeldWhileFlushing /\ OneFlush /\ TrimsWhatItRead /\ WaypointsSurvive

LEMMA NoJobType == NoJob \in Call
BY DEF NoJob, Call, PCs

LEMMA InitIInv == Init => IInv
<1>1. ASSUME Init PROVE IInv
  <2>1. Types
    BY <1>1, NoJobType DEF Init, Types
  <2>2. HeldWhileFlushing
    BY <1>1 DEF Init, HeldWhileFlushing, Flushing, NoJob
  <2>3. OneFlush /\ TrimsWhatItRead
    BY <1>1 DEF Init, OneFlush, TrimsWhatItRead, Flushing, At, NoJob
  <2>4. WaypointsSurvive
    BY <1>1 DEF Init, WaypointsSurvive
  <2> QED BY <2>1, <2>2, <2>3, <2>4 DEF IInv
<1> QED BY <1>1

-----------------------------------------------------------------------------
\* A step that touches neither the list nor the table, and no waypoint of a call.
LEMMA QuietStep ==
  ASSUME IInv, UNCHANGED <<buf, rows, pushed>>, job' \in [Slots -> Call],
         mishap' = mishap,
         \A s \in Slots : /\ job'[s].batch = job[s].batch
                          /\ job'[s].pc \in {"ltrim", "save"} <=> job[s].pc \in {"ltrim", "save"}
                          /\ job'[s].pc = "ltrim" => job[s].pc = "ltrim"
  PROVE  IInv'
<1>1. Types'
  BY DEF IInv, Types
<1>2. HeldWhileFlushing'
  BY DEF IInv, HeldWhileFlushing, Flushing
<1>3. OneFlush'
  BY DEF IInv, OneFlush, Flushing
<1>4. TrimsWhatItRead'
  BY DEF IInv, TrimsWhatItRead, At
<1>5. WaypointsSurvive'
  BY DEF IInv, WaypointsSurvive
<1> QED BY <1>1, <1>2, <1>3, <1>4, <1>5 DEF IInv

LEMMA JobType == ASSUME Types, NEW s \in Slots
                 PROVE  /\ job[s] \in Call /\ job[s].batch \in Seq(Recorded)
                        /\ job[s].pos \in Positions \cup {None} /\ job[s].final \in BOOLEAN
BY DEF Types, Call

\* The calls that only move on, or end without having read anything.
LEMMA MovesOn ==
  ASSUME IInv, UNCHANGED <<buf, rows, pushed, mishap>>, NEW s \in Slots, ~Flushing(s),
         NEW pc \in PCs \ {"ltrim", "save"}, Goto(s, pc) \/ End(s)
  PROVE  IInv'
<1>1. job \in [Slots -> Call] /\ job[s].batch = <<>>
  BY DEF IInv, Types, HeldWhileFlushing
<1>2. job[s] \in Call /\ [job[s] EXCEPT !.pc = pc] \in Call
  BY <1>1 DEF Call
<1>3. job' \in [Slots -> Call]
  BY <1>1, <1>2, NoJobType DEF Goto, End
<1>4. \A t \in Slots : /\ job'[t].batch = job[t].batch
                       /\ job'[t].pc \in {"ltrim", "save"} <=> job[t].pc \in {"ltrim", "save"}
                       /\ job'[t].pc = "ltrim" => job[t].pc = "ltrim"
  <2>1. job[s].pc \notin {"ltrim", "save"}
    BY DEF Flushing
  <2>2. \A t \in Slots \ {s} : job'[t] = job[t]
    BY <1>1 DEF Goto, End
  <2>3. job'[s].batch = <<>> /\ job'[s].pc \notin {"ltrim", "save"}
    <3>1. CASE Goto(s, pc)
      BY <1>1, <1>2, <3>1 DEF Goto, Call
    <3>2. CASE End(s)
      <4>1. job'[s] = NoJob
        BY <1>1, <3>2 DEF End
      <4> QED BY <4>1 DEF NoJob
    <3> QED BY <3>1, <3>2
  <2> QED BY <1>1, <2>1, <2>2, <2>3
<1> QED BY <1>3, <1>4, QuietStep

\* Fix and Complete take a free call: its batch is empty and stays so.
LEMMA Takes ==
  ASSUME IInv, UNCHANGED <<buf, rows, pushed, mishap>>, NEW s \in Slots, At(s, "idle"),
         NEW j \in Call, j.batch = <<>>, j.pc \notin {"ltrim", "save"},
         job' = [job EXCEPT ![s] = j]
  PROVE  IInv'
<1>1. job \in [Slots -> Call] /\ job[s].batch = <<>> /\ job[s].pc = "idle"
  BY DEF IInv, Types, HeldWhileFlushing, Flushing, At
<1>2. job' \in [Slots -> Call] /\ job'[s] = j /\ \A t \in Slots \ {s} : job'[t] = job[t]
  BY <1>1
<1> QED BY <1>1, <1>2, QuietStep

LEMMA FixStep == ASSUME IInv, NEW s \in Slots, NEW p \in Positions, Fix(s, p) PROVE IInv'
<1>1. PICK j \in Call : j.batch = <<>> /\ j.pc = "ride" /\ job' = [job EXCEPT ![s] = j]
  <2> DEFINE j == [NoJob EXCEPT !.pc = "ride", !.pos = p]
  <2>1. j \in Call
    BY NoJobType DEF Call, PCs
  <2>2. j.batch = <<>> /\ j.pc = "ride"
    BY DEF NoJob
  <2> QED BY <2>1, <2>2 DEF Fix
<1>2. UNCHANGED <<buf, rows, pushed, mishap>> /\ At(s, "idle")
  BY DEF Fix, redis
<1> QED BY <1>1, <1>2, Takes

LEMMA CompleteStep == ASSUME IInv, NEW s \in Slots, Complete(s) PROVE IInv'
<1>1. PICK j \in Call : j.batch = <<>> /\ j.pc = "lrange" /\ job' = [job EXCEPT ![s] = j]
  <2> DEFINE j == [NoJob EXCEPT !.pc = "lrange", !.final = TRUE]
  <2>1. j \in Call
    BY NoJobType DEF Call, PCs
  <2>2. j.batch = <<>> /\ j.pc = "lrange"
    BY DEF NoJob
  <2> QED BY <2>1, <2>2 DEF Complete
<1>2. UNCHANGED <<buf, rows, pushed, mishap>> /\ At(s, "idle")
  BY DEF Complete, redis
<1> QED BY <1>1, <1>2, Takes

LEMMA MovingSteps ==
  ASSUME IInv, NEW s \in Slots,
         ReadRide(s) \/ ReadLast(s) \/ SetLast(s) \/ DelLast(s) \/ SumUp(s) \/ ClearActiveRide(s)
  PROVE  IInv'
<1>1. CASE ReadRide(s)
  BY <1>1, MovesOn DEF ReadRide, At, Flushing, PCs, redis
<1>2. CASE ReadLast(s)
  BY <1>2, MovesOn DEF ReadLast, At, Flushing, PCs, redis
<1>3. CASE SetLast(s)
  BY <1>3, MovesOn DEF SetLast, At, Flushing, PCs
<1>4. CASE DelLast(s)
  BY <1>4, MovesOn DEF DelLast, At, Flushing, PCs
<1>5. CASE SumUp(s)
  BY <1>5, MovesOn DEF SumUp, At, Flushing, PCs, redis
<1>6. CASE ClearActiveRide(s)
  BY <1>6, MovesOn DEF ClearActiveRide, At, Flushing, PCs
<1> QED BY <1>1, <1>2, <1>3, <1>4, <1>5, <1>6

LEMMA CrashStep == ASSUME IInv, Crash PROVE IInv'
<1>1. job' = [s \in Slots |-> NoJob] /\ mishap' # {} /\ UNCHANGED <<buf, rows, pushed>>
  BY DEF Crash, redis
<1>2. Types'
  BY <1>1, NoJobType DEF IInv, Types
<1>3. HeldWhileFlushing'
  BY <1>1 DEF HeldWhileFlushing, NoJob
<1>4. OneFlush' /\ TrimsWhatItRead' /\ WaypointsSurvive'
  BY <1>1 DEF OneFlush, TrimsWhatItRead, WaypointsSurvive
<1> QED BY <1>2, <1>3, <1>4 DEF IInv
-----------------------------------------------------------------------------
(***************************************************************************)
(* The steps that move waypoints.                                          *)
(***************************************************************************)
LEMMA NowType == ASSUME pushed \in Seq(Recorded) PROVE Now \subseteq Nat
<1>1. CASE pushed = <<>>
  BY <1>1 DEF Now
<1>2. CASE pushed # <<>>
  <2>1. Len(pushed) \in DOMAIN pushed
    BY <1>2, LenProperties, EmptySeq
  <2>2. pushed[Len(pushed)] \in Recorded
    BY <2>1, LenProperties, ElementOfSeq
  <2>3. pushed[Len(pushed)].ts \in Nat
    BY <2>2 DEF Recorded
  <2> QED BY <1>2, <2>3 DEF Now
<1> QED BY <1>1, <1>2

LEMMA PushStep == ASSUME IInv, NEW s \in Slots, Push(s) PROVE IInv'
<1>0. PICK ms \in Now :
        LET wp == [id |-> Len(pushed) + 1, ts |-> ms, pos |-> job[s].pos]
        IN  buf' = Append(buf, wp) /\ pushed' = Append(pushed, wp)
  BY DEF Push
<1> DEFINE wp == [id |-> Len(pushed) + 1, ts |-> ms, pos |-> job[s].pos]
<1>1. /\ job \in [Slots -> Call] /\ At(s, "push") /\ job[s].batch = <<>>
      /\ buf \in Seq(Recorded) /\ rows \in Seq(Recorded) /\ pushed \in Seq(Recorded)
  BY DEF IInv, Types, HeldWhileFlushing, Push, Flushing, At
<1>2. wp \in Recorded
  BY <1>1, JobType, NowType DEF Recorded, IInv
<1>3. /\ buf' = Append(buf, wp) /\ pushed' = Append(pushed, wp)
      /\ UNCHANGED <<rows, mishap>>
  BY <1>0 DEF Push
<1>4. PICK j \in Call : j.batch = <<>> /\ j.pc \notin {"ltrim", "save"} /\ job' = [job EXCEPT ![s] = j]
  <2> DEFINE j == [NoJob EXCEPT !.pc = "lrange"]
  <2>1. j \in Call /\ j.batch = <<>> /\ j.pc = "lrange"
    BY NoJobType DEF Call, PCs, NoJob
  <2>2. NoJob.batch = <<>> /\ NoJob.pc = "idle"
    BY DEF NoJob
  <2> QED BY <2>1, <2>2, NoJobType DEF Push, End
<1>5. job' \in [Slots -> Call] /\ job'[s] = j /\ \A t \in Slots \ {s} : job'[t] = job[t]
  BY <1>1, <1>4
<1>6. Types'
  BY <1>1, <1>2, <1>3, <1>5 DEF Types
<1>7. HeldWhileFlushing' /\ OneFlush'
  BY <1>3, <1>4, <1>5 DEF IInv, HeldWhileFlushing, OneFlush, Flushing
<1>8. TrimsWhatItRead'
  <2> SUFFICES ASSUME mishap = {}, NEW t \in Slots, At(t, "ltrim")'
               PROVE  /\ Len(job'[t].batch) <= Len(buf')
                      /\ \A i \in 1 .. Len(job'[t].batch) : job'[t].batch[i] = buf'[i]
    BY <1>3 DEF TrimsWhatItRead
  <2>1. t # s /\ job'[t] = job[t] /\ At(t, "ltrim")
    BY <1>4, <1>5 DEF At
  <2>2. /\ Len(job[t].batch) <= Len(buf) /\ job[t].batch \in Seq(Recorded)
        /\ \A i \in 1 .. Len(job[t].batch) : job[t].batch[i] = buf[i]
    BY <2>1, JobType DEF IInv, TrimsWhatItRead
  <2> QED BY <1>1, <1>2, <1>3, <2>1, <2>2
<1>9. WaypointsSurvive'
  <2> SUFFICES ASSUME mishap = {}, NEW k \in DOMAIN pushed'
               PROVE  \/ pushed'[k] \in ToSet(buf') \cup ToSet(rows)
                      \/ \E t \in Slots : pushed'[k] \in ToSet(job'[t].batch)
    BY <1>3 DEF WaypointsSurvive
  <2>1. ToSet(buf) \subseteq ToSet(buf') /\ wp \in ToSet(buf')
    <3>1. /\ Len(buf) \in Nat /\ Len(buf') = Len(buf) + 1 /\ buf'[Len(buf) + 1] = wp
          /\ \A i \in 1 .. Len(buf) : buf'[i] = buf[i]
      BY <1>1, <1>2, <1>3
    <3>2. DOMAIN buf = 1 .. Len(buf) /\ DOMAIN buf' = 1 .. Len(buf) + 1
      BY <1>1, <1>2, <1>3, <3>1
    <3>3. 1 .. Len(buf) \subseteq 1 .. Len(buf) + 1 /\ Len(buf) + 1 \in 1 .. Len(buf) + 1
      BY <3>1
    <3> HIDE DEF wp
    <3> QED BY <3>1, <3>2, <3>3 DEF ToSet
  <2>2. CASE k = Len(pushed) + 1
    BY <1>1, <1>2, <1>3, <2>1, <2>2
  <2>3. CASE k # Len(pushed) + 1
    <3>1. k \in DOMAIN pushed /\ pushed'[k] = pushed[k]
      BY <1>1, <1>2, <1>3, <2>3
    <3>2. ASSUME NEW t \in Slots, pushed[k] \in ToSet(job[t].batch) PROVE t # s
      BY <1>1, <3>2 DEF ToSet
    <3> QED BY <1>5, <2>1, <3>1, <3>2 DEF IInv, WaypointsSurvive
  <2> QED BY <2>2, <2>3
<1> QED BY <1>6, <1>7, <1>8, <1>9 DEF IInv

LEMMA LRangeStep == ASSUME IInv, NEW s \in Slots, LRange(s) PROVE IInv'
<1>1. /\ job \in [Slots -> Call] /\ job[s] \in Call /\ At(s, "lrange") /\ job[s].batch = <<>>
      /\ buf \in Seq(Recorded) /\ UNCHANGED <<buf, rows, pushed>>
      /\ mishap' = {} => mishap = {} /\ \A t \in Slots \ {s} : ~Flushing(t)
  BY DEF IInv, Types, HeldWhileFlushing, LRange, Flushing, At, redis
<1>2. CASE buf = <<>>
  <2>1. CASE mishap' = mishap
    BY <1>1, <1>2, <2>1, MovesOn DEF LRange, AfterFlush, At, Flushing, PCs
  <2>2. CASE mishap' # mishap
    <3>1. mishap' # {}
      BY <1>1, <2>2
    <3>2. job' = [job EXCEPT ![s].pc = "dellast"] \/ job' = [job EXCEPT ![s] = NoJob]
      BY <1>2 DEF LRange, AfterFlush, Goto, End
    <3>3. [job[s] EXCEPT !.pc = "dellast"] \in Call
      BY <1>1 DEF Call, PCs
    <3>4. Types'
      BY <1>1, <3>2, <3>3, NoJobType DEF IInv, Types
    <3>5. HeldWhileFlushing'
      <4>1. \A t \in Slots \ {s} : job'[t] = job[t]
        BY <1>1, <3>2
      <4>2. job'[s].batch = <<>>
        BY <1>1, <3>2 DEF NoJob, Call
      <4> QED BY <4>1, <4>2 DEF IInv, HeldWhileFlushing, Flushing
    <3> QED BY <3>1, <3>4, <3>5 DEF IInv, OneFlush, TrimsWhatItRead, WaypointsSurvive
  <2> QED BY <2>1, <2>2
<1>3. CASE buf # <<>>
  <2>1. job' = [job EXCEPT ![s].pc = "ltrim", ![s].batch = buf]
    BY <1>3 DEF LRange
  <2>2. [[job[s] EXCEPT !.pc = "ltrim"] EXCEPT !.batch = buf] \in Call
    BY <1>1 DEF Call, PCs
  <2>3. /\ job' \in [Slots -> Call] /\ job'[s].pc = "ltrim" /\ job'[s].batch = buf
        /\ \A t \in Slots \ {s} : job'[t] = job[t]
    BY <1>1, <2>1, <2>2 DEF Call
  <2>4. Types' /\ HeldWhileFlushing'
    BY <1>1, <2>3 DEF IInv, Types, HeldWhileFlushing, Flushing
  <2>5. OneFlush' /\ TrimsWhatItRead'
    BY <1>1, <2>3 DEF OneFlush, TrimsWhatItRead, Flushing, At
  <2>6. WaypointsSurvive'
    <3>1. ASSUME NEW x, NEW t \in Slots, x \in ToSet(job[t].batch) PROVE t # s
      BY <1>1, <3>1 DEF ToSet
    <3> QED BY <1>1, <2>3, <3>1 DEF IInv, WaypointsSurvive
  <2> QED BY <2>4, <2>5, <2>6 DEF IInv
<1> QED BY <1>2, <1>3

\* What LTRIM leaves of a list.
LEMMA Remainder ==
  ASSUME NEW S, NEW q \in Seq(S), NEW n \in Nat, NEW i \in 1 .. Len(q), i > n
  PROVE  /\ i - n \in DOMAIN SubSeq(q, n + 1, Len(q))
         /\ SubSeq(q, n + 1, Len(q))[i - n] = q[i]
<1>1. Len(q) \in Nat
  OBVIOUS
<1>2. Len(SubSeq(q, n + 1, Len(q))) = Len(q) - n /\ DOMAIN SubSeq(q, n + 1, Len(q)) = 1 .. Len(q) - n
  BY <1>1
<1>3. i - n \in 1 .. Len(q) - n /\ n + (i - n) = i
  BY <1>1
<1>4. SubSeq(q, n + 1, Len(q))[i - n] = q[n + 1 + (i - n) - 1]
  BY <1>1, <1>3
<1>5. n + 1 + (i - n) - 1 = i
  BY <1>1
<1> QED BY <1>2, <1>3, <1>4, <1>5

LEMMA LTrimStep == ASSUME IInv, NEW s \in Slots, LTrim(s) PROVE IInv'
<1>1. /\ job \in [Slots -> Call] /\ job[s] \in Call /\ At(s, "ltrim")
      /\ buf \in Seq(Recorded) /\ job[s].batch \in Seq(Recorded)
      /\ UNCHANGED <<rows, pushed, mishap>>
      /\ buf' = SubSeq(buf, Len(job[s].batch) + 1, Len(buf))
  BY DEF IInv, Types, Call, LTrim
<1>2. [job[s] EXCEPT !.pc = "save"] \in Call
  BY <1>1 DEF Call, PCs
<1>3. /\ job' \in [Slots -> Call] /\ job'[s].pc = "save" /\ job'[s].batch = job[s].batch
      /\ \A t \in Slots \ {s} : job'[t] = job[t]
  BY <1>1, <1>2 DEF LTrim, Goto, Call
<1>4. Len(job[s].batch) \in Nat /\ Len(buf) \in Nat /\ buf' \in Seq(Recorded)
  BY <1>1
<1>5. Types' /\ HeldWhileFlushing' /\ OneFlush'
  BY <1>1, <1>3, <1>4 DEF IInv, Types, HeldWhileFlushing, OneFlush, Flushing, At
<1>6. TrimsWhatItRead'
  BY <1>1, <1>3 DEF IInv, OneFlush, TrimsWhatItRead, Flushing, At
<1>7. WaypointsSurvive'
  <2> SUFFICES ASSUME mishap = {}, NEW k \in DOMAIN pushed
               PROVE  \/ pushed[k] \in ToSet(buf') \cup ToSet(rows)
                      \/ \E t \in Slots : pushed[k] \in ToSet(job'[t].batch)
    BY <1>1 DEF WaypointsSurvive
  <2>1. \A t \in Slots : job'[t].batch = job[t].batch
    BY <1>3
  <2>2. ASSUME NEW x \in ToSet(buf) PROVE x \in ToSet(buf') \cup ToSet(job[s].batch)
    <3>1. PICK i \in 1 .. Len(buf) : x = buf[i]
      BY <1>1, <2>2 DEF ToSet
    <3>2. CASE i <= Len(job[s].batch)
      <4>1. x = job[s].batch[i] /\ i \in DOMAIN job[s].batch
        BY <1>1, <1>4, <3>1, <3>2 DEF IInv, TrimsWhatItRead
      <4> QED BY <4>1 DEF ToSet
    <3>3. CASE i > Len(job[s].batch)
      <4>1. i - Len(job[s].batch) \in DOMAIN buf' /\ buf'[i - Len(job[s].batch)] = buf[i]
        BY <1>1, <1>4, <3>1, <3>3, Remainder
      <4> QED BY <3>1, <4>1 DEF ToSet
    <3> QED BY <1>4, <3>1, <3>2, <3>3
  <2> QED BY <2>1, <2>2 DEF IInv, WaypointsSurvive
<1> QED BY <1>5, <1>6, <1>7 DEF IInv

LEMMA Joined ==
  ASSUME NEW S, NEW a \in Seq(S), NEW b \in Seq(S)
  PROVE  ToSet(a) \cup ToSet(b) \subseteq ToSet(a \o b)
<1>1. Len(a) \in Nat /\ Len(b) \in Nat /\ Len(a \o b) = Len(a) + Len(b)
  OBVIOUS
<1>2. ASSUME NEW x \in ToSet(a) PROVE x \in ToSet(a \o b)
  <2>1. PICK i \in 1 .. Len(a) : x = a[i]
    BY <1>2 DEF ToSet
  <2>2. i \in DOMAIN (a \o b) /\ (a \o b)[i] = a[i]
    BY <1>1
  <2> QED BY <2>1, <2>2 DEF ToSet
<1>3. ASSUME NEW x \in ToSet(b) PROVE x \in ToSet(a \o b)
  <2>1. PICK i \in 1 .. Len(b) : x = b[i]
    BY <1>3 DEF ToSet
  <2>2. Len(a) + i \in DOMAIN (a \o b) /\ (a \o b)[Len(a) + i] = b[i]
    BY <1>1
  <2> QED BY <2>1, <2>2 DEF ToSet
<1> QED BY <1>2, <1>3

LEMMA SaveStep == ASSUME IInv, NEW s \in Slots, Save(s) PROVE IInv'
<1>1. /\ job \in [Slots -> Call] /\ job[s] \in Call /\ At(s, "save")
      /\ rows \in Seq(Recorded) /\ job[s].batch \in Seq(Recorded)
      /\ UNCHANGED <<buf, pushed>>
      /\ (rows' = rows \o job[s].batch /\ mishap' = mishap) \/ (rows' = rows /\ mishap' # {})
  BY DEF IInv, Types, Call, Save, redis
<1>2. PICK j \in Call : j.batch = <<>> /\ j.pc \notin {"ltrim", "save"} /\ job' = [job EXCEPT ![s] = j]
  <2>1. NoJob \in Call /\ NoJob.batch = <<>> /\ NoJob.pc = "idle"
    BY NoJobType DEF NoJob
  <2>2. CASE job[s].final
    <3>1. \A e \in Seq(Recorded) :
            LET j == [job[s] EXCEPT !.pc = "dellast", !.batch = e]
            IN  j \in Call /\ j.batch = e /\ j.pc = "dellast"
      BY <1>1 DEF Call, PCs
    <3>2. <<>> \in Seq(Recorded)
      OBVIOUS
    <3>3. PICK j : /\ j = [job[s] EXCEPT !.pc = "dellast", !.batch = <<>>]
                   /\ j \in Call /\ j.batch = <<>> /\ j.pc = "dellast"
      BY <3>1, <3>2, Zenon
    <3>4. job' = [job EXCEPT ![s] = j]
      BY <2>2, <3>3, Zenon DEF Save
    <3> QED BY <3>3, <3>4
  <2> QED BY <2>1, <2>2 DEF Save
<1>3. job' \in [Slots -> Call] /\ job'[s] = j /\ \A t \in Slots \ {s} : job'[t] = job[t]
  BY <1>1, <1>2
<1>4. Types'
  <2>1. rows' \in Seq(Recorded)
    BY <1>1, ConcatProperties
  <2> QED BY <1>1, <1>3, <2>1 DEF IInv, Types
<1>5. HeldWhileFlushing' /\ OneFlush' /\ TrimsWhatItRead'
  BY <1>1, <1>2, <1>3 DEF IInv, HeldWhileFlushing, OneFlush, TrimsWhatItRead, Flushing, At
<1>6. WaypointsSurvive'
  <2> SUFFICES ASSUME mishap' = {}, NEW k \in DOMAIN pushed
               PROVE  \/ pushed[k] \in ToSet(buf) \cup ToSet(rows')
                      \/ \E t \in Slots : pushed[k] \in ToSet(job'[t].batch)
    BY <1>1 DEF WaypointsSurvive
  <2>1. mishap = {} /\ ToSet(rows) \cup ToSet(job[s].batch) \subseteq ToSet(rows')
    BY <1>1, Joined
  <2> QED BY <1>3, <2>1 DEF IInv, WaypointsSurvive
<1> QED BY <1>4, <1>5, <1>6 DEF IInv
-----------------------------------------------------------------------------
LEMMA NextIInv == IInv /\ [Next]_vars => IInv'
<1> SUFFICES ASSUME IInv, [Next]_vars PROVE IInv'
  OBVIOUS
<1>1. CASE UNCHANGED vars
  BY <1>1, QuietStep DEF vars, redis, IInv, Types
<1>2. CASE Crash
  BY <1>2, CrashStep
<1>3. ASSUME NEW s \in Slots,
             \/ \E p \in Positions : Fix(s, p)
             \/ ReadRide(s) \/ ReadLast(s) \/ SetLast(s) \/ Push(s)
             \/ LRange(s) \/ LTrim(s) \/ Save(s)
             \/ Complete(s) \/ DelLast(s) \/ SumUp(s) \/ ClearActiveRide(s)
      PROVE  IInv'
  BY <1>3, FixStep, MovingSteps, PushStep, LRangeStep, LTrimStep, SaveStep, CompleteStep
<1> QED BY <1>1, <1>2, <1>3 DEF Next

\* recordWaypoint, flushBuffer, finalizeRoute: however many fixes and flushes run at once,
\* a waypoint is lost only to two flushes that overlap, a failed INSERT or a crash.
THEOREM NoWaypointIsLost == Spec => []WaypointsSurvive
<1>1. Spec => []IInv
  BY InitIInv, NextIInv, PTL DEF Spec
<1> QED BY <1>1, PTL DEF IInv

\* flushBuffer: before the first mishap, what a flush trims off the list is what it read,
\* so that LTRIM by a count is as good as the atomic removal its comment claims.
THEOREM FlushesTrimWhatTheyRead == Spec => []TrimsWhatItRead
<1>1. Spec => []IInv
  BY InitIInv, NextIInv, PTL DEF Spec
<1> QED BY <1>1, PTL DEF IInv
-----------------------------------------------------------------------------
(***************************************************************************)
(* The length of a route.                                                  *)
(***************************************************************************)
\* Induction, for a set of naturals.
LEMMA AllNaturals ==
  ASSUME NEW T \in SUBSET Nat, 0 \in T, \A n \in T : n + 1 \in T
  PROVE  T = Nat
<1> SUFFICES ASSUME Nat \ T # {} PROVE FALSE
  OBVIOUS
<1>1. PICK R : R = OpToRel(<, Nat)
  OBVIOUS
<1>2. IsWellFoundedOn(R, Nat)
  BY <1>1, NatLessThanWellFounded
<1>3. PICK x \in Nat \ T : \A y \in Nat \ T : ~(<<y, x>> \in R)
  BY <1>2, WFMin
<1>4. x - 1 \in Nat /\ x - 1 < x
  BY <1>3
<1>5. <<x - 1, x>> \in R
  BY <1>1, <1>3, <1>4 DEF OpToRel
<1>6. x - 1 \in T
  BY <1>3, <1>4, <1>5
<1>7. (x - 1) + 1 = x
  BY <1>3
<1> QED BY <1>3, <1>6, <1>7

Step(w, f, n) == IF n < 2 THEN 0 ELSE f[n - 1] + Distance(w[n - 1].pos, w[n].pos)

IsUpto(w, f) == f = [n \in 0 .. Len(w) |-> Step(w, f, n)]

\* The length of the first n waypoints, for every n.
Upto(w) == CHOOSE f : IsUpto(w, f)

LEMMA LengthIsUpto == ASSUME NEW w PROVE Length(w) = Upto(w)[Len(w)]
BY DEF Length, Upto, IsUpto, Step

LEMMA UptoExists == ASSUME NEW w, Len(w) \in Nat PROVE IsUpto(w, Upto(w))
<1>1. PICK T \in SUBSET Nat :
        T = {k \in Nat : \E f : /\ f = [n \in 0 .. Len(w) |-> f[n]]
                                /\ \A n \in 0 .. Len(w) : n <= k => f[n] = Step(w, f, n)}
  OBVIOUS
<1>2. 0 \in T
  <2>1. PICK f : f = [n \in 0 .. Len(w) |-> 0]
    OBVIOUS
  <2>2. f = [n \in 0 .. Len(w) |-> f[n]]
    BY <2>1
  <2>3. \A n \in 0 .. Len(w) : n <= 0 => f[n] = Step(w, f, n)
    BY <2>1 DEF Step
  <2> QED BY <1>1, <2>2, <2>3
<1>3. ASSUME NEW k \in T PROVE k + 1 \in T
  <2>1. PICK f : /\ f = [n \in 0 .. Len(w) |-> f[n]]
                 /\ \A n \in 0 .. Len(w) : n <= k => f[n] = Step(w, f, n)
    BY <1>1
  <2>2. PICK g : g = [n \in 0 .. Len(w) |-> Step(w, f, n)]
    OBVIOUS
  <2>3. g = [n \in 0 .. Len(w) |-> g[n]]
    BY <2>2
  <2>4. ASSUME NEW n \in 0 .. Len(w), n <= k + 1 PROVE g[n] = Step(w, g, n)
    <3>1. CASE n < 2
      BY <2>2, <3>1 DEF Step
    <3>2. CASE ~(n < 2)
      <4>1. n - 1 \in 0 .. Len(w) /\ n - 1 <= k
        BY <2>4, <3>2
      <4>2. g[n - 1] = f[n - 1]
        BY <2>1, <2>2, <4>1
      <4> QED BY <2>2, <3>2, <4>2 DEF Step
    <3> QED BY <3>1, <3>2
  <2>5. k + 1 \in Nat
    OBVIOUS
  <2> QED BY <1>1, <2>3, <2>4, <2>5
<1>4. T = Nat
  BY <1>2, <1>3, AllNaturals
<1>5. PICK f : /\ f = [n \in 0 .. Len(w) |-> f[n]]
               /\ \A n \in 0 .. Len(w) : n <= Len(w) => f[n] = Step(w, f, n)
  BY <1>1, <1>4
<1>6. f = [n \in 0 .. Len(w) |-> Step(w, f, n)]
  BY <1>5
<1> QED BY <1>6 DEF Upto, IsUpto

\* The places of waypoints are whole numbers, and so is what lies between them.
LEMMA Distances ==
  ASSUME NEW a \in Int, NEW b \in Int
  PROVE  Distance(a, b) \in Nat /\ Distance(a, a) = 0
BY DEF Distance

LEMMA Places ==
  ASSUME NEW w \in Seq(Waypoint)
  PROVE  /\ Len(w) \in Nat /\ DOMAIN w = 1 .. Len(w)
         /\ \A i \in 1 .. Len(w) : w[i] \in Waypoint /\ w[i].pos \in Int /\ w[i].ts \in Nat /\ w[i].id \in Nat
<1>1. Len(w) \in Nat /\ DOMAIN w = 1 .. Len(w) /\ \A i \in 1 .. Len(w) : w[i] \in Waypoint
  BY LenProperties, ElementOfSeq
<1>2. \A v \in Waypoint : v.pos \in Int /\ v.ts \in Nat /\ v.id \in Nat
  BY RouteAssumption DEF Waypoint
<1> QED BY <1>1, <1>2

LEMMA UptoValues ==
  ASSUME NEW w \in Seq(Waypoint)
  PROVE  /\ \A n \in 0 .. Len(w) : Upto(w)[n] \in Nat
         /\ \A n \in 0 .. Len(w) : n < 2 => Upto(w)[n] = 0
         /\ \A n \in 1 .. Len(w) - 1 :
              Upto(w)[n + 1] = Upto(w)[n] + Distance(w[n].pos, w[n + 1].pos)
<1>1. Len(w) \in Nat /\ \A i \in 1 .. Len(w) : w[i].pos \in Int
  BY Places
<1>2. PICK f : f = Upto(w) /\ \A n \in 0 .. Len(w) : f[n] = Step(w, f, n)
  BY <1>1, UptoExists DEF IsUpto
<1>3. \A n \in 0 .. Len(w) : n < 2 => f[n] = 0
  BY <1>2 DEF Step
<1>4. ASSUME NEW n \in 1 .. Len(w) - 1
      PROVE  f[n + 1] = f[n] + Distance(w[n].pos, w[n + 1].pos)
  <2>1. n + 1 \in 0 .. Len(w) /\ ~(n + 1 < 2) /\ (n + 1) - 1 = n
    BY <1>1
  <2> QED BY <1>2, <2>1 DEF Step
<1>5. PICK T \in SUBSET Nat : T = {n \in Nat : n \in 0 .. Len(w) => f[n] \in Nat}
  OBVIOUS
<1>6. 0 \in T
  BY <1>1, <1>3, <1>5
<1>7. ASSUME NEW n \in T PROVE n + 1 \in T
  <2>1. CASE n + 1 \notin 0 .. Len(w)
    BY <1>5, <2>1
  <2>2. CASE n + 1 \in 0 .. Len(w) /\ n = 0
    BY <1>3, <1>5, <2>2
  <2>3. CASE n + 1 \in 0 .. Len(w) /\ n # 0
    <3>1. n \in 1 .. Len(w) - 1 /\ n \in 1 .. Len(w) /\ n + 1 \in 1 .. Len(w) /\ n \in 0 .. Len(w)
      BY <1>1, <2>3
    <3>2. Distance(w[n].pos, w[n + 1].pos) \in Nat /\ f[n] \in Nat
      BY <1>1, <1>5, <3>1, Distances
    <3> QED BY <1>4, <1>5, <3>1, <3>2
  <2> QED BY <2>1, <2>2, <2>3
<1>8. T = Nat
  BY <1>6, <1>7, AllNaturals
<1>9. \A n \in 0 .. Len(w) : f[n] \in Nat
  BY <1>1, <1>5, <1>8
<1> QED BY <1>2, <1>3, <1>4, <1>9

\* The way between two waypoints is no shorter than the distance between them.
LEMMA Triangle ==
  ASSUME NEW w \in Seq(Waypoint), NEW a \in 1 .. Len(w), NEW b \in 1 .. Len(w), a <= b
  PROVE  Upto(w)[a] + Distance(w[a].pos, w[b].pos) <= Upto(w)[b]
<1>1. Len(w) \in Nat /\ \A i \in 1 .. Len(w) : w[i].pos \in Int
  BY Places
<1>2. PICK f : f = Upto(w)
  OBVIOUS
<1>3. \A n \in 1 .. Len(w) : f[n] \in Nat
  BY <1>1, <1>2, UptoValues
<1>4. PICK T \in SUBSET Nat :
        T = {n \in Nat : a + n <= Len(w) => f[a] + Distance(w[a].pos, w[a + n].pos) <= f[a + n]}
  OBVIOUS
<1>5. 0 \in T
  <2>1. a + 0 = a /\ w[a].pos \in Int /\ f[a] \in Nat
    BY <1>1, <1>3
  <2>2. Distance(w[a].pos, w[a].pos) = 0
    BY <2>1, Distances
  <2> QED BY <1>4, <2>1, <2>2
<1>6. ASSUME NEW n \in T PROVE n + 1 \in T
  <2>1. SUFFICES ASSUME a + (n + 1) <= Len(w)
                 PROVE  f[a] + Distance(w[a].pos, w[a + (n + 1)].pos) <= f[a + (n + 1)]
    BY <1>4
  <2>2. PICK c \in Nat : c = a + n
    OBVIOUS
  <2>3. c + 1 = a + (n + 1) /\ c \in 1 .. Len(w) - 1 /\ c \in 1 .. Len(w) /\ c + 1 \in 1 .. Len(w)
    <3>1. PICK l \in Nat : l = Len(w)
      BY <1>1
    <3>2. a \in Nat /\ 1 <= a /\ n \in Nat
      OBVIOUS
    <3>3. c + 1 = a + (n + 1) /\ 1 <= c
      BY <2>2, <3>2
    <3>4. c + 1 <= l
      BY <2>1, <3>1, <3>3
    <3> QED BY <3>1, <3>3, <3>4
  <2>4. f[a] + Distance(w[a].pos, w[c].pos) <= f[c]
    BY <1>1, <1>4, <2>2, <2>3
  <2>5. f[c + 1] = f[c] + Distance(w[c].pos, w[c + 1].pos)
    BY <1>2, <2>3, UptoValues
  <2>6. PICK x \in Int, y \in Int, z \in Int : x = w[a].pos /\ y = w[c].pos /\ z = w[c + 1].pos
    BY <1>1, <2>3
  <2>7. f[a] \in Nat /\ f[c] \in Nat
    BY <1>3, <2>3
  <2>8. Distance(x, z) <= Distance(x, y) + Distance(y, z)
        /\ Distance(x, y) \in Nat /\ Distance(y, z) \in Nat /\ Distance(x, z) \in Nat
    BY DEF Distance
  <2>9. f[a] + Distance(x, z) <= f[c] + Distance(y, z)
    <3>1. f[a] + Distance(x, y) <= f[c]
      BY <2>4, <2>6
    <3>2. PICK u \in Nat, v \in Nat, t \in Nat :
            u = Distance(x, y) /\ v = Distance(y, z) /\ t = Distance(x, z) /\ t <= u + v
      BY <2>8
    <3>3. PICK fa \in Nat, fc \in Nat : fa = f[a] /\ fc = f[c]
      BY <2>7
    <3>4. fa + u <= fc
      BY <3>1, <3>2, <3>3
    <3>5. t <= u + v
      BY <3>2
    <3>6. fa + t <= fc + v
      BY <3>4, <3>5
    <3> QED BY <3>2, <3>3, <3>6
  <2> QED BY <2>5, <2>6, <2>3, <2>9
<1>7. T = Nat
  BY <1>5, <1>6, AllNaturals
<1>8. b - a \in T /\ a + (b - a) = b
  BY <1>1, <1>7
<1> QED BY <1>1, <1>2, <1>4, <1>8

LEMMA Longer ==
  ASSUME NEW w \in Seq(Waypoint), NEW a \in 1 .. Len(w), NEW b \in 1 .. Len(w), a <= b
  PROVE  Upto(w)[a] <= Upto(w)[b]
<1>1. Len(w) \in Nat /\ w[a].pos \in Int /\ w[b].pos \in Int
  BY Places
<1>2. Distance(w[a].pos, w[b].pos) \in Nat
  BY <1>1, Distances
<1>3. Upto(w)[a] \in Nat /\ Upto(w)[b] \in Nat
  BY <1>1, UptoValues
<1> QED BY <1>2, <1>3, Triangle

\* Routes that begin alike are as long so far.
LEMMA SameStart ==
  ASSUME NEW v \in Seq(Waypoint), NEW w \in Seq(Waypoint), NEW n \in 0 .. Len(v), n <= Len(w),
         \A i \in 1 .. n : v[i] = w[i]
  PROVE  Upto(v)[n] = Upto(w)[n]
<1>1. Len(v) \in Nat /\ Len(w) \in Nat
  BY Places
<1>2. PICK f, g : f = Upto(v) /\ g = Upto(w)
  OBVIOUS
<1>3. PICK T \in SUBSET Nat : T = {k \in Nat : k <= n => f[k] = g[k]}
  OBVIOUS
<1>4. 0 \in T
  BY <1>1, <1>2, <1>3, UptoValues
<1>5. ASSUME NEW k \in T PROVE k + 1 \in T
  <2>1. CASE k = 0 /\ k + 1 <= n
    BY <1>1, <1>2, <1>3, <2>1, UptoValues
  <2>2. CASE k # 0 /\ k + 1 <= n
    <3>1. k \in 1 .. Len(v) - 1 /\ k \in 1 .. Len(w) - 1 /\ k \in 1 .. n /\ k + 1 \in 1 .. n
      BY <1>1, <2>2
    <3>2. f[k + 1] = f[k] + Distance(v[k].pos, v[k + 1].pos)
      BY <1>2, <3>1, UptoValues
    <3>3. g[k + 1] = g[k] + Distance(w[k].pos, w[k + 1].pos)
      BY <1>2, <3>1, UptoValues
    <3> QED BY <1>3, <3>1, <3>2, <3>3
  <2> QED BY <1>3, <2>1, <2>2
<1>6. T = Nat
  BY <1>4, <1>5, AllNaturals
<1>7. n \in T /\ n <= n
  BY <1>1, <1>6
<1> QED BY <1>2, <1>3, <1>7
-----------------------------------------------------------------------------
(***************************************************************************)
(* What the table holds, read in order, against the route.                 *)
(***************************************************************************)
Sorted(w) == \A i, j \in DOMAIN w : i <= j => w[i].id <= w[j].id

\* The waypoint is one of the route p.
OnRoute(v, p) == v.id \in DOMAIN p /\ v = p[v.id]

\* Some waypoints of a route, some of them twice, are no longer than the route.
LEMMA NeverLonger ==
  ASSUME NEW p \in Seq(Waypoint), NEW w \in Seq(Waypoint), Sorted(w),
         \A i \in DOMAIN w : OnRoute(w[i], p)
  PROVE  Length(w) <= Length(p)
<1>1. Len(p) \in Nat /\ DOMAIN p = 1 .. Len(p) /\ Len(w) \in Nat /\ DOMAIN w = 1 .. Len(w)
  BY Places
<1>2. PICK f, g : f = Upto(w) /\ g = Upto(p)
  OBVIOUS
<1>3. (\A n \in 0 .. Len(w) : f[n] \in Nat) /\ (\A n \in 0 .. Len(p) : g[n] \in Nat)
  BY <1>2, UptoValues
<1>4. PICK T \in SUBSET Nat :
        T = {n \in Nat : n + 1 <= Len(w) => f[n + 1] <= g[w[n + 1].id]}
  OBVIOUS
<1>5. 0 \in T
  <2>1. CASE 1 <= Len(w)
    <3>1. 1 \in DOMAIN w /\ w[1].id \in 0 .. Len(p)
      BY <1>1, <2>1 DEF OnRoute
    <3>2. f[1] = 0 /\ g[w[1].id] \in Nat
      BY <1>1, <1>2, <1>3, <2>1, <3>1, UptoValues
    <3> QED BY <1>4, <3>2
  <2>2. CASE ~(1 <= Len(w))
    BY <1>4, <2>2
  <2> QED BY <2>1, <2>2
<1>6. ASSUME NEW n \in T PROVE n + 1 \in T
  <2>1. SUFFICES ASSUME (n + 1) + 1 <= Len(w)
                 PROVE  f[(n + 1) + 1] <= g[w[(n + 1) + 1].id]
    BY <1>4
  <2>2. PICK k \in Nat : k = n + 1
    OBVIOUS
  <2>3. k \in 1 .. Len(w) - 1 /\ k \in DOMAIN w /\ k + 1 \in DOMAIN w /\ k <= k + 1
    BY <1>1, <2>1, <2>2
  <2>4. f[k] <= g[w[k].id]
    BY <1>1, <1>4, <2>2, <2>3
  <2>5. PICK a \in 1 .. Len(p), b \in 1 .. Len(p) :
          a = w[k].id /\ b = w[k + 1].id /\ w[k] = p[a] /\ w[k + 1] = p[b]
    BY <1>1, <2>3 DEF OnRoute
  <2>6. a <= b
    BY <2>3, <2>5 DEF Sorted
  <2>7. g[a] + Distance(p[a].pos, p[b].pos) <= g[b]
    BY <1>2, <2>6, Triangle
  <2>8. f[k + 1] = f[k] + Distance(p[a].pos, p[b].pos)
    BY <1>2, <2>3, <2>5, UptoValues
  <2>9. p[a].pos \in Int /\ p[b].pos \in Int
    BY Places
  <2>10. PICK d \in Nat : d = Distance(p[a].pos, p[b].pos)
    BY <2>9, Distances
  <2>11. f[k] \in Nat /\ g[a] \in Nat /\ g[b] \in Nat
    <3>1. k \in 0 .. Len(w)
      BY <1>1, <2>3
    <3>2. a \in 0 .. Len(p) /\ b \in 0 .. Len(p)
      BY <1>1
    <3> QED BY <1>3, <3>1, <3>2
  <2>12. f[k + 1] <= g[b]
    <3>1. f[k] <= g[a] /\ g[a] + d <= g[b] /\ f[k + 1] = f[k] + d
      BY <2>4, <2>5, <2>7, <2>8, <2>10
    <3> QED BY <2>10, <2>11, <3>1
  <2> QED BY <2>2, <2>5, <2>12
<1>7. T = Nat
  BY <1>5, <1>6, AllNaturals
<1>8. Length(w) = f[Len(w)] /\ Length(p) = g[Len(p)]
  BY <1>2, LengthIsUpto
<1>9. CASE Len(w) = 0
  <2>1. 0 \in 0 .. Len(w) /\ Len(p) \in 0 .. Len(p)
    BY <1>1
  <2>2. f[0] = 0
    BY <1>2, <2>1, UptoValues
  <2>3. g[Len(p)] \in Nat
    BY <1>3, <2>1
  <2> QED BY <1>8, <1>9, <2>2, <2>3
<1>10. CASE Len(w) # 0
  <2>1. Len(w) - 1 \in T /\ (Len(w) - 1) + 1 = Len(w)
    BY <1>1, <1>7, <1>10
  <2>2. f[Len(w)] <= g[w[Len(w)].id]
    BY <1>1, <1>4, <2>1
  <2>3. PICK t \in 1 .. Len(p) : t = w[Len(w)].id
    BY <1>1, <1>10 DEF OnRoute
  <2>4. Len(p) \in 1 .. Len(p) /\ t <= Len(p)
    BY <1>1, <2>3
  <2>5. g[t] <= g[Len(p)]
    BY <1>2, <2>4, Longer
  <2>6. f[Len(w)] \in Nat /\ g[t] \in Nat /\ g[Len(p)] \in Nat
    BY <1>1, <1>3, <2>3, <2>4
  <2> QED BY <1>8, <2>2, <2>3, <2>5, <2>6
<1> QED BY <1>9, <1>10

\* If the first d waypoints of the route are all there, they are as long as it was then.
LEMMA NeverShorter ==
  ASSUME NEW p \in Seq(Waypoint), NEW w \in Seq(Waypoint), Sorted(w),
         \A i \in DOMAIN w : OnRoute(w[i], p),
         NEW d \in 1 .. Len(p), \A k \in 1 .. d : \E i \in DOMAIN w : w[i].id = k
  PROVE  Upto(p)[d] <= Length(w)
<1>1. Len(p) \in Nat /\ DOMAIN p = 1 .. Len(p) /\ Len(w) \in Nat /\ DOMAIN w = 1 .. Len(w)
  BY Places
<1>2. PICK f, g : f = Upto(w) /\ g = Upto(p)
  OBVIOUS
<1>3. (\A n \in 0 .. Len(w) : f[n] \in Nat) /\ (\A n \in 0 .. Len(p) : g[n] \in Nat)
  BY <1>2, UptoValues
<1>4. PICK T \in SUBSET Nat :
        T = {n \in Nat : n + 1 <= d => \A i \in DOMAIN w : w[i].id = n + 1 => g[n + 1] <= f[i]}
  OBVIOUS
<1>5. 0 \in T
  <2>1. g[1] = 0
    BY <1>1, <1>2, UptoValues
  <2>2. \A i \in DOMAIN w : f[i] \in Nat
    BY <1>1, <1>3
  <2> QED BY <1>4, <2>1, <2>2
<1>6. ASSUME NEW n \in T PROVE n + 1 \in T
  <2>1. SUFFICES ASSUME (n + 1) + 1 <= d, NEW i \in DOMAIN w, w[i].id = (n + 1) + 1
                 PROVE  g[(n + 1) + 1] <= f[i]
    BY <1>4
  <2>2. PICK k \in Nat : k = n + 1
    OBVIOUS
  <2>3. k \in 1 .. d /\ k \in 1 .. Len(p) - 1 /\ k \in DOMAIN p /\ k + 1 \in DOMAIN p
    BY <1>1, <2>1, <2>2
  <2>4. PICK j \in DOMAIN w : w[j].id = k
    BY <2>3
  <2>5. g[k] <= f[j]
    BY <1>4, <2>2, <2>3, <2>4
  <2>6. w[j] = p[k] /\ w[i] = p[k + 1]
    BY <2>1, <2>2, <2>4 DEF OnRoute
  <2>7. j <= i
    <3>1. CASE i <= j
      <4>1. w[i].id <= w[j].id
        BY <3>1 DEF Sorted
      <4> QED BY <2>1, <2>2, <2>4, <4>1
    <3> QED BY <1>1, <3>1
  <2>8. f[j] + Distance(p[k].pos, p[k + 1].pos) <= f[i]
    BY <1>1, <1>2, <2>6, <2>7, Triangle
  <2>9. g[k + 1] = g[k] + Distance(p[k].pos, p[k + 1].pos)
    BY <1>2, <2>3, UptoValues
  <2>10. p[k].pos \in Int /\ p[k + 1].pos \in Int
    BY <1>1, <2>3, Places
  <2>11. PICK x \in Nat : x = Distance(p[k].pos, p[k + 1].pos)
    BY <2>10, Distances
  <2>12. f[j] \in Nat /\ f[i] \in Nat /\ g[k] \in Nat
    BY <1>1, <1>3, <2>3
  <2>13. g[k + 1] <= f[i]
    <3>1. PICK fi \in Nat, fj \in Nat, gk \in Nat : fi = f[i] /\ fj = f[j] /\ gk = g[k]
      BY <2>12
    <3>2. gk <= fj /\ fj + x <= fi /\ g[k + 1] = gk + x
      BY <2>5, <2>8, <2>9, <2>11, <3>1
    <3>3. gk + x <= fi
      BY <3>2
    <3> QED BY <3>1, <3>2, <3>3
  <2> QED BY <2>2, <2>13
<1>7. T = Nat
  BY <1>5, <1>6, AllNaturals
<1>8. d - 1 \in T /\ (d - 1) + 1 = d /\ d \in 1 .. d
  BY <1>7
<1>9. PICK i \in DOMAIN w : w[i].id = d
  BY <1>8
<1>10. g[d] <= f[i]
  BY <1>4, <1>8, <1>9
<1>11. i \in 1 .. Len(w) /\ Len(w) \in 1 .. Len(w) /\ i <= Len(w)
  BY <1>1
<1>12. f[i] <= f[Len(w)]
  BY <1>2, <1>11, Longer
<1>13. f[i] \in Nat /\ f[Len(w)] \in Nat /\ g[d] \in Nat
  BY <1>1, <1>3, <1>11
<1>14. Length(w) = f[Len(w)]
  BY <1>2, LengthIsUpto
<1> QED BY <1>2, <1>10, <1>12, <1>13, <1>14

\* ORDER BY gives every waypoint and none that was not there.
LEMMA OrdersHold ==
  ASSUME NEW w \in Seq(Waypoint), NEW q \in Orders(w)
  PROVE  /\ q \in Seq(Waypoint) /\ DOMAIN q = DOMAIN w
         /\ \A k \in DOMAIN w : \E i \in DOMAIN w : q[k] = w[i]
         /\ \A i \in DOMAIN w : \E k \in DOMAIN w : q[k] = w[i]
         /\ \A k, l \in DOMAIN w : k < l => q[k].ts <= q[l].ts
<1>1. Len(w) \in Nat /\ DOMAIN w = 1 .. Len(w) /\ \A i \in 1 .. Len(w) : w[i] \in Waypoint
  BY Places
<1>2. /\ q \in [DOMAIN w -> ToSet(w)] /\ SameRows(q, w)
      /\ \A k, l \in DOMAIN w : k < l => q[k].ts <= q[l].ts
  BY DEF Orders
<1>3. \A k \in DOMAIN w : \E i \in DOMAIN w : q[k] = w[i]
  BY <1>2 DEF ToSet
<1>4. q \in Seq(Waypoint)
  <2>1. q \in [1 .. Len(w) -> Waypoint]
    BY <1>1, <1>2, <1>3
  <2> QED BY <1>1, <2>1, SeqDef
<1>5. ASSUME NEW i \in DOMAIN w PROVE \E k \in DOMAIN w : q[k] = w[i]
  <2>1. PICK A, B : A = {k \in DOMAIN w : q[k] = w[i]} /\ B = {k \in DOMAIN w : w[k] = w[i]}
    OBVIOUS
  <2>2. Cardinality(A) = Cardinality(B)
    BY <1>2, <2>1 DEF SameRows, ToSet
  <2>3. IsFiniteSet(DOMAIN w)
    BY <1>1, FS_Interval
  <2>4. IsFiniteSet(A) /\ IsFiniteSet(B)
    BY <2>1, <2>3, FS_Subset
  <2>5. i \in B /\ Cardinality(B) # 0
    BY <2>1, <2>4, FS_EmptySet
  <2>6. A # {}
    BY <2>2, <2>5, FS_EmptySet
  <2> QED BY <2>1, <2>6
<1> QED BY <1>2, <1>3, <1>4, <1>5

\* No two waypoints of a route have the same time.
Apart(p) == \A i, j \in DOMAIN p : i < j => p[i].ts < p[j].ts

\* Waypoints of such a route, put in the order of their times, are in that of the route.
LEMMA OrdersAreSorted ==
  ASSUME NEW p \in Seq(Waypoint), Apart(p), NEW w \in Seq(Waypoint), NEW q \in Orders(w),
         \A i \in DOMAIN w : OnRoute(w[i], p)
  PROVE  Sorted(q) /\ \A i \in DOMAIN q : OnRoute(q[i], p)
<1>1. /\ DOMAIN q = DOMAIN w
      /\ \A k \in DOMAIN w : \E i \in DOMAIN w : q[k] = w[i]
      /\ \A k, l \in DOMAIN w : k < l => q[k].ts <= q[l].ts
  BY OrdersHold
<1>2. DOMAIN p = 1 .. Len(p) /\ DOMAIN w = 1 .. Len(w) /\ Len(p) \in Nat /\ Len(w) \in Nat
      /\ \A i \in 1 .. Len(p) : p[i].ts \in Nat
  BY Places
<1>3. \A i \in DOMAIN q : OnRoute(q[i], p)
  BY <1>1
<1>4. ASSUME NEW k \in DOMAIN q, NEW l \in DOMAIN q, k <= l PROVE q[k].id <= q[l].id
  <2>1. PICK a \in 1 .. Len(p), b \in 1 .. Len(p) :
          a = q[k].id /\ b = q[l].id /\ q[k] = p[a] /\ q[l] = p[b]
    BY <1>2, <1>3 DEF OnRoute
  <2>2. CASE k = l
    BY <2>1, <2>2
  <2>3. CASE k < l
    <3>1. p[a].ts <= p[b].ts
      BY <1>1, <2>1, <2>3
    <3>2. b < a => p[b].ts < p[a].ts
      BY <1>2 DEF Apart
    <3> QED BY <1>2, <2>1, <3>1, <3>2
  <2> QED BY <1>1, <1>2, <1>4, <2>2, <2>3
<1> QED BY <1>3, <1>4 DEF Sorted
-----------------------------------------------------------------------------
(***************************************************************************)
(* What the completion bills.                                              *)
(***************************************************************************)
\* A fix that is being recorded has a place.
FixesHavePlaces ==
  \A s \in Slots : job[s].pc \in {"ride", "last", "setlast", "push"} => job[s].pos \in Positions

\* The number of a waypoint tells which one it is.
Stamped == pushed \in Seq(Waypoint) /\ \A k \in DOMAIN pushed : pushed[k].id = k

\* Wherever there are waypoints, they are of the route.
AllOnRoute ==
  /\ \A w \in ToSet(buf) \cup ToSet(rows) : OnRoute(w, pushed)
  /\ \A s \in Slots : \A w \in ToSet(job[s].batch) : OnRoute(w, pushed)

BilledInv ==
  billed # None => billed \in Int /\ (Apart(pushed) => billed <= Length(pushed))

\* One call completes the ride; no other goes further than its flush.
Ending == {"dellast", "sum", "clear"}
OneCompletes ==
  \A s \in Slots :
    /\ job[s].pc \in Ending => job[s].final
    /\ job[s].final => ended /\ job[s].pc \in {"lrange", "ltrim", "save"} \cup Ending
    /\ \A t \in Slots : job[s].final /\ job[t].final => s = t

\* Until something goes wrong, the completion has what was due in its batch, or in the
\* table, and bills it if no two waypoints have the same time.
Collects ==
  /\ due \in 0 .. Len(pushed)
  /\ mishap = {} => \A s \in Slots : job[s].final =>
       /\ Flushing(s) => \A k \in 1 .. due : pushed[k] \in ToSet(rows) \cup ToSet(job[s].batch)
       /\ job[s].pc \in Ending => \A k \in 1 .. due : pushed[k] \in ToSet(rows)
       /\ At(s, "clear") /\ due > 1 /\ Apart(pushed) =>
            billed \in Int /\ Upto(pushed)[due] <= billed

BillInv == FixesHavePlaces /\ Stamped /\ AllOnRoute /\ BilledInv /\ OneCompletes /\ Collects

LEMMA InitBillInv == Init => BillInv
<1> SUFFICES ASSUME Init PROVE BillInv
  OBVIOUS
<1>1. /\ buf = <<>> /\ rows = <<>> /\ pushed = <<>> /\ due = 0 /\ billed = None
      /\ \A s \in Slots : job[s] = NoJob
  BY DEF Init
<1>2. NoJob.pc = "idle" /\ NoJob.final = FALSE /\ NoJob.batch = <<>>
  BY DEF NoJob
<1>3. FixesHavePlaces /\ OneCompletes /\ BilledInv
  BY <1>1, <1>2 DEF FixesHavePlaces, OneCompletes, BilledInv, Ending
<1>4. Stamped
  BY <1>1 DEF Stamped
<1>5. AllOnRoute
  BY <1>1, <1>2 DEF AllOnRoute, ToSet
<1>6. Collects
  BY <1>1, <1>2 DEF Collects
<1> QED BY <1>3, <1>4, <1>5, <1>6 DEF BillInv

LEMMA Nothing == ToSet(<<>>) = {}
BY DEF ToSet

LEMMA GotoJob ==
  ASSUME Types, NEW s \in Slots, NEW pc \in PCs, Goto(s, pc)
  PROVE  \E j \in Call : /\ job' = [job EXCEPT ![s] = j]
                         /\ j.pc = pc /\ j.pos = job[s].pos
                         /\ j.batch = job[s].batch /\ j.final = job[s].final
<1>1. job[s] \in Call /\ job \in [Slots -> Call]
  BY JobType DEF Types
<1>2. PICK j : j = [job[s] EXCEPT !.pc = pc]
  OBVIOUS
<1>3. /\ j \in Call /\ j.pc = pc /\ j.pos = job[s].pos
      /\ j.batch = job[s].batch /\ j.final = job[s].final
  BY <1>1, <1>2 DEF Call
<1>4. job' = [job EXCEPT ![s] = j]
  BY <1>1, <1>2 DEF Goto
<1> QED BY <1>3, <1>4

LEMMA EndJob ==
  ASSUME NEW s \in Slots, End(s)
  PROVE  \E j \in Call : /\ job' = [job EXCEPT ![s] = j]
                         /\ j.pc = "idle" /\ j.batch = <<>> /\ ~j.final
BY NoJobType DEF End, NoJob

\* What a step of one call does to everything but the bill.
LEMMA StepOfACall ==
  ASSUME IInv, BillInv, NEW s \in Slots, NEW j \in Call, job' = [job EXCEPT ![s] = j],
         pushed' = pushed, ended => ended', ToSet(buf') \subseteq ToSet(buf),
         ToSet(rows') \subseteq ToSet(rows) \cup ToSet(job[s].batch),
         ToSet(j.batch) \subseteq ToSet(buf) \cup ToSet(job[s].batch),
         j.pc \in {"ride", "last", "setlast", "push"} => j.pos \in Positions,
         j.pc \in Ending => j.final,
         j.final => /\ ended' /\ j.pc \in {"lrange", "ltrim", "save"} \cup Ending
                    /\ job[s].final \/ ~ended
  PROVE  FixesHavePlaces' /\ Stamped' /\ AllOnRoute' /\ OneCompletes'
<1>1. job \in [Slots -> Call]
  BY DEF IInv, Types
<1>2. job'[s] = j /\ \A t \in Slots : t # s => job'[t] = job[t]
  BY <1>1
<1>3. FixesHavePlaces'
  BY <1>2 DEF BillInv, FixesHavePlaces
<1>4. Stamped'
  BY DEF BillInv, Stamped
<1>5. AllOnRoute'
  <2>1. \A w : OnRoute(w, pushed') <=> OnRoute(w, pushed)
    BY DEF OnRoute
  <2>2. \A w \in ToSet(buf) \cup ToSet(rows) \cup ToSet(job[s].batch) : OnRoute(w, pushed')
    BY <2>1 DEF BillInv, AllOnRoute
  <2>3. ASSUME NEW t \in Slots, NEW w \in ToSet(job'[t].batch) PROVE OnRoute(w, pushed')
    <3>1. CASE t = s
      BY <1>2, <2>2, <2>3, <3>1
    <3>2. CASE t # s
      BY <1>2, <2>1, <2>3, <3>2 DEF BillInv, AllOnRoute
    <3> QED BY <3>1, <3>2
  <2> QED BY <2>2, <2>3 DEF AllOnRoute
<1>6. OneCompletes'
  <2>1. \A t \in Slots : t # s /\ job'[t].final => ended /\ (job[s].final => t = s)
    BY <1>2 DEF BillInv, OneCompletes
  <2>2. \A t, u \in Slots : job'[t].final /\ job'[u].final => t = u
    BY <1>2, <2>1 DEF BillInv, OneCompletes
  <2>3. \A t \in Slots : /\ job'[t].pc \in Ending => job'[t].final
                         /\ job'[t].final => /\ ended'
                                             /\ job'[t].pc \in {"lrange", "ltrim", "save"} \cup Ending
    BY <1>2 DEF BillInv, OneCompletes
  <2> QED BY <2>2, <2>3 DEF OneCompletes
<1> QED BY <1>3, <1>4, <1>5, <1>6

\* A call that does not complete the ride leaves the bill as it is.
LEMMA StepBesideTheBill ==
  ASSUME IInv, BillInv, NEW s \in Slots, NEW j \in Call, job' = [job EXCEPT ![s] = j],
         UNCHANGED <<pushed, billed, due>>, ended => ended', mishap' = {} => mishap = {},
         ToSet(buf') \subseteq ToSet(buf), ToSet(rows) \subseteq ToSet(rows'),
         ToSet(rows') \subseteq ToSet(rows) \cup ToSet(job[s].batch),
         ToSet(j.batch) \subseteq ToSet(buf) \cup ToSet(job[s].batch),
         j.pc \in {"ride", "last", "setlast", "push"} => j.pos \in Positions,
         j.pc \notin Ending, ~j.final
  PROVE  BillInv'
<1>1. job \in [Slots -> Call]
  BY DEF IInv, Types
<1>2. job'[s] = j /\ \A t \in Slots : t # s => job'[t] = job[t]
  BY <1>1
<1>3. FixesHavePlaces' /\ Stamped' /\ AllOnRoute' /\ OneCompletes'
  BY StepOfACall
<1>4. BilledInv'
  BY DEF BillInv, BilledInv
<1>5. Collects'
  <2>1. due' \in 0 .. Len(pushed')
    BY DEF BillInv, Collects
  <2>2. ASSUME mishap' = {}, NEW t \in Slots, job'[t].final
        PROVE  /\ Flushing(t)' => \A k \in 1 .. due' :
                    pushed'[k] \in ToSet(rows') \cup ToSet(job'[t].batch)
               /\ job'[t].pc \in Ending => \A k \in 1 .. due' : pushed'[k] \in ToSet(rows')
               /\ At(t, "clear")' /\ due' > 1 /\ Apart(pushed') =>
                    billed' \in Int /\ Upto(pushed')[due'] <= billed'
    <3>1. job'[t] = job[t] /\ mishap = {}
      BY <1>2, <2>2
    <3>2. /\ Flushing(t) => \A k \in 1 .. due : pushed[k] \in ToSet(rows) \cup ToSet(job[t].batch)
          /\ job[t].pc \in Ending => \A k \in 1 .. due : pushed[k] \in ToSet(rows)
          /\ At(t, "clear") /\ due > 1 /\ Apart(pushed) => billed \in Int /\ Upto(pushed)[due] <= billed
      BY <2>2, <3>1 DEF BillInv, Collects
    <3>3. /\ Flushing(t)' <=> Flushing(t)
          /\ At(t, "clear")' <=> At(t, "clear")
      BY <3>1 DEF Flushing, At
    <3> QED BY <3>1, <3>2, <3>3
  <2> QED BY <2>1, <2>2 DEF Collects
<1> QED BY <1>3, <1>4, <1>5 DEF BillInv

\* A step of the completion: there is no other.
LEMMA StepOfTheBill ==
  ASSUME IInv, BillInv, NEW s \in Slots, NEW j \in Call, job' = [job EXCEPT ![s] = j],
         pushed' = pushed, ended', ToSet(buf') \subseteq ToSet(buf),
         ToSet(rows') \subseteq ToSet(rows) \cup ToSet(job[s].batch),
         ToSet(j.batch) \subseteq ToSet(buf) \cup ToSet(job[s].batch),
         j.pc \in {"lrange", "ltrim", "save"} \cup Ending, j.final, job[s].final \/ ~ended,
         BilledInv', due' \in 0 .. Len(pushed),
         mishap' = {} =>
           /\ j.pc \in {"ltrim", "save"} =>
                \A k \in 1 .. due' : pushed[k] \in ToSet(rows') \cup ToSet(j.batch)
           /\ j.pc \in Ending => \A k \in 1 .. due' : pushed[k] \in ToSet(rows')
           /\ j.pc = "clear" /\ due' > 1 /\ Apart(pushed) =>
                billed' \in Int /\ Upto(pushed)[due'] <= billed'
  PROVE  BillInv'
<1>1. job \in [Slots -> Call]
  BY DEF IInv, Types
<1>2. job'[s] = j
  BY <1>1
<1>3. j.pc \notin {"ride", "last", "setlast", "push"}
  BY DEF Ending
<1>4. FixesHavePlaces' /\ Stamped' /\ AllOnRoute' /\ OneCompletes'
  BY <1>3, StepOfACall
<1>5. Collects'
  <2>1. \A t \in Slots : job'[t].final => t = s
    BY <1>2, <1>4 DEF OneCompletes
  <2>2. /\ Flushing(s)' <=> j.pc \in {"ltrim", "save"}
        /\ At(s, "clear")' <=> j.pc = "clear"
    BY <1>2 DEF Flushing, At
  <2> QED BY <1>2, <2>1, <2>2 DEF Collects
<1> QED BY <1>4, <1>5 DEF BillInv
-----------------------------------------------------------------------------
LEMMA FixBills == ASSUME IInv, BillInv, NEW s \in Slots, NEW p \in Positions, Fix(s, p) PROVE BillInv'
<1>1. PICK j \in Call : /\ j.batch = <<>> /\ j.pc = "ride" /\ j.pos = p /\ ~j.final
                        /\ job' = [job EXCEPT ![s] = j]
  <2> DEFINE j == [NoJob EXCEPT !.pc = "ride", !.pos = p]
  <2>1. j \in Call
    BY NoJobType DEF Call, PCs
  <2>2. j.batch = <<>> /\ j.pc = "ride" /\ j.pos = p /\ ~j.final
    BY DEF NoJob
  <2> QED BY <2>1, <2>2 DEF Fix
<1>2. UNCHANGED <<buf, rows, pushed, billed, due, ended, mishap>>
  BY DEF Fix, redis
<1> QED BY <1>1, <1>2, Nothing, StepBesideTheBill DEF Ending

LEMMA ReadBills ==
  ASSUME IInv, BillInv, NEW s \in Slots, ReadRide(s) \/ ReadLast(s) \/ SetLast(s)
  PROVE  BillInv'
<1>1. /\ UNCHANGED <<buf, rows, pushed, billed, due, ended, mishap>>
      /\ job[s].pc \in {"ride", "last", "setlast", "push"}
      /\ End(s) \/ (\E pc \in {"last", "setlast", "push"} : Goto(s, pc))
  BY DEF ReadRide, ReadLast, SetLast, At, redis
<1>2. job[s].pos \in Positions /\ ~job[s].final
  BY <1>1 DEF BillInv, FixesHavePlaces, OneCompletes, Ending
<1>3. CASE End(s)
  <2>1. PICK j \in Call : /\ job' = [job EXCEPT ![s] = j]
                          /\ j.pc = "idle" /\ j.batch = <<>> /\ ~j.final
    BY <1>3, EndJob
  <2> QED BY <1>1, <2>1, Nothing, StepBesideTheBill DEF Ending
<1>4. ASSUME NEW pc \in {"last", "setlast", "push"}, Goto(s, pc) PROVE BillInv'
  <2>1. pc \in PCs /\ Types
    BY DEF PCs, IInv
  <2>2. PICK j \in Call : /\ job' = [job EXCEPT ![s] = j]
                          /\ j.pc = pc /\ j.pos = job[s].pos
                          /\ j.batch = job[s].batch /\ j.final = job[s].final
    BY <1>4, <2>1, GotoJob
  <2> QED BY <1>1, <1>2, <2>2, StepBesideTheBill DEF Ending
<1> QED BY <1>1, <1>3, <1>4

\* A waypoint more makes no route shorter.
LEMMA OneMore ==
  ASSUME NEW p \in Seq(Waypoint), NEW wp \in Waypoint, NEW q \in {Append(p, wp)}
  PROVE  /\ q \in Seq(Waypoint) /\ Len(q) = Len(p) + 1 /\ q[Len(p) + 1] = wp
         /\ \A n \in 1 .. Len(p) : q[n] = p[n]
         /\ \A n \in 0 .. Len(p) : Upto(q)[n] = Upto(p)[n]
         /\ Length(p) \in Nat /\ Length(q) \in Nat /\ Length(p) <= Length(q)
<1>1. /\ q \in Seq(Waypoint) /\ Len(p) \in Nat /\ Len(q) = Len(p) + 1 /\ q[Len(p) + 1] = wp
      /\ \A n \in 1 .. Len(p) : q[n] = p[n]
  OBVIOUS
<1>2. ASSUME NEW n \in 0 .. Len(p) PROVE Upto(q)[n] = Upto(p)[n]
  <2>1. n <= Len(q) /\ \A i \in 1 .. n : p[i] = q[i]
    BY <1>1
  <2> QED BY <1>1, <2>1, SameStart
<1>3. PICK n \in Nat : n = Len(p) /\ n + 1 = Len(q) /\ n \in 0 .. n /\ n \in 0 .. n + 1 /\ n + 1 \in 0 .. n + 1
  BY <1>1
<1>4. Length(p) = Upto(q)[n] /\ Length(q) = Upto(q)[n + 1]
  BY <1>2, <1>3, LengthIsUpto
<1>5. Upto(q)[n] \in Nat /\ Upto(q)[n + 1] \in Nat
  BY <1>1, <1>3, UptoValues
<1>6. Upto(q)[n] <= Upto(q)[n + 1]
  <2>1. CASE n = 0
    <3>1. Upto(q)[0] = 0
      <4>1. 0 \in 0 .. Len(q) /\ 0 < 2
        BY <1>1
      <4> QED BY <1>1, <4>1, UptoValues
    <3> QED BY <1>5, <2>1, <3>1
  <2>2. CASE n # 0
    <3>1. n \in 1 .. Len(q) /\ n + 1 \in 1 .. Len(q) /\ n <= n + 1
      BY <1>3, <2>2
    <3> QED BY <1>1, <3>1, Longer
  <2> QED BY <2>1, <2>2
<1> QED BY <1>1, <1>2, <1>4, <1>5, <1>6

LEMMA PushBills == ASSUME IInv, BillInv, NEW s \in Slots, Push(s) PROVE BillInv'
<1>0. PICK ms \in Now :
        LET wp == [id |-> Len(pushed) + 1, ts |-> ms, pos |-> job[s].pos]
        IN  buf' = Append(buf, wp) /\ pushed' = Append(pushed, wp)
  BY DEF Push
<1> DEFINE wp == [id |-> Len(pushed) + 1, ts |-> ms, pos |-> job[s].pos]
<1>1. /\ job \in [Slots -> Call] /\ buf \in Seq(Recorded) /\ pushed \in Seq(Waypoint)
      /\ job[s].pc = "push" /\ job[s].pos \in Positions
      /\ \A k \in DOMAIN pushed : pushed[k].id = k
  BY DEF IInv, Types, BillInv, Stamped, FixesHavePlaces, Push, At
<1>2. Len(pushed) \in Nat /\ DOMAIN pushed = 1 .. Len(pushed)
  BY <1>1, LenProperties
<1>3. PICK v \in Waypoint : v = wp /\ v.id = Len(pushed) + 1
  <2>1. wp \in Waypoint
    BY <1>1, <1>2, NowType DEF Waypoint, IInv, Types
  <2>2. wp.id = Len(pushed) + 1
    OBVIOUS
  <2> HIDE DEF wp
  <2> QED BY <2>1, <2>2
<1>4. /\ buf' = Append(buf, v) /\ pushed' = Append(pushed, v)
      /\ UNCHANGED <<rows, billed, ended, due, mishap>>
  BY <1>0, <1>3 DEF Push
<1>5. PICK j \in Call : /\ j.batch = <<>> /\ j.pc \in {"idle", "lrange"} /\ ~j.final
                        /\ job' = [job EXCEPT ![s] = j]
  <2> DEFINE j == [NoJob EXCEPT !.pc = "lrange"]
  <2>1. j \in Call /\ j.batch = <<>> /\ j.pc = "lrange" /\ ~j.final
    BY NoJobType DEF Call, PCs, NoJob
  <2>2. NoJob.batch = <<>> /\ NoJob.pc = "idle" /\ ~NoJob.final
    BY DEF NoJob
  <2> QED BY <2>1, <2>2, NoJobType DEF Push, End
<1>6. job'[s] = j /\ \A t \in Slots : t # s => job'[t] = job[t]
  BY <1>1, <1>5
<1>7. /\ pushed' \in Seq(Waypoint) /\ Len(pushed') = Len(pushed) + 1
      /\ pushed'[Len(pushed) + 1] = v
      /\ \A n \in 1 .. Len(pushed) : pushed'[n] = pushed[n]
      /\ \A n \in 0 .. Len(pushed) : Upto(pushed')[n] = Upto(pushed)[n]
      /\ Length(pushed) \in Nat /\ Length(pushed') \in Nat /\ Length(pushed) <= Length(pushed')
  <2> HIDE DEF wp
  <2>1. PICK p, q : p = pushed /\ q = pushed' /\ q = Append(p, v) /\ p \in Seq(Waypoint)
    BY <1>1, <1>4
  <2>2. /\ q \in Seq(Waypoint) /\ Len(q) = Len(p) + 1 /\ q[Len(p) + 1] = v
        /\ \A n \in 1 .. Len(p) : q[n] = p[n]
        /\ \A n \in 0 .. Len(p) : Upto(q)[n] = Upto(p)[n]
        /\ Length(p) \in Nat /\ Length(q) \in Nat /\ Length(p) <= Length(q)
    BY <1>3, <2>1, OneMore
  <2>3. Length(q) = Length(pushed') /\ Length(p) = Length(pushed) /\ Upto(q) = Upto(pushed')
    BY <2>1, LengthIsUpto
  <2> QED BY <2>1, <2>2, <2>3
<1>8. DOMAIN pushed' = 1 .. Len(pushed) + 1
  BY <1>7, LenProperties
<1>9. FixesHavePlaces'
  BY <1>5, <1>6 DEF BillInv, FixesHavePlaces
<1>10. Stamped'
  <2>1. ASSUME NEW k \in DOMAIN pushed' PROVE pushed'[k].id = k
    <3>1. k \in 1 .. Len(pushed) \/ k = Len(pushed) + 1
      BY <1>2, <1>8
    <3> QED BY <1>1, <1>2, <1>3, <1>7, <3>1
  <2> QED BY <1>7, <2>1 DEF Stamped
<1>11. AllOnRoute'
  <2>1. ASSUME NEW w, OnRoute(w, pushed) PROVE OnRoute(w, pushed')
    <3>1. w.id \in 1 .. Len(pushed) /\ w = pushed[w.id]
      BY <1>2, <2>1 DEF OnRoute
    <3>2. w.id \in DOMAIN pushed'
      BY <1>2, <1>8, <3>1
    <3> QED BY <1>7, <3>1, <3>2 DEF OnRoute
  <2>2. OnRoute(v, pushed')
    <3>1. Len(pushed) + 1 \in DOMAIN pushed'
      BY <1>2, <1>8
    <3> QED BY <1>3, <1>7, <3>1 DEF OnRoute
  <2>3. ToSet(buf') \subseteq ToSet(buf) \cup {v}
    <3>1. ASSUME NEW i \in DOMAIN buf' PROVE buf'[i] \in ToSet(buf) \cup {v}
      <4>1. v \in Recorded
        BY DEF Waypoint, Recorded
      <4>2. /\ Len(buf) \in Nat /\ DOMAIN buf = 1 .. Len(buf) /\ DOMAIN buf' = 1 .. Len(buf) + 1
            /\ buf'[Len(buf) + 1] = v /\ \A n \in 1 .. Len(buf) : buf'[n] = buf[n]
        BY <1>1, <1>4, <4>1
      <4>3. i \in 1 .. Len(buf) \/ i = Len(buf) + 1
        BY <4>2
      <4> QED BY <4>2, <4>3 DEF ToSet
    <3> QED BY <3>1 DEF ToSet
  <2>4. \A w \in ToSet(buf') \cup ToSet(rows') : OnRoute(w, pushed')
    BY <1>4, <2>1, <2>2, <2>3 DEF BillInv, AllOnRoute
  <2>5. \A t \in Slots : \A w \in ToSet(job'[t].batch) : OnRoute(w, pushed')
    BY <1>5, <1>6, <2>1, Nothing DEF BillInv, AllOnRoute
  <2> QED BY <2>4, <2>5 DEF AllOnRoute
<1>a. Apart(pushed') => Apart(pushed)
  <2>1. \A n \in DOMAIN pushed : n \in DOMAIN pushed' /\ pushed'[n] = pushed[n]
    BY <1>2, <1>7, <1>8
  <2> QED BY <2>1 DEF Apart
<1>12. BilledInv'
  <2>1. billed' # None => billed \in Int /\ (Apart(pushed) => billed <= Length(pushed))
    BY <1>4 DEF BillInv, BilledInv
  <2> QED BY <1>4, <1>7, <1>a, <2>1 DEF BilledInv
<1>13. OneCompletes'
  BY <1>4, <1>5, <1>6 DEF BillInv, OneCompletes, Ending
<1>14. Collects'
  <2>1. due \in 0 .. Len(pushed) /\ due' = due /\ due' \in 0 .. Len(pushed')
    BY <1>2, <1>4, <1>7 DEF BillInv, Collects
  <2>2. /\ \A k \in 1 .. due : pushed'[k] = pushed[k]
        /\ Upto(pushed')[due] = Upto(pushed)[due]
    BY <1>2, <1>7, <2>1
  <2>3. ASSUME mishap' = {}, NEW t \in Slots, job'[t].final
        PROVE  /\ Flushing(t)' => \A k \in 1 .. due' :
                    pushed'[k] \in ToSet(rows') \cup ToSet(job'[t].batch)
               /\ job'[t].pc \in Ending => \A k \in 1 .. due' : pushed'[k] \in ToSet(rows')
               /\ At(t, "clear")' /\ due' > 1 /\ Apart(pushed') =>
                    billed' \in Int /\ Upto(pushed')[due'] <= billed'
    <3>1. job'[t] = job[t] /\ mishap = {}
      BY <1>4, <1>5, <1>6, <2>3
    <3>2. /\ Flushing(t) => \A k \in 1 .. due : pushed[k] \in ToSet(rows) \cup ToSet(job[t].batch)
          /\ job[t].pc \in Ending => \A k \in 1 .. due : pushed[k] \in ToSet(rows)
          /\ At(t, "clear") /\ due > 1 /\ Apart(pushed) => billed \in Int /\ Upto(pushed)[due] <= billed
      BY <2>3, <3>1 DEF BillInv, Collects
    <3>3. /\ Flushing(t)' <=> Flushing(t)
          /\ At(t, "clear")' <=> At(t, "clear")
      BY <3>1 DEF Flushing, At
    <3> QED BY <1>4, <1>a, <2>1, <2>2, <3>1, <3>2, <3>3
  <2> QED BY <2>1, <2>3 DEF Collects
<1> QED BY <1>9, <1>10, <1>11, <1>12, <1>13, <1>14 DEF BillInv
-----------------------------------------------------------------------------
LEMMA LRangeBills == ASSUME IInv, BillInv, NEW s \in Slots, LRange(s) PROVE BillInv'
<1>1. /\ job \in [Slots -> Call] /\ job[s] \in Call /\ job[s].pc = "lrange" /\ job[s].batch = <<>>
      /\ buf \in Seq(Recorded) /\ UNCHANGED <<buf, rows, pushed, billed, ended>>
      /\ due' = IF job[s].final THEN Len(pushed) ELSE due
      /\ mishap' = {} => mishap = {} /\ \A t \in Slots \ {s} : ~Flushing(t)
  BY DEF IInv, Types, HeldWhileFlushing, LRange, Flushing, At, redis
<1>2. Types /\ Len(pushed) \in Nat /\ DOMAIN pushed = 1 .. Len(pushed)
  BY LenProperties DEF IInv, BillInv, Stamped
<1>3. PICK j \in Call :
        /\ job' = [job EXCEPT ![s] = j] /\ j.final = job[s].final
        /\ \/ buf = <<>> /\ j.batch = <<>> /\ j.pc = IF j.final THEN "dellast" ELSE "idle"
           \/ j.batch = buf /\ j.pc = "ltrim"
  <2>1. CASE buf # <<>>
    <3>1. PICK j : j = [[job[s] EXCEPT !.pc = "ltrim"] EXCEPT !.batch = buf]
      OBVIOUS
    <3>2. j \in Call /\ j.final = job[s].final /\ j.batch = buf /\ j.pc = "ltrim"
      BY <1>1, <3>1 DEF Call, PCs
    <3>3. job' = [job EXCEPT ![s] = j]
      BY <1>1, <2>1, <3>1 DEF LRange
    <3> QED BY <3>2, <3>3
  <2>2. CASE buf = <<>> /\ job[s].final
    <3>1. Goto(s, "dellast") /\ "dellast" \in PCs
      BY <2>2 DEF LRange, AfterFlush, PCs
    <3>2. PICK j \in Call : /\ job' = [job EXCEPT ![s] = j]
                            /\ j.pc = "dellast" /\ j.pos = job[s].pos
                            /\ j.batch = job[s].batch /\ j.final = job[s].final
      BY <1>2, <3>1, GotoJob
    <3> QED BY <1>1, <2>2, <3>2
  <2>3. CASE buf = <<>> /\ ~job[s].final
    <3>1. End(s)
      BY <2>3 DEF LRange, AfterFlush
    <3>2. PICK j \in Call : /\ job' = [job EXCEPT ![s] = j]
                            /\ j.pc = "idle" /\ j.batch = <<>> /\ ~j.final
      BY <3>1, EndJob
    <3>3. job[s].final \in BOOLEAN /\ j.final \in BOOLEAN
      BY <1>1 DEF Call
    <3> QED BY <2>3, <3>2, <3>3
  <2> QED BY <2>1, <2>2, <2>3
<1>4. ToSet(j.batch) = ToSet(buf)
  BY <1>3, Nothing
<1>5. CASE ~job[s].final
  BY <1>1, <1>3, <1>4, <1>5, StepBesideTheBill DEF Ending
<1>6. CASE job[s].final
  <2>1. ended' /\ BilledInv' /\ due' = Len(pushed) /\ due' \in 0 .. Len(pushed)
    BY <1>1, <1>2, <1>6 DEF BillInv, OneCompletes, BilledInv
  <2>2. ASSUME mishap' = {}, NEW k \in 1 .. due' PROVE pushed[k] \in ToSet(rows') \cup ToSet(j.batch)
    <3>1. k \in DOMAIN pushed /\ mishap = {}
      BY <1>1, <1>2, <2>1, <2>2
    <3>2. \A t \in Slots : job[t].batch = <<>>
      BY <1>1, <2>2 DEF IInv, HeldWhileFlushing
    <3>3. \A t \in Slots : ToSet(job[t].batch) = {}
      BY <3>2, Nothing
    <3> QED BY <1>1, <1>4, <3>1, <3>3 DEF IInv, WaypointsSurvive
  <2>3. j.pc \in Ending => ToSet(j.batch) = {}
    BY <1>3, Nothing DEF Ending
  <2>4. j.pc \in {"lrange", "ltrim", "save"} \cup Ending /\ j.pc # "clear"
    BY <1>3, <1>6 DEF Ending
  <2> QED BY <1>1, <1>3, <1>4, <1>6, <2>1, <2>2, <2>3, <2>4, StepOfTheBill
<1> QED BY <1>5, <1>6

LEMMA Trimmed ==
  ASSUME NEW S, NEW q \in Seq(S), NEW n \in Nat
  PROVE  ToSet(SubSeq(q, n + 1, Len(q))) \subseteq ToSet(q)
<1>1. PICK m \in Int, l \in Nat : m = n + 1 /\ m >= 1 /\ l = Len(q) /\ DOMAIN q = 1 .. l
  BY LenProperties
<1>2. PICK u : u = SubSeq(q, m, l)
  OBVIOUS
<1>3. \A i \in m .. l : q[i] \in S
  BY <1>1, ElementOfSeq
<1>4. /\ u \in Seq(S) /\ Len(u) = IF m <= l THEN l - m + 1 ELSE 0
      /\ \A i \in 1 .. l - m + 1 : u[i] = q[m + i - 1]
  BY <1>1, <1>3, <1>2, SubSeqProperties
<1>5. ASSUME NEW i \in DOMAIN u PROVE u[i] \in ToSet(q)
  <2>1. i \in 1 .. Len(u)
    BY <1>4, LenProperties
  <2>2. i \in 1 .. l - m + 1 /\ m + i - 1 \in 1 .. l
    BY <1>1, <1>4, <2>1
  <2> QED BY <1>1, <1>4, <2>2 DEF ToSet
<1> QED BY <1>1, <1>5, <1>2 DEF ToSet

LEMMA LTrimBills == ASSUME IInv, BillInv, NEW s \in Slots, LTrim(s) PROVE BillInv'
<1>1. /\ Types /\ job[s].pc = "ltrim" /\ Goto(s, "save") /\ "save" \in PCs
      /\ buf \in Seq(Recorded) /\ job[s].batch \in Seq(Recorded)
      /\ UNCHANGED <<rows, pushed, billed, ended, due, mishap>>
      /\ buf' = SubSeq(buf, Len(job[s].batch) + 1, Len(buf))
  BY JobType DEF IInv, Types, LTrim, At, PCs
<1>2. PICK j \in Call : /\ job' = [job EXCEPT ![s] = j]
                        /\ j.pc = "save" /\ j.pos = job[s].pos
                        /\ j.batch = job[s].batch /\ j.final = job[s].final
  BY <1>1, GotoJob
<1>3. ToSet(buf') \subseteq ToSet(buf)
  BY <1>1, Trimmed, LenProperties
<1>4. CASE ~job[s].final
  BY <1>1, <1>2, <1>3, <1>4, StepBesideTheBill DEF Ending
<1>5. CASE job[s].final
  <2>1. ended' /\ BilledInv' /\ due' \in 0 .. Len(pushed)
    BY <1>1, <1>5 DEF BillInv, OneCompletes, BilledInv, Collects
  <2>2. mishap' = {} => \A k \in 1 .. due' : pushed[k] \in ToSet(rows') \cup ToSet(j.batch)
    BY <1>1, <1>2, <1>5 DEF BillInv, Collects, Flushing
  <2> QED BY <1>1, <1>2, <1>3, <1>5, <2>1, <2>2, StepOfTheBill DEF Ending
<1> QED BY <1>4, <1>5

LEMMA Parted ==
  ASSUME NEW S, NEW a \in Seq(S), NEW b \in Seq(S)
  PROVE  ToSet(a \o b) \subseteq ToSet(a) \cup ToSet(b)
<1>1. /\ Len(a) \in Nat /\ Len(b) \in Nat /\ DOMAIN a = 1 .. Len(a) /\ DOMAIN b = 1 .. Len(b)
      /\ DOMAIN (a \o b) = 1 .. Len(a) + Len(b)
      /\ \A i \in 1 .. Len(a) + Len(b) : (a \o b)[i] = IF i <= Len(a) THEN a[i] ELSE b[i - Len(a)]
  BY LenProperties, ConcatProperties
<1>2. ASSUME NEW i \in DOMAIN (a \o b) PROVE (a \o b)[i] \in ToSet(a) \cup ToSet(b)
  <2>1. CASE i <= Len(a)
    BY <1>1, <1>2, <2>1 DEF ToSet
  <2>2. CASE ~(i <= Len(a))
    <3>1. i - Len(a) \in DOMAIN b /\ (a \o b)[i] = b[i - Len(a)]
      BY <1>1, <1>2, <2>2
    <3> QED BY <3>1 DEF ToSet
  <2> QED BY <2>1, <2>2
<1> QED BY <1>2 DEF ToSet

LEMMA SaveBills == ASSUME IInv, BillInv, NEW s \in Slots, Save(s) PROVE BillInv'
<1>1. /\ job \in [Slots -> Call] /\ job[s] \in Call /\ job[s].pc = "save"
      /\ rows \in Seq(Recorded) /\ job[s].batch \in Seq(Recorded)
      /\ UNCHANGED <<buf, pushed, billed, ended, due>>
      /\ (rows' = rows \o job[s].batch /\ mishap' = mishap) \/ (rows' = rows /\ mishap' # {})
  BY DEF IInv, Types, Call, Save, At, redis
<1>2. PICK j \in Call : /\ j.batch = <<>> /\ j.final = job[s].final
                        /\ j.pc = (IF j.final THEN "dellast" ELSE "idle")
                        /\ job' = [job EXCEPT ![s] = j]
  <2>1. CASE ~job[s].final
    <3>1. NoJob \in Call /\ NoJob.batch = <<>> /\ NoJob.pc = "idle" /\ NoJob.final = FALSE
      BY NoJobType DEF NoJob
    <3>2. job[s].final = FALSE
      BY <1>1, <2>1 DEF Call
    <3> QED BY <2>1, <3>1, <3>2 DEF Save
  <2>2. CASE job[s].final
    <3>1. \A e \in Seq(Recorded) :
            LET i == [job[s] EXCEPT !.pc = "dellast", !.batch = e]
            IN  i \in Call /\ i.batch = e /\ i.pc = "dellast" /\ i.final = job[s].final
      BY <1>1 DEF Call, PCs
    <3>2. <<>> \in Seq(Recorded)
      OBVIOUS
    <3>3. PICK i : i = [job[s] EXCEPT !.pc = "dellast", !.batch = <<>>]
      OBVIOUS
    <3>4. i \in Call /\ i.batch = <<>> /\ i.pc = "dellast" /\ i.final = job[s].final
      BY <3>1, <3>2, <3>3
    <3>5. job' = [job EXCEPT ![s] = i]
      BY <2>2, <3>3, Zenon DEF Save
    <3> QED BY <2>2, <3>4, <3>5
  <2> QED BY <2>1, <2>2
<1>3. /\ ToSet(rows') \subseteq ToSet(rows) \cup ToSet(job[s].batch)
      /\ ToSet(rows) \subseteq ToSet(rows')
      /\ mishap' = {} => mishap = {} /\ ToSet(job[s].batch) \subseteq ToSet(rows')
  <2>1. CASE rows' = rows \o job[s].batch /\ mishap' = mishap
    <3>1. ToSet(rows \o job[s].batch) = ToSet(rows) \cup ToSet(job[s].batch)
      BY <1>1, Joined, Parted
    <3>2. ToSet(rows') = ToSet(rows \o job[s].batch)
      BY <2>1
    <3> QED BY <2>1, <3>1, <3>2
  <2>2. CASE rows' = rows /\ mishap' # {}
    BY <2>2
  <2> QED BY <1>1, <2>1, <2>2
<1>4. CASE ~job[s].final
  BY <1>1, <1>2, <1>3, <1>4, Nothing, StepBesideTheBill DEF Ending
<1>5. CASE job[s].final
  <2>1. ended' /\ BilledInv' /\ due' \in 0 .. Len(pushed)
    BY <1>1, <1>5 DEF BillInv, OneCompletes, BilledInv, Collects
  <2>2. ASSUME mishap' = {} PROVE \A k \in 1 .. due' : pushed[k] \in ToSet(rows')
    <3>1. \A k \in 1 .. due : pushed[k] \in ToSet(rows) \cup ToSet(job[s].batch)
      BY <1>1, <1>3, <1>5, <2>2 DEF BillInv, Collects, Flushing
    <3> QED BY <1>1, <1>3, <2>2, <3>1
  <2>3. j.pc = "dellast" /\ j.final
    BY <1>2, <1>5
  <2> QED BY <1>1, <1>2, <1>3, <1>5, <2>1, <2>2, <2>3, Nothing, StepOfTheBill DEF Ending
<1> QED BY <1>4, <1>5

LEMMA CompleteBills == ASSUME IInv, BillInv, NEW s \in Slots, Complete(s) PROVE BillInv'
<1>1. PICK j \in Call : /\ j.batch = <<>> /\ j.pc = "lrange" /\ j.final
                        /\ job' = [job EXCEPT ![s] = j]
  <2> DEFINE j == [NoJob EXCEPT !.pc = "lrange", !.final = TRUE]
  <2>1. j \in Call
    BY NoJobType DEF Call, PCs
  <2>2. j.batch = <<>> /\ j.pc = "lrange" /\ j.final
    BY DEF NoJob
  <2> QED BY <2>1, <2>2 DEF Complete
<1>2. UNCHANGED <<buf, rows, pushed, billed, due, mishap>> /\ ~ended /\ ended'
  BY DEF Complete, redis
<1>3. BilledInv' /\ due' \in 0 .. Len(pushed)
  BY <1>2 DEF BillInv, BilledInv, Collects
<1> QED BY <1>1, <1>2, <1>3, Nothing, StepOfTheBill DEF Ending

LEMMA DelLastBills == ASSUME IInv, BillInv, NEW s \in Slots, DelLast(s) PROVE BillInv'
<1>1. /\ Types /\ job[s].pc = "dellast" /\ Goto(s, "sum") /\ "sum" \in PCs
      /\ UNCHANGED <<buf, rows, pushed, billed, ended, due, mishap>>
  BY DEF IInv, DelLast, At, PCs
<1>2. PICK j \in Call : /\ job' = [job EXCEPT ![s] = j]
                        /\ j.pc = "sum" /\ j.pos = job[s].pos
                        /\ j.batch = job[s].batch /\ j.final = job[s].final
  BY <1>1, GotoJob
<1>3. job[s].final /\ ended
  BY <1>1 DEF BillInv, OneCompletes, Ending
<1>4. BilledInv' /\ due' \in 0 .. Len(pushed)
  BY <1>1 DEF BillInv, BilledInv, Collects
<1>5. mishap' = {} => \A k \in 1 .. due' : pushed[k] \in ToSet(rows')
  BY <1>1, <1>3 DEF BillInv, Collects, Ending
<1> QED BY <1>1, <1>2, <1>3, <1>4, <1>5, StepOfTheBill DEF Ending

\* What the completion reads from the table is never longer than the route ...
LEMMA TableIsOfTheRoute ==
  ASSUME IInv, BillInv
  PROVE  /\ rows \in Seq(Waypoint) /\ pushed \in Seq(Waypoint)
         /\ \A i \in DOMAIN rows : OnRoute(rows[i], pushed)
<1>1. rows \in Seq(Recorded) /\ pushed \in Seq(Waypoint)
      /\ \A w \in ToSet(rows) : OnRoute(w, pushed)
  BY DEF IInv, Types, BillInv, Stamped, AllOnRoute
<1>2. \A i \in DOMAIN rows : OnRoute(rows[i], pushed)
  BY <1>1 DEF ToSet
<1>3. \A i \in DOMAIN rows : rows[i] \in Waypoint
  BY <1>1, <1>2, LenProperties, ElementOfSeq DEF OnRoute
<1>4. rows \in Seq(Waypoint)
  BY <1>1, <1>3, LenProperties, SeqDef
<1> QED BY <1>1, <1>2, <1>4

\* ... and, if what was due is there, no shorter than that.
LEMMA TableIsComplete ==
  ASSUME IInv, BillInv, due > 1, \A k \in 1 .. due : pushed[k] \in ToSet(rows),
         Apart(pushed), NEW route \in Orders(rows)
  PROVE  Len(rows) >= 2 /\ Upto(pushed)[due] <= Length(route)
<1>1. /\ route \in Seq(Waypoint) /\ Sorted(route)
      /\ \A i \in DOMAIN route : OnRoute(route[i], pushed)
      /\ rows \in Seq(Waypoint) /\ pushed \in Seq(Waypoint)
      /\ DOMAIN route = DOMAIN rows
  BY TableIsOfTheRoute, OrdersHold, OrdersAreSorted
<1>2. /\ Len(pushed) \in Nat /\ DOMAIN pushed = 1 .. Len(pushed)
      /\ Len(rows) \in Nat /\ DOMAIN rows = 1 .. Len(rows)
      /\ due \in 0 .. Len(pushed) /\ \A k \in DOMAIN pushed : pushed[k].id = k
  BY <1>1, LenProperties DEF BillInv, Stamped, Collects
<1>3. due \in 1 .. Len(pushed) /\ 1 \in 1 .. due /\ 2 \in 1 .. due
  BY <1>2
<1>4. ASSUME NEW k \in 1 .. due PROVE \E i \in DOMAIN rows : rows[i] = pushed[k] /\ rows[i].id = k
  <2>1. k \in DOMAIN pushed
    BY <1>2, <1>3
  <2> QED BY <1>2, <2>1 DEF ToSet
<1>5. Len(rows) >= 2
  <2>1. PICK i \in DOMAIN rows, j \in DOMAIN rows : rows[i].id = 1 /\ rows[j].id = 2
    BY <1>3, <1>4
  <2>2. i # j
    BY <2>1
  <2> QED BY <1>2, <2>2
<1>6. ASSUME NEW k \in 1 .. due PROVE \E i \in DOMAIN route : route[i].id = k
  <2>1. PICK i \in DOMAIN rows : rows[i].id = k
    BY <1>4
  <2>2. PICK m \in DOMAIN rows : route[m] = rows[i]
    BY <1>1, OrdersHold
  <2> QED BY <1>1, <2>1, <2>2
<1>7. Upto(pushed)[due] <= Length(route)
  BY <1>1, <1>3, <1>6, NeverShorter
<1> QED BY <1>5, <1>7

LEMMA LengthType == ASSUME NEW w \in Seq(Waypoint) PROVE Length(w) \in Nat
<1>1. Len(w) \in Nat /\ Len(w) \in 0 .. Len(w)
  BY LenProperties
<1> QED BY <1>1, LengthIsUpto, UptoValues

LEMMA SumUpBills == ASSUME IInv, BillInv, NEW s \in Slots, SumUp(s) PROVE BillInv'
<1>1. /\ Types /\ job[s].pc = "sum" /\ Goto(s, "clear") /\ "clear" \in PCs
      /\ UNCHANGED <<buf, rows, pushed, ended, due, mishap>>
  BY DEF IInv, SumUp, At, PCs, redis
<1>0. PICK route \in Orders(rows) : billed' = IF Len(rows) < 2 THEN None ELSE Length(route)
  BY DEF SumUp
<1>2. PICK j \in Call : /\ job' = [job EXCEPT ![s] = j]
                        /\ j.pc = "clear" /\ j.pos = job[s].pos
                        /\ j.batch = job[s].batch /\ j.final = job[s].final
  BY <1>1, GotoJob
<1>3. job[s].final /\ ended /\ due \in 0 .. Len(pushed)
  BY <1>1 DEF BillInv, OneCompletes, Ending, Collects
<1>4. Length(route) \in Nat /\ (Apart(pushed) => Length(route) <= Length(pushed))
  BY TableIsOfTheRoute, OrdersHold, OrdersAreSorted, NeverLonger, LengthType
<1>5. BilledInv'
  BY <1>0, <1>1, <1>4 DEF BilledInv
<1>6. mishap' = {} => \A k \in 1 .. due : pushed[k] \in ToSet(rows)
  BY <1>1, <1>3 DEF BillInv, Collects, Ending
<1>7. ASSUME mishap' = {}, due > 1, Apart(pushed) PROVE billed' \in Int /\ Upto(pushed)[due] <= billed'
  <2>1. Len(rows) >= 2 /\ Upto(pushed)[due] <= Length(route)
    BY <1>6, <1>7, TableIsComplete
  <2>2. Len(rows) \in Nat
    BY LenProperties, TableIsOfTheRoute
  <2>3. billed' = Length(route)
    BY <1>0, <2>1, <2>2
  <2> QED BY <1>4, <2>1, <2>3
<1> QED BY <1>1, <1>2, <1>3, <1>5, <1>6, <1>7, StepOfTheBill DEF Ending

LEMMA ClearBills == ASSUME IInv, BillInv, NEW s \in Slots, ClearActiveRide(s) PROVE BillInv'
<1>1. UNCHANGED <<buf, rows, pushed, billed, ended, due, mishap>> /\ End(s)
  BY DEF ClearActiveRide
<1>2. PICK j \in Call : /\ job' = [job EXCEPT ![s] = j]
                        /\ j.pc = "idle" /\ j.batch = <<>> /\ ~j.final
  BY <1>1, EndJob
<1> QED BY <1>1, <1>2, Nothing, StepBesideTheBill DEF Ending

LEMMA CrashBills == ASSUME IInv, BillInv, Crash PROVE BillInv'
<1>1. /\ job' = [s \in Slots |-> NoJob] /\ mishap' # {}
      /\ UNCHANGED <<buf, rows, pushed, billed, due, ended>>
  BY DEF Crash, redis
<1>2. NoJob.pc = "idle" /\ NoJob.batch = <<>> /\ ~NoJob.final
  BY DEF NoJob
<1>3. \A s \in Slots : job'[s] = NoJob
  BY <1>1
<1>4. FixesHavePlaces' /\ OneCompletes'
  BY <1>2, <1>3 DEF FixesHavePlaces, OneCompletes, Ending
<1>5. Stamped' /\ BilledInv'
  BY <1>1 DEF BillInv, Stamped, BilledInv
<1>6. AllOnRoute'
  BY <1>1, <1>2, <1>3, Nothing DEF BillInv, AllOnRoute
<1>7. Collects'
  BY <1>1 DEF BillInv, Collects
<1> QED BY <1>4, <1>5, <1>6, <1>7 DEF BillInv

LEMMA IdleBills == ASSUME BillInv, UNCHANGED vars PROVE BillInv'
<1>1. UNCHANGED <<buf, rows, pushed, billed, due, ended, mishap, job>>
  BY DEF vars, redis
<1>2. FixesHavePlaces' /\ Stamped' /\ BilledInv' /\ OneCompletes' /\ AllOnRoute'
  BY <1>1 DEF BillInv, FixesHavePlaces, Stamped, BilledInv, OneCompletes, AllOnRoute
<1>3. Collects'
  BY <1>1 DEF BillInv, Collects, Flushing, At
<1> QED BY <1>2, <1>3 DEF BillInv

LEMMA NextBills == IInv /\ BillInv /\ [Next]_vars => BillInv'
<1> SUFFICES ASSUME IInv, BillInv, [Next]_vars PROVE BillInv'
  OBVIOUS
<1>1. CASE UNCHANGED vars
  BY <1>1, IdleBills
<1>2. CASE Crash
  BY <1>2, CrashBills
<1>3. ASSUME NEW s \in Slots,
             \/ \E p \in Positions : Fix(s, p)
             \/ ReadRide(s) \/ ReadLast(s) \/ SetLast(s) \/ Push(s)
             \/ LRange(s) \/ LTrim(s) \/ Save(s)
             \/ Complete(s) \/ DelLast(s) \/ SumUp(s) \/ ClearActiveRide(s)
      PROVE  BillInv'
  BY <1>3, FixBills, ReadBills, PushBills, LRangeBills, LTrimBills, SaveBills,
     CompleteBills, DelLastBills, SumUpBills, ClearBills
<1> QED BY <1>1, <1>2, <1>3 DEF Next

LEMMA AlwaysBills == Spec => [](IInv /\ BillInv)
<1>1. Init => IInv /\ BillInv
  BY InitIInv, InitBillInv
<1>2. IInv /\ BillInv /\ [Next]_vars => (IInv /\ BillInv)'
  BY NextIInv, NextBills
<1> QED BY <1>1, <1>2, PTL DEF Spec

\* finalizeRoute: if every waypoint has a time of its own, those saved twice, in the wrong
\* order or not at all never make the billed distance longer than the route, for any
\* flushes, failures and crashes.
THEOREM BilledWithinTheRoute == Spec => []NeverBilledBeyondTheRoute
<1>1. IInv /\ BillInv => NeverBilledBeyondTheRoute
  BY DEF BillInv, BilledInv, NeverBilledBeyondTheRoute, StampsAreApart, Apart
<1> QED BY <1>1, AlwaysBills, PTL

\* finalizeRoute: if no two flushes overlapped, no INSERT failed, the process stayed up and
\* every waypoint has a time of its own, every waypoint recorded before the completion read the buffer is paid for.
THEOREM QuietRoutesAreBilled == Spec => []QuietRoutesAreBilledInFull
<1>1. ASSUME IInv, BillInv, mishap = {}, StampsAreApart, NEW s \in Slots, At(s, "clear"), due > 1
      PROVE  billed >= Length(SubSeq(pushed, 1, due))
  <2>1. pushed \in Seq(Waypoint) /\ Len(pushed) \in Nat /\ due \in 0 .. Len(pushed) /\ job[s].final
    BY <1>1, LenProperties DEF BillInv, Stamped, Collects, OneCompletes, At, Ending
  <2>2. billed \in Int /\ Upto(pushed)[due] <= billed
    BY <1>1, <2>1 DEF BillInv, Collects, StampsAreApart, Apart
  <2>3. PICK q : q = SubSeq(pushed, 1, due)
    OBVIOUS
  <2>4. q \in Seq(Waypoint) /\ Len(q) = due /\ \A i \in 1 .. due : q[i] = pushed[i]
    BY <2>1, <2>3
  <2>5. due \in 0 .. Len(q) /\ due <= Len(pushed)
    BY <2>1, <2>4
  <2>6. Length(q) = Upto(pushed)[due]
    BY <2>1, <2>4, <2>5, SameStart, LengthIsUpto
  <2>7. Length(q) \in Nat
    BY <2>4, LengthType
  <2> QED BY <2>2, <2>3, <2>6, <2>7
<1>2. IInv /\ BillInv => QuietRoutesAreBilledInFull
  BY <1>1 DEF QuietRoutesAreBilledInFull
<1> QED BY <1>2, AlwaysBills, PTL
=============================================================================
