--------------------------- MODULE SessionProofs ---------------------------
(***************************************************************************)
(* Proofs about Session: the types, one refresh at a time, a queue that is *)
(* drained, and whose tokens the app holds.                                *)
(***************************************************************************)
EXTENDS Session, TLAPS

(***************************************************************************)
(* The inductive invariant.  What a call of each kind may be doing, and    *)
(* that it has the token it is about to use.                               *)
(***************************************************************************)
CallOK(j) ==
  /\ j.kind = "session" => j.pc \in {"refresh", "issue", "got", "store"}
  /\ j.kind = "login" => j.pc \in {"issue", "got", "store"}
  /\ j.kind = "logout" => j.pc # "idle"
  /\ j.pc \in {"wipe", "leave"} => j.kind = "logout"
  /\ j.pc \in {"refresh", "issue", "got", "store"} => j.token \in Token
  /\ j.pc \in {"got", "store"} => j.token.n \in 1 .. issued

\* One user signs in or out at a time.
OneAtTheDoor ==
  /\ \A c, d \in Calls : call[c].kind = "login" /\ call[d].kind = "login" => c = d
  /\ \A c, d \in LeavingCalls : c = d
  /\ LeavingCalls # {} => user # None

\* While the tokens are being cleared, only calls that came too late are queued.
LateOnesAreStranded == (\E d \in Calls : At(d, "clear")) => Queue \subseteq stranded

RefreshInv == OneRefreshAtATime /\ QueueHasARefresh /\ LateOnesAreStranded

\* A token of the user, or of the one whose login has stored it already.
Owned(token) ==
  \/ token.user = user
  \/ user = None /\ \E d \in Calls : call[d].kind = "login" /\ At(d, "store") /\ call[d].token.user = token.user

\* As long as no refresh has crossed the end of a session.
OwnerInv ==
  /\ tokens # None => Owned(tokens)
  /\ \A c \in OnTheirWay : Owned(call[c].token)
  /\ \A c \in Calls : call[c].kind = "login" => user = None
  /\ \A c \in Calls : call[c].kind = "session" => user # None
  /\ \A c \in Calls : At(c, "leave") => tokens = None /\ OnTheirWay = {}

\* And as long as nothing has failed.
KeptInv ==
  /\ user # None /\ LeavingCalls = {} => tokens # None /\ hash[user] # None
  /\ \A c \in Calls : call[c].kind = "login" /\ call[c].pc \in {"got", "store"} => hash[call[c].token.user] # None
  /\ \A c \in Calls : call[c].kind = "login" /\ At(c, "store") => tokens # None

IInv ==
  /\ TypeOK
  /\ \A c \in Calls : CallOK(call[c])
  /\ OneAtTheDoor
  /\ RefreshInv
  /\ ~crossed => OwnerInv
  /\ ~crossed /\ failures = 0 => KeptInv /\ ~strayed

-----------------------------------------------------------------------------
(***************************************************************************)
(* The records of calls.                                                   *)
(***************************************************************************)
\* A place for a call that is free is a record of a call.
LEMMA NoCallType == NoCall \in Call
  BY SessionAssumption DEF NoCall, Call, PCs, Kinds

\* What is left of a call that was answered is a record of a call.
LEMMA SettledType ==
  ASSUME NEW j \in Call
  PROVE  Settled(j) \in Call
<1>1. [j EXCEPT !.pc = "wipe"] \in Call
  BY DEF Call, PCs
<1>. QED
  BY <1>1, NoCallType DEF Settled

\* Drained gives every waiting call its answer and leaves the others alone.
LEMMA DrainedType ==
  ASSUME TypeOK, NEW token \in Token \cup {None}
  PROVE  Drained(token) \in [Calls -> Call]
<1> SUFFICES ASSUME NEW d \in Calls PROVE Drained(token)[d] \in Call
  BY DEF Drained
<1>1. call[d] \in Call
  BY DEF TypeOK
<1>2. token # None => [call[d] EXCEPT !.pc = "attach", !.token = token] \in Call
  BY <1>1 DEF Call, PCs
<1>. QED
  BY <1>1, <1>2, SettledType DEF Drained

LEMMA DrainedCalls ==
  ASSUME TypeOK, NEW token \in Token \cup {None}, NEW d \in Calls
  PROVE  /\ d \notin Queue => Drained(token)[d] = call[d]
         /\ d \in Queue => /\ Drained(token)[d].pc \in {"idle", "attach", "wipe"}
                           /\ Drained(token)[d].kind \in {call[d].kind, "request"}
                           /\ Drained(token)[d].pc = "wipe" => call[d].kind = "logout"
                           /\ (Drained(token)[d].kind = "logout") <=> (call[d].kind = "logout")
                           /\ Drained(token)[d].pc = "idle" => Drained(token)[d].kind = "request"
<1>1. call[d] \in Call
  BY DEF TypeOK
<1>. QED
  BY <1>1 DEF Drained, Settled, NoCall, Call

\* A step that moves one call.
LEMMA MoveCall ==
  ASSUME TypeOK, NEW c \in Calls, NEW j \in Call, call' = [call EXCEPT ![c] = j]
  PROVE  call' \in [Calls -> Call]
  BY DEF TypeOK
-----------------------------------------------------------------------------
(***************************************************************************)
(* The steps.                                                              *)
(***************************************************************************)

LEMMA RequestInv ==
  ASSUME IInv, NEW c \in Calls, Request(c)
  PROVE  IInv'
<1> DEFINE j == [NoCall EXCEPT !.pc = "attach", !.token = header]
<1>1. call[c] \in Call /\ TypeOK /\ CallOK(call[c])
  BY DEF IInv, TypeOK
<1>2. j \in Call
  BY <1>1, NoCallType DEF NoCall, Call, PCs, Kinds, TypeOK
<1>3. call' = [call EXCEPT ![c] = j]
  BY DEF Request, Start, Settle, Goto
<1>4. call' \in [Calls -> Call]
  BY <1>1, <1>2, <1>3, MoveCall
<1> USE SessionAssumption DEF Request, IInv, At, past, Settle, Goto, Settled, Start, NoCall
<1>5. TypeOK'
  BY <1>1, <1>4 DEF TypeOK, CallOK, Token
<1>6. \A d \in Calls : CallOK(call[d])'
  BY <1>1 DEF CallOK, TypeOK, Call, Token
<1>7. OneAtTheDoor'
  BY <1>1 DEF CallOK, OneAtTheDoor, LeavingCalls, TypeOK, Call, Token
<1>8. RefreshInv'
  BY <1>1 DEF CallOK, RefreshInv, OneRefreshAtATime, QueueHasARefresh, LateOnesAreStranded, Refreshing, Queue, TypeOK, Call
<1>9. ~crossed' => OwnerInv'
  BY <1>1 DEF CallOK, OneAtTheDoor, OwnerInv, Owned, OnTheirWay, LeavingCalls, TypeOK, Call, Token
<1>10. ~crossed' /\ failures' = 0 => KeptInv'
  BY <1>1 DEF CallOK, OneAtTheDoor, OwnerInv, Owned, OnTheirWay, LeavingCalls, KeptInv, TypeOK, Call, Token
<1>11. ~crossed' /\ failures' = 0 => ~strayed'
  BY <1>1 DEF TypeOK
<1>. QED
  BY <1>5, <1>6, <1>7, <1>8, <1>9, <1>10, <1>11

LEMMA AttachInv ==
  ASSUME IInv, NEW c \in Calls, Attach(c)
  PROVE  IInv'
<1> DEFINE j == [call[c] EXCEPT !.pc = "sent", !.token = Carried(c)]
<1>1. call[c] \in Call /\ TypeOK /\ CallOK(call[c])
  BY DEF IInv, TypeOK
<1>2. j \in Call
  <2>1. Carried(c) \in Token \cup {None}
    BY <1>1 DEF Carried, TypeOK, Call
  <2>. QED
    BY <1>1, <2>1 DEF Call, PCs
<1>3. call' = [call EXCEPT ![c] = j]
  BY DEF Attach, Start, Settle, Goto
<1>4. call' \in [Calls -> Call]
  BY <1>1, <1>2, <1>3, MoveCall
<1> USE SessionAssumption DEF Attach, IInv, At, past, Settle, Goto, Settled, Start, NoCall
<1>5. TypeOK'
  BY <1>1, <1>4 DEF TypeOK, CallOK, Token
<1>6. \A d \in Calls : CallOK(call[d])'
  BY <1>1 DEF CallOK, TypeOK, Call, Token
<1>7. OneAtTheDoor'
  BY <1>1 DEF CallOK, OneAtTheDoor, LeavingCalls, TypeOK, Call, Token
<1>8. RefreshInv'
  BY <1>1 DEF CallOK, RefreshInv, OneRefreshAtATime, QueueHasARefresh, LateOnesAreStranded, Refreshing, Queue, TypeOK, Call
<1>9. ~crossed' => OwnerInv'
  BY <1>1 DEF CallOK, OneAtTheDoor, OwnerInv, Owned, OnTheirWay, LeavingCalls, TypeOK, Call, Token
<1>10. ~crossed' /\ failures' = 0 => KeptInv'
  BY <1>1 DEF CallOK, OneAtTheDoor, OwnerInv, Owned, OnTheirWay, LeavingCalls, KeptInv, TypeOK, Call, Token
<1>11. ~crossed' /\ failures' = 0 => ~strayed'
  <2> SUFFICES ASSUME ~crossed, failures = 0, LeavingCalls = {}, user # None PROVE Carried(c).user = user
    BY <1>1 DEF TypeOK
  <2>1. OwnerInv /\ KeptInv
    OBVIOUS
  <2>2. tokens # None /\ Owned(tokens)
    BY <2>1 DEF KeptInv, OwnerInv
  <2>. QED
    BY <2>2 DEF Owned, Carried
<1>. QED
  BY <1>5, <1>6, <1>7, <1>8, <1>9, <1>10, <1>11

LEMMA AnswerInv ==
  ASSUME IInv, NEW c \in Calls, Answer(c)
  PROVE  IInv'
<1> DEFINE j == Settled(call[c])
<1>1. call[c] \in Call /\ TypeOK /\ CallOK(call[c])
  BY DEF IInv, TypeOK
<1>2. j \in Call
  BY <1>1, SettledType
<1>3. call' = [call EXCEPT ![c] = j]
  BY DEF Answer, Start, Settle, Goto
<1>4. call' \in [Calls -> Call]
  BY <1>1, <1>2, <1>3, MoveCall
<1> USE SessionAssumption DEF Answer, IInv, At, past, Settle, Goto, Settled, Start, NoCall
<1>5. TypeOK'
  BY <1>1, <1>4 DEF TypeOK, CallOK, Token
<1>6. \A d \in Calls : CallOK(call[d])'
  BY <1>1 DEF CallOK, TypeOK, Call, Token
<1>7. OneAtTheDoor'
  BY <1>1 DEF CallOK, OneAtTheDoor, LeavingCalls, TypeOK, Call, Token
<1>8. RefreshInv'
  BY <1>1 DEF CallOK, RefreshInv, OneRefreshAtATime, QueueHasARefresh, LateOnesAreStranded, Refreshing, Queue, TypeOK, Call
<1>9. ~crossed' => OwnerInv'
  BY <1>1 DEF CallOK, OneAtTheDoor, OwnerInv, Owned, OnTheirWay, LeavingCalls, TypeOK, Call, Token
<1>10. ~crossed' /\ failures' = 0 => KeptInv'
  BY <1>1 DEF CallOK, OneAtTheDoor, OwnerInv, Owned, OnTheirWay, LeavingCalls, KeptInv, TypeOK, Call, Token
<1>11. ~crossed' /\ failures' = 0 => ~strayed'
  BY <1>1 DEF TypeOK
<1>. QED
  BY <1>5, <1>6, <1>7, <1>8, <1>9, <1>10, <1>11

LEMMA NetworkErrorInv ==
  ASSUME IInv, NEW c \in Calls, NetworkError(c)
  PROVE  IInv'
<1> DEFINE j == Settled(call[c])
<1>1. call[c] \in Call /\ TypeOK /\ CallOK(call[c])
  BY DEF IInv, TypeOK
<1>2. j \in Call
  BY <1>1, SettledType
<1>3. call' = [call EXCEPT ![c] = j]
  BY DEF NetworkError, Start, Settle, Goto
<1>4. call' \in [Calls -> Call]
  BY <1>1, <1>2, <1>3, MoveCall
<1> USE SessionAssumption DEF NetworkError, IInv, At, past, Settle, Goto, Settled, Start, NoCall
<1>5. TypeOK'
  BY <1>1, <1>4 DEF TypeOK, CallOK, Token
<1>6. \A d \in Calls : CallOK(call[d])'
  BY <1>1 DEF CallOK, TypeOK, Call, Token
<1>7. OneAtTheDoor'
  BY <1>1 DEF CallOK, OneAtTheDoor, LeavingCalls, TypeOK, Call, Token
<1>8. RefreshInv'
  BY <1>1 DEF CallOK, RefreshInv, OneRefreshAtATime, QueueHasARefresh, LateOnesAreStranded, Refreshing, Queue, TypeOK, Call
<1>9. ~crossed' => OwnerInv'
  BY <1>1 DEF CallOK, OneAtTheDoor, OwnerInv, Owned, OnTheirWay, LeavingCalls, TypeOK, Call, Token
<1>10. ~crossed' /\ failures' = 0 => KeptInv'
  BY <1>1 DEF CallOK, OneAtTheDoor, OwnerInv, Owned, OnTheirWay, LeavingCalls, KeptInv, TypeOK, Call, Token
<1>11. ~crossed' /\ failures' = 0 => ~strayed'
  BY <1>1 DEF TypeOK
<1>. QED
  BY <1>5, <1>6, <1>7, <1>8, <1>9, <1>10, <1>11

LEMMA ClearedInv ==
  ASSUME IInv, NEW c \in Calls, Cleared(c)
  PROVE  IInv'
<1> DEFINE j == Settled(call[c])
<1>1. call[c] \in Call /\ TypeOK /\ CallOK(call[c])
  BY DEF IInv, TypeOK
<1>2. j \in Call
  BY <1>1, SettledType
<1>3. call' = [call EXCEPT ![c] = j]
  BY DEF Cleared, Start, Settle, Goto
<1>4. call' \in [Calls -> Call]
  BY <1>1, <1>2, <1>3, MoveCall
<1> USE SessionAssumption DEF Cleared, IInv, At, past, Settle, Goto, Settled, Start, NoCall
<1>5. TypeOK'
  BY <1>1, <1>4 DEF TypeOK, CallOK, Token
<1>6. \A d \in Calls : CallOK(call[d])'
  BY <1>1 DEF CallOK, TypeOK, Call, Token
<1>7. OneAtTheDoor'
  BY <1>1 DEF CallOK, OneAtTheDoor, LeavingCalls, TypeOK, Call, Token
<1>8. RefreshInv'
  <2>1. Refreshing(c) /\ call[c].pc = "clear"
    BY <1>1 DEF CallOK, Refreshing, Call, Kinds
  <2>2. \A d \in Calls : d # c => call'[d] = call[d] /\ ~Refreshing(d)
    BY <1>1, <1>3, <2>1 DEF TypeOK, RefreshInv, OneRefreshAtATime
  <2>3. call'[c].pc \in {"idle", "wipe"}
    BY <1>1, <1>3 DEF TypeOK, Call
  <2>4. Queue \subseteq stranded
    BY <2>1 DEF RefreshInv, LateOnesAreStranded
  <2>. QED
    BY <2>1, <2>2, <2>3, <2>4 DEF RefreshInv, OneRefreshAtATime, QueueHasARefresh, LateOnesAreStranded, Refreshing, Queue
<1>9. ~crossed' => OwnerInv'
  BY <1>1 DEF CallOK, OneAtTheDoor, OwnerInv, Owned, OnTheirWay, LeavingCalls, TypeOK, Call, Token
<1>10. ~crossed' /\ failures' = 0 => KeptInv'
  BY <1>1 DEF CallOK, OneAtTheDoor, OwnerInv, Owned, OnTheirWay, LeavingCalls, KeptInv, TypeOK, Call, Token
<1>11. ~crossed' /\ failures' = 0 => ~strayed'
  BY <1>1 DEF TypeOK
<1>. QED
  BY <1>5, <1>6, <1>7, <1>8, <1>9, <1>10, <1>11

LEMMA RefreshSessionInv ==
  ASSUME IInv, NEW c \in Calls, RefreshSession(c)
  PROVE  IInv'
<1> DEFINE j == [NoCall EXCEPT !.pc = "refresh", !.kind = "session", !.token = [user |-> user, n |-> 0]]
<1>1. call[c] \in Call /\ TypeOK /\ CallOK(call[c])
  BY DEF IInv, TypeOK
<1>2. j \in Call
  <2>1. [user |-> user, n |-> 0] \in Token
    BY <1>1 DEF RefreshSession, TypeOK, Token
  <2>. QED
    BY <2>1, NoCallType DEF NoCall, Call, PCs, Kinds
<1>3. call' = [call EXCEPT ![c] = j]
  BY DEF RefreshSession, Start, Settle, Goto
<1>4. call' \in [Calls -> Call]
  BY <1>1, <1>2, <1>3, MoveCall
<1> USE SessionAssumption DEF RefreshSession, IInv, At, past, Settle, Goto, Settled, Start, NoCall
<1>5. TypeOK'
  BY <1>1, <1>4 DEF TypeOK, CallOK, Token
<1>6. \A d \in Calls : CallOK(call[d])'
  BY <1>1 DEF CallOK, TypeOK, Call, Token
<1>7. OneAtTheDoor'
  BY <1>1 DEF CallOK, OneAtTheDoor, LeavingCalls, TypeOK, Call, Token
<1>8. RefreshInv'
  BY <1>1 DEF CallOK, RefreshInv, OneRefreshAtATime, QueueHasARefresh, LateOnesAreStranded, Refreshing, Queue, TypeOK, Call
<1>9. ASSUME ~crossed' PROVE OwnerInv'
  <2>1. OwnerInv /\ user # None /\ ~(\E d \in Calls : At(d, "leave"))
    BY <1>9
  <2>2. \A d \in Calls : d # c => call'[d] = call[d]
    BY <1>1, <1>3 DEF TypeOK
  <2>3. call'[c].kind = "session" /\ call'[c].pc = "refresh" /\ call'[c].token.user = user
    BY <1>1, <1>3 DEF TypeOK
  <2>. QED
    BY <2>1, <2>2, <2>3 DEF OwnerInv, Owned, OnTheirWay
<1>10. ~crossed' /\ failures' = 0 => KeptInv'
  BY <1>1 DEF CallOK, OneAtTheDoor, OwnerInv, Owned, OnTheirWay, LeavingCalls, KeptInv, TypeOK, Call, Token
<1>11. ~crossed' /\ failures' = 0 => ~strayed'
  BY <1>1 DEF TypeOK
<1>. QED
  BY <1>5, <1>6, <1>7, <1>8, <1>9, <1>10, <1>11

LEMMA IssueTokensInv ==
  ASSUME IInv, NEW c \in Calls, IssueTokens(c)
  PROVE  IInv'
<1> DEFINE j == [call[c] EXCEPT !.pc = "got", !.token.n = issued']
<1>1. call[c] \in Call /\ TypeOK /\ CallOK(call[c])
  BY DEF IInv, TypeOK
<1>2. j \in Call
  <2>1. [call[c].token EXCEPT !.n = issued'] \in Token
    BY <1>1 DEF CallOK, At, IssueTokens, TypeOK, Token
  <2>. QED
    BY <1>1, <2>1 DEF Call, PCs
<1>3. call' = [call EXCEPT ![c] = j]
  BY DEF IssueTokens, Start, Settle, Goto
<1>4. call' \in [Calls -> Call]
  BY <1>1, <1>2, <1>3, MoveCall
<1> USE SessionAssumption DEF IssueTokens, IInv, At, past, Settle, Goto, Settled, Start, NoCall
<1>5. TypeOK'
  BY <1>1, <1>4 DEF TypeOK, CallOK, Token
<1>6. \A d \in Calls : CallOK(call[d])'
  BY <1>1 DEF CallOK, TypeOK, Call, Token
<1>7. OneAtTheDoor'
  BY <1>1 DEF CallOK, OneAtTheDoor, LeavingCalls, TypeOK, Call, Token
<1>8. RefreshInv'
  BY <1>1 DEF CallOK, RefreshInv, OneRefreshAtATime, QueueHasARefresh, LateOnesAreStranded, Refreshing, Queue, TypeOK, Call
<1>9. ~crossed' => OwnerInv'
  BY <1>1 DEF CallOK, OneAtTheDoor, OwnerInv, Owned, OnTheirWay, LeavingCalls, TypeOK, Call, Token
<1>10. ~crossed' /\ failures' = 0 => KeptInv'
  BY <1>1 DEF CallOK, OneAtTheDoor, OwnerInv, Owned, OnTheirWay, LeavingCalls, KeptInv, TypeOK, Call, Token
<1>11. ~crossed' /\ failures' = 0 => ~strayed'
  BY <1>1 DEF TypeOK
<1>. QED
  BY <1>5, <1>6, <1>7, <1>8, <1>9, <1>10, <1>11

LEMMA SetTokensInv ==
  ASSUME IInv, NEW c \in Calls, SetTokens(c)
  PROVE  IInv'
<1> DEFINE j == [call[c] EXCEPT !.pc = "store"]
<1>1. call[c] \in Call /\ TypeOK /\ CallOK(call[c])
  BY DEF IInv, TypeOK
<1>2. j \in Call
  BY <1>1 DEF Call, CallOK, PCs, Token, At, SetTokens, IInv, TypeOK
<1>3. call' = [call EXCEPT ![c] = j]
  BY DEF SetTokens, Start, Settle, Goto
<1>4. call' \in [Calls -> Call]
  BY <1>1, <1>2, <1>3, MoveCall
<1> USE SessionAssumption DEF SetTokens, IInv, At, past, Settle, Goto, Settled, Start, NoCall
<1>5. TypeOK'
  BY <1>1, <1>4 DEF TypeOK, CallOK, Token
<1>6. \A d \in Calls : CallOK(call[d])'
  BY <1>1 DEF CallOK, TypeOK, Call, Token
<1>7. OneAtTheDoor'
  BY <1>1 DEF CallOK, OneAtTheDoor, LeavingCalls, TypeOK, Call, Token
<1>8. RefreshInv'
  BY <1>1 DEF CallOK, RefreshInv, OneRefreshAtATime, QueueHasARefresh, LateOnesAreStranded, Refreshing, Queue, TypeOK, Call
<1>9. ~crossed' => OwnerInv'
  BY <1>1 DEF CallOK, OneAtTheDoor, OwnerInv, Owned, OnTheirWay, LeavingCalls, TypeOK, Call, Token
<1>10. ~crossed' /\ failures' = 0 => KeptInv'
  BY <1>1 DEF CallOK, OneAtTheDoor, OwnerInv, Owned, OnTheirWay, LeavingCalls, KeptInv, TypeOK, Call, Token
<1>11. ~crossed' /\ failures' = 0 => ~strayed'
  BY <1>1 DEF TypeOK
<1>. QED
  BY <1>5, <1>6, <1>7, <1>8, <1>9, <1>10, <1>11

LEMMA LoginInv ==
  ASSUME IInv, NEW c \in Calls, NEW u \in Users, Login(c, u)
  PROVE  IInv'
<1> DEFINE j == [NoCall EXCEPT !.pc = "issue", !.kind = "login", !.token = [user |-> u, n |-> 0]]
<1>1. call[c] \in Call /\ TypeOK /\ CallOK(call[c])
  BY DEF IInv, TypeOK
<1>2. j \in Call
  BY NoCallType DEF NoCall, Call, PCs, Kinds, Token, TypeOK, Login
<1>3. call' = [call EXCEPT ![c] = j]
  BY DEF Login, Start, Settle, Goto
<1>4. call' \in [Calls -> Call]
  BY <1>1, <1>2, <1>3, MoveCall
<1> USE SessionAssumption DEF Login, IInv, At, past, Settle, Goto, Settled, Start, NoCall
<1>5. TypeOK'
  BY <1>1, <1>4 DEF TypeOK, CallOK, Token
<1>6. \A d \in Calls : CallOK(call[d])'
  BY <1>1 DEF CallOK, TypeOK, Call, Token
<1>7. OneAtTheDoor'
  BY <1>1 DEF CallOK, OneAtTheDoor, LeavingCalls, TypeOK, Call, Token
<1>8. RefreshInv'
  BY <1>1 DEF CallOK, RefreshInv, OneRefreshAtATime, QueueHasARefresh, LateOnesAreStranded, Refreshing, Queue, TypeOK, Call
<1>9. ~crossed' => OwnerInv'
  BY <1>1 DEF CallOK, OneAtTheDoor, OwnerInv, Owned, OnTheirWay, LeavingCalls, TypeOK, Call, Token
<1>10. ~crossed' /\ failures' = 0 => KeptInv'
  BY <1>1 DEF CallOK, OneAtTheDoor, OwnerInv, Owned, OnTheirWay, LeavingCalls, KeptInv, TypeOK, Call, Token
<1>11. ~crossed' /\ failures' = 0 => ~strayed'
  BY <1>1 DEF TypeOK
<1>. QED
  BY <1>5, <1>6, <1>7, <1>8, <1>9, <1>10, <1>11

LEMMA LogoutInv ==
  ASSUME IInv, NEW c \in Calls, Logout(c)
  PROVE  IInv'
<1> DEFINE j == [NoCall EXCEPT !.pc = "attach", !.kind = "logout", !.token = header]
<1>1. call[c] \in Call /\ TypeOK /\ CallOK(call[c])
  BY DEF IInv, TypeOK
<1>2. j \in Call
  BY <1>1, NoCallType DEF NoCall, Call, PCs, Kinds, TypeOK
<1>3. call' = [call EXCEPT ![c] = j]
  BY DEF Logout, Start, Settle, Goto
<1>4. call' \in [Calls -> Call]
  BY <1>1, <1>2, <1>3, MoveCall
<1> USE SessionAssumption DEF Logout, IInv, At, past, Settle, Goto, Settled, Start, NoCall
<1>5. TypeOK'
  BY <1>1, <1>4 DEF TypeOK, CallOK, Token
<1>6. \A d \in Calls : CallOK(call[d])'
  BY <1>1 DEF CallOK, TypeOK, Call, Token
<1>7. OneAtTheDoor'
  BY <1>1 DEF CallOK, OneAtTheDoor, LeavingCalls, TypeOK, Call, Token
<1>8. RefreshInv'
  BY <1>1 DEF CallOK, RefreshInv, OneRefreshAtATime, QueueHasARefresh, LateOnesAreStranded, Refreshing, Queue, TypeOK, Call
<1>9. ~crossed' => OwnerInv'
  BY <1>1 DEF CallOK, OneAtTheDoor, OwnerInv, Owned, OnTheirWay, LeavingCalls, TypeOK, Call, Token
<1>10. ~crossed' /\ failures' = 0 => KeptInv'
  BY <1>1 DEF CallOK, OneAtTheDoor, OwnerInv, Owned, OnTheirWay, LeavingCalls, KeptInv, TypeOK, Call, Token
<1>11. ~crossed' /\ failures' = 0 => ~strayed'
  BY <1>1 DEF TypeOK
<1>. QED
  BY <1>5, <1>6, <1>7, <1>8, <1>9, <1>10, <1>11

LEMMA WipeInv ==
  ASSUME IInv, NEW c \in Calls, Wipe(c)
  PROVE  IInv'
<1> DEFINE j == [call[c] EXCEPT !.pc = "leave"]
<1>1. call[c] \in Call /\ TypeOK /\ CallOK(call[c])
  BY DEF IInv, TypeOK
<1>2. j \in Call
  BY <1>1 DEF Call, CallOK, PCs, Token, At, Wipe, IInv, TypeOK
<1>3. call' = [call EXCEPT ![c] = j]
  BY DEF Wipe, Start, Settle, Goto
<1>4. call' \in [Calls -> Call]
  BY <1>1, <1>2, <1>3, MoveCall
<1> USE SessionAssumption DEF Wipe, IInv, At, past, Settle, Goto, Settled, Start, NoCall
<1>5. TypeOK'
  BY <1>1, <1>4 DEF TypeOK, CallOK, Token
<1>6. \A d \in Calls : CallOK(call[d])'
  BY <1>1 DEF CallOK, TypeOK, Call, Token
<1>7. OneAtTheDoor'
  BY <1>1 DEF CallOK, OneAtTheDoor, LeavingCalls, TypeOK, Call, Token
<1>8. RefreshInv'
  BY <1>1 DEF CallOK, RefreshInv, OneRefreshAtATime, QueueHasARefresh, LateOnesAreStranded, Refreshing, Queue, TypeOK, Call
<1>9. ~crossed' => OwnerInv'
  BY <1>1 DEF CallOK, OneAtTheDoor, OwnerInv, Owned, OnTheirWay, LeavingCalls, TypeOK, Call, Token
<1>10. ~crossed' /\ failures' = 0 => KeptInv'
  BY <1>1 DEF CallOK, OneAtTheDoor, OwnerInv, Owned, OnTheirWay, LeavingCalls, KeptInv, TypeOK, Call, Token
<1>11. ~crossed' /\ failures' = 0 => ~strayed'
  BY <1>1 DEF TypeOK
<1>. QED
  BY <1>5, <1>6, <1>7, <1>8, <1>9, <1>10, <1>11

LEMMA LeaveInv ==
  ASSUME IInv, NEW c \in Calls, Leave(c)
  PROVE  IInv'
<1> DEFINE j == NoCall
<1>1. call[c] \in Call /\ TypeOK /\ CallOK(call[c])
  BY DEF IInv, TypeOK
<1>2. j \in Call
  BY NoCallType
<1>3. call' = [call EXCEPT ![c] = j]
  BY DEF Leave, Start, Settle, Goto
<1>4. call' \in [Calls -> Call]
  BY <1>1, <1>2, <1>3, MoveCall
<1> USE SessionAssumption DEF Leave, IInv, At, past, Settle, Goto, Settled, Start, NoCall
<1>5. TypeOK'
  BY <1>1, <1>4 DEF TypeOK, CallOK, Token
<1>6. \A d \in Calls : CallOK(call[d])'
  BY <1>1 DEF CallOK, TypeOK, Call, Token
<1>7. OneAtTheDoor'
  BY <1>1 DEF CallOK, OneAtTheDoor, LeavingCalls, TypeOK, Call, Token
<1>8. RefreshInv'
  BY <1>1 DEF CallOK, RefreshInv, OneRefreshAtATime, QueueHasARefresh, LateOnesAreStranded, Refreshing, Queue, TypeOK, Call
<1>9. ~crossed' => OwnerInv'
  BY <1>1 DEF CallOK, OneAtTheDoor, OwnerInv, Owned, OnTheirWay, LeavingCalls, TypeOK, Call, Token
<1>10. ~crossed' /\ failures' = 0 => KeptInv'
  BY <1>1 DEF CallOK, OneAtTheDoor, OwnerInv, Owned, OnTheirWay, LeavingCalls, KeptInv, TypeOK, Call, Token
<1>11. ~crossed' /\ failures' = 0 => ~strayed'
  BY <1>1 DEF TypeOK
<1>. QED
  BY <1>5, <1>6, <1>7, <1>8, <1>9, <1>10, <1>11

\* A 401.
LEMMA UnauthorizedInv ==
  ASSUME IInv, NEW c \in Calls, Unauthorized(c)
  PROVE  IInv'
<1>1. call[c] \in Call /\ TypeOK /\ CallOK(call[c]) /\ call[c].kind \in {"request", "logout"}
  BY DEF IInv, TypeOK, CallOK, Unauthorized, At, Call, Kinds
<1>2. [call[c] EXCEPT !.pc = "token", !.retry = TRUE] \in Call /\ [call[c] EXCEPT !.pc = "queued"] \in Call
  BY <1>1 DEF Call, PCs
<1>3. \E j \in {Settled(call[c]), [call[c] EXCEPT !.pc = "token", !.retry = TRUE], [call[c] EXCEPT !.pc = "queued"]} :
        call' = [call EXCEPT ![c] = j]
  BY DEF Unauthorized, Settle, Goto
<1>4. call' \in [Calls -> Call]
  BY <1>1, <1>2, <1>3, SettledType, MoveCall
<1> USE SessionAssumption DEF Unauthorized, IInv, At, past, Settle, Goto, Settled, NoCall
<1>5. TypeOK'
  BY <1>1, <1>4 DEF TypeOK
<1>6. \A d \in Calls : CallOK(call[d])'
  BY <1>1 DEF CallOK, TypeOK, Call, Token
<1>7. OneAtTheDoor'
  BY <1>1 DEF CallOK, OneAtTheDoor, LeavingCalls, TypeOK, Call, Token
<1>8. RefreshInv'
  BY <1>1 DEF CallOK, RefreshInv, OneRefreshAtATime, QueueHasARefresh, LateOnesAreStranded, Refreshing, Queue, TypeOK, Call
<1>9. ~crossed' => OwnerInv'
  <2> SUFFICES ASSUME ~crossed' PROVE OwnerInv'
    OBVIOUS
  <2>1. OwnerInv /\ UNCHANGED <<tokens, user>>
    OBVIOUS
  <2>2. \A d \in Calls : d # c => call'[d] = call[d]
    BY <1>1, <1>3 DEF TypeOK
  <2>3. call'[c].kind \in {"request", "logout"} /\ call'[c].pc \in {"idle", "wipe", "token", "queued"}
    BY <1>1, <1>3 DEF TypeOK, Call
  <2>4. \A d \in OnTheirWay' : d \in OnTheirWay /\ call'[d] = call[d]
    BY <2>2, <2>3 DEF OnTheirWay
  <2>5. \A d \in Calls : call[d].kind = "login" => call'[d] = call[d]
    BY <1>1, <2>2
  <2>. QED
    BY <2>1, <2>2, <2>3, <2>4, <2>5 DEF OwnerInv, Owned
<1>10. ~crossed' /\ failures' = 0 => KeptInv'
  BY <1>1 DEF CallOK, OneAtTheDoor, OwnerInv, Owned, OnTheirWay, LeavingCalls, KeptInv, TypeOK, Call, Token
<1>11. ~crossed' /\ failures' = 0 => ~strayed'
  BY <1>1 DEF TypeOK
<1>. QED
  BY <1>5, <1>6, <1>7, <1>8, <1>9, <1>10, <1>11

\* A refresh that fails: without a failure of the world only one whose user has signed
\* out, or that of a call left over from a session that has ended.
LEMMA FailInv ==
  ASSUME IInv, NEW c \in Calls, Fail(c), call[c].kind # "login" \/ call[c].pc \notin {"issue", "store"},
         call[c].pc \in {"token", "refresh", "got", "store"},
         failures' \in Nat,
         failures' = 0 => failures = 0 /\ (tokens = None \/ (call[c].pc = "refresh" /\ hash[call[c].token.user] = None)),
         UNCHANGED <<hash, issued, expired, header, user, refreshing, made, expiries, crossed, strayed>>
  PROVE  IInv'
<1>1. call[c] \in Call /\ TypeOK /\ CallOK(call[c])
  BY DEF IInv, TypeOK
<1>2. CASE ~Refreshing(c)
  <2>1. call' = [call EXCEPT ![c] = NoCall] /\ UNCHANGED <<tokens, stranded>>
    BY <1>2 DEF Fail
  <2>2. call' \in [Calls -> Call]
    BY <1>1, <2>1, NoCallType, MoveCall
  <2>3. call[c].kind \in {"session", "login"}
    BY <1>1, <1>2 DEF Refreshing, Call, Kinds
  <2> USE SessionAssumption DEF IInv, At, past, NoCall
  <2>5. TypeOK'
    BY <1>1, <2>1, <2>2 DEF TypeOK
  <2>6. \A d \in Calls : CallOK(call[d])'
    BY <1>1, <2>1 DEF CallOK, TypeOK
  <2>7. OneAtTheDoor'
    BY <1>1, <2>1, <2>3 DEF OneAtTheDoor, LeavingCalls, TypeOK
  <2>8. RefreshInv'
    BY <1>1, <1>2, <2>1 DEF RefreshInv, OneRefreshAtATime, QueueHasARefresh, LateOnesAreStranded, Refreshing, Queue, TypeOK
  <2>9. ~crossed' => OwnerInv'
    BY <1>1, <2>1, <2>3 DEF OwnerInv, Owned, OnTheirWay, TypeOK
  <2>10. ~crossed' /\ failures' = 0 => KeptInv'
    BY <1>1, <2>1, <2>3 DEF CallOK, OneAtTheDoor, OwnerInv, Owned, OnTheirWay, LeavingCalls, KeptInv, TypeOK
  <2>11. ~crossed' /\ failures' = 0 => ~strayed'
    BY <1>1 DEF TypeOK
  <2>. QED
    BY <2>5, <2>6, <2>7, <2>8, <2>9, <2>10, <2>11
<1>3. CASE Refreshing(c)
  <2>1. /\ call' = [Drained(None) EXCEPT ![c].pc = "clear"]
        /\ tokens' = None /\ stranded' = stranded \ Queue
    BY <1>3 DEF Fail
  <2>2. c \notin Queue /\ Drained(None)[c] = call[c]
    BY <1>1, DrainedCalls DEF Queue, At
  <2>3. [call[c] EXCEPT !.pc = "clear"] \in Call
    BY <1>1 DEF Call, PCs
  <2>4. call' \in [Calls -> Call] /\ call'[c] = [call[c] EXCEPT !.pc = "clear"]
    BY <1>1, <2>1, <2>2, <2>3, DrainedType
  <2>5. \A d \in Calls : d # c => call'[d] = Drained(None)[d]
    BY <1>1, <2>1, DrainedType
  <2>6. \A d \in Calls : d # c /\ d \notin Queue => call'[d] = call[d]
    BY <1>1, <2>5, DrainedCalls
  <2>7. \A d \in Queue : /\ call'[d].pc \in {"idle", "wipe"}
                         /\ call'[d].kind \in {call[d].kind, "request"}
                         /\ call'[d].pc = "wipe" => call[d].kind = "logout"
                         /\ (call'[d].kind = "logout") <=> (call[d].kind = "logout")
                         /\ call'[d].pc = "idle" => call'[d].kind = "request"
    <3> SUFFICES ASSUME NEW d \in Queue
                 PROVE  /\ call'[d].pc \in {"idle", "wipe"}
                        /\ call'[d].kind \in {call[d].kind, "request"}
                        /\ call'[d].pc = "wipe" => call[d].kind = "logout"
                        /\ (call'[d].kind = "logout") <=> (call[d].kind = "logout")
                        /\ call'[d].pc = "idle" => call'[d].kind = "request"
      OBVIOUS
    <3>1. d \in Calls /\ d # c /\ call[d] \in Call
      BY <1>1, <2>2 DEF Queue, TypeOK
    <3>2. call'[d] = Settled(call[d])
      BY <2>5, <3>1 DEF Drained
    <3>. QED
      BY <3>1, <3>2 DEF Settled, NoCall, Call
  <2>8. \A d \in Queue : call[d].kind \in {"request", "logout"}
    BY DEF Queue, At, IInv, CallOK, TypeOK, Call, Kinds
  <2>9. call[c].kind \in {"request", "logout"}
    BY <1>3 DEF Refreshing
  <2>10. Queue' = {}
    BY <2>4, <2>6, <2>7, <1>1 DEF Queue, At, Call
  <2>11. call'[c].pc = "clear" /\ call'[c].kind = call[c].kind
    BY <1>1, <2>4 DEF Call
  <2> USE SessionAssumption DEF IInv, At, past
  <2>12. TypeOK'
    BY <1>1, <2>1, <2>4 DEF TypeOK
  <2>13. \A d \in Calls : CallOK(call[d])'
    BY <1>1, <2>6, <2>7, <2>8, <2>9, <2>11 DEF CallOK
  <2>14. OneAtTheDoor'
    BY <1>1, <2>6, <2>7, <2>8, <2>9, <2>11 DEF OneAtTheDoor, LeavingCalls
  <2>15. RefreshInv'
    <3>1. \A d \in Calls : Refreshing(d)' <=> d = c
      BY <1>3, <2>6, <2>7, <2>9, <2>11 DEF RefreshInv, OneRefreshAtATime, Refreshing
    <3>2. refreshing
      BY <1>3 DEF RefreshInv, OneRefreshAtATime
    <3>. QED
      BY <3>1, <3>2, <2>10 DEF RefreshInv, OneRefreshAtATime, QueueHasARefresh, LateOnesAreStranded
  <2>16. ~crossed' => OwnerInv'
    <3> SUFFICES ASSUME ~crossed' PROVE OwnerInv'
      OBVIOUS
    <3>1. OwnerInv
      OBVIOUS
    <3>2. \A d \in Calls : d # c /\ call'[d].pc \in {"refresh", "issue", "got", "store", "leave"} => call'[d] = call[d]
      BY <2>6, <2>7
    <3>3. \A d \in Calls : call[d].kind \in {"login", "session"} => call'[d] = call[d]
      BY <2>6, <2>8, <2>9
    <3>4. \A d \in Calls : call'[d].kind \in {"login", "session"} => call'[d] = call[d]
      BY <2>6, <2>7, <2>8, <2>9, <2>11
    <3>5. \A d \in OnTheirWay' : d \in OnTheirWay /\ call'[d] = call[d]
      BY <2>11, <3>2 DEF OnTheirWay
    <3>6. ASSUME NEW token, Owned(token) PROVE Owned(token)'
      BY <3>3, <3>6 DEF Owned
    <3>7. \A d \in OnTheirWay' : Owned(call[d].token)'
      BY <3>1, <3>3, <3>5 DEF Owned, OwnerInv
    <3>. QED
      BY <2>1, <2>11, <3>1, <3>2, <3>4, <3>5, <3>7 DEF OwnerInv, OnTheirWay
  <2>17. ~crossed' /\ failures' = 0 => KeptInv'
    <3> SUFFICES ASSUME ~crossed', failures' = 0 PROVE KeptInv'
      OBVIOUS
    <3>1. OwnerInv /\ KeptInv
      OBVIOUS
    <3>2. LeavingCalls' = LeavingCalls
      BY <2>6, <2>7, <2>9, <2>11 DEF LeavingCalls
    <3>3. \A d \in Calls : call[d].kind = "login" <=> call'[d].kind = "login"
      BY <2>6, <2>7, <2>8, <2>9, <2>11
    <3>4. \A d \in Calls : call[d].kind = "login" => call'[d] = call[d]
      BY <2>6, <2>8, <2>9
    <3>5. call[c].pc = "refresh" => c \in OnTheirWay
      BY <2>9 DEF OnTheirWay
    <3>6. tokens # None => call[c].token \in Token /\ Owned(call[c].token) /\ hash[call[c].token.user] = None
      BY <1>1, <3>1, <3>5 DEF CallOK, OwnerInv
    <3>7. ~(user # None /\ LeavingCalls = {})
      BY <3>1, <3>6 DEF OwnerInv, Owned, KeptInv
    <3>8. ASSUME NEW d \in Calls, call[d].kind = "login", call[d].pc = "store" PROVE FALSE
      <4>1. tokens # None /\ user = None
        BY <3>1, <3>8 DEF OwnerInv, KeptInv
      <4>2. call[c].token.user # None
        BY <3>6, <4>1 DEF Token
      <4>. QED
        BY <3>1, <3>6, <4>1, <4>2 DEF Owned, KeptInv
    <3>. QED
      BY <3>1, <3>2, <3>3, <3>4, <3>7, <3>8 DEF KeptInv
  <2>. QED
    BY <2>12, <2>13, <2>14, <2>15, <2>16, <2>17
<1>. QED
  BY <1>2, <1>3

LEMMA ReadRefreshTokenInv ==
  ASSUME IInv, NEW c \in Calls, ReadRefreshToken(c)
  PROVE  IInv'
<1>0. TypeOK /\ call[c] \in Call /\ call[c].pc = "token"
  BY DEF IInv, TypeOK, ReadRefreshToken, At
<1>1. CASE tokens = None
  BY <1>0, <1>1, FailInv DEF ReadRefreshToken, TypeOK
<1>2. CASE tokens # None
  <2> DEFINE j == [call[c] EXCEPT !.pc = "refresh", !.token = tokens]
  <2>1. call[c] \in Call /\ TypeOK /\ CallOK(call[c]) /\ call[c].kind \in {"request", "logout"}
    BY <1>0 DEF IInv, TypeOK, CallOK, Call, Kinds
  <2>2. j \in Call
    BY <2>1 DEF Call, PCs, TypeOK
  <2>3. call' = [call EXCEPT ![c] = j] /\ UNCHANGED <<tokens, stranded>>
    BY <1>2 DEF ReadRefreshToken
  <2>4. call' \in [Calls -> Call]
    BY <2>1, <2>2, <2>3, MoveCall
  <2> USE SessionAssumption DEF ReadRefreshToken, IInv, At, past
  <2>5. TypeOK'
    BY <2>1, <2>3, <2>4 DEF TypeOK
  <2>6. \A d \in Calls : CallOK(call[d])'
    BY <1>2, <2>1, <2>3 DEF CallOK, TypeOK, Call
  <2>7. OneAtTheDoor'
    BY <2>1, <2>3 DEF OneAtTheDoor, LeavingCalls, TypeOK, Call
  <2>8. RefreshInv'
    BY <2>1, <2>3 DEF RefreshInv, OneRefreshAtATime, QueueHasARefresh, LateOnesAreStranded, Refreshing, Queue, TypeOK, Call
  <2>9. ~crossed' => OwnerInv'
    BY <1>2, <2>1, <2>3 DEF OwnerInv, Owned, OnTheirWay, TypeOK, Call
  <2>10. ~crossed' /\ failures' = 0 => KeptInv'
    BY <2>1, <2>3 DEF LeavingCalls, KeptInv, TypeOK, Call
  <2>11. ~crossed' /\ failures' = 0 => ~strayed'
    BY <1>1 DEF TypeOK
  <2>. QED
    BY <2>5, <2>6, <2>7, <2>8, <2>9, <2>10, <2>11
<1>. QED
  BY <1>1, <1>2

LEMMA ValidateInv ==
  ASSUME IInv, NEW c \in Calls, Validate(c)
  PROVE  IInv'
<1>0. TypeOK /\ call[c] \in Call /\ call[c].pc = "refresh" /\ CallOK(call[c])
  BY DEF IInv, TypeOK, Validate, At
<1>1. CASE ~Matches(call[c].token)
  BY <1>0, <1>1, FailInv DEF Validate, TypeOK, Matches
<1>2. CASE Matches(call[c].token)
  <2> DEFINE j == [call[c] EXCEPT !.pc = "issue"]
  <2>2. j \in Call
    BY <1>0 DEF Call, PCs
  <2>3. call' = [call EXCEPT ![c] = j] /\ UNCHANGED <<tokens, stranded>>
    BY <1>2 DEF Validate, Goto
  <2>4. call' \in [Calls -> Call]
    BY <1>0, <2>2, <2>3, MoveCall
  <2> USE SessionAssumption DEF Validate, IInv, At, past
  <2>5. TypeOK'
    BY <1>0, <2>3, <2>4 DEF TypeOK
  <2>6. \A d \in Calls : CallOK(call[d])'
    BY <1>0, <2>3 DEF CallOK, TypeOK, Call
  <2>7. OneAtTheDoor'
    BY <1>0, <2>3 DEF OneAtTheDoor, LeavingCalls, TypeOK, Call
  <2>8. RefreshInv'
    BY <1>0, <2>3 DEF RefreshInv, OneRefreshAtATime, QueueHasARefresh, LateOnesAreStranded, Refreshing, Queue, TypeOK, Call
  <2>9. ~crossed' => OwnerInv'
    BY <1>0, <2>3 DEF OwnerInv, Owned, OnTheirWay, TypeOK, Call
  <2>10. ~crossed' /\ failures' = 0 => KeptInv'
    BY <1>0, <2>3 DEF LeavingCalls, KeptInv, TypeOK, Call, CallOK
  <2>11. ~crossed' /\ failures' = 0 => ~strayed'
    BY <1>1 DEF TypeOK
  <2>. QED
    BY <2>5, <2>6, <2>7, <2>8, <2>9, <2>10, <2>11
<1>. QED
  BY <1>1, <1>2

LEMMA RefreshFailsInv ==
  ASSUME IInv, NEW c \in Calls, RefreshFails(c)
  PROVE  IInv'
<1>1. call[c].pc \in {"refresh", "got", "store"} /\ (call[c].pc = "store" => call[c].kind # "login")
  BY DEF RefreshFails, At, Refreshing
<1>2. failures' \in Nat /\ failures' # 0
  BY DEF RefreshFails, IInv, TypeOK
<1>. QED
  BY <1>1, <1>2, FailInv DEF RefreshFails

\* A refresh, or a login, that succeeds.
LEMMA StoredInv ==
  ASSUME IInv, NEW c \in Calls, Stored(c)
  PROVE  IInv'
<1>1. call[c] \in Call /\ TypeOK /\ CallOK(call[c]) /\ call[c].pc = "store" /\ call[c].token \in Token
  BY DEF IInv, TypeOK, CallOK, Stored, At
<1>2. CASE ~Refreshing(c)
  <2>1. call' = [call EXCEPT ![c] = NoCall] /\ user' = call[c].token.user /\ UNCHANGED <<refreshing, stranded>>
    BY <1>2 DEF Stored
  <2>2. call' \in [Calls -> Call]
    BY <1>1, <2>1, NoCallType, MoveCall
  <2>3. call[c].kind \in {"session", "login"}
    BY <1>1, <1>2 DEF Refreshing, Call, Kinds
  <2>4. user' # None /\ user' \in Users
    BY <1>1, <2>1, SessionAssumption DEF Token
  <2> USE SessionAssumption DEF IInv, At, past, NoCall, Stored
  <2>5. TypeOK'
    BY <1>1, <2>1, <2>2, <2>4 DEF TypeOK
  <2>6. \A d \in Calls : CallOK(call[d])'
    BY <1>1, <2>1 DEF CallOK, TypeOK
  <2>7. OneAtTheDoor'
    BY <1>1, <2>1, <2>3, <2>4 DEF OneAtTheDoor, LeavingCalls, TypeOK
  <2>8. RefreshInv'
    BY <1>1, <1>2, <2>1 DEF RefreshInv, OneRefreshAtATime, QueueHasARefresh, LateOnesAreStranded, Refreshing, Queue, TypeOK
  <2>9. ~crossed' => OwnerInv'
    <3> SUFFICES ASSUME ~crossed' PROVE OwnerInv'
      OBVIOUS
    <3>1. OwnerInv /\ OneAtTheDoor /\ tokens' = tokens
      OBVIOUS
    <3>2. \A d \in Calls : d # c => call'[d] = call[d]
      BY <1>1, <2>1 DEF TypeOK
    <3>3. call'[c].pc = "idle" /\ call'[c].kind = "request"
      BY <1>1, <2>1 DEF TypeOK
    <3>4. \A d \in OnTheirWay' : d \in OnTheirWay /\ call'[d] = call[d]
      BY <3>2, <3>3 DEF OnTheirWay
    <3>5. \A d \in Calls : call'[d].kind # "login"
      BY <2>3, <3>1, <3>2, <3>3 DEF OwnerInv, OneAtTheDoor
    <3>6. call[c].kind = "session" => user' = user
      BY <1>1, <2>1, <3>1 DEF OwnerInv, Owned, OnTheirWay
    <3>7. ASSUME NEW token \in Token, Owned(token) PROVE token.user = user'
      <4>1. token.user # None
        BY DEF Token
      <4>2. CASE call[c].kind = "session"
        BY <3>1, <3>6, <3>7, <4>2 DEF Owned, OwnerInv
      <4>3. CASE call[c].kind = "login"
        BY <2>1, <3>1, <3>7, <4>1, <4>3 DEF Owned, OneAtTheDoor, OwnerInv
      <4>. QED
        BY <2>3, <4>2, <4>3
    <3>10. (tokens # None => tokens \in Token) /\ \A d \in OnTheirWay : call[d].token \in Token
      BY DEF TypeOK, CallOK, OnTheirWay
    <3>9. \A d \in Calls : ~(call'[d].pc = "leave" /\ ~(tokens' = None /\ OnTheirWay' = {}))
      BY <3>1, <3>2, <3>3, <3>4 DEF OwnerInv
    <3>. QED
      BY <2>4, <3>1, <3>4, <3>5, <3>7, <3>9, <3>10 DEF OwnerInv, Owned
  <2>10. ~crossed' /\ failures' = 0 => KeptInv'
    BY <1>1, <2>1, <2>3, <2>4 DEF CallOK, OneAtTheDoor, OwnerInv, Owned, OnTheirWay, LeavingCalls, KeptInv, TypeOK
  <2>11. ~crossed' /\ failures' = 0 => ~strayed'
    BY <1>1 DEF TypeOK
  <2>. QED
    BY <2>5, <2>6, <2>7, <2>8, <2>9, <2>10, <2>11
<1>3. CASE Refreshing(c)
  <2>1. /\ call' = [Drained(call[c].token) EXCEPT ![c].pc = "attach"]
        /\ refreshing' = FALSE /\ stranded' = stranded \ Queue /\ user' = user /\ tokens' = tokens
    BY <1>3 DEF Stored
  <2>2. c \notin Queue /\ Drained(call[c].token)[c] = call[c]
    BY <1>1, DrainedCalls DEF Queue, At
  <2>3. [call[c] EXCEPT !.pc = "attach"] \in Call
    BY <1>1 DEF Call, PCs
  <2>4. call' \in [Calls -> Call] /\ call'[c] = [call[c] EXCEPT !.pc = "attach"]
    BY <1>1, <2>1, <2>2, <2>3, DrainedType
  <2>5. \A d \in Calls : d # c => call'[d] = Drained(call[c].token)[d]
    BY <1>1, <2>1, DrainedType
  <2>6. \A d \in Calls : d # c /\ d \notin Queue => call'[d] = call[d]
    BY <1>1, <2>5, DrainedCalls
  <2>7. \A d \in Queue : call'[d].pc = "attach" /\ call'[d].kind = call[d].kind
    <3> SUFFICES ASSUME NEW d \in Queue PROVE call'[d].pc = "attach" /\ call'[d].kind = call[d].kind
      OBVIOUS
    <3>1. d \in Calls /\ d # c /\ call[d] \in Call
      BY <1>1, <2>2 DEF Queue, TypeOK
    <3>2. call'[d] = [call[d] EXCEPT !.pc = "attach", !.token = call[c].token]
      BY <1>1, <2>5, <3>1, SessionAssumption DEF Drained, Token
    <3>. QED
      BY <3>1, <3>2 DEF Call
  <2>8. \A d \in Queue \cup {c} : call[d].kind \in {"request", "logout"}
    BY <1>3 DEF Refreshing, Queue, At, IInv, CallOK, TypeOK, Call, Kinds
  <2>9. call'[c].pc = "attach" /\ call'[c].kind = call[c].kind
    BY <1>1, <2>4 DEF Call
  <2>10. \A d \in Calls : call'[d].kind = call[d].kind /\ (call'[d] = call[d] \/ call'[d].pc = "attach")
    BY <2>6, <2>7, <2>9
  <2>11. \A d \in Calls : call[d].kind \in {"login", "session"} => call'[d] = call[d]
    BY <2>6, <2>8
  <2>20. LeavingCalls' = LeavingCalls
    BY <2>10 DEF LeavingCalls
  <2>21. OneAtTheDoor /\ (~crossed /\ failures = 0 => KeptInv) /\ UNCHANGED <<hash, crossed, failures>>
    BY DEF IInv, Stored
  <2>14. OneAtTheDoor'
    <3>1. \A d \in Calls : call'[d].kind = call[d].kind
      BY <2>10
    <3>2. \A d, e \in Calls : call'[d].kind = "login" /\ call'[e].kind = "login" => d = e
      BY <2>21, <3>1 DEF OneAtTheDoor
    <3>3. (\A d, e \in LeavingCalls' : d = e) /\ (LeavingCalls' # {} => user' # None)
      BY <2>1, <2>20, <2>21 DEF OneAtTheDoor
    <3>. QED
      BY <3>2, <3>3 DEF OneAtTheDoor
  <2>17. ~crossed' /\ failures' = 0 => KeptInv'
    BY <2>1, <2>10, <2>11, <2>20, <2>21 DEF KeptInv, At
  <2> USE SessionAssumption DEF IInv, At, past, Stored
  <2>12. TypeOK'
    BY <1>1, <2>1, <2>4 DEF TypeOK
  <2>13. \A d \in Calls : CallOK(call[d])'
    BY <2>8, <2>10, <2>11 DEF CallOK
  <2>15. RefreshInv'
    <3>1. \A d \in Calls : ~Refreshing(d)'
      BY <1>3, <2>6, <2>7, <2>9 DEF RefreshInv, OneRefreshAtATime, Refreshing
    <3>2. Queue' = {}
      BY <2>6, <2>7, <2>9 DEF Queue
    <3>3. ~(\E d \in Calls : call'[d].pc = "clear")
      BY <1>1, <1>3, <2>10 DEF RefreshInv, OneRefreshAtATime, Refreshing, CallOK, TypeOK, Call, Kinds
    <3>. QED
      BY <2>1, <3>1, <3>2, <3>3 DEF RefreshInv, OneRefreshAtATime, QueueHasARefresh, LateOnesAreStranded
  <2>16. ~crossed' => OwnerInv'
    <3> SUFFICES ASSUME ~crossed' PROVE OwnerInv'
      OBVIOUS
    <3>1. OwnerInv
      OBVIOUS
    <3>2. \A d \in OnTheirWay' : d \in OnTheirWay /\ call'[d] = call[d]
      BY <2>10 DEF OnTheirWay
    <3>5. ASSUME NEW token, Owned(token)
          PROVE  \/ token.user = user'
                 \/ user' = None /\ \E d \in Calls : call'[d].kind = "login" /\ call'[d].pc = "store" /\ call'[d].token.user = token.user
      BY <2>1, <2>11, <3>5 DEF Owned
    <3>3. \A d \in OnTheirWay' : Owned(call[d].token)'
      BY <3>1, <3>2, <3>5 DEF Owned, OwnerInv
    <3>4. tokens' # None => Owned(tokens)'
      <4> SUFFICES ASSUME tokens # None PROVE Owned(tokens)'
        BY <2>1
      <4>1. Owned(tokens)
        BY <3>1 DEF OwnerInv
      <4>2. \/ tokens.user = user'
            \/ user' = None /\ \E d \in Calls : call'[d].kind = "login" /\ call'[d].pc = "store" /\ call'[d].token.user = tokens.user
        BY <3>5, <4>1
      <4>. QED
        BY <2>1, <4>2 DEF Owned
    <3>. QED
      BY <2>1, <2>10, <3>1, <3>2, <3>3, <3>4 DEF OwnerInv
  <2>. QED
    BY <2>12, <2>13, <2>14, <2>15, <2>16, <2>17
<1>. QED
  BY <1>2, <1>3

LEMMA RestartInv ==
  ASSUME IInv, Restart
  PROVE  IInv'
<1>0. call' \in [Calls -> Call]
  BY NoCallType DEF Restart
<1>7. TypeOK
  BY DEF IInv
<1>8. user' \in Users \cup {None} /\ made' \in Nat
  BY <1>7 DEF Restart, TypeOK, Token
<1>9. UNCHANGED <<hash, issued, expired, tokens, expiries, failures, strayed>> /\ header' = None /\ refreshing' = FALSE /\ stranded' = {} /\ crossed' \in BOOLEAN
  BY <1>7 DEF Restart, TypeOK
<1>1. TypeOK'
  BY <1>0, <1>7, <1>8, <1>9 DEF TypeOK
<1> USE SessionAssumption DEF IInv, Restart, At, NoCall
<1>2. \A d \in Calls : CallOK(call[d])'
  BY DEF CallOK
<1>3. OneAtTheDoor'
  BY DEF OneAtTheDoor, LeavingCalls
<1>4. RefreshInv'
  BY DEF RefreshInv, OneRefreshAtATime, QueueHasARefresh, LateOnesAreStranded, Refreshing, Queue
<1>5. ~crossed' => OwnerInv'
  BY DEF OwnerInv, Owned, OnTheirWay
<1>6. ~crossed' /\ failures' = 0 => KeptInv' /\ ~strayed'
  BY DEF OwnerInv, Owned, KeptInv, LeavingCalls, TypeOK, Token
<1>. QED
  BY <1>1, <1>2, <1>3, <1>4, <1>5, <1>6

\* What an expiry, a stutter and the initial state leave to show.
LEMMA QuietInv ==
  ASSUME IInv, UNCHANGED <<hash, issued, app, failures, past>>,
         expired' \in 0 .. issued, made' \in Nat, expiries' \in Nat
  PROVE  IInv'
<1> USE DEF app, past
<1>1. TypeOK' /\ (\A d \in Calls : CallOK(call[d])')
  BY DEF IInv, TypeOK, CallOK
<1>2. OneAtTheDoor' /\ RefreshInv'
  BY DEF IInv, OneAtTheDoor, LeavingCalls, RefreshInv, OneRefreshAtATime, QueueHasARefresh,
         LateOnesAreStranded, Refreshing, Queue, At
<1>3. ~crossed' => OwnerInv'
  BY DEF IInv, OwnerInv, Owned, OnTheirWay, At
<1>4. ~crossed' /\ failures' = 0 => KeptInv' /\ ~strayed'
  BY DEF IInv, KeptInv, LeavingCalls, At
<1>. QED
  BY <1>1, <1>2, <1>3, <1>4 DEF IInv

LEMMA InitInv == Init => IInv
<1> SUFFICES ASSUME Init PROVE IInv
  OBVIOUS
<1>0. call \in [Calls -> Call]
  BY NoCallType DEF Init
<1> USE SessionAssumption DEF Init, At, NoCall
<1>1. \A d \in Calls : CallOK(call[d])
  BY DEF CallOK
<1>4. TypeOK
  <2>1. hash \in [Users -> Nat \cup {None}] /\ issued \in Nat /\ expired \in 0 .. issued
    OBVIOUS
  <2>2. tokens \in Token \cup {None} /\ (tokens # None => tokens.n \in 1 .. issued) /\ user \in Users \cup {None}
    OBVIOUS
  <2>. QED
    BY <1>0, <2>1, <2>2 DEF TypeOK
<1>2. OneAtTheDoor /\ RefreshInv
  BY DEF OneAtTheDoor, LeavingCalls, RefreshInv, OneRefreshAtATime, QueueHasARefresh,
         LateOnesAreStranded, Refreshing, Queue
<1>3. OwnerInv /\ KeptInv
  BY DEF OwnerInv, Owned, OnTheirWay, KeptInv
<1>. QED
  BY <1>1, <1>2, <1>3, <1>4 DEF IInv

LEMMA NextInv ==
  ASSUME IInv, [Next]_vars
  PROVE  IInv'
<1>1. ASSUME NEW c \in Calls, Step(c) PROVE IInv'
  BY <1>1, AttachInv, AnswerInv, UnauthorizedInv, ReadRefreshTokenInv, ValidateInv, IssueTokensInv,
     SetTokensInv, StoredInv, ClearedInv, WipeInv, LeaveInv DEF Step
<1>2. ASSUME NEW c \in Calls, NetworkError(c) \/ RefreshFails(c) PROVE IInv'
  BY <1>2, NetworkErrorInv, RefreshFailsInv
<1>3. ASSUME NEW c \in Calls, Request(c) \/ RefreshSession(c) \/ Logout(c) \/ \E u \in Users : Login(c, u)
      PROVE  IInv'
  BY <1>3, RequestInv, RefreshSessionInv, LogoutInv, LoginInv
<1>4. CASE Restart
  BY <1>4, RestartInv
<1>5. CASE Expire
  BY <1>5, QuietInv DEF Expire, IInv, TypeOK
<1>6. CASE UNCHANGED vars
  BY <1>6, QuietInv DEF vars, app, IInv, TypeOK
<1>. QED
  BY <1>1, <1>2, <1>3, <1>4, <1>5, <1>6 DEF Next
-----------------------------------------------------------------------------
(***************************************************************************)
(* The theorems.                                                           *)
(***************************************************************************)
\* The inductive invariant of the session holds in every reachable state, for any
\* users, calls at once, expiries and failures.
THEOREM SessionInvariance == Spec => []IInv
<1>1. Init => IInv
  BY InitInv
<1>2. IInv /\ [Next]_vars => IInv'
  BY NextInv
<1>. QED
  BY <1>1, <1>2, PTL DEF Spec

\* Tokens, the user of the app and the calls of its client keep their types.
THEOREM SessionTypes == Spec => []TypeOK
<1>1. IInv => TypeOK
  BY DEF IInv
<1>. QED
  BY <1>1, SessionInvariance, PTL

\* The interceptor: however many requests get a 401 at once, one refresh is on its way
\* and isRefreshing says so.
THEOREM OneRefresh == Spec => []OneRefreshAtATime
<1>1. IInv => OneRefreshAtATime
  BY DEF IInv, RefreshInv
<1>. QED
  BY <1>1, SessionInvariance, PTL

\* pendingQueue: a request that waits either has a refresh to wait for, or came while
\* the tokens were being cleared.
THEOREM QueueIsServed == Spec => []QueueHasARefresh
<1>1. IInv => QueueHasARefresh
  BY DEF IInv, RefreshInv
<1>. QED
  BY <1>1, SessionInvariance, PTL

\* tokenStorage holds tokens of the user the app shows, unless a refresh of one session
\* ended in another.
THEOREM OwnTokens == Spec => []TokensOfTheUser
<1>1. IInv => TokensOfTheUser
  BY DEF IInv, OwnerInv, Owned, TokensOfTheUser
<1>. QED
  BY <1>1, SessionInvariance, PTL

\* JwtRefreshStrategy: refreshes that overlap do not end the session.
THEOREM SessionSurvives == Spec => []SessionSurvivesRefreshes
<1>1. IInv => SessionSurvivesRefreshes
  BY DEF IInv, KeptInv, SessionSurvivesRefreshes
<1>. QED
  BY <1>1, SessionInvariance, PTL
=============================================================================
