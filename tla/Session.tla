------------------------------ MODULE Session ------------------------------
(***************************************************************************)
(* The session of the mobile app: the tokens in the Keychain, the user in  *)
(* stores/authStore.ts, the interceptors of api/client.ts that attach the  *)
(* access token to a request and renew it on a 401, and on the server the  *)
(* hash of the refresh token that auth.service.ts stores with the user.    *)
(* A call is a sequence of steps between awaits; calls interleave.         *)
(***************************************************************************)
EXTENDS Integers, FiniteSets

CONSTANTS
  Users,
  None,
  Calls,         \* places for calls in progress
  MaxCalls,      \* bound: calls made
  MaxExpiries,   \* bound: access tokens that expire one after the other
  MaxFailures    \* bound: requests, and writes of the Keychain, that fail

ASSUME SessionAssumption ==
  /\ None \notin Users /\ None \notin Nat /\ None \notin [user : Users, n : Nat]
  /\ MaxCalls \in Nat /\ MaxExpiries \in Nat /\ MaxFailures \in Nat

VARIABLES
  hash,          \* users.refresh_token: the number of the token, or null
  issued,        \* tokens issued so far; the n-th pair of tokens is number n
  expired,       \* access tokens up to this number have expired
  tokens,        \* tokenStorage
  header,        \* apiClient.defaults.headers.common.Authorization
  user,          \* the user in authStore
  refreshing,    \* isRefreshing
  call,          \* calls in progress
  made,          \* calls made
  expiries,
  failures,
  crossed,       \* history: a refresh was on its way while a session ended
  stranded,      \* history: calls queued when the queue had been drained
  strayed        \* history: a request went out with a token of somebody else

app   == <<tokens, header, user, refreshing, call>>
past  == <<crossed, stranded, strayed>>
vars  == <<hash, issued, expired, app, made, expiries, failures, past>>
-----------------------------------------------------------------------------
Token == [user : Users, n : Nat]
Kinds == {"request", "logout", "login", "session"}
PCs   == {"idle", "attach", "sent", "queued", "token", "refresh", "issue",
          "got", "store", "clear", "wipe", "leave"}
Call  == [pc : PCs, kind : Kinds, token : Token \cup {None}, retry : BOOLEAN]
NoCall == [pc |-> "idle", kind |-> "request", token |-> None, retry |-> FALSE]

LeavingCalls == {c \in Calls : call[c].kind = "logout"}

OnTheirWay == {c \in Calls : call[c].kind # "login" /\ call[c].pc \in {"refresh", "issue", "got", "store"}}

At(c, pc)   == call[c].pc = pc
Goto(c, pc) == call' = [call EXCEPT ![c].pc = pc]

\* What follows the answer to a request, whatever it is: a logout goes on.
Settled(j) == IF j.kind = "logout" THEN [j EXCEPT !.pc = "wipe"] ELSE NoCall
Settle(c)  == call' = [call EXCEPT ![c] = Settled(@)]

Start(c, j) ==
  /\ At(c, "idle") /\ made < MaxCalls
  /\ made' = made + 1
  /\ call' = [call EXCEPT ![c] = j]
-----------------------------------------------------------------------------
(***************************************************************************)
(* Requests: the request interceptor, and the 401 in the response          *)
(* interceptor.                                                            *)
(***************************************************************************)
\* A screen that a signed-in user sees makes a request; axios merges the default
\* headers into it.
Request(c) ==
  /\ user # None
  /\ Start(c, [NoCall EXCEPT !.pc = "attach", !.token = header])
  /\ UNCHANGED <<hash, issued, expired, tokens, header, user, refreshing, expiries, failures, past>>

\* The token of the storage, or the one the request has.
Carried(c) == IF tokens # None THEN tokens ELSE call[c].token

Attach(c) ==
  /\ At(c, "attach")
  /\ call' = [call EXCEPT ![c].pc = "sent", ![c].token = Carried(c)]
  /\ strayed' = (strayed \/ (LeavingCalls = {} /\ user # None /\ Carried(c) # None /\ Carried(c).user # user))
  /\ UNCHANGED <<hash, issued, expired, tokens, header, user, refreshing, made, expiries, failures, crossed, stranded>>

\* JwtStrategy: the token has not expired.  That the user has signed out is not asked.
Accepted(token) == token # None /\ token.n > expired

\* The answer; /auth/logout is the request that has an effect here.
Answer(c) ==
  /\ At(c, "sent") /\ Accepted(call[c].token)
  /\ hash' = IF call[c].kind = "logout" THEN [hash EXCEPT ![call[c].token.user] = None] ELSE hash
  /\ Settle(c)
  /\ UNCHANGED <<issued, expired, tokens, header, user, refreshing, made, expiries, failures, past>>

\* Mutant of Unauthorized: isRefreshing is set when the refresh token has been read.
UnauthorizedLate(c) ==
  LET j == call[c] IN
  /\ At(c, "sent") /\ ~Accepted(j.token)
  /\ IF j.retry THEN Settle(c) /\ UNCHANGED stranded
     ELSE IF refreshing THEN /\ Goto(c, "queued")
                             /\ stranded' = IF \E d \in Calls : At(d, "clear") THEN stranded \cup {c} ELSE stranded
     ELSE call' = [call EXCEPT ![c].pc = "token", ![c].retry = TRUE] /\ UNCHANGED stranded
  /\ UNCHANGED <<hash, issued, expired, tokens, header, user, refreshing, made, expiries, failures, crossed, strayed>>

\* 401: a second one is passed on; the first waits for the refresh in progress, or
\* starts one.
Unauthorized(c) ==
  LET j == call[c] IN
  /\ At(c, "sent") /\ ~Accepted(j.token)
  /\ refreshing' = (refreshing \/ ~j.retry)
  /\ IF j.retry THEN Settle(c) /\ UNCHANGED stranded
     ELSE IF refreshing THEN /\ Goto(c, "queued")
                             /\ stranded' = IF \E d \in Calls : At(d, "clear") THEN stranded \cup {c} ELSE stranded
     ELSE call' = [call EXCEPT ![c].pc = "token", ![c].retry = TRUE] /\ UNCHANGED stranded
  /\ UNCHANGED <<hash, issued, expired, tokens, header, user, made, expiries, failures, crossed, strayed>>

\* No answer: notifyNetworkError.
NetworkError(c) ==
  /\ At(c, "sent")
  /\ failures < MaxFailures /\ failures' = failures + 1
  /\ Settle(c)
  /\ UNCHANGED <<hash, issued, expired, tokens, header, user, refreshing, made, expiries, past>>
-----------------------------------------------------------------------------
(***************************************************************************)
(* The refresh, by the interceptor or by refreshSession.                   *)
(***************************************************************************)
Refreshing(c) == call[c].kind \in {"request", "logout"}
                 /\ call[c].pc \in {"token", "refresh", "issue", "got", "store", "clear"}

Queue == {d \in Calls : At(d, "queued")}

\* Mutant of Drained: without a token nobody in the queue hears of it.
DrainedIfRenewed(token) ==
  [d \in Calls |-> IF d \in Queue /\ token # None THEN [call[d] EXCEPT !.pc = "attach", !.token = token] ELSE call[d]]

\* drainQueue: the requests are repeated with the new token, or rejected without one.
Drained(token) ==
  [d \in Calls |-> IF d \notin Queue THEN call[d]
                   ELSE IF token # None THEN [call[d] EXCEPT !.pc = "attach", !.token = token] ELSE Settled(call[d])]

\* The catch of the interceptor: the queue is rejected and the tokens are cleared.
\* refreshSession and login leave things as they are.
Fail(c) ==
  IF Refreshing(c)
  THEN /\ call' = [Drained(None) EXCEPT ![c].pc = "clear"]
       /\ tokens' = None
       /\ stranded' = stranded \ Queue
  ELSE /\ call' = [call EXCEPT ![c] = NoCall]
       /\ UNCHANGED <<tokens, stranded>>

\* getRefreshToken.
ReadRefreshToken(c) ==
  /\ At(c, "token")
  /\ IF tokens = None THEN Fail(c)
     ELSE /\ call' = [call EXCEPT ![c].pc = "refresh", ![c].token = tokens]
          /\ UNCHANGED <<tokens, stranded>>
  /\ UNCHANGED <<hash, issued, expired, header, user, refreshing, made, expiries, failures, crossed, strayed>>

\* refreshSession reads the refresh token of the store: one of the same user.
RefreshSession(c) ==
  /\ user # None
  /\ Start(c, [NoCall EXCEPT !.pc = "refresh", !.kind = "session", !.token = [user |-> user, n |-> 0]])
  /\ crossed' = (crossed \/ \E d \in Calls : At(d, "leave"))
  /\ UNCHANGED <<hash, issued, expired, tokens, header, user, refreshing, expiries, failures, stranded, strayed>>

\* Mutant of Matches: the whole token is compared.
MatchesWhole(token) == hash[token.user] = token.n

\* bcrypt.compare takes the first 72 bytes, in which the tokens of a user are equal:
\* the header, and the first half of the user's id.
Matches(token) == hash[token.user] # None

\* Mutant of Validate: the tokens are not issued anew.
ValidateOnly(c) ==
  /\ At(c, "refresh")
  /\ IF Matches(call[c].token) THEN Goto(c, "got") /\ UNCHANGED <<tokens, stranded>>
     ELSE Fail(c)
  /\ UNCHANGED <<hash, issued, expired, header, user, refreshing, made, expiries, failures, crossed, strayed>>

\* JwtRefreshStrategy.validate.
Validate(c) ==
  /\ At(c, "refresh")
  /\ IF Matches(call[c].token) THEN Goto(c, "issue") /\ UNCHANGED <<tokens, stranded>>
     ELSE Fail(c)
  /\ UNCHANGED <<hash, issued, expired, header, user, refreshing, made, expiries, failures, crossed, strayed>>

\* issueTokens, for a refresh and for a login.
IssueTokens(c) ==
  /\ At(c, "issue")
  /\ issued' = issued + 1
  /\ hash' = [hash EXCEPT ![call[c].token.user] = issued']
  /\ call' = [call EXCEPT ![c].pc = "got", ![c].token.n = issued']
  /\ UNCHANGED <<expired, tokens, header, user, refreshing, made, expiries, failures, past>>

\* The network fails on the way there or back, or the Keychain of a locked phone does;
\* it is not locked while somebody signs in.
RefreshFails(c) ==
  /\ At(c, "refresh") \/ At(c, "got") \/ (At(c, "store") /\ Refreshing(c))
  /\ failures < MaxFailures /\ failures' = failures + 1
  /\ Fail(c)
  /\ UNCHANGED <<hash, issued, expired, header, user, refreshing, made, expiries, crossed, strayed>>

\* tokenStorage.set; its write of the Keychain goes on.
SetTokens(c) ==
  /\ At(c, "got")
  /\ tokens' = call[c].token
  /\ Goto(c, "store")
  /\ UNCHANGED <<hash, issued, expired, header, user, refreshing, made, expiries, failures, past>>

\* The interceptor sets the default header, which nothing clears, drains the queue and
\* repeats its own request; login and refreshSession set the user.
Stored(c) ==
  /\ At(c, "store")
  /\ IF Refreshing(c)
     THEN /\ call' = [Drained(call[c].token) EXCEPT ![c].pc = "attach"]
          /\ header' = call[c].token
          /\ refreshing' = FALSE
          /\ stranded' = stranded \ Queue
          /\ UNCHANGED user
     ELSE /\ call' = [call EXCEPT ![c] = NoCall]
          /\ user' = call[c].token.user
          /\ UNCHANGED <<header, refreshing, stranded>>
  /\ UNCHANGED <<hash, issued, expired, tokens, made, expiries, failures, crossed, strayed>>

\* The Keychain is cleared: the request that started the refresh is rejected.
Cleared(c) ==
  /\ At(c, "clear")
  /\ refreshing' = FALSE
  /\ Settle(c)
  /\ UNCHANGED <<hash, issued, expired, tokens, header, user, made, expiries, failures, past>>
-----------------------------------------------------------------------------
(***************************************************************************)
(* Sign-in and sign-out.                                                   *)
(***************************************************************************)
\* login, loginWithGoogle, loginWithApple: the server has checked the credentials.
Login(c, u) ==
  /\ user = None
  /\ \A d \in Calls : call[d].kind # "login"   \* isLoading
  /\ Start(c, [NoCall EXCEPT !.pc = "issue", !.kind = "login", !.token = [user |-> u, n |-> 0]])
  /\ UNCHANGED <<hash, issued, expired, tokens, header, user, refreshing, expiries, failures, past>>

Logout(c) ==
  /\ user # None /\ LeavingCalls = {}
  /\ Start(c, [NoCall EXCEPT !.pc = "attach", !.kind = "logout", !.token = header])
  /\ UNCHANGED <<hash, issued, expired, tokens, header, user, refreshing, expiries, failures, past>>

\* Mutant of Wipe: the tokens stay in the Keychain.
WipeNot(c) ==
  /\ At(c, "wipe")
  /\ Goto(c, "leave")
  /\ crossed' = (crossed \/ OnTheirWay # {})
  /\ UNCHANGED <<hash, issued, expired, tokens, header, user, refreshing, made, expiries, failures, stranded, strayed>>

\* logout, after the request: tokenStorage.clear, and the store.
Wipe(c) ==
  /\ At(c, "wipe")
  /\ tokens' = None
  /\ crossed' = (crossed \/ OnTheirWay # {})
  /\ Goto(c, "leave")
  /\ UNCHANGED <<hash, issued, expired, header, user, refreshing, made, expiries, failures, stranded, strayed>>

Leave(c) ==
  /\ At(c, "leave")
  /\ user' = None
  /\ crossed' = (crossed \/ OnTheirWay # {})
  /\ call' = [call EXCEPT ![c] = NoCall]
  /\ UNCHANGED <<hash, issued, expired, tokens, header, refreshing, made, expiries, failures, stranded, strayed>>

\* The app is killed and starts again: initialize.
Restart ==
  /\ made < MaxCalls /\ made' = made + 1
  /\ user' = IF tokens = None THEN None ELSE tokens.user
  /\ header' = None /\ refreshing' = FALSE
  /\ call' = [c \in Calls |-> NoCall]
  /\ stranded' = {}
  /\ crossed' = (crossed \/ LeavingCalls # {})
  /\ UNCHANGED <<hash, issued, expired, tokens, expiries, failures, strayed>>

\* The quarter of an hour of the tokens issued so far is over.
Expire ==
  /\ expiries < MaxExpiries /\ expiries' = expiries + 1
  /\ expired # issued /\ expired' = issued
  /\ UNCHANGED <<hash, issued, app, made, failures, past>>
-----------------------------------------------------------------------------
Init ==
  /\ hash = [u \in Users |-> None] /\ issued = 0 /\ expired = 0
  /\ tokens = None /\ header = None /\ user = None /\ refreshing = FALSE
  /\ call = [c \in Calls |-> NoCall]
  /\ made = 0 /\ expiries = 0 /\ failures = 0
  /\ crossed = FALSE /\ stranded = {} /\ strayed = FALSE

\* What goes on by itself once a call is made.
Step(c) ==
  \/ Attach(c) \/ Answer(c) \/ Unauthorized(c)
  \/ ReadRefreshToken(c) \/ Validate(c) \/ IssueTokens(c) \/ SetTokens(c) \/ Stored(c) \/ Cleared(c)
  \/ Wipe(c) \/ Leave(c)

Next ==
  \/ \E c \in Calls :
       \/ Step(c) \/ NetworkError(c) \/ RefreshFails(c)
       \/ Request(c) \/ RefreshSession(c) \/ Logout(c)
       \/ \E u \in Users : Login(c, u)
  \/ Restart \/ Expire

Spec == Init /\ [][Next]_vars

\* The POST of a refresh is a bare axios call without a timeout: its answer may not come.
OnTheWire(c) == call[c].kind # "login" /\ call[c].pc \in {"refresh", "issue", "got"}

\* Other calls that have begun are answered, or time out after thirty seconds.
FairSpec == Spec /\ \A c \in Calls : WF_vars(Step(c) /\ ~OnTheWire(c))
-----------------------------------------------------------------------------
(***************************************************************************)
(* Properties.                                                             *)
(***************************************************************************)
\* Every variable holds a value of its type.
TypeOK ==
  /\ hash \in [Users -> Nat \cup {None}]
  /\ issued \in Nat /\ expired \in 0 .. issued
  /\ tokens \in Token \cup {None} /\ (tokens # None => tokens.n \in 1 .. issued)
  /\ header \in Token \cup {None}
  /\ user \in Users \cup {None}
  /\ refreshing \in BOOLEAN /\ crossed \in BOOLEAN /\ strayed \in BOOLEAN
  /\ call \in [Calls -> Call]
  /\ made \in Nat /\ expiries \in Nat /\ failures \in Nat
  /\ stranded \subseteq Calls

\* isRefreshing: however many requests get a 401 at once, one refresh is on its way,
\* and the flag is up exactly as long.
OneRefreshAtATime ==
  /\ refreshing <=> \E c \in Calls : Refreshing(c)
  /\ \A c, d \in Calls : Refreshing(c) /\ Refreshing(d) => c = d

\* "Queue this request until the refresh is done": a request waits only while there
\* is a refresh that will drain the queue, or it came when the queue had been drained
\* and the tokens were being cleared.
QueueHasARefresh == \A c \in Queue : refreshing \/ c \in stranded

\* A refresh whose POST gets no answer, and the requests queued for it.
Hangs(c) == \E d \in Calls : OnTheWire(d) /\ (c = d \/ (At(c, "queued") /\ Refreshing(d)))

\* A call is answered, rejected or repeated until it is, and its place is free again.
\* For ever waits only a stranded one, a refresh that is never answered, and what is
\* queued for that refresh.
CallsSettle == \A c \in Calls : []<>(At(c, "idle") \/ c \in stranded) \/ <>[]Hangs(c)

\* logout: "clear tokens on server + local storage".  Unless a refresh that one session
\* began ends in another, the app holds tokens of nobody but the user it shows; and its
\* requests carry no other, although the default header still has the token of whoever
\* was signed in at the last refresh.  That shows when tokens are missing: when a refresh
\* has failed, or while the user signs out.
TokensOfTheUser ==
  ~crossed =>
    /\ tokens # None =>
         \/ tokens.user = user
         \/ user = None /\ \E c \in Calls : At(c, "store") /\ call[c].kind = "login"
    /\ failures = 0 => ~strayed

\* Refreshes of the interceptor and of refreshSession may overlap and use a refresh
\* token that the other has replaced: as long as no request fails and nobody signs
\* out, the session survives.
SessionSurvivesRefreshes ==
  failures = 0 /\ ~crossed /\ user # None /\ LeavingCalls = {} => tokens # None
=============================================================================
