------------------------------- MODULE Tokens -------------------------------
(***************************************************************************)
(* Signing in: AuthService with the one refresh token hash of a user, and  *)
(* the browser's api-client and auth-store, whose tabs share localStorage. *)
(*                                                                         *)
(* A token is the second it was issued in: two tokens that the server      *)
(* signs for a user in one second are the same string.                     *)
(***************************************************************************)
EXTENDS Integers, FiniteSets

CONSTANTS
  ApiCalls,    \* calls of the api-client that may be in flight
  Tab,         \* the tab each is made in
  AccessLife,  \* JWT_EXPIRES_IN
  MaxClock     \* bound: seconds

ASSUME TokenBounds == AccessLife \in Nat \ {0} /\ MaxClock \in Nat \ {0}

VARIABLES
  clock,
  user,        \* the row of the user
  storage,     \* localStorage: the access and the refresh token
  call,        \* API calls, each with the refresh or login that it may run
  promise,     \* refreshPromise of a tab: the calls whose refresh it is
  kicked,      \* history: a refresh was refused
  troubled     \* history: what explains a refusal

tokenVars == << clock, user, storage, call, promise, kicked, troubled >>

NoToken  == 0
Tokens_  == 0..MaxClock
User     == [exists : BOOLEAN, refreshToken : Tokens_]   \* NoToken: null, or empty
Storage  == [access : Tokens_, refresh : Tokens_]
Tabs     == {Tab[r] : r \in ApiCalls}
CallAt(pc, token, new) == [pc |-> pc, token |-> token, new |-> new]
IdleCall == CallAt("idle", NoToken, NoToken)
ApiCall  == [pc : {"idle", "sent", "waiting", "check", "store", "answer", "false",
                   "login", "loginStore", "loginAnswer"},
             token : Tokens_, new : Tokens_]
Tokens(t) == [access |-> t, refresh |-> t]

\* Calls that change the stored hash, or have read it or a token for that.
LoginSteps == {"login", "loginStore", "loginAnswer"}
Rotating == {r \in ApiCalls : call[r].pc \notin {"idle", "sent", "waiting", "false"}}

TokensInit ==
  /\ clock = 1
  /\ user = [exists |-> FALSE, refreshToken |-> NoToken]
  /\ storage = Tokens(NoToken)
  /\ call = [r \in ApiCalls |-> IdleCall]
  /\ promise = [t \in Tabs |-> {}]
  /\ kicked = FALSE
  /\ troubled = FALSE

Tick ==
  /\ clock < MaxClock /\ clock' = clock + 1
  /\ UNCHANGED << user, storage, call, promise, kicked, troubled >>

\* A second registration of the address answers 409.
Register ==
  /\ ~user.exists /\ user' = [exists |-> TRUE, refreshToken |-> user.refreshToken]
  /\ UNCHANGED << clock, storage, call, promise, kicked, troubled >>

-----------------------------------------------------------------------------
(* request and tryRefreshToken of the api-client. *)

Step_(r, pc) == call' = [call EXCEPT ![r] = CallAt(pc, call[r].token, call[r].new)]
StoreToken(t) == user' = [exists |-> user.exists, refreshToken |-> t]

Request(r) ==
  /\ call[r].pc = "idle"
  /\ call' = [call EXCEPT ![r] = CallAt("sent", storage.access, NoToken)]
  /\ UNCHANGED << clock, user, storage, promise, kicked, troubled >>

AccessValid(t) == t # NoToken /\ clock - t < AccessLife

Answered(r) ==
  /\ call[r].pc = "sent"
  /\ AccessValid(call[r].token) /\ call' = [call EXCEPT ![r] = IdleCall]
  /\ UNCHANGED << clock, user, storage, promise, kicked, troubled >>

StartRefresh(r) ==
  /\ call' = [call EXCEPT ![r] =
       CallAt(IF storage.refresh = NoToken THEN "false" ELSE "check", storage.refresh, NoToken)]
  /\ promise' = [promise EXCEPT ![Tab[r]] = promise[Tab[r]] \cup {r}]
  /\ troubled' = (troubled \/ {s \in Rotating : Tab[s] # Tab[r] \/ call[s].pc \in LoginSteps} # {})

\* Mutant: every 401 refreshes.
UnauthorizedRefreshes(r) ==
  /\ call[r].pc = "sent" /\ ~AccessValid(call[r].token)
  /\ StartRefresh(r)
  /\ UNCHANGED << clock, user, storage, kicked >>

\* 401: the call waits for the refresh of its tab, or starts it; an upload fails.
Unauthorized(r) ==
  /\ call[r].pc = "sent" /\ ~AccessValid(call[r].token)
  /\ \/ promise[Tab[r]] = {} /\ StartRefresh(r)
     \/ promise[Tab[r]] # {} /\ Step_(r, "waiting") /\ UNCHANGED << promise, troubled >>
     \/ call' = [call EXCEPT ![r] = IdleCall] /\ UNCHANGED << promise, troubled >>
  /\ UNCHANGED << clock, user, storage, kicked >>

\* The calls of a tab that wait for a refresh, with the one that made it.
Awaiting(r) == {r} \cup {s \in ApiCalls : Tab[s] = Tab[r] /\ call[s].pc = "waiting"}

\* doRefresh wrote the tokens and each call is made again.
Refreshed(r) ==
  /\ call[r].pc = "answer"
  /\ storage' = Tokens(call[r].new)
  /\ call' = [s \in ApiCalls |-> IF s \in Awaiting(r)
                THEN CallAt("sent", call[r].new, NoToken) ELSE call[s]]
  /\ promise' = [promise EXCEPT ![Tab[r]] = promise[Tab[r]] \ {r}]
  /\ UNCHANGED << clock, user, kicked, troubled >>

\* It returned false: the tokens are removed and the login page is loaded.
NotRefreshed(r) ==
  /\ call[r].pc = "false"
  /\ storage' = Tokens(NoToken)
  /\ call' = [s \in ApiCalls |-> IF s \in Awaiting(r) THEN IdleCall ELSE call[s]]
  /\ promise' = [promise EXCEPT ![Tab[r]] = promise[Tab[r]] \ {r}]
  /\ UNCHANGED << clock, user, kicked, troubled >>

\* The network loses a request or its answer: fetch rejects.
FetchFails(r) ==
  /\ call[r].pc \in {"check", "answer", "login", "loginAnswer"}
  /\ call' = [call EXCEPT ![r] = CallAt(
                IF call[r].pc \in {"check", "answer"} THEN "false" ELSE "idle", NoToken, NoToken)]
  /\ troubled' = TRUE
  /\ UNCHANGED << clock, user, storage, promise, kicked >>

-----------------------------------------------------------------------------
(* AuthService. *)

\* refreshTokens: no token stored, or another one, which revokes that.
CheckRefresh(r) ==
  /\ call[r].pc = "check"
  /\ IF user.refreshToken = call[r].token
       THEN /\ call' = [call EXCEPT ![r] = CallAt("store", call[r].token, clock)]
            /\ UNCHANGED << user, kicked >>
       ELSE /\ Step_(r, "false")
            /\ StoreToken(NoToken)
            /\ kicked' = TRUE
  /\ UNCHANGED << clock, storage, promise, troubled >>

\* storeRefreshTokenHash of refreshTokens and login.
StoreTokenHash(r) ==
  /\ call[r].pc \in {"store", "loginStore"}
  /\ StoreToken(call[r].new)
  /\ Step_(r, IF call[r].pc = "store" THEN "answer" ELSE "loginAnswer")
  /\ UNCHANGED << clock, storage, promise, kicked, troubled >>

-----------------------------------------------------------------------------
(* The login page, the sign-out button, and other devices. *)

Login(r) ==
  /\ call[r].pc = "idle" /\ user.exists
  /\ call' = [call EXCEPT ![r] = CallAt("login", NoToken, NoToken)]
  /\ troubled' = (troubled \/ Rotating # {})
  /\ UNCHANGED << clock, user, storage, promise, kicked >>

LoginChecked(r) ==
  /\ call[r].pc = "login"
  /\ call' = [call EXCEPT ![r] = CallAt("loginStore", call[r].token, clock)]
  /\ UNCHANGED << clock, user, storage, promise, kicked, troubled >>

LoggedIn(r) ==
  /\ call[r].pc = "loginAnswer"
  /\ storage' = Tokens(call[r].new)
  /\ call' = [call EXCEPT ![r] = IdleCall]
  /\ UNCHANGED << clock, user, promise, kicked, troubled >>

\* The store's logout forgets the tokens and does not tell the server.
SignOut ==
  /\ storage' = Tokens(NoToken)
  /\ UNCHANGED << clock, user, call, promise, kicked, troubled >>

\* A login or POST auth/logout elsewhere.
OtherDevice ==
  /\ user.exists /\ \E t \in {NoToken, clock} : StoreToken(t)
  /\ troubled' = TRUE
  /\ UNCHANGED << clock, storage, call, promise, kicked >>

AuthController ==
  \/ Register \/ OtherDevice
  \/ \E r \in ApiCalls : LoginChecked(r) \/ CheckRefresh(r) \/ StoreTokenHash(r)

TokensNext ==
  \/ Tick \/ SignOut \/ AuthController
  \/ \E r \in ApiCalls :
       \/ Request(r) \/ Answered(r) \/ Unauthorized(r) \/ Refreshed(r) \/ NotRefreshed(r)
       \/ FetchFails(r) \/ Login(r) \/ LoggedIn(r)

TokensSpec == TokensInit /\ [][TokensNext]_tokenVars
-----------------------------------------------------------------------------
(* Properties. *)

\* Every variable keeps its type.
TokensTypeOK ==
  /\ clock \in 1..MaxClock /\ user \in User
  /\ storage \in Storage
  /\ call \in [ApiCalls -> ApiCall]
  /\ promise \in [Tabs -> SUBSET ApiCalls]
  /\ kicked \in BOOLEAN /\ troubled \in BOOLEAN

\* "Mutex to prevent concurrent refresh attempts": however the calls of a tab
\* expire together, nobody is thrown out for a reuse of the refresh token, unless
\* two tabs or devices rotated it at once or an answer was lost.
ReuseExplained == kicked => troubled
-----------------------------------------------------------------------------
(* What every reachable state satisfies: why a tab does not trip over itself.  *)

\* A call that refreshes is the one its tab waits for.
RefreshIsPromised ==
  \A r \in ApiCalls :
    call[r].pc \in {"check", "store", "answer", "false"} => r \in promise[Tab[r]]

\* Until something explains a refusal, one call at a time rotates the token, with the
\* one the server has, and otherwise the storage has that, or none.
AnswerSteps == {"answer", "loginAnswer"}
RotationIsOrderly ==
  ~troubled =>
    /\ ~kicked
    /\ \A r, s \in Rotating : r = s
    /\ \A r \in ApiCalls :
         /\ call[r].pc = "check" => call[r].token = user.refreshToken
         /\ call[r].pc \in AnswerSteps => call[r].new = user.refreshToken
    /\ (\A r \in ApiCalls : call[r].pc \notin AnswerSteps) =>
         storage.refresh \in {NoToken, user.refreshToken}

TokensInvariant == TokensTypeOK /\ RefreshIsPromised /\ RotationIsOrderly
=============================================================================
