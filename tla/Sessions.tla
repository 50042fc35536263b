------------------------------ MODULE Sessions ------------------------------
(***************************************************************************)
(* One WhatsApp session: the instances the session manager makes of it     *)
(* (SessionPool, BaileysInstance), the endpoints of QRServer, the backend's*)
(* row (WhatsappService) and the settings page that writes its status.     *)
(*                                                                         *)
(* disconnect() takes an instance out of the pool; its timers and a        *)
(* connect() it has not finished live on.                                  *)
(***************************************************************************)
EXTENDS Integers, FiniteSets

CONSTANTS
  MaxReconnect,   \* MAX_RECONNECT
  MaxInstances,   \* bound: instances made before a restart
  MaxClicks,      \* bound: connects, disconnects and deletions by the user
  MaxCloses,      \* bound: connections WhatsApp closes
  MaxRestarts,    \* bound: restarts of the session manager
  MaxPolls        \* bound: polls of the page that wait for their answer

ASSUME SessionBounds ==
  /\ MaxReconnect \in Nat /\ MaxInstances \in Nat \ {0} /\ MaxClicks \in Nat
  /\ MaxCloses \in Nat /\ MaxRestarts \in Nat /\ MaxPolls \in Nat

Instances == 1..MaxInstances
NoInstance == 0

VARIABLES
  pool,         \* the instance of the session in SessionPool.instances
  instance,     \* every instance made since the last restart
  creds,        \* whether creds.json is there
  sessionRow,   \* wa_sessions.status, or no row
  sessionPage,  \* startConnect and the disconnect and delete mutations
  polling,      \* whether the poll interval runs
  answers,      \* the states that polls under way bring back
  clicks, closes, restarts

sessionVars     == << pool, instance, creds, sessionRow, sessionPage, polling, answers,
                      clicks, closes, restarts >>
sessionPageVars == << sessionPage, polling, answers, clicks, sessionRow >>

SessionState == {"DISCONNECTED", "CONNECTING", "QR_READY", "CONNECTED", "BANNED"}
Timer        == {"none", "reconnect", "circuit"}

\* socket: "none", or "opening" and "open" until it closes.  connecting: connect()
\* awaits the credentials and the version.
Instance == [made : BOOLEAN, state : SessionState, socket : {"none", "opening", "open"},
             connecting : BOOLEAN, timer : Timer, attempts : 0..(MaxReconnect + 1)]
Unmade   == [made |-> FALSE, state |-> "DISCONNECTED", socket |-> "none",
             connecting |-> FALSE, timer |-> "none", attempts |-> 0]

SessionsInit ==
  /\ pool = NoInstance
  /\ instance = [i \in Instances |-> Unmade]
  /\ creds = FALSE
  /\ sessionRow = "DISCONNECTED"
  /\ sessionPage = "idle" /\ polling = FALSE /\ answers = {}
  /\ clicks = 0 /\ closes = 0 /\ restarts = 0

-----------------------------------------------------------------------------
(* BaileysInstance. *)

\* connect() sets the state and awaits; after the pause of the circuit breaker the
\* attempts start again.
Connecting(inst) ==
  [made |-> TRUE, state |-> "CONNECTING", socket |-> inst.socket, connecting |-> TRUE,
   timer |-> "none", attempts |-> IF inst.timer = "circuit" THEN 0 ELSE inst.attempts]

\* In another state, with another socket: connect() ends with one, and an open one
\* ends the failed attempts.
At(inst, state, socket) ==
  [made |-> inst.made, state |-> state, socket |-> socket,
   connecting |-> inst.connecting /\ socket = "none", timer |-> inst.timer,
   attempts |-> IF socket = "open" THEN 0 ELSE inst.attempts]

MakeSocket(i) ==
  /\ instance[i].connecting
  /\ instance' = [instance EXCEPT ![i] = At(instance[i], instance[i].state, "opening")]
  /\ UNCHANGED << pool, creds, sessionPageVars, closes, restarts >>

\* Without credentials WhatsApp sends QR codes; the scan of one saves credentials.
ShowQR(i) ==
  /\ instance[i].socket = "opening" /\ ~creds
  /\ instance' = [instance EXCEPT ![i] = At(instance[i], "QR_READY", "opening")]
  /\ UNCHANGED << pool, creds, sessionPageVars, closes, restarts >>

ScanQR(i) ==
  /\ instance[i].socket = "opening" /\ instance[i].state = "QR_READY"
  /\ creds' = TRUE
  /\ UNCHANGED << pool, instance, sessionPageVars, closes, restarts >>

Open(i) ==
  /\ instance[i].socket = "opening" /\ creds
  /\ instance' = [instance EXCEPT ![i] = At(instance[i], "CONNECTED", "open")]
  /\ UNCHANGED << pool, creds, sessionPageVars, closes, restarts >>

\* Closed for a reason that is retried: a timer for the next attempt, or for the
\* circuit breaker once MAX_RECONNECT are used up.
Retried(inst) ==
  LET n == inst.attempts + 1 IN
  [made |-> inst.made, state |-> IF n > MaxReconnect THEN "DISCONNECTED" ELSE inst.state,
   socket |-> "none", connecting |-> inst.connecting,
   timer |-> IF n > MaxReconnect THEN "circuit" ELSE "reconnect", attempts |-> n]

CloseSocket(i) ==
  /\ instance[i].socket # "none" /\ closes < MaxCloses
  /\ closes' = closes + 1
  /\ \/ instance' = [instance EXCEPT ![i] = Retried(instance[i])]
     \/ \E final \in {"DISCONNECTED", "BANNED"} :   \* loggedOut, forbidden
          instance' = [instance EXCEPT ![i] = At(instance[i], final, "none")]
  /\ UNCHANGED << pool, creds, sessionPageVars, restarts >>

\* Mutant: after the pause of the circuit breaker the attempts are not reset.
TimerFiresUnreset(i) ==
  /\ instance[i].timer # "none"
  /\ instance' = [instance EXCEPT ![i] = [Connecting(@) EXCEPT !.attempts = instance[i].attempts]]
  /\ UNCHANGED << pool, creds, sessionPageVars, closes, restarts >>

\* Mutant: an interval in place of a timeout.
TimerFiresAgain(i) ==
  /\ instance[i].timer # "none" /\ ~instance[i].connecting
  /\ instance' = [instance EXCEPT ![i] = [Connecting(@) EXCEPT !.timer = instance[i].timer]]
  /\ UNCHANGED << pool, creds, sessionPageVars, closes, restarts >>

\* Mutant: the circuit breaker resets the attempts and does not connect.
TimerFiresIdly(i) ==
  /\ instance[i].timer # "none"
  /\ instance' = [instance EXCEPT ![i] =
       IF @.timer = "circuit" THEN [@ EXCEPT !.timer = "none", !.attempts = 0]
       ELSE Connecting(@)]
  /\ UNCHANGED << pool, creds, sessionPageVars, closes, restarts >>

TimerFires(i) ==
  /\ instance[i].timer # "none"
  /\ instance' = [instance EXCEPT ![i] = Connecting(instance[i])]
  /\ UNCHANGED << pool, creds, sessionPageVars, closes, restarts >>

-----------------------------------------------------------------------------
(* SessionPool and the endpoints of QRServer. *)

CreateAndConnect ==
  \E i \in Instances :
    /\ ~instance[i].made /\ \A j \in 1..(i - 1) : instance[j].made
    /\ pool' = i
    /\ instance' = [instance EXCEPT ![i] = Connecting(instance[i])]

\* SessionStore: whether, and for what sessions, creds.json is there; removing it.
HasCreds   == creds
ClearCreds == creds' = FALSE

\* connect: an instance that is there is answered as it is, whatever its state;
\* otherwise the credentials are cleared for a fresh pairing.
PoolConnect ==
  IF pool # NoInstance THEN UNCHANGED << pool, instance, creds >>
  ELSE ClearCreds /\ CreateAndConnect

\* restore, on behalf of a status poll or a send: from the credentials, if any.
PoolRestore ==
  IF pool # NoInstance \/ ~HasCreds THEN UNCHANGED << pool, instance >>
  ELSE CreateAndConnect

\* end() emits a close for no reason given, which sets a reconnect timer.
EndSocket(inst) ==
  [made |-> inst.made, state |-> "DISCONNECTED", socket |-> "none",
   connecting |-> inst.connecting,
   timer |-> IF inst.socket # "none" THEN Retried(inst).timer ELSE inst.timer,
   attempts |-> 0]

PoolDisconnect ==
  IF pool = NoInstance THEN UNCHANGED << pool, instance >>
  ELSE pool' = NoInstance /\ instance' = [instance EXCEPT ![pool] = EndSocket(instance[pool])]

\* POST /sessions/:id/send from campaigns, drips, the inbox and replies; sent when
\* the instance is CONNECTED.
SendRestores ==
  /\ pool = NoInstance /\ HasCreds /\ PoolRestore
  /\ UNCHANGED << creds, sessionPageVars, closes, restarts >>

\* The process restarts and restores what has credentials.
Restart ==
  LET i == CHOOSE j \in Instances : TRUE IN
  /\ restarts < MaxRestarts /\ restarts' = restarts + 1
  /\ pool' = IF HasCreds THEN i ELSE NoInstance
  /\ instance' = [j \in Instances |-> IF HasCreds /\ j = i THEN Connecting(Unmade) ELSE Unmade]
  /\ answers' = {}
  /\ UNCHANGED << creds, sessionRow, sessionPage, polling, clicks, closes >>

-----------------------------------------------------------------------------
(* settings/whatsapp/page.tsx over WhatsappController. *)

Click(from, to) ==
  /\ sessionPage = from /\ sessionPage' = to
  /\ clicks < MaxClicks /\ clicks' = clicks + 1
  /\ sessionRow # "NONE"

\* startConnect: stops a poll that runs and posts; the button needs a row that is
\* not CONNECTED.
ClickConnect ==
  /\ Click("idle", "connect") /\ sessionRow # "CONNECTED" /\ ~polling
  /\ UNCHANGED << pool, instance, creds, sessionRow, polling, answers, closes, restarts >>

\* The answer of POST connect: the interval starts, also after Cancel.
PostConnect ==
  /\ sessionPage = "connect"
  /\ PoolConnect
  /\ sessionPage' = "idle" /\ polling' = TRUE
  /\ UNCHANGED << sessionRow, answers, clicks, closes, restarts >>

\* A poll reads the state, and restores the session from its credentials; no
\* session: 404, which is ignored.
PollStatus ==
  /\ polling
  /\ Cardinality(answers) < MaxPolls
  /\ PoolRestore
  /\ answers' = IF pool' = NoInstance THEN answers
                ELSE answers \cup {instance'[pool'].state}
  /\ UNCHANGED << creds, sessionRow, sessionPage, polling, clicks, closes, restarts >>

WriteStatus(status) == sessionRow' = IF sessionRow = "NONE" THEN sessionRow ELSE status

\* Mutant: CONNECTING and QR_READY are taken for the end of it as well.
PollAnswerAny ==
  /\ \E state \in answers : answers' = answers \ {state} /\ WriteStatus(state)
  /\ polling' = FALSE
  /\ UNCHANGED << pool, instance, creds, sessionPage, clicks, closes, restarts >>

\* Answers come in any order; a final one is written to the row and stops the
\* interval, not the polls under way.  An answer may get lost.
PollAnswer ==
  /\ \E state \in answers :
       /\ answers' = answers \ {state}
       /\ IF state \in {"CONNECTED", "BANNED", "DISCONNECTED"}
            THEN WriteStatus(state) /\ polling' = FALSE
            ELSE UNCHANGED << sessionRow, polling >>
  /\ UNCHANGED << pool, instance, creds, sessionPage, clicks, closes, restarts >>

\* Cancel, or leaving the page.
StopListening ==
  /\ polling /\ polling' = FALSE
  /\ UNCHANGED << pool, instance, creds, sessionRow, sessionPage, answers, clicks, closes,
                  restarts >>

\* Disconnect and Delete: DELETE /session-api/sessions/:id, whose failure is
\* ignored, then the backend's row.
ClickEnd ==
  /\ \E to \in {"disconnect", "delete"} :
       Click("idle", to) /\ (to = "disconnect" => sessionRow = "CONNECTED")
  /\ \/ PoolDisconnect
     \/ UNCHANGED << pool, instance >>
  /\ UNCHANGED << creds, sessionRow, polling, answers, closes, restarts >>

EndRow ==
  /\ sessionPage \in {"disconnect", "delete"}
  /\ sessionRow' = IF sessionPage = "delete" THEN "NONE" ELSE "DISCONNECTED"
  /\ polling' = (polling /\ sessionPage # "delete")
  /\ sessionPage' = "idle"
  /\ UNCHANGED << pool, instance, creds, answers, clicks, closes, restarts >>

-----------------------------------------------------------------------------

InstanceStep(i) == MakeSocket(i) \/ TimerFires(i)

SessionsNext ==
  \/ \E i \in Instances :
       InstanceStep(i) \/ ShowQR(i) \/ ScanQR(i) \/ Open(i) \/ CloseSocket(i)
  \/ SendRestores \/ Restart
  \/ ClickConnect \/ PostConnect \/ PollStatus \/ PollAnswer \/ StopListening
  \/ ClickEnd \/ EndRow

\* The process runs its timers and continuations; WhatsApp and users owe nothing.
SessionsFairness == \A i \in Instances : WF_sessionVars(InstanceStep(i))

SessionsSpec == SessionsInit /\ [][SessionsNext]_sessionVars /\ SessionsFairness
-----------------------------------------------------------------------------
(* Properties. *)

\* Every variable keeps its type.
SessionsTypeOK ==
  /\ pool \in Instances \cup {NoInstance}
  /\ instance \in [Instances -> Instance]
  /\ creds \in BOOLEAN /\ polling \in BOOLEAN
  /\ sessionRow \in {"NONE", "CONNECTED", "BANNED", "DISCONNECTED"}
  /\ sessionPage \in {"idle", "connect", "disconnect", "delete"}
  /\ answers \subseteq SessionState
  /\ clicks \in 0..MaxClicks /\ closes \in 0..MaxCloses /\ restarts \in 0..MaxRestarts

\* An instance, in the pool or put out of it, is on one way to a connection only:
\* a socket, a connect() under way or a timer, so that no close event, disconnect
\* or timer in any order gives it two sockets.
OneWayToConnect ==
  \A i \in Instances :
    Cardinality({w \in {"socket", "connect", "timer"} :
      \/ w = "socket" /\ instance[i].socket # "none"
      \/ w = "connect" /\ instance[i].connecting
      \/ w = "timer" /\ instance[i].timer # "none"}) <= 1

\* The pool's word: CONNECTED is said of an instance whose socket is open, or
\* that waits for its first reconnect since it was, and the breaker is on
\* exactly while the attempts are used up.
PoolTellsTruth ==
  pool # NoInstance =>
    LET inst == instance[pool] IN
    /\ inst.made
    /\ inst.state = "CONNECTED" =>
         \/ inst.socket = "open"
         \/ inst.timer = "reconnect" /\ inst.attempts = 1
    /\ inst.timer = "circuit" <=> inst.attempts > MaxReconnect

\* The pool never gives a session up: unless WhatsApp logged it out or banned
\* it, an instance without a socket gets one, also after the circuit breaker
\* opened, or it leaves the pool.
PoolKeepsTrying ==
  \A i \in Instances :
    pool = i /\ instance[i].timer # "none"
      ~> instance[i].socket # "none" \/ pool # i
=============================================================================
