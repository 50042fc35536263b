------------------------------ MODULE Webhooks ------------------------------
(***************************************************************************)
(* Webhooks: WebhooksController and WebhooksService with the rows of       *)
(* endpoints and deliveries, the queue 'webhook', and WebhookProcessor,    *)
(* which works one job at a time and gives it one attempt; retries are     *)
(* jobs of their own.                                                      *)
(***************************************************************************)
EXTENDS Integers, FiniteSets

CONSTANTS
  Endpoints,       \* rows of webhook_endpoints, by id
  Tagged,          \* events whose payload carries __event and userId
  MaxEvents,       \* bound: application events
  MaxHookEdits,    \* bound: requests to WebhooksController
  MaxAttempts,     \* an endpoint is given up after so many
  MaxHookStalls,   \* maxStalledCount of the BullMQ worker
  MaxHookCrashes,  \* bound: crashes of the backend
  HookFaults       \* whether the database and Redis may fail

AppEvents  == 1..MaxEvents
Deliveries == AppEvents \X Endpoints
Jobs       == Deliveries \X (0..MaxHookStalls)

ASSUME WebhookBounds ==
  /\ MaxEvents \in Nat /\ MaxHookEdits \in Nat /\ MaxAttempts \in Nat \ {0}
  /\ MaxHookStalls \in Nat /\ MaxHookCrashes \in Nat /\ HookFaults \in BOOLEAN
  /\ Tagged \subseteq AppEvents

VARIABLES
  endpoint,     \* webhook_endpoints
  edit,         \* the request in flight, with the row it read
  delivery,     \* webhook_deliveries
  listener,     \* onAppEvent calls: the endpoints left of the event
  hookJobs,     \* jobs that wait or are delayed, by delivery and how often they stalled
  poster,       \* WebhookProcessor.process
  events, edits, hookCrashes,
  subscribed,   \* history: endpoints subscribed since the event came
  severed       \* history: events <<v>> and deliveries <<v, e>> cut off by a crash or a fault

hookVars == << endpoint, edit, delivery, listener, hookJobs, poster, events, edits,
               hookCrashes, subscribed, severed >>

DeliveryStatus == {"PENDING", "DELIVERED", "FAILED", "ABANDONED"}
Endpoint   == [state : {"new", "live", "removed"}, isActive : BOOLEAN, subscribes : BOOLEAN]
NoEndpoint == [state |-> "new", isActive |-> FALSE, subscribes |-> FALSE]
Delivery   == [exists : BOOLEAN, status : DeliveryStatus, attemptCount : 0..MaxAttempts]
NoDelivery == [exists |-> FALSE, status |-> "PENDING", attemptCount |-> 0]

Working(pc, job, stalls, attemptCount, caught) ==
  [pc |-> pc, job |-> job, stalls |-> stalls, attemptCount |-> attemptCount, caught |-> caught]
IdlePoster == Working("idle", {}, 0, 0, FALSE)
Listener == [pc : {"idle", "find", "dispatch"}, todo : SUBSET Endpoints, add : SUBSET Endpoints]
ListenerAt(pc, todo, add) == [pc |-> pc, todo |-> todo, add |-> add]
IdleListener == ListenerAt("idle", {}, {})

\* The delivery the poster works on: job is a set of at most one.
Posting == CHOOSE d \in poster.job : TRUE

\* The query of onAppEvent.
Subscribers == {e \in Endpoints : endpoint[e].isActive /\ endpoint[e].subscribes}

HooksInit ==
  /\ endpoint = [e \in Endpoints |-> NoEndpoint]
  /\ edit = [pc |-> "idle"]
  /\ delivery = [d \in Deliveries |-> NoDelivery]
  /\ listener = [v \in AppEvents |-> IdleListener]
  /\ hookJobs = [j \in Jobs |-> 0]
  /\ poster = IdlePoster
  /\ events = 0 /\ edits = 0 /\ hookCrashes = 0
  /\ subscribed = [v \in AppEvents |-> {}]
  /\ severed = {}

-----------------------------------------------------------------------------
(* WebhooksController.  A URL that validateWebhookUrl refuses changes nothing. *)

CreateEndpoint ==
  /\ edit.pc = "idle" /\ edits < MaxHookEdits /\ edits' = edits + 1
  /\ \E e \in Endpoints, s \in BOOLEAN :
       /\ endpoint[e].state = "new"
       /\ endpoint' = [endpoint EXCEPT ![e] =
            [state |-> "live", isActive |-> TRUE, subscribes |-> s]]
  /\ UNCHANGED << edit, delivery, listener, hookJobs, poster, events, hookCrashes,
                  subscribed, severed >>

FindEndpoint ==
  /\ edit.pc = "idle" /\ edits < MaxHookEdits /\ edits' = edits + 1
  /\ \E e \in Endpoints, op \in {"update", "remove"} :
       /\ endpoint[e].state = "live"
       /\ edit' = [pc |-> op, e |-> e, copy |-> endpoint[e]]
  /\ UNCHANGED << endpoint, delivery, listener, hookJobs, poster, events, hookCrashes,
                  subscribed, severed >>

\* update saves the row it read with the columns asked for; remove takes the
\* deliveries along (ON DELETE CASCADE).
SaveEndpoint ==
  /\ edit.pc # "idle" /\ edit' = [pc |-> "idle"]
  /\ \/ /\ edit.pc = "update"
        /\ \E active, s \in BOOLEAN : endpoint' = [endpoint EXCEPT ![edit.e] =
             [state |-> edit.copy.state, isActive |-> active, subscribes |-> s]]
        /\ UNCHANGED delivery
     \/ /\ edit.pc = "remove"
        /\ endpoint' = [endpoint EXCEPT ![edit.e] =
             [state |-> "removed", isActive |-> FALSE, subscribes |-> FALSE]]
        /\ delivery' = [d \in Deliveries |-> IF d[2] = edit.e THEN NoDelivery ELSE delivery[d]]
  /\ subscribed' = [v \in AppEvents |-> subscribed[v] \cap Subscribers']
  /\ UNCHANGED << listener, hookJobs, poster, events, edits, hookCrashes, severed >>

WebhooksController == CreateEndpoint \/ FindEndpoint \/ SaveEndpoint

-----------------------------------------------------------------------------
(* onAppEvent. *)

Emit ==
  /\ events < MaxEvents /\ events' = events + 1
  /\ listener' = [listener EXCEPT ![events + 1] = ListenerAt("find", {}, {})]
  /\ subscribed' = [subscribed EXCEPT ![events + 1] = Subscribers]
  /\ UNCHANGED << endpoint, edit, delivery, hookJobs, poster, edits, hookCrashes,
                  severed >>

UnchangedByListener ==
  UNCHANGED << endpoint, edit, poster, events, edits, hookCrashes, subscribed >>

\* A payload without __event or userId is not dispatched.
FindSubscribers(v) ==
  /\ listener[v].pc = "find"
  /\ listener' = [listener EXCEPT
       ![v] = ListenerAt("dispatch", IF v \in Tagged THEN Subscribers ELSE {}, {})]
  /\ UNCHANGED << delivery, hookJobs, severed >> /\ UnchangedByListener

\* The row of an endpoint removed meanwhile breaks the foreign key: the rest of
\* the event is dropped.
SaveDelivery(v) ==
  /\ listener[v].pc = "dispatch" /\ listener[v].add = {}
  /\ \E e \in listener[v].todo :
       IF endpoint[e].state = "live"
         THEN /\ delivery' = [delivery EXCEPT ![<<v, e>>] =
                   [exists |-> TRUE, status |-> "PENDING", attemptCount |-> 0]]
              /\ listener' = [listener EXCEPT
                   ![v] = ListenerAt("dispatch", listener[v].todo \ {e}, {e})]
              /\ UNCHANGED severed
         ELSE /\ listener' = [listener EXCEPT ![v] = IdleListener]
              /\ severed' = severed \cup {<<v>>}
              /\ UNCHANGED delivery
  /\ UNCHANGED hookJobs /\ UnchangedByListener

AddJob(d, stalls) ==
  hookJobs' = [hookJobs EXCEPT ![<<d, stalls>>] = hookJobs[<<d, stalls>>] + 1]

\* Mutant: only the first endpoint of an event gets its job.
AddDeliveryFirst(v) ==
  /\ listener[v].pc = "dispatch"
  /\ \E e \in listener[v].add :
       /\ AddJob(<<v, e>>, 0)
       /\ listener' = [listener EXCEPT ![v] = IdleListener]
  /\ UNCHANGED << delivery, severed >> /\ UnchangedByListener

AddDelivery(v) ==
  /\ listener[v].pc = "dispatch"
  /\ \E e \in listener[v].add :
       /\ AddJob(<<v, e>>, 0)
       /\ listener' = [listener EXCEPT ![v] = ListenerAt("dispatch", listener[v].todo, {})]
  /\ UNCHANGED << delivery, severed >> /\ UnchangedByListener

EndDispatch(v) ==
  /\ listener[v].pc = "dispatch" /\ listener[v].todo = {} /\ listener[v].add = {}
  /\ listener' = [listener EXCEPT ![v] = IdleListener]
  /\ UNCHANGED << delivery, hookJobs, severed >> /\ UnchangedByListener

\* An event and, between the save and the add, a delivery that get no further.
Cut(v) == {<<v>>} \cup {<<v, e>> : e \in listener[v].add}

ListenerFails(v) ==
  /\ HookFaults /\ listener[v].pc # "idle"
  /\ listener' = [listener EXCEPT ![v] = IdleListener]
  /\ severed' = severed \cup Cut(v)
  /\ UNCHANGED << delivery, hookJobs >> /\ UnchangedByListener

-----------------------------------------------------------------------------
(* deliver. *)

UnchangedByPoster ==
  UNCHANGED << endpoint, edit, listener, events, edits, hookCrashes, subscribed >>

Go(pc, caught) ==
  poster' = Working(pc, poster.job, poster.stalls, poster.attemptCount, caught)

TakeDelivery ==
  /\ poster.pc = "idle"
  /\ \E j \in Jobs :
       /\ hookJobs[j] > 0 /\ hookJobs' = [hookJobs EXCEPT ![j] = hookJobs[j] - 1]
       /\ poster' = Working("read", {j[1]}, j[2], 0, FALSE)
  /\ UNCHANGED << delivery, severed >> /\ UnchangedByPoster

ReadDelivery ==
  /\ poster.pc = "read"
  /\ poster' = IF delivery[Posting].exists
                 THEN Working("post", poster.job, poster.stalls, delivery[Posting].attemptCount, FALSE)
                 ELSE IdlePoster
  /\ UNCHANGED << delivery, hookJobs, severed >> /\ UnchangedByPoster

\* 2xx; anything else; no answer in ten seconds, or no connection.
Post ==
  /\ poster.pc = "post"
  /\ Go("delivered", FALSE) \/ Go("retry", FALSE) \/ Go("retry", TRUE)
  /\ UNCHANGED << delivery, hookJobs, severed >> /\ UnchangedByPoster

\* repository.update of a row that is there.
UpdateDelivery(status) ==
  delivery' = IF ~delivery[Posting].exists THEN delivery
              ELSE [delivery EXCEPT ![Posting] =
                [exists |-> TRUE, status |-> status, attemptCount |-> poster.attemptCount + 1]]

MarkDelivered ==
  /\ poster.pc = "delivered"
  /\ UpdateDelivery("DELIVERED")
  /\ poster' = IdlePoster
  /\ UNCHANGED << hookJobs, severed >> /\ UnchangedByPoster

\* Mutant: after the last attempt the row stays FAILED, without a job.
ScheduleRetryUnabandoned ==
  /\ poster.pc = "retry"
  /\ UpdateDelivery("FAILED")
  /\ poster' = IF poster.attemptCount + 1 >= MaxAttempts THEN IdlePoster
               ELSE Working("addRetry", poster.job, poster.stalls, poster.attemptCount, poster.caught)
  /\ UNCHANGED << hookJobs, severed >> /\ UnchangedByPoster

ScheduleRetry ==
  /\ poster.pc = "retry"
  /\ IF poster.attemptCount + 1 >= MaxAttempts
       THEN UpdateDelivery("ABANDONED") /\ poster' = IdlePoster
       ELSE UpdateDelivery("FAILED") /\ Go("addRetry", poster.caught)
  /\ UNCHANGED << hookJobs, severed >> /\ UnchangedByPoster

AddRetry ==
  /\ poster.pc = "addRetry"
  /\ AddJob(Posting, 0)
  /\ poster' = IdlePoster
  /\ UNCHANGED << delivery, severed >> /\ UnchangedByPoster

\* A fault of the update or add in the try block, also of the one after a 2xx, is
\* caught and retried; one in the catch block fails the job.
DeliverFails ==
  /\ HookFaults /\ poster.pc # "idle"
  /\ IF poster.pc \in {"delivered", "retry", "addRetry"} /\ ~poster.caught
       THEN Go("retry", TRUE) /\ UNCHANGED severed
       ELSE poster' = IdlePoster /\ severed' = severed \cup {Posting}
  /\ UNCHANGED << delivery, hookJobs >> /\ UnchangedByPoster

-----------------------------------------------------------------------------

\* The listeners' state is lost; the stalled job is put back, MaxHookStalls times.
HookCrash ==
  /\ hookCrashes < MaxHookCrashes /\ hookCrashes' = hookCrashes + 1
  /\ edit' = [pc |-> "idle"]
  /\ listener' = [v \in AppEvents |-> IdleListener]
  /\ poster' = IdlePoster
  /\ LET cut   == UNION {Cut(v) : v \in {w \in AppEvents : listener[w].pc # "idle"}}
         again == poster.pc # "idle" /\ poster.stalls < MaxHookStalls
     IN /\ severed' = severed \cup cut \cup (IF again THEN {} ELSE poster.job)
        /\ IF again THEN AddJob(Posting, poster.stalls + 1) ELSE UNCHANGED hookJobs
  /\ UNCHANGED << endpoint, delivery, events, edits, subscribed >>

ListenerStep(v) == FindSubscribers(v) \/ SaveDelivery(v) \/ AddDelivery(v) \/ EndDispatch(v)
PosterStep == TakeDelivery \/ ReadDelivery \/ Post \/ MarkDelivered \/ ScheduleRetry \/ AddRetry

HooksNext ==
  \/ WebhooksController \/ Emit
  \/ \E v \in AppEvents : ListenerStep(v) \/ ListenerFails(v)
  \/ PosterStep \/ DeliverFails \/ HookCrash

HooksSpec ==
  /\ HooksInit /\ [][HooksNext]_hookVars
  /\ \A v \in AppEvents : WF_hookVars(ListenerStep(v))
  /\ WF_hookVars(PosterStep)
-----------------------------------------------------------------------------
(* Properties. *)

\* Every variable keeps its type.
HooksTypeOK ==
  /\ endpoint \in [Endpoints -> Endpoint]
  /\ edit.pc \in {"idle", "update", "remove"}
  /\ delivery \in [Deliveries -> Delivery]
  /\ \A v \in AppEvents : /\ listener[v].pc \in {"idle", "find", "dispatch"}
                          /\ listener[v].todo \subseteq Endpoints
                          /\ listener[v].add \subseteq Endpoints
  /\ hookJobs \in [Jobs -> Nat]
  /\ poster.pc \in {"idle", "read", "post", "delivered", "retry", "addRetry"}
  /\ poster.pc # "idle" => poster.job \in {{d} : d \in Deliveries}
  /\ subscribed \in [AppEvents -> SUBSET Endpoints]

\* "subscribe to platform events and receive real-time HTTP POST notifications":
\* an event that was handled has a delivery for every endpoint that subscribed
\* when it came and ever since, unless a fault or a crash cut the handling off.
ReachesAll(v) == listener[v].pc = "idle" /\ <<v>> \notin severed =>
                \A e \in subscribed[v] : delivery[<<v, e>>].exists
EventsReachSubscribers == \A v \in 1..events : ReachesAll(v)

\* A delivery ends DELIVERED or ABANDONED, or with its endpoint: only a crash or
\* a fault between saving it and adding its job leaves it PENDING or FAILED.
DeliveriesSettle ==
  \A d \in Deliveries :
    delivery[d].exists
      ~> \/ ~delivery[d].exists \/ d \in severed
         \/ delivery[d].status \in {"DELIVERED", "ABANDONED"}
-----------------------------------------------------------------------------
(* What every reachable state satisfies: why an event reaches its subscribers,  *)
(* and why a delivery is not posted once it is settled.                          *)

\* A delivery is worked on while it has a job: in the queue, or with the poster.
Queued(d) == \E s \in 0..MaxHookStalls : hookJobs[<<d, s>>] > 0
InWork(d) == Queued(d) \/ d \in poster.job

\* The row of the request is the row of the table: requests come one at a time.
EditIsFresh ==
  edit.pc # "idle" =>
    /\ edit.e \in Endpoints /\ edit.copy = endpoint[edit.e] /\ edit.copy.state = "live"

\* A row that is not made yet is not active.
NewIsInactive == \A e \in Endpoints : endpoint[e].state = "new" => ~endpoint[e].isActive

\* The poster has a job, whose next attempt is within the limit.
PosterHolds ==
  /\ poster \in [pc : {"idle", "read", "post", "delivered", "retry", "addRetry"},
                 job : {{}} \cup {{d} : d \in Deliveries}, stalls : 0..MaxHookStalls,
                 attemptCount : Nat, caught : BOOLEAN]
  /\ poster.pc = "idle" <=> poster.job = {}
  /\ poster.pc \in {"post", "delivered", "retry"} => poster.attemptCount < MaxAttempts
  /\ poster.pc = "addRetry" => poster.attemptCount + 1 < MaxAttempts

\* A delivery has one job at most; a settled one has none, and its attempts are used.
OneJob ==
  \A d \in Deliveries :
    /\ \A s \in 0..MaxHookStalls : hookJobs[<<d, s>>] \in {0, 1}
    /\ \A s, t \in 0..MaxHookStalls : hookJobs[<<d, s>>] = 1 /\ hookJobs[<<d, t>>] = 1 => s = t
    /\ d \in poster.job => ~Queued(d)
    /\ InWork(d) => delivery[d].attemptCount < MaxAttempts

SettledIsDone ==
  \A d \in Deliveries : delivery[d].status \in {"DELIVERED", "ABANDONED"} => ~InWork(d)

\* What an event has not got to yet has neither row nor job; what it has saved and
\* not yet added has no job.
NotYet(v, e) ==
  v > events \/ listener[v].pc = "find" \/ (listener[v].pc = "dispatch" /\ e \in listener[v].todo)
UntouchedBy(v) ==
  /\ v > events => listener[v] = IdleListener /\ subscribed[v] = {}
  /\ listener[v].pc # "dispatch" => listener[v].todo = {} /\ listener[v].add = {}
  /\ listener[v].todo \cap listener[v].add = {}
  /\ \A e \in Endpoints :
       /\ NotYet(v, e) => delivery[<<v, e>>] = NoDelivery /\ ~InWork(<<v, e>>)
       /\ e \in listener[v].add => delivery[<<v, e>>].status = "PENDING"
                                /\ delivery[<<v, e>>].attemptCount = 0 /\ ~InWork(<<v, e>>)
Untouched == \A v \in AppEvents : UntouchedBy(v)

\* An endpoint that subscribed ever since an event came still does; the event has a
\* delivery for it, or will come to it, or was cut off.
Served(v) ==
  /\ subscribed[v] \subseteq Subscribers
  /\ v \in Tagged /\ v <= events /\ <<v>> \notin severed /\ listener[v].pc # "find" =>
       \A e \in subscribed[v] : delivery[<<v, e>>].exists \/ e \in listener[v].todo
SubscribersServed == \A v \in AppEvents : Served(v)

HooksInvariant ==
  /\ HooksTypeOK /\ listener \in [AppEvents -> Listener]
  /\ events \in 0..MaxEvents
  /\ NewIsInactive /\ EditIsFresh /\ PosterHolds /\ OneJob /\ SettledIsDone /\ Untouched /\ SubscribersServed
=============================================================================
