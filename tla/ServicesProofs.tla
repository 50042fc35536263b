--------------------------- MODULE ServicesProofs ---------------------------
(***************************************************************************)
(* Proofs about the webhooks, the plan's quota and counters and the        *)
(* instances of a session, for every value of their constants, and about   *)
(* all of the services side by side, those of ContactsProofs and           *)
(* DashboardProofs included.                                               *)
(***************************************************************************)
EXTENDS MCServices, ContactsProofs, DashboardProofs

-----------------------------------------------------------------------------
(* Webhooks. *)

\* Events and endpoints make the deliveries, deliveries and stalls the jobs.
LEMMA DeliveryOf == \A v \in AppEvents, e \in Endpoints : <<v, e>> \in Deliveries
BY DEF Deliveries

\* A delivery and a number of stalls make a job.
LEMMA JobOf == \A d \in Deliveries, s \in 0..MaxHookStalls : <<d, s>> \in Jobs
BY DEF Jobs

\* A job is one delivery, with a number of stalls.
LEMMA PartsOfJob ==
  \A j \in Jobs : j = <<j[1], j[2]>> /\ j[1] \in Deliveries /\ j[2] \in 0..MaxHookStalls
BY DEF Jobs

\* A delivery is of one event to one endpoint.
LEMMA PartsOfDelivery ==
  \A d \in Deliveries : d = <<d[1], d[2]>> /\ d[1] \in AppEvents /\ d[2] \in Endpoints
BY DEF Deliveries

\* While the poster works, its job is of one delivery.
LEMMA PostingIsTheJob ==
  ASSUME PosterHolds, poster.pc # "idle"
  PROVE  Posting \in Deliveries /\ poster.job = {Posting}
<1>1. PICK d \in Deliveries : poster.job = {d}
  BY DEF PosterHolds
<1> QED BY <1>1 DEF Posting

\* Without jobs, no delivery is worked on.
LEMMA NoJobNoWork ==
  ASSUME WebhookBounds, \A j \in Jobs : hookJobs[j] = 0, poster.job = {}
  PROVE  \A d \in Deliveries : ~InWork(d)
<1>1. \A d \in Deliveries, s \in 0..MaxHookStalls : hookJobs[<<d, s>>] = 0
  BY JobOf
<1>2. \A d \in Deliveries : ~Queued(d)
  <2> SUFFICES ASSUME NEW d \in Deliveries, NEW s \in 0..MaxHookStalls
               PROVE  ~(hookJobs[<<d, s>>] > 0)
    BY DEF Queued
  <2> QED BY <1>1
<1> QED BY <1>2 DEF InWork

\* The initial states satisfy the invariant.
LEMMA HooksStart == WebhookBounds /\ HooksInit => HooksInvariant
<1> SUFFICES ASSUME WebhookBounds, HooksInit PROVE HooksInvariant
  OBVIOUS
<1> USE DEF WebhookBounds, HooksInit
<1>1. endpoint \in [Endpoints -> Endpoint]
  BY DEF Endpoint, NoEndpoint
<1>2. delivery \in [Deliveries -> Delivery]
  BY DEF Delivery, NoDelivery, DeliveryStatus
<1>3. listener \in [AppEvents -> Listener]
  BY DEF Listener, IdleListener, ListenerAt
<1>4. hookJobs \in [Jobs -> Nat] /\ subscribed \in [AppEvents -> SUBSET Endpoints]
  OBVIOUS
<1>5. HooksTypeOK
  BY <1>1, <1>2, <1>3, <1>4 DEF HooksTypeOK, IdlePoster, Working, Listener
<1>6. PosterHolds
  BY DEF PosterHolds, IdlePoster, Working
<1>7. EditIsFresh
  BY DEF EditIsFresh
<1>8. \A d \in Deliveries : ~InWork(d)
  <2>1. \A j \in Jobs : hookJobs[j] = 0
    OBVIOUS
  <2>2. poster.job = {}
    BY DEF IdlePoster, Working
  <2> QED BY <2>1, <2>2, NoJobNoWork
<1>9. OneJob
  <2>1. \A d \in Deliveries : \A s \in 0..MaxHookStalls : hookJobs[<<d, s>>] = 0
    BY JobOf
  <2> QED BY <2>1, <1>8 DEF OneJob, InWork
<1>10. SettledIsDone
  BY <1>8 DEF SettledIsDone
<1>11. Untouched
  BY <1>8, DeliveryOf DEF Untouched, UntouchedBy, NotYet, IdleListener, ListenerAt
<1>12. SubscribersServed
  <2>1. \A v \in AppEvents : subscribed[v] = {}
    OBVIOUS
  <2> QED BY <2>1 DEF SubscribersServed, Served
<1>13. NewIsInactive
  BY DEF NewIsInactive, NoEndpoint
<1> QED BY <1>3, <1>5, <1>6, <1>7, <1>9, <1>10, <1>11, <1>12, <1>13 DEF HooksInvariant

\* What no request on endpoints touches keeps its part of the invariant.
LEMMA EndpointsKeep ==
  ASSUME WebhookBounds, HooksInvariant, WebhooksController
  PROVE  HooksInvariant'
<1> USE DEF WebhookBounds, HooksInvariant
<1>1. CASE CreateEndpoint
  <2> USE <1>1 DEF CreateEndpoint
  <2>1. HooksTypeOK' /\ listener' \in [AppEvents -> Listener] /\ (events \in 0..MaxEvents)'
    BY DEF HooksTypeOK, Endpoint
  <2>2. EditIsFresh' /\ PosterHolds'
    BY DEF EditIsFresh, PosterHolds
  <2>3. OneJob' /\ SettledIsDone' /\ Untouched'
    BY ZenonT(40) DEF OneJob, SettledIsDone, Untouched, UntouchedBy, InWork, Queued, NotYet
  <2>4. Subscribers \subseteq Subscribers'
    <3>1. PICK e \in Endpoints, s \in BOOLEAN :
            /\ endpoint[e].state = "new"
            /\ endpoint' = [endpoint EXCEPT ![e] =
                 [state |-> "live", isActive |-> TRUE, subscribes |-> s]]
      OBVIOUS
    <3>2. ~endpoint[e].isActive
      BY <3>1 DEF NewIsInactive
    <3> QED BY <3>1, <3>2 DEF Subscribers, HooksTypeOK
  <2>5. SubscribersServed'
    <3>1. \A v \in AppEvents : subscribed[v] \subseteq Subscribers'
      BY <2>4 DEF SubscribersServed, Served
    <3> QED BY <3>1 DEF SubscribersServed, Served
  <2>6. NewIsInactive'
    BY DEF NewIsInactive, HooksTypeOK
  <2> QED BY <2>1, <2>2, <2>3, <2>5, <2>6
<1>2. CASE FindEndpoint
  <2> USE <1>2 DEF FindEndpoint
  <2>1. HooksTypeOK' /\ listener' \in [AppEvents -> Listener] /\ (events \in 0..MaxEvents)'
    BY DEF HooksTypeOK
  <2>2. EditIsFresh' /\ PosterHolds'
    BY DEF EditIsFresh, PosterHolds
  <2>3. OneJob' /\ SettledIsDone' /\ Untouched'
    BY ZenonT(40) DEF OneJob, SettledIsDone, Untouched, UntouchedBy, InWork, Queued, NotYet
  <2>4. Subscribers' = Subscribers
    BY DEF Subscribers
  <2>5. SubscribersServed'
    BY <2>4 DEF SubscribersServed, Served
  <2>6. NewIsInactive'
    BY DEF NewIsInactive
  <2> QED BY <2>1, <2>2, <2>3, <2>5, <2>6
<1>3. CASE SaveEndpoint
  <2> USE <1>3 DEF SaveEndpoint
  <2>1. edit.e \in Endpoints /\ edit.copy = endpoint[edit.e] /\ edit.copy.state = "live"
    BY DEF EditIsFresh
  <2>2. endpoint' \in [Endpoints -> Endpoint]
    <3>1. CASE edit.pc = "update"
      <4>1. PICK on, s \in BOOLEAN : endpoint' = [endpoint EXCEPT ![edit.e] =
              [state |-> edit.copy.state, isActive |-> on, subscribes |-> s]]
        BY <3>1
      <4> QED BY <2>1, <4>1 DEF HooksTypeOK, Endpoint
    <3>2. CASE edit.pc = "remove"
      <4>1. endpoint' = [endpoint EXCEPT ![edit.e] =
              [state |-> "removed", isActive |-> FALSE, subscribes |-> FALSE]]
        BY <3>2
      <4> QED BY <2>1, <4>1 DEF HooksTypeOK, Endpoint
    <3> QED BY <3>1, <3>2 DEF HooksTypeOK
  <2>3. /\ delivery' \in [Deliveries -> Delivery]
        /\ \A d \in Deliveries : delivery'[d] \in {delivery[d], NoDelivery}
        /\ \A d \in Deliveries : d[2] # edit.e \/ edit.pc = "update" => delivery'[d] = delivery[d]
    <3>1. NoDelivery \in Delivery
      BY DEF Delivery, NoDelivery, DeliveryStatus
    <3>2. CASE edit.pc = "update"
      BY <3>2 DEF HooksTypeOK
    <3>3. CASE edit.pc = "remove"
      BY <3>1, <3>3 DEF HooksTypeOK
    <3> QED BY <3>2, <3>3 DEF HooksTypeOK
  <2>4. subscribed' \in [AppEvents -> SUBSET Endpoints]
    BY DEF HooksTypeOK
  <2>5. HooksTypeOK' /\ listener' \in [AppEvents -> Listener] /\ (events \in 0..MaxEvents)'
    BY <2>2, <2>3, <2>4 DEF HooksTypeOK
  <2>6. EditIsFresh' /\ PosterHolds'
    BY DEF EditIsFresh, PosterHolds
  <2>7. \A d \in Deliveries : InWork(d)' = InWork(d) /\ Queued(d)' = Queued(d)
    BY DEF InWork, Queued
  <2>8. OneJob'
    BY <2>3, <2>7 DEF OneJob, NoDelivery
  <2>9. SettledIsDone'
    BY <2>3, <2>7 DEF SettledIsDone, NoDelivery
  <2>10. \A v \in AppEvents : v > events => subscribed'[v] = {}
    BY DEF Untouched, UntouchedBy
  <2>11. Untouched'
    <3>1. \A v \in AppEvents, e \in Endpoints :
            /\ NotYet(v, e)' <=> NotYet(v, e)
            /\ delivery'[<<v, e>>] \in {delivery[<<v, e>>], NoDelivery}
            /\ InWork(<<v, e>>)' <=> InWork(<<v, e>>)
      BY <2>3, <2>7, DeliveryOf DEF NotYet
    <3> QED BY <2>10, <3>1 DEF Untouched, UntouchedBy, NoDelivery
  <2>12. ASSUME edit.pc = "remove" PROVE edit.e \notin Subscribers'
    BY <2>1, <2>12 DEF Subscribers, HooksTypeOK
  <2>13. \A v \in AppEvents : subscribed'[v] \subseteq subscribed[v] /\ subscribed'[v] \subseteq Subscribers'
    OBVIOUS
  <2>14. \A v \in AppEvents, e \in Endpoints :
           e \in subscribed'[v] => e \in subscribed[v] /\ delivery'[<<v, e>>] = delivery[<<v, e>>]
    <3> SUFFICES ASSUME NEW v \in AppEvents, NEW e \in Endpoints, e \in subscribed'[v]
                 PROVE  e \in subscribed[v] /\ delivery'[<<v, e>>] = delivery[<<v, e>>]
      OBVIOUS
    <3>1. edit.pc = "update" \/ e # edit.e
      BY <2>12, <2>13
    <3> QED BY <2>3, <2>13, <3>1, DeliveryOf
  <2>15. SubscribersServed'
    <3> SUFFICES ASSUME NEW v \in AppEvents, v \in Tagged, v <= events, <<v>> \notin severed,
                        listener[v].pc # "find", NEW e \in subscribed'[v]
                 PROVE  delivery'[<<v, e>>].exists \/ e \in listener[v].todo
      BY <2>13 DEF SubscribersServed, Served
    <3>1. e \in Endpoints
      BY <2>4
    <3>2. e \in subscribed[v] /\ delivery'[<<v, e>>] = delivery[<<v, e>>]
      BY <2>14, <3>1
    <3> QED BY <3>2 DEF SubscribersServed, Served
  <2>16. NewIsInactive'
    <3>1. \A e \in Endpoints : e # edit.e => endpoint'[e] = endpoint[e]
      BY DEF HooksTypeOK
    <3>2. endpoint'[edit.e].state # "new"
      <4>1. CASE edit.pc = "update"
        <5>1. PICK on, s \in BOOLEAN : endpoint' = [endpoint EXCEPT ![edit.e] =
                [state |-> edit.copy.state, isActive |-> on, subscribes |-> s]]
          BY <4>1
        <5> QED BY <2>1, <5>1 DEF HooksTypeOK
      <4>2. CASE edit.pc = "remove"
        BY <2>1, <4>2 DEF HooksTypeOK
      <4> QED BY <4>1, <4>2
    <3> QED BY <3>1, <3>2 DEF NewIsInactive
  <2> QED BY <2>5, <2>6, <2>8, <2>9, <2>11, <2>15, <2>16
<1> QED BY <1>1, <1>2, <1>3 DEF WebhooksController

\* The work on deliveries depends on the queue and the poster's job.
LEMMA SameJobsSameWork ==
  ASSUME hookJobs' = hookJobs, poster' = poster
  PROVE  \A d : (Queued(d)' <=> Queued(d)) /\ (InWork(d)' <=> InWork(d))
BY DEF InWork, Queued

\* An application event keeps the invariant.
LEMMA EmitKeeps ==
  ASSUME WebhookBounds, HooksInvariant, Emit
  PROVE  HooksInvariant'
<1> USE DEF HooksInvariant
<1> DEFINE n == events + 1
<1>1. n \in AppEvents /\ events' \in 0..MaxEvents
  BY DEF AppEvents, Emit, WebhookBounds
<1>2. /\ listener' = [listener EXCEPT ![n] = ListenerAt("find", {}, {})]
      /\ subscribed' = [subscribed EXCEPT ![n] = Subscribers]
      /\ UNCHANGED << endpoint, edit, delivery, hookJobs, poster, severed >>
  BY DEF Emit
<1>3. \A v \in AppEvents : /\ v > events' => v > events /\ v # n
                           /\ v <= events' => v <= events \/ v = n
                           /\ v = n => v <= events' /\ v > events
  BY DEF AppEvents, Emit, WebhookBounds
<1>4. n \in Int /\ events \in Int /\ events' \in Int /\ AppEvents \subseteq Int /\ MaxEvents \in Nat
  BY <1>1 DEF AppEvents, WebhookBounds
<1> HIDE DEF n
<1>5. /\ listener'[n] = ListenerAt("find", {}, {}) /\ subscribed'[n] = Subscribers
      /\ \A v \in AppEvents : v # n => listener'[v] = listener[v] /\ subscribed'[v] = subscribed[v]
      /\ listener' \in [AppEvents -> Listener] /\ subscribed' \in [AppEvents -> SUBSET Endpoints]
  <2>1. ListenerAt("find", {}, {}) \in Listener /\ Subscribers \in SUBSET Endpoints
    BY DEF ListenerAt, Listener, Subscribers
  <2> QED BY <1>1, <1>2, <2>1 DEF HooksTypeOK
<1>6. HooksTypeOK'
  BY <1>2, <1>5 DEF HooksTypeOK, Listener
<1>7. NewIsInactive' /\ EditIsFresh' /\ PosterHolds'
  BY <1>2 DEF NewIsInactive, EditIsFresh, PosterHolds
<1>8. OneJob' /\ SettledIsDone'
  BY <1>2, SameJobsSameWork DEF OneJob, SettledIsDone
<1>9. \A e \in Endpoints : NotYet(n, e)
  BY <1>1, <1>3, <1>4 DEF NotYet
<1>10. ASSUME NEW v \in AppEvents
       PROVE  /\ v > events' => listener'[v] = IdleListener /\ subscribed'[v] = {}
              /\ listener'[v].pc # "dispatch" => listener'[v].todo = {} /\ listener'[v].add = {}
              /\ listener'[v].todo \cap listener'[v].add = {}
              /\ \A e \in Endpoints :
                   /\ NotYet(v, e)' => delivery'[<<v, e>>] = NoDelivery /\ ~InWork(<<v, e>>)'
                   /\ e \in listener'[v].add =>
                        /\ delivery'[<<v, e>>].status = "PENDING"
                        /\ delivery'[<<v, e>>].attemptCount = 0 /\ ~InWork(<<v, e>>)'
  <2>1. CASE v = n
    BY <1>1, <1>2, <1>4, <1>5, <1>9, <1>3, <2>1, SameJobsSameWork DEF Untouched, UntouchedBy, ListenerAt
  <2>2. CASE v # n
    <3>1. \A e \in Endpoints : NotYet(v, e)' => NotYet(v, e)
      BY <1>3, <1>4, <1>5, <2>2 DEF NotYet
    <3> QED BY <1>2, <1>3, <1>4, <1>5, <2>2, <3>1, SameJobsSameWork DEF Untouched, UntouchedBy
  <2> QED BY <2>1, <2>2
<1>11. Untouched'
  BY <1>10 DEF Untouched, UntouchedBy
<1>12. Subscribers' = Subscribers
  BY <1>2 DEF Subscribers
<1>13. ASSUME NEW v \in AppEvents
       PROVE  /\ subscribed'[v] \subseteq Subscribers
              /\ v \in Tagged /\ v <= events' /\ <<v>> \notin severed /\ listener'[v].pc # "find" =>
                   \A e \in subscribed'[v] : delivery[<<v, e>>].exists \/ e \in listener'[v].todo
  <2>1. CASE v = n
    BY <1>5, <2>1 DEF ListenerAt
  <2>2. CASE v # n
    BY <1>3, <1>4, <1>5, <2>2 DEF SubscribersServed, Served
  <2> QED BY <2>1, <2>2
<1>14. SubscribersServed'
  BY <1>2, <1>12, <1>13 DEF SubscribersServed, Served
<1> QED BY <1>1, <1>5, <1>6, <1>7, <1>8, <1>11, <1>14

\* A step of the poster changes only what is in work, and takes nothing new: it keeps
\* the invariant when it keeps what the poster holds and the deliveries' jobs.
LEMMA PosterStepKeeps ==
  ASSUME WebhookBounds, HooksInvariant, UnchangedByPoster, severed \subseteq severed',
         hookJobs' \in [Jobs -> Nat], delivery' \in [Deliveries -> Delivery],
         \A d \in Deliveries : delivery'[d].exists = delivery[d].exists,
         \A d \in Deliveries : InWork(d)' => InWork(d),
         \A d \in Deliveries : ~InWork(d) => delivery'[d] = delivery[d],
         PosterHolds', OneJob', SettledIsDone'
  PROVE  HooksInvariant'
<1> USE DEF HooksInvariant, UnchangedByPoster
<1>1. HooksTypeOK' /\ (listener \in [AppEvents -> Listener])' /\ (events \in 0..MaxEvents)'
  BY DEF HooksTypeOK, PosterHolds
<1>2. NewIsInactive' /\ EditIsFresh'
  BY DEF NewIsInactive, EditIsFresh
<1>3. ASSUME NEW v \in AppEvents, NEW e \in Endpoints
      PROVE  /\ NotYet(v, e)' <=> NotYet(v, e)
             /\ InWork(<<v, e>>)' => InWork(<<v, e>>)
             /\ ~InWork(<<v, e>>) => delivery'[<<v, e>>] = delivery[<<v, e>>]
             /\ delivery'[<<v, e>>].exists = delivery[<<v, e>>].exists
  BY DeliveryOf DEF NotYet
<1>4. Untouched'
  BY <1>3 DEF Untouched, UntouchedBy
<1>5. Subscribers' = Subscribers /\ Subscribers \subseteq Endpoints
  BY DEF Subscribers
<1>6. SubscribersServed'
  <2> SUFFICES ASSUME NEW v \in AppEvents
               PROVE  /\ subscribed[v] \subseteq Subscribers
                      /\ v \in Tagged /\ v <= events /\ <<v>> \notin severed'
                         /\ listener[v].pc # "find" =>
                           \A e \in subscribed[v] : delivery'[<<v, e>>].exists \/ e \in listener[v].todo
    BY <1>5 DEF SubscribersServed, Served
  <2>1. subscribed[v] \subseteq Subscribers
    BY DEF SubscribersServed, Served
  <2> QED BY <1>3, <1>5, <2>1 DEF SubscribersServed, Served
<1> QED BY <1>1, <1>2, <1>4, <1>6

\* What the poster does with a delivery that it holds, when the queue stays.
LEMMA PosterWorks ==
  ASSUME WebhookBounds, HooksInvariant, UnchangedByPoster, UNCHANGED << hookJobs, severed >>,
         poster.pc # "idle", PosterHolds', poster'.job \subseteq poster.job,
         \/ UNCHANGED delivery
         \/ \E s \in DeliveryStatus, n \in 0..MaxAttempts :
              /\ delivery[Posting].exists
              /\ delivery' = [delivery EXCEPT ![Posting] =
                                [exists |-> TRUE, status |-> s, attemptCount |-> n]]
              /\ poster'.job = {} \/ (s \notin {"DELIVERED", "ABANDONED"} /\ n < MaxAttempts)
  PROVE  HooksInvariant'
<1> USE DEF HooksInvariant
<1>1. Posting \in Deliveries /\ poster.job = {Posting}
  BY PostingIsTheJob
<1>2. \A d : Queued(d)' <=> Queued(d)
  BY DEF Queued
<1>3. \A d : InWork(d)' => InWork(d)
  BY <1>2 DEF InWork
<1>4. \A d : d \in poster'.job => d = Posting
  BY <1>1
<1>5. ~Queued(Posting)
  BY <1>1 DEF OneJob
<1> DEFINE OneRow ==
      /\ delivery' \in [Deliveries -> Delivery]
      /\ \A d \in Deliveries : delivery'[d].exists = delivery[d].exists
      /\ \A d \in Deliveries : d # Posting => delivery'[d] = delivery[d]
      /\ delivery'[Posting] # delivery[Posting] =>
           \/ poster'.job = {}
           \/ /\ delivery'[Posting].status \notin {"DELIVERED", "ABANDONED"}
              /\ delivery'[Posting].attemptCount < MaxAttempts
<1>6. OneRow
  <2>1. CASE UNCHANGED delivery
    BY <2>1 DEF HooksTypeOK
  <2>2. ASSUME NEW s \in DeliveryStatus, NEW n \in 0..MaxAttempts,
               delivery[Posting].exists,
               delivery' = [delivery EXCEPT ![Posting] =
                              [exists |-> TRUE, status |-> s, attemptCount |-> n]],
               poster'.job = {} \/ (s \notin {"DELIVERED", "ABANDONED"} /\ n < MaxAttempts)
        PROVE  OneRow
    <3>1. [exists |-> TRUE, status |-> s, attemptCount |-> n] \in Delivery
      BY DEF Delivery
    <3>2. delivery[Posting].exists = TRUE
      BY <1>1, <2>2 DEF HooksTypeOK, Delivery
    <3> QED BY <1>1, <2>2, <3>1, <3>2 DEF HooksTypeOK
  <2> QED BY <2>1, <2>2
<1>7. ASSUME NEW d \in Deliveries, InWork(d)'
      PROVE  /\ delivery'[d].attemptCount < MaxAttempts
             /\ delivery'[d].status \notin {"DELIVERED", "ABANDONED"}
  <2>1. InWork(d)
    BY <1>3, <1>7
  <2>2. delivery[d].attemptCount < MaxAttempts /\ delivery[d].status \notin {"DELIVERED", "ABANDONED"}
    BY <2>1 DEF OneJob, SettledIsDone
  <2>3. CASE d # Posting
    BY <1>6, <2>2, <2>3
  <2>4. CASE d = Posting
    BY <1>2, <1>5, <1>6, <1>7, <2>2, <2>4 DEF InWork
  <2> QED BY <2>3, <2>4
<1>8. \A d \in Deliveries : ~InWork(d) => delivery'[d] = delivery[d]
  BY <1>1, <1>6 DEF InWork
<1>9. hookJobs' \in [Jobs -> Nat]
  BY DEF HooksTypeOK
<1>10. OneJob'
  BY <1>1, <1>2, <1>4, <1>7 DEF OneJob
<1>11. SettledIsDone'
  BY <1>7 DEF SettledIsDone
<1> QED BY <1>3, <1>6, <1>8, <1>9, <1>10, <1>11, PosterStepKeeps

\* The fields of what the poster becomes.
LEMMA PosterFields ==
  \A pc, job, stalls, n, caught :
    LET p == Working(pc, job, stalls, n, caught) IN
    /\ p.pc = pc /\ p.job = job /\ p.stalls = stalls /\ p.attemptCount = n /\ p.caught = caught
    /\ p = [pc |-> pc, job |-> job, stalls |-> stalls, attemptCount |-> n, caught |-> caught]
BY DEF Working

\* Taking a job moves it from the queue to the poster.
LEMMA TakeKeeps ==
  ASSUME WebhookBounds, HooksInvariant, TakeDelivery
  PROVE  HooksInvariant'
<1> USE DEF HooksInvariant
<1>1. PICK j \in Jobs :
        /\ hookJobs[j] > 0 /\ hookJobs' = [hookJobs EXCEPT ![j] = hookJobs[j] - 1]
        /\ poster' = Working("read", {j[1]}, j[2], 0, FALSE)
        /\ UNCHANGED << delivery, severed >> /\ UnchangedByPoster /\ poster.pc = "idle"
  BY DEF TakeDelivery
<1>2. PICK d \in Deliveries, s \in 0..MaxHookStalls : j = <<d, s>> /\ j[1] = d /\ j[2] = s
  BY PartsOfJob
<1>3. hookJobs[<<d, s>>] = 1
  BY <1>1, <1>2 DEF OneJob
<1>4. hookJobs' = [hookJobs EXCEPT ![<<d, s>>] = 0]
  BY <1>1, <1>2, <1>3
<1>5. /\ poster'.pc = "read" /\ poster'.job = {d}
      /\ poster' = [pc |-> "read", job |-> {d}, stalls |-> s, attemptCount |-> 0, caught |-> FALSE]
  BY <1>1, <1>2, PosterFields
<1>6. poster.job = {}
  BY <1>1 DEF PosterHolds
<1>7. PosterHolds'
  BY <1>2, <1>5 DEF PosterHolds
<1>8. ASSUME NEW x \in Deliveries, NEW t \in 0..MaxHookStalls
      PROVE  hookJobs'[<<x, t>>] = IF x = d /\ t = s THEN 0 ELSE hookJobs[<<x, t>>]
  BY <1>2, <1>4, JobOf DEF HooksTypeOK
<1>9. ASSUME NEW x \in Deliveries
      PROVE  /\ x # d => (Queued(x)' <=> Queued(x))
             /\ ~Queued(d)' /\ Queued(d)
  <2>1. x # d => (Queued(x)' <=> Queued(x))
    BY <1>8 DEF Queued
  <2>2. ASSUME NEW t \in 0..MaxHookStalls PROVE ~(hookJobs'[<<d, t>>] > 0)
    <3>1. hookJobs[<<d, t>>] \in {0, 1} /\ (hookJobs[<<d, t>>] = 1 => t = s)
      BY <1>3 DEF OneJob
    <3> QED BY <1>8, <3>1
  <2>3. ~Queued(d)'
    BY <2>2 DEF Queued
  <2>4. Queued(d)
    BY <1>3 DEF Queued
  <2> QED BY <2>1, <2>3, <2>4
<1>10. \A x \in Deliveries : InWork(x)' <=> InWork(x)
  BY <1>5, <1>6, <1>9 DEF InWork
<1>11. OneJob'
  <2> SUFFICES ASSUME NEW x \in Deliveries
               PROVE  /\ \A t \in 0..MaxHookStalls : hookJobs'[<<x, t>>] \in {0, 1}
                      /\ \A t, u \in 0..MaxHookStalls :
                           hookJobs'[<<x, t>>] = 1 /\ hookJobs'[<<x, u>>] = 1 => t = u
                      /\ x \in poster'.job => ~Queued(x)'
                      /\ InWork(x)' => delivery'[x].attemptCount < MaxAttempts
    BY DEF OneJob
  <2>1. \A t \in 0..MaxHookStalls : hookJobs'[<<x, t>>] \in {0, 1}
    BY <1>8 DEF OneJob
  <2>2. \A t, u \in 0..MaxHookStalls :
           hookJobs'[<<x, t>>] = 1 /\ hookJobs'[<<x, u>>] = 1 => t = u
    BY <1>8 DEF OneJob
  <2>3. x \in poster'.job => ~Queued(x)'
    BY <1>5, <1>9
  <2>4. InWork(x)' => delivery'[x].attemptCount < MaxAttempts
    BY <1>1, <1>10 DEF OneJob
  <2> QED BY <2>1, <2>2, <2>3, <2>4
<1>12. SettledIsDone'
  BY <1>1, <1>10 DEF SettledIsDone
<1>13. hookJobs' \in [Jobs -> Nat] /\ delivery' \in [Deliveries -> Delivery]
  BY <1>1, <1>4 DEF HooksTypeOK
<1> QED BY <1>1, <1>7, <1>10, <1>11, <1>12, <1>13, PosterStepKeeps

\* AddJob adds one to the jobs of a delivery that had none in the queue.
LEMMA AddedJob ==
  ASSUME WebhookBounds, HooksInvariant, NEW d \in Deliveries, NEW s \in 0..MaxHookStalls,
         ~Queued(d), AddJob(d, s)
  PROVE  /\ hookJobs' \in [Jobs -> Nat]
         /\ \A x \in Deliveries : Queued(x)' <=> Queued(x) \/ x = d
         /\ \A x \in Deliveries : \A t \in 0..MaxHookStalls : hookJobs'[<<x, t>>] \in {0, 1}
         /\ \A x \in Deliveries : \A t, u \in 0..MaxHookStalls :
              hookJobs'[<<x, t>>] = 1 /\ hookJobs'[<<x, u>>] = 1 => t = u
<1> USE DEF HooksInvariant
<1>1. \A t \in 0..MaxHookStalls : hookJobs[<<d, t>>] = 0
  <2> SUFFICES ASSUME NEW t \in 0..MaxHookStalls PROVE hookJobs[<<d, t>>] = 0
    OBVIOUS
  <2>1. hookJobs[<<d, t>>] \in {0, 1} /\ ~(hookJobs[<<d, t>>] > 0)
    BY DEF OneJob, Queued
  <2> QED BY <2>1
<1>2. hookJobs[<<d, s>>] = 0
  BY <1>1
<1>3. hookJobs' = [hookJobs EXCEPT ![<<d, s>>] = 1]
  BY <1>2 DEF AddJob
<1>4. ASSUME NEW x \in Deliveries, NEW t \in 0..MaxHookStalls
      PROVE  hookJobs'[<<x, t>>] = IF x = d /\ t = s THEN 1 ELSE hookJobs[<<x, t>>]
  BY <1>3, JobOf DEF HooksTypeOK
<1>5. hookJobs' \in [Jobs -> Nat]
  BY <1>3 DEF HooksTypeOK
<1>6. ASSUME NEW x \in Deliveries PROVE Queued(x)' <=> Queued(x) \/ x = d
  <2>1. CASE x = d
    <3>1. hookJobs'[<<d, s>>] = 1
      BY <1>4
    <3>2. Queued(d)'
      BY <3>1 DEF Queued
    <3> QED BY <2>1, <3>2
  <2>2. CASE x # d
    BY <1>4, <2>2 DEF Queued
  <2> QED BY <2>1, <2>2
<1>7. \A x \in Deliveries : \A t \in 0..MaxHookStalls : hookJobs'[<<x, t>>] \in {0, 1}
  BY <1>4 DEF OneJob
<1>8. \A x \in Deliveries : \A t, u \in 0..MaxHookStalls :
        hookJobs'[<<x, t>>] = 1 /\ hookJobs'[<<x, u>>] = 1 => t = u
  <2> SUFFICES ASSUME NEW x \in Deliveries, NEW t \in 0..MaxHookStalls, NEW u \in 0..MaxHookStalls,
                      hookJobs'[<<x, t>>] = 1, hookJobs'[<<x, u>>] = 1
               PROVE  t = u
    OBVIOUS
  <2>1. CASE x = d
    BY <1>1, <1>4, <2>1
  <2>2. CASE x # d
    BY <1>4, <2>2 DEF OneJob
  <2> QED BY <2>1, <2>2
<1> QED BY <1>5, <1>6, <1>7, <1>8

\* Every step of the poster keeps the invariant.
LEMMA PosterKeeps ==
  ASSUME WebhookBounds, HooksInvariant, PosterStep \/ DeliverFails
  PROVE  HooksInvariant'
<1> USE DEF HooksInvariant
<1>1. poster.pc # "idle" => Posting \in Deliveries /\ poster.job = {Posting}
  BY PostingIsTheJob
<1>2. poster.stalls \in 0..MaxHookStalls /\ poster.attemptCount \in Nat
  BY DEF PosterHolds
<1>3. ASSUME NEW pc \in {"delivered", "retry", "addRetry"}, NEW c \in BOOLEAN, Go(pc, c),
             poster.pc # "idle", poster.attemptCount < MaxAttempts,
             pc = "addRetry" => poster.attemptCount + 1 < MaxAttempts
      PROVE  PosterHolds' /\ poster'.job = poster.job
  <2>1. poster' = [pc |-> pc, job |-> poster.job, stalls |-> poster.stalls,
                   attemptCount |-> poster.attemptCount, caught |-> c]
    BY <1>3 DEF Go, Working
  <2> QED BY <1>1, <1>2, <1>3, <2>1 DEF PosterHolds
<1>4. ASSUME poster' = IdlePoster
      PROVE  PosterHolds' /\ poster'.job = {}
  <2>1. poster' = [pc |-> "idle", job |-> {}, stalls |-> 0, attemptCount |-> 0, caught |-> FALSE]
    BY <1>4 DEF IdlePoster, Working
  <2> QED BY <2>1 DEF PosterHolds, WebhookBounds
<1>5. CASE TakeDelivery
  BY <1>5, TakeKeeps
<1>6. CASE ReadDelivery
  <2>1. /\ poster.pc = "read" /\ UNCHANGED << delivery, hookJobs, severed >> /\ UnchangedByPoster
    BY <1>6 DEF ReadDelivery
  <2>2. CASE delivery[Posting].exists
    <3> DEFINE n == delivery[Posting].attemptCount
    <3>1. n \in Nat /\ n < MaxAttempts
      BY <1>1, <2>1 DEF HooksTypeOK, Delivery, OneJob, InWork
    <3>2. poster' = [pc |-> "post", job |-> poster.job, stalls |-> poster.stalls,
                     attemptCount |-> n, caught |-> FALSE]
      BY <1>6, <2>2 DEF ReadDelivery, Working
    <3> HIDE DEF n
    <3>3. PosterHolds' /\ poster'.job = poster.job
      BY <1>1, <1>2, <2>1, <3>1, <3>2 DEF PosterHolds
    <3> QED BY <2>1, <3>3, PosterWorks
  <2>3. CASE ~delivery[Posting].exists
    <3>1. poster' = IdlePoster
      BY <1>6, <2>3 DEF ReadDelivery
    <3> QED BY <1>4, <2>1, <3>1, PosterWorks
  <2> QED BY <2>2, <2>3
<1>7. CASE Post
  <2>1. /\ poster.pc = "post" /\ UNCHANGED << delivery, hookJobs, severed >> /\ UnchangedByPoster
        /\ poster.attemptCount < MaxAttempts
        /\ Go("delivered", FALSE) \/ Go("retry", FALSE) \/ Go("retry", TRUE)
    BY <1>7 DEF Post, PosterHolds
  <2>2. PosterHolds' /\ poster'.job = poster.job
    BY <1>3, <2>1
  <2> QED BY <2>1, <2>2, PosterWorks
<1>8. ASSUME NEW status \in DeliveryStatus, UpdateDelivery(status), poster.attemptCount < MaxAttempts,
             poster.pc # "idle", UNCHANGED << hookJobs, severed >>, UnchangedByPoster,
             PosterHolds', poster'.job \subseteq poster.job,
             \/ poster'.job = {}
             \/ status \notin {"DELIVERED", "ABANDONED"} /\ poster.attemptCount + 1 < MaxAttempts
      PROVE  HooksInvariant'
  <2>1. poster.attemptCount + 1 \in 0..MaxAttempts
    BY <1>2, <1>8 DEF WebhookBounds
  <2>2. CASE ~delivery[Posting].exists
    BY <1>8, <2>2, PosterWorks DEF UpdateDelivery
  <2>3. CASE delivery[Posting].exists
    <3> DEFINE n == poster.attemptCount + 1
    <3>1. delivery' = [delivery EXCEPT ![Posting] =
                         [exists |-> TRUE, status |-> status, attemptCount |-> n]]
      BY <1>8, <2>3 DEF UpdateDelivery
    <3>2. n \in 0..MaxAttempts
      BY <2>1
    <3>3. poster'.job = {} \/ (status \notin {"DELIVERED", "ABANDONED"} /\ n < MaxAttempts)
      BY <1>8
    <3> HIDE DEF n
    <3> QED BY <1>8, <2>3, <3>1, <3>2, <3>3, PosterWorks
  <2> QED BY <2>2, <2>3
<1>9. CASE MarkDelivered
  <2>1. /\ UpdateDelivery("DELIVERED") /\ poster.pc = "delivered" /\ poster' = IdlePoster
        /\ UNCHANGED << hookJobs, severed >> /\ UnchangedByPoster
        /\ poster.attemptCount < MaxAttempts
    BY <1>9 DEF MarkDelivered, PosterHolds
  <2> QED BY <1>4, <1>8, <2>1 DEF DeliveryStatus
<1>10. CASE ScheduleRetry
  <2>1. /\ poster.pc = "retry" /\ UNCHANGED << hookJobs, severed >> /\ UnchangedByPoster
        /\ poster.attemptCount < MaxAttempts
    BY <1>10 DEF ScheduleRetry, PosterHolds
  <2>2. CASE poster.attemptCount + 1 >= MaxAttempts
    <3>1. UpdateDelivery("ABANDONED") /\ poster' = IdlePoster
      BY <1>10, <2>2 DEF ScheduleRetry
    <3> QED BY <1>4, <1>8, <2>1, <3>1 DEF DeliveryStatus
  <2>3. CASE ~(poster.attemptCount + 1 >= MaxAttempts)
    <3>1. UpdateDelivery("FAILED") /\ Go("addRetry", poster.caught)
      BY <1>10, <2>3 DEF ScheduleRetry
    <3>2. poster.attemptCount + 1 < MaxAttempts /\ poster.caught \in BOOLEAN
      BY <1>2, <2>3 DEF WebhookBounds, PosterHolds
    <3>3. PosterHolds' /\ poster'.job = poster.job
      BY <1>3, <2>1, <3>1, <3>2
    <3> QED BY <1>8, <2>1, <3>1, <3>2, <3>3 DEF DeliveryStatus
  <2> QED BY <2>2, <2>3
<1>11. CASE AddRetry
  <2>1. /\ poster.pc = "addRetry" /\ AddJob(Posting, 0) /\ poster' = IdlePoster
        /\ UNCHANGED << delivery, severed >> /\ UnchangedByPoster
    BY <1>11 DEF AddRetry
  <2>2. ~Queued(Posting) /\ 0 \in 0..MaxHookStalls
    BY <1>1, <2>1 DEF OneJob, WebhookBounds
  <2>3. PosterHolds' /\ poster'.job = {}
    BY <1>4, <2>1
  <2>4. /\ hookJobs' \in [Jobs -> Nat]
        /\ \A x \in Deliveries : Queued(x)' <=> Queued(x) \/ x = Posting
        /\ \A x \in Deliveries : \A t \in 0..MaxHookStalls : hookJobs'[<<x, t>>] \in {0, 1}
        /\ \A x \in Deliveries : \A t, u \in 0..MaxHookStalls :
             hookJobs'[<<x, t>>] = 1 /\ hookJobs'[<<x, u>>] = 1 => t = u
    BY <1>1, <2>1, <2>2, AddedJob
  <2>5. \A x \in Deliveries : InWork(x)' => InWork(x)
    BY <1>1, <2>1, <2>3, <2>4 DEF InWork
  <2>6. OneJob'
    BY <2>1, <2>3, <2>4, <2>5 DEF OneJob
  <2>7. SettledIsDone'
    BY <2>1, <2>5 DEF SettledIsDone
  <2>8. delivery' \in [Deliveries -> Delivery]
    BY <2>1 DEF HooksTypeOK
  <2> QED BY <2>1, <2>3, <2>4, <2>5, <2>6, <2>7, <2>8, PosterStepKeeps
<1>12. CASE DeliverFails
  <2>1. poster.pc # "idle" /\ UNCHANGED << delivery, hookJobs >> /\ UnchangedByPoster
    BY <1>12 DEF DeliverFails
  <2>2. CASE poster.pc \in {"delivered", "retry", "addRetry"} /\ ~poster.caught
    <3>1. Go("retry", TRUE) /\ UNCHANGED severed
      BY <1>12, <2>2 DEF DeliverFails
    <3>2. poster.attemptCount < MaxAttempts
      BY <1>2, <2>2 DEF PosterHolds, WebhookBounds
    <3>3. PosterHolds' /\ poster'.job = poster.job
      BY <1>3, <2>1, <3>1, <3>2
    <3> QED BY <2>1, <3>1, <3>3, PosterWorks
  <2>3. CASE ~(poster.pc \in {"delivered", "retry", "addRetry"} /\ ~poster.caught)
    <3>1. poster' = IdlePoster /\ severed \subseteq severed'
      BY <1>12, <2>3 DEF DeliverFails
    <3>2. PosterHolds' /\ poster'.job = {}
      BY <1>4, <3>1
    <3>3. \A d : Queued(d)' <=> Queued(d)
      BY <2>1 DEF Queued
    <3>4. \A d \in Deliveries : InWork(d)' => InWork(d)
      BY <3>2, <3>3 DEF InWork
    <3>5. OneJob'
      BY <2>1, <3>2, <3>3, <3>4 DEF OneJob
    <3>6. SettledIsDone'
      BY <2>1, <3>4 DEF SettledIsDone
    <3>7. delivery' \in [Deliveries -> Delivery] /\ hookJobs' \in [Jobs -> Nat]
      BY <2>1 DEF HooksTypeOK
    <3> QED BY <2>1, <3>1, <3>2, <3>4, <3>5, <3>6, <3>7, PosterStepKeeps
  <2> QED BY <2>2, <2>3
<1> QED BY <1>5, <1>6, <1>7, <1>9, <1>10, <1>11, <1>12 DEF PosterStep

\* A listener that moves to l keeps the invariant when it keeps its own part of it,
\* and the rows and jobs of the deliveries of other events.
LEMMA ListenerMoves ==
  ASSUME WebhookBounds, HooksInvariant, NEW v \in AppEvents, NEW l \in Listener,
         listener' = [listener EXCEPT ![v] = l], UnchangedByListener, severed \subseteq severed',
         hookJobs' \in [Jobs -> Nat], delivery' \in [Deliveries -> Delivery],
         \A w \in AppEvents, e \in Endpoints : w # v =>
           delivery'[<<w, e>>] = delivery[<<w, e>>] /\ (InWork(<<w, e>>)' <=> InWork(<<w, e>>)),
         OneJob', SettledIsDone', UntouchedBy(v)', Served(v)'
  PROVE  HooksInvariant'
<1> USE DEF HooksInvariant, UnchangedByListener
<1>1. /\ listener' \in [AppEvents -> Listener]
      /\ \A w \in AppEvents : w # v => listener'[w] = listener[w]
  OBVIOUS
<1>2. HooksTypeOK' /\ (events \in 0..MaxEvents)'
  BY <1>1 DEF HooksTypeOK, Listener
<1>3. NewIsInactive' /\ EditIsFresh' /\ PosterHolds'
  BY DEF NewIsInactive, EditIsFresh, PosterHolds
<1>4. ASSUME NEW w \in AppEvents, w # v PROVE UntouchedBy(w)'
  <2>1. UntouchedBy(w)
    BY DEF Untouched
  <2>2. \A e \in Endpoints : NotYet(w, e)' <=> NotYet(w, e)
    BY <1>1, <1>4 DEF NotYet
  <2> QED BY <1>1, <1>4, <2>1, <2>2 DEF UntouchedBy
<1>5. Subscribers' = Subscribers /\ Subscribers \subseteq Endpoints
  BY DEF Subscribers
<1>6. ASSUME NEW w \in AppEvents, w # v PROVE Served(w)'
  <2>1. Served(w)
    BY DEF SubscribersServed
  <2>2. <<w>> \notin severed' => <<w>> \notin severed
    OBVIOUS
  <2> QED BY <1>1, <1>5, <1>6, <2>1, <2>2 DEF Served
<1>7. Untouched' /\ SubscribersServed'
  BY <1>4, <1>6 DEF Untouched, SubscribersServed
<1> QED BY <1>1, <1>2, <1>3, <1>7

\* The fields of what a listener becomes.
LEMMA ListenerFields ==
  \A pc, todo, add : /\ ListenerAt(pc, todo, add).pc = pc
                     /\ ListenerAt(pc, todo, add).todo = todo
                     /\ ListenerAt(pc, todo, add).add = add
BY DEF ListenerAt

\* A listener at work has an event that came.
LEMMA WorkingOnAnEvent ==
  ASSUME HooksInvariant, NEW v \in AppEvents, listener[v].pc # "idle"
  PROVE  ~(v > events) /\ UntouchedBy(v) /\ Served(v) /\ listener[v] \in Listener
BY ListenerFields DEF HooksInvariant, Untouched, UntouchedBy, SubscribersServed, IdleListener

\* The query for the subscribers, and the end of the dispatch, change the listener only.
LEMMA ListenerQuietKeeps ==
  ASSUME WebhookBounds, HooksInvariant, NEW v \in AppEvents,
         FindSubscribers(v) \/ EndDispatch(v) \/ ListenerFails(v)
  PROVE  HooksInvariant'
<1> USE DEF HooksInvariant
<1>1. /\ UNCHANGED << delivery, hookJobs >> /\ UnchangedByListener /\ severed \subseteq severed'
      /\ listener[v].pc # "idle" /\ events' = events
  BY DEF FindSubscribers, EndDispatch, ListenerFails, UnchangedByListener
<1>2. ~(v > events) /\ UntouchedBy(v) /\ Served(v) /\ listener[v] \in Listener
  BY <1>1, WorkingOnAnEvent
<1>3. \A d : (Queued(d)' <=> Queued(d)) /\ (InWork(d)' <=> InWork(d))
  BY <1>1, SameJobsSameWork DEF UnchangedByListener
<1>4. OneJob' /\ SettledIsDone'
  BY <1>1, <1>3 DEF OneJob, SettledIsDone, UnchangedByListener
<1>5. hookJobs' \in [Jobs -> Nat] /\ delivery' \in [Deliveries -> Delivery]
  BY <1>1 DEF HooksTypeOK
<1>6. Subscribers' = Subscribers /\ Subscribers \subseteq Endpoints /\ subscribed' = subscribed
  BY <1>1 DEF Subscribers, UnchangedByListener
<1>7. CASE FindSubscribers(v)
  <2> DEFINE todo == IF v \in Tagged THEN Subscribers ELSE {}
             l == ListenerAt("dispatch", todo, {})
  <2>1. listener' = [listener EXCEPT ![v] = l] /\ listener[v].pc = "find"
    BY <1>7 DEF FindSubscribers
  <2>2. todo \in SUBSET Endpoints /\ (v \in Tagged => todo = Subscribers)
    BY <1>6
  <2> HIDE DEF todo
  <2>3. l \in Listener
    BY <2>2 DEF Listener, ListenerAt
  <2>4. l.pc = "dispatch" /\ l.todo = todo /\ l.add = {}
    BY ListenerFields
  <2> HIDE DEF l
  <2>5. listener'[v] = l
    BY <2>1
  <2>6. UntouchedBy(v)'
    BY <1>1, <1>2, <1>3, <2>1, <2>4, <2>5 DEF UntouchedBy, NotYet
  <2>7. Served(v)'
    BY <1>1, <1>2, <1>6, <2>2, <2>4, <2>5 DEF Served
  <2> QED BY <1>1, <1>3, <1>4, <1>5, <2>1, <2>3, <2>6, <2>7, ListenerMoves
<1>8. CASE EndDispatch(v) \/ ListenerFails(v)
  <2>1. listener' = [listener EXCEPT ![v] = IdleListener]
    BY <1>8 DEF EndDispatch, ListenerFails
  <2>2. IdleListener \in Listener
    BY DEF IdleListener, ListenerAt, Listener
  <2>3. IdleListener.pc = "idle" /\ IdleListener.todo = {} /\ IdleListener.add = {}
    BY ListenerFields DEF IdleListener
  <2>4. listener'[v] = IdleListener
    BY <2>1
  <2>5. UntouchedBy(v)'
    BY <1>1, <1>2, <2>3, <2>4 DEF UntouchedBy, NotYet
  <2>6. Served(v)'
    <3>1. CASE EndDispatch(v)
      <4>1. listener[v].pc = "dispatch" /\ listener[v].todo = {} /\ severed' = severed
        BY <3>1 DEF EndDispatch
      <4> QED BY <1>1, <1>2, <1>6, <4>1 DEF Served
    <3>2. CASE ListenerFails(v)
      <4>1. <<v>> \in severed'
        BY <3>2 DEF ListenerFails, Cut
      <4> QED BY <1>2, <1>6, <4>1 DEF Served
    <3> QED BY <1>8, <3>1, <3>2
  <2> QED BY <1>1, <1>3, <1>4, <1>5, <2>1, <2>2, <2>5, <2>6, ListenerMoves
<1> QED BY <1>7, <1>8

\* Saving a delivery makes the row of an endpoint that the event had not got to.
LEMMA SaveDeliveryKeeps ==
  ASSUME WebhookBounds, HooksInvariant, NEW v \in AppEvents, SaveDelivery(v)
  PROVE  HooksInvariant'
<1> USE DEF HooksInvariant
<1>1. PICK e \in listener[v].todo :
        IF endpoint[e].state = "live"
          THEN /\ delivery' = [delivery EXCEPT ![<<v, e>>] =
                    [exists |-> TRUE, status |-> "PENDING", attemptCount |-> 0]]
               /\ listener' = [listener EXCEPT
                    ![v] = ListenerAt("dispatch", listener[v].todo \ {e}, {e})]
               /\ UNCHANGED severed
          ELSE /\ listener' = [listener EXCEPT ![v] = IdleListener]
               /\ severed' = severed \cup {<<v>>}
               /\ UNCHANGED delivery
  BY DEF SaveDelivery
<1>2. /\ listener[v].pc = "dispatch" /\ UNCHANGED hookJobs /\ UnchangedByListener
      /\ events' = events /\ poster' = poster /\ listener[v].add = {}
  BY DEF SaveDelivery, UnchangedByListener
<1>3. ~(v > events) /\ UntouchedBy(v) /\ Served(v) /\ listener[v] \in Listener
  BY <1>2, WorkingOnAnEvent
<1>4. e \in Endpoints /\ <<v, e>> \in Deliveries
  BY <1>3, DeliveryOf DEF Listener
<1>5. \A d : (Queued(d)' <=> Queued(d)) /\ (InWork(d)' <=> InWork(d))
  BY <1>2, SameJobsSameWork
<1>6. ~InWork(<<v, e>>)
  BY <1>2, <1>3, <1>4 DEF UntouchedBy, NotYet
<1>7. hookJobs' \in [Jobs -> Nat] /\ severed \subseteq severed'
  BY <1>1, <1>2 DEF HooksTypeOK
<1>8. Subscribers' = Subscribers /\ Subscribers \subseteq Endpoints /\ subscribed' = subscribed
  BY <1>2 DEF Subscribers, UnchangedByListener
<1>9. CASE endpoint[e].state = "live"
  <2> DEFINE saved == [exists |-> TRUE, status |-> "PENDING", attemptCount |-> 0]
             l   == ListenerAt("dispatch", listener[v].todo \ {e}, {e})
  <2>1. /\ delivery' = [delivery EXCEPT ![<<v, e>>] = saved]
        /\ listener' = [listener EXCEPT ![v] = l] /\ severed' = severed
    BY <1>1, <1>9
  <2>2. saved \in Delivery /\ saved.exists /\ saved.status = "PENDING" /\ saved.attemptCount = 0
    BY DEF Delivery, DeliveryStatus, WebhookBounds
  <2>3. l \in Listener
    BY <1>3, <1>4 DEF Listener, ListenerAt
  <2>4. l.pc = "dispatch" /\ l.todo = listener[v].todo \ {e} /\ l.add = {e}
    BY ListenerFields
  <2> HIDE DEF saved, l
  <2>5. /\ delivery' \in [Deliveries -> Delivery] /\ delivery'[<<v, e>>] = saved
        /\ \A d \in Deliveries : d # <<v, e>> => delivery'[d] = delivery[d]
    BY <1>4, <2>1, <2>2 DEF HooksTypeOK
  <2>6. listener'[v] = l
    BY <2>1
  <2>7. OneJob'
    <3> SUFFICES ASSUME NEW d \in Deliveries, InWork(d)' PROVE delivery'[d].attemptCount < MaxAttempts
      BY <1>2, <1>5 DEF OneJob
    <3>1. d # <<v, e>>
      BY <1>5, <1>6
    <3> QED BY <1>5, <2>5, <3>1 DEF OneJob
  <2>8. SettledIsDone'
    BY <1>5, <1>6, <2>5 DEF SettledIsDone
  <2>9. ASSUME NEW x \in Endpoints, x # e PROVE delivery'[<<v, x>>] = delivery[<<v, x>>]
    <3>1. <<v, x>> \in Deliveries /\ <<v, x>> # <<v, e>>
      BY <2>9, DeliveryOf
    <3> QED BY <2>5, <3>1
  <2>10. UntouchedBy(v)'
    <3>1. l.todo \cap l.add = {}
      BY <2>4
    <3>2. ASSUME NEW x \in Endpoints
          PROVE  /\ NotYet(v, x)' => delivery'[<<v, x>>] = NoDelivery /\ ~InWork(<<v, x>>)'
                 /\ x \in listener'[v].add => /\ delivery'[<<v, x>>].status = "PENDING"
                                             /\ delivery'[<<v, x>>].attemptCount = 0
                                             /\ ~InWork(<<v, x>>)'
      <4>1. CASE x = e
        BY <1>2, <1>3, <1>5, <1>6, <2>2, <2>4, <2>5, <2>6, <4>1 DEF NotYet
      <4>2. CASE x # e
        <5>1. NotYet(v, x)' => NotYet(v, x)
          BY <1>2, <1>3, <2>4, <2>6 DEF NotYet
        <5> QED BY <1>3, <1>5, <2>4, <2>6, <2>9, <4>2, <5>1 DEF UntouchedBy
      <4> QED BY <4>1, <4>2
    <3> QED BY <1>2, <1>3, <2>4, <2>6, <3>1, <3>2 DEF UntouchedBy
  <2>11. Served(v)'
    <3> SUFFICES ASSUME v \in Tagged, v <= events, <<v>> \notin severed, NEW x \in subscribed[v]
                 PROVE  delivery'[<<v, x>>].exists \/ x \in l.todo
      BY <1>2, <1>3, <1>8, <2>1, <2>6 DEF Served
    <3>1. x \in Endpoints /\ (delivery[<<v, x>>].exists \/ x \in listener[v].todo)
      BY <1>2, <1>3, <1>8 DEF Served
    <3>2. CASE x = e
      BY <2>2, <2>5, <3>2
    <3>3. CASE x # e
      BY <2>4, <2>9, <3>1, <3>3
    <3> QED BY <3>2, <3>3
  <2>12. \A w \in AppEvents, x \in Endpoints : w # v => delivery'[<<w, x>>] = delivery[<<w, x>>]
    <3> SUFFICES ASSUME NEW w \in AppEvents, NEW x \in Endpoints, w # v
                 PROVE  delivery'[<<w, x>>] = delivery[<<w, x>>]
      OBVIOUS
    <3>1. <<w, x>> \in Deliveries /\ <<w, x>> # <<v, e>>
      BY DeliveryOf
    <3> QED BY <2>5, <3>1
  <2> QED BY <1>2, <1>5, <1>7, <2>1, <2>3, <2>5, <2>7, <2>8, <2>10, <2>11, <2>12, ListenerMoves
<1>10. CASE endpoint[e].state # "live"
  <2>1. /\ listener' = [listener EXCEPT ![v] = IdleListener]
        /\ severed' = severed \cup {<<v>>} /\ UNCHANGED delivery
    BY <1>1, <1>10
  <2>2. IdleListener \in Listener
    BY DEF IdleListener, ListenerAt, Listener
  <2>3. IdleListener.pc = "idle" /\ IdleListener.todo = {} /\ IdleListener.add = {}
    BY ListenerFields DEF IdleListener
  <2>4. listener'[v] = IdleListener /\ <<v>> \in severed'
    BY <2>1
  <2>5. UntouchedBy(v)'
    BY <1>2, <1>3, <2>3, <2>4 DEF UntouchedBy, NotYet
  <2>6. Served(v)'
    BY <1>3, <1>8, <2>4 DEF Served
  <2>7. OneJob' /\ SettledIsDone' /\ delivery' \in [Deliveries -> Delivery]
    BY <1>2, <1>5, <2>1 DEF OneJob, SettledIsDone, HooksTypeOK
  <2> QED BY <1>2, <1>5, <1>7, <2>1, <2>2, <2>5, <2>6, <2>7, ListenerMoves
<1> QED BY <1>9, <1>10

\* Adding the job of a delivery just saved puts it to work for the first time.
LEMMA AddDeliveryKeeps ==
  ASSUME WebhookBounds, HooksInvariant, NEW v \in AppEvents, AddDelivery(v)
  PROVE  HooksInvariant'
<1> USE DEF HooksInvariant
<1>1. PICK e \in listener[v].add :
        /\ AddJob(<<v, e>>, 0)
        /\ listener' = [listener EXCEPT ![v] = ListenerAt("dispatch", listener[v].todo, {})]
  BY DEF AddDelivery
<1>2. /\ listener[v].pc = "dispatch" /\ UNCHANGED << delivery, severed >> /\ UnchangedByListener
      /\ events' = events /\ poster' = poster
  BY DEF AddDelivery, UnchangedByListener
<1>3. ~(v > events) /\ UntouchedBy(v) /\ Served(v) /\ listener[v] \in Listener
  BY <1>2, WorkingOnAnEvent
<1>4. e \in Endpoints /\ <<v, e>> \in Deliveries /\ e \notin listener[v].todo
  BY <1>3, DeliveryOf DEF Listener, UntouchedBy
<1>5. /\ delivery[<<v, e>>].status = "PENDING" /\ delivery[<<v, e>>].attemptCount = 0
      /\ ~InWork(<<v, e>>)
  BY <1>3, <1>4 DEF UntouchedBy
<1> DEFINE d == <<v, e>>
<1>6. /\ d \in Deliveries /\ AddJob(d, 0) /\ ~InWork(d) /\ ~Queued(d) /\ d \notin poster.job
      /\ delivery[d].status = "PENDING" /\ delivery[d].attemptCount = 0
  BY <1>1, <1>4, <1>5 DEF InWork
<1>7. \A w \in AppEvents, x \in Endpoints : <<w, x>> = d => w = v /\ x = e
  OBVIOUS
<1> HIDE DEF d
<1>8. 0 \in 0..MaxHookStalls /\ 0 < MaxAttempts
  BY DEF WebhookBounds
<1>9. /\ hookJobs' \in [Jobs -> Nat]
      /\ \A x \in Deliveries : Queued(x)' <=> Queued(x) \/ x = d
      /\ \A x \in Deliveries : \A t \in 0..MaxHookStalls : hookJobs'[<<x, t>>] \in {0, 1}
      /\ \A x \in Deliveries : \A t, u \in 0..MaxHookStalls :
           hookJobs'[<<x, t>>] = 1 /\ hookJobs'[<<x, u>>] = 1 => t = u
  BY <1>6, <1>8, AddedJob
<1>10. \A x \in Deliveries : InWork(x)' <=> InWork(x) \/ x = d
  BY <1>2, <1>9 DEF InWork
<1>11. OneJob'
  BY <1>2, <1>6, <1>8, <1>9, <1>10 DEF OneJob
<1>12. SettledIsDone'
  BY <1>2, <1>6, <1>10 DEF SettledIsDone
<1> DEFINE l == ListenerAt("dispatch", listener[v].todo, {})
<1>13. listener' = [listener EXCEPT ![v] = l]
  BY <1>1
<1>14. l \in Listener
  BY <1>3 DEF Listener, ListenerAt
<1>15. l.pc = "dispatch" /\ l.todo = listener[v].todo /\ l.add = {}
  BY ListenerFields
<1> HIDE DEF l
<1>16. listener'[v] = l
  BY <1>13
<1>17. \A w \in AppEvents, x \in Endpoints :
         w # v \/ x # e => (InWork(<<w, x>>)' <=> InWork(<<w, x>>))
  BY <1>7, <1>10, DeliveryOf
<1>18. UntouchedBy(v)'
  <2>1. ASSUME NEW x \in Endpoints, NotYet(v, x)'
        PROVE  delivery'[<<v, x>>] = NoDelivery /\ ~InWork(<<v, x>>)'
    <3>1. x \in listener[v].todo /\ x # e
      BY <1>2, <1>3, <1>4, <1>15, <1>16, <2>1 DEF NotYet
    <3> QED BY <1>2, <1>3, <1>17, <3>1 DEF UntouchedBy, NotYet
  <2> QED BY <1>2, <1>3, <1>15, <1>16, <2>1 DEF UntouchedBy
<1>19. Subscribers' = Subscribers /\ Subscribers \subseteq Endpoints /\ subscribed' = subscribed
  BY <1>2 DEF Subscribers, UnchangedByListener
<1>20. Served(v)'
  BY <1>2, <1>3, <1>15, <1>16, <1>19 DEF Served
<1>21. delivery' \in [Deliveries -> Delivery]
  BY <1>2 DEF HooksTypeOK
<1> QED BY <1>2, <1>9, <1>11, <1>12, <1>13, <1>14, <1>17, <1>18, <1>20, <1>21, ListenerMoves

\* A crash of the backend cuts off the events at work, and puts the job back, if at all,
\* that the poster had.
LEMMA HookCrashKeeps ==
  ASSUME WebhookBounds, HooksInvariant, HookCrash
  PROVE  HooksInvariant'
<1> USE DEF HooksInvariant
<1> DEFINE again == poster.pc # "idle" /\ poster.stalls < MaxHookStalls
<1>1. /\ UNCHANGED << endpoint, delivery, events, edits, subscribed >> /\ edit' = [pc |-> "idle"]
      /\ listener' = [v \in AppEvents |-> IdleListener] /\ poster' = IdlePoster
      /\ severed \subseteq severed'
      /\ \A v \in AppEvents : listener[v].pc # "idle" => <<v>> \in severed'
      /\ IF again THEN AddJob(Posting, poster.stalls + 1) ELSE UNCHANGED hookJobs
  BY DEF HookCrash, Cut
<1>2. IdleListener \in Listener
  BY DEF IdleListener, ListenerAt, Listener
<1>3. IdleListener.pc = "idle" /\ IdleListener.todo = {} /\ IdleListener.add = {}
  BY ListenerFields DEF IdleListener
<1>4. poster' = [pc |-> "idle", job |-> {}, stalls |-> 0, attemptCount |-> 0, caught |-> FALSE]
  BY <1>1 DEF IdlePoster, Working
<1>5. PosterHolds' /\ poster'.job = {} /\ poster'.pc = "idle"
  BY <1>4 DEF PosterHolds, WebhookBounds
<1>6. /\ hookJobs' \in [Jobs -> Nat]
      /\ \A x \in Deliveries : Queued(x)' => InWork(x)
      /\ \A x \in Deliveries : \A t \in 0..MaxHookStalls : hookJobs'[<<x, t>>] \in {0, 1}
      /\ \A x \in Deliveries : \A t, u \in 0..MaxHookStalls :
           hookJobs'[<<x, t>>] = 1 /\ hookJobs'[<<x, u>>] = 1 => t = u
  <2>1. CASE again
    <3>1. Posting \in Deliveries /\ poster.job = {Posting}
      BY <2>1, PostingIsTheJob
    <3>2. poster.stalls + 1 \in 0..MaxHookStalls
      BY <2>1 DEF PosterHolds, WebhookBounds
    <3>3. ~Queued(Posting)
      BY <3>1 DEF OneJob
    <3>4. AddJob(Posting, poster.stalls + 1)
      BY <1>1, <2>1
    <3> QED BY <3>1, <3>2, <3>3, <3>4, AddedJob DEF InWork
  <2>2. CASE ~again
    <3>1. hookJobs' = hookJobs
      BY <1>1, <2>2
    <3>2. \A x \in Deliveries : Queued(x)' => InWork(x)
      BY <3>1 DEF InWork, Queued
    <3> QED BY <3>1, <3>2 DEF OneJob, HooksTypeOK
  <2> QED BY <2>1, <2>2
<1> HIDE DEF again
<1>7. \A x \in Deliveries : InWork(x)' => InWork(x)
  BY <1>5, <1>6 DEF InWork
<1>8. OneJob'
  BY <1>1, <1>5, <1>6, <1>7 DEF OneJob
<1>9. SettledIsDone'
  BY <1>1, <1>7 DEF SettledIsDone
<1>10. HooksTypeOK' /\ listener' \in [AppEvents -> Listener] /\ (events \in 0..MaxEvents)'
  BY <1>1, <1>2, <1>3, <1>5, <1>6 DEF HooksTypeOK
<1>11. NewIsInactive' /\ EditIsFresh'
  BY <1>1 DEF NewIsInactive, EditIsFresh
<1>12. ASSUME NEW v \in AppEvents PROVE UntouchedBy(v)'
  <2>1. UntouchedBy(v) /\ listener'[v] = IdleListener
    BY <1>1 DEF Untouched
  <2>2. \A e \in Endpoints : NotYet(v, e)' => NotYet(v, e)
    BY <1>1, <1>3, <2>1 DEF NotYet
  <2> QED BY <1>1, <1>3, <1>7, <2>1, <2>2, DeliveryOf DEF UntouchedBy
<1>13. Subscribers' = Subscribers
  BY <1>1 DEF Subscribers
<1>14. ASSUME NEW v \in AppEvents PROVE Served(v)'
  <2>1. Served(v) /\ UntouchedBy(v)
    BY DEF SubscribersServed, Untouched
  <2>2. <<v>> \notin severed' => <<v>> \notin severed /\ listener[v].pc = "idle"
    BY <1>1
  <2> QED BY <1>1, <1>3, <1>13, <2>1, <2>2 DEF Served, UntouchedBy
<1> QED BY <1>5, <1>8, <1>9, <1>10, <1>11, <1>12, <1>14 DEF Untouched, SubscribersServed

\* The invariant is inductive.
LEMMA HooksInductive ==
  ASSUME WebhookBounds, HooksInvariant, [HooksNext]_hookVars
  PROVE  HooksInvariant'
<1>1. CASE HooksNext
  BY <1>1, EndpointsKeep, EmitKeeps, ListenerQuietKeeps, SaveDeliveryKeeps, AddDeliveryKeeps,
     PosterKeeps, HookCrashKeeps DEF HooksNext, ListenerStep
<1>2. CASE UNCHANGED hookVars
  <2> USE <1>2 DEF HooksInvariant, hookVars
  <2>1. HooksTypeOK' /\ (listener \in [AppEvents -> Listener])' /\ (events \in 0..MaxEvents)'
    BY DEF HooksTypeOK
  <2>2. NewIsInactive' /\ EditIsFresh' /\ PosterHolds'
    BY DEF NewIsInactive, EditIsFresh, PosterHolds
  <2>3. OneJob' /\ SettledIsDone'
    BY SameJobsSameWork DEF OneJob, SettledIsDone
  <2>4. Untouched'
    BY SameJobsSameWork DEF Untouched, UntouchedBy, NotYet
  <2>5. SubscribersServed'
    BY DEF SubscribersServed, Served, Subscribers
  <2> QED BY <2>1, <2>2, <2>3, <2>4, <2>5
<1> QED BY <1>1, <1>2

\* Every reachable state of webhooks satisfies the invariant: endpoints edited, events,
\* retries, faults of the database and Redis, and crashes, in any order.
THEOREM HooksInvariance == HooksInit /\ [][HooksNext]_hookVars => []HooksInvariant
<1>1. HooksInit => HooksInvariant
  BY HooksStart, WebhookBounds
<1>2. HooksInvariant /\ [HooksNext]_hookVars => HooksInvariant'
  BY HooksInductive, WebhookBounds
<1> QED BY <1>1, <1>2, PTL

\* The variables of webhooks keep their types; in particular no delivery is attempted
\* more often than MaxAttempts, however retries, stalls and faults are mixed.
THEOREM HooksTypes == HooksSpec => []HooksTypeOK
<1>1. HooksInvariant => HooksTypeOK
  BY DEF HooksInvariant
<1> QED BY <1>1, HooksInvariance, PTL DEF HooksSpec

\* A delivery never has two jobs, and one that is DELIVERED or ABANDONED has none:
\* it is not posted again.
THEOREM SettledDeliveriesRest == HooksSpec => [](OneJob /\ SettledIsDone)
<1>1. HooksInvariant => OneJob /\ SettledIsDone
  BY DEF HooksInvariant
<1> QED BY <1>1, HooksInvariance, PTL DEF HooksSpec

\* An event that carries the keys the dispatch looks for reaches every endpoint that
\* subscribed throughout, unless a crash, a fault or a removed endpoint cut it off.
THEOREM TaggedEventsReachSubscribers ==
  HooksSpec => [](\A v \in 1..events : v \in Tagged => ReachesAll(v))
<1>1. ASSUME HooksInvariant PROVE \A v \in 1..events : v \in Tagged => ReachesAll(v)
  <2> SUFFICES ASSUME NEW v \in 1..events, v \in Tagged, listener[v].pc = "idle",
                      <<v>> \notin severed, NEW e \in subscribed[v]
               PROVE  delivery[<<v, e>>].exists
    BY DEF ReachesAll
  <2>1. v \in AppEvents /\ v <= events
    BY <1>1, WebhookBounds DEF HooksInvariant, AppEvents, WebhookBounds
  <2>2. Served(v) /\ UntouchedBy(v)
    BY <1>1, <2>1 DEF HooksInvariant, SubscribersServed, Untouched
  <2> QED BY <2>1, <2>2 DEF Served, UntouchedBy
<1> QED BY <1>1, HooksInvariance, PTL DEF HooksSpec

\* If every event carries them, every event does.
THEOREM EventsReach ==
  ASSUME Tagged = AppEvents
  PROVE  HooksSpec => []EventsReachSubscribers
<1>1. HooksInvariant /\ (\A v \in 1..events : v \in Tagged => ReachesAll(v)) => EventsReachSubscribers
  BY WebhookBounds DEF HooksInvariant, AppEvents, EventsReachSubscribers, WebhookBounds
<1> QED BY <1>1, HooksInvariance, TaggedEventsReachSubscribers, PTL DEF HooksSpec

-----------------------------------------------------------------------------
(* The quota of CostLimiterService, for any number of generations at once: it is       *)
(* checked before the provider is called and counted after, and yet overrun by at most *)
(* the generations that were in flight when it was reached.                            *)

\* The generations that passed the check and are not yet counted.
Generating == {g \in Generators : generator[g] = "generate"}

\* What is counted and what may yet be counted are bounded together: the check lets
\* a generation in only while the count is below the limit.
QuotaInvariant ==
  /\ quota \in Nat
  /\ generator \in [Generators -> {"idle", "generate"}]
  /\ quota + Cardinality(Generating) <= AiLimit - 1 + Cardinality(Generators)

\* The generations in flight are finitely many, and no more than there are at all.
LEMMA InFlightIsFinite ==
  /\ IsFiniteSet(Generating) /\ Cardinality(Generating) \in Nat
  /\ Cardinality(Generators) \in Nat
  /\ Cardinality(Generating) <= Cardinality(Generators)
<1>1. Generating \subseteq Generators
  BY DEF Generating
<1> QED
  BY <1>1, GeneratorsAssumption, FS_Subset, FS_CardinalityType

\* Where one is not in flight they are fewer than all.
LEMMA SomeIdle ==
  ASSUME NEW g \in Generators, generator[g] = "idle"
  PROVE  Cardinality(Generating) <= Cardinality(Generators) - 1
<1>1. Generating \subseteq Generators \ {g}
  BY DEF Generating
<1>2. /\ IsFiniteSet(Generators \ {g})
      /\ Cardinality(Generators \ {g}) = Cardinality(Generators) - 1
  BY GeneratorsAssumption, FS_RemoveElement
<1> QED
  BY <1>1, <1>2, FS_Subset

LEMMA QuotaInit ==
  UsageInit => QuotaInvariant
<1> SUFFICES ASSUME UsageInit PROVE QuotaInvariant
  OBVIOUS
<1>1. Generating = {}
  BY DEF Generating, UsageInit
<1>2. Cardinality(Generating) = 0
  BY <1>1, FS_EmptySet
<1> QED
  BY <1>2, InFlightIsFinite, UsageBounds DEF QuotaInvariant, UsageInit

LEMMA QuotaStep ==
  QuotaInvariant /\ [UsageNext]_usageVars => QuotaInvariant'
<1> SUFFICES ASSUME QuotaInvariant, [UsageNext]_usageVars
             PROVE  QuotaInvariant'
  OBVIOUS
<1> USE DEF QuotaInvariant
<1>1. CASE UNCHANGED << quota, generator >>
  BY <1>1 DEF Generating
<1>2. ASSUME NEW g \in Generators, CheckQuota(g) PROVE QuotaInvariant'
  <2>1. quota' = quota
    BY <1>2 DEF CheckQuota
  <2>2. CASE ~Allowed
    <3>1. generator' = generator
      BY <1>2, <2>2 DEF CheckQuota
    <3> QED
      BY <2>1, <3>1 DEF Generating
  <2>3. CASE Allowed
    <3>1. generator' = [generator EXCEPT ![g] = "generate"]
      BY <1>2, <2>3 DEF CheckQuota
    <3>2. Generating' = Generating \cup {g} /\ g \notin Generating
      BY <1>2, <3>1 DEF CheckQuota, Generating
    <3>3. Cardinality(Generating') = Cardinality(Generating) + 1
      BY <3>2, InFlightIsFinite, FS_AddElement
    <3>4. Cardinality(Generating) <= Cardinality(Generators) - 1
      BY <1>2, SomeIdle DEF CheckQuota
    <3>5. quota <= AiLimit - 1
      BY <2>3, UsageBounds DEF Allowed
    <3>6. quota' + Cardinality(Generating') <= AiLimit - 1 + Cardinality(Generators)
      BY <2>1, <3>3, <3>4, <3>5, InFlightIsFinite, UsageBounds
    <3> QED
      BY <2>1, <3>1, <3>6
  <2> QED
    BY <2>2, <2>3
<1>3. ASSUME NEW g \in Generators, Generate(g) PROVE QuotaInvariant'
  <2>1. generator' = [generator EXCEPT ![g] = "idle"]
    BY <1>3 DEF Generate
  <2>2. quota' \in Nat /\ quota' <= quota + 1
    BY <1>3 DEF Generate, RecordUsage
  <2>3. Generating' = Generating \ {g} /\ g \in Generating
    BY <1>3, <2>1 DEF Generate, Generating
  <2>4. Cardinality(Generating') = Cardinality(Generating) - 1
    BY <2>3, InFlightIsFinite, FS_RemoveElement
  <2>5. quota' + Cardinality(Generating') <= AiLimit - 1 + Cardinality(Generators)
    BY <2>2, <2>4, InFlightIsFinite, UsageBounds
  <2> QED
    BY <2>1, <2>2, <2>5
<1>4. CASE Midnight
  <2>1. quota' = 0 /\ generator' = generator
    BY <1>4 DEF Midnight
  <2>2. Generating' = Generating
    BY <2>1 DEF Generating
  <2> QED
    BY <2>1, <2>2, InFlightIsFinite, UsageBounds
<1>5. CASE RestartUsage
  <2>1. quota' = 0 /\ generator' = [g \in Generators |-> "idle"]
    BY <1>5 DEF RestartUsage
  <2>2. Generating' = {}
    BY <2>1 DEF Generating
  <2>3. Cardinality(Generating') = 0
    BY <2>2, FS_EmptySet
  <2> QED
    BY <2>1, <2>3, InFlightIsFinite, UsageBounds
<1>6. ASSUME NEW h \in Meters,
             \/ Meter(h) \/ FindUsage(h) \/ CreateUsage(h) \/ ResetUsage(h) \/ UpdateUsage(h)
      PROVE  UNCHANGED << quota, generator >>
  BY <1>6 DEF Meter, FindUsage, CreateUsage, ResetUsage, UpdateUsage
<1> QED
  BY <1>1, <1>2, <1>3, <1>4, <1>5, <1>6 DEF UsageNext, AiController, usageVars

\* However many generations one user asks for at once, and whatever midnights and
\* restarts fall between the check of checkQuota and the count of recordUsage, the
\* day's count overruns the plan by less than the generations that can be in flight.
THEOREM QuotaIsBounded ==
  UsageSpec => []QuotaOverrunBounded
<1>1. QuotaInvariant => QuotaOverrunBounded
  BY InFlightIsFinite, UsageBounds DEF QuotaInvariant, QuotaOverrunBounded
<1> QED
  BY <1>1, QuotaInit, QuotaStep, PTL DEF UsageSpec

-----------------------------------------------------------------------------
(* The counters of BillingService, for any number of handlers at once and any          *)
(* sequence of days: lost or revived only by an overlap.                               *)

\* Types of the rows that handlers build.
LEMMA RowTypes ==
  /\ Unread \in PlanUsage /\ IdleMeter \in MeterRow
  /\ date \in Date => NewUsage \in PlanUsage
  /\ \A plan \in PlanUsage : date \in Date => Reset(plan) \in PlanUsage
  /\ \A plan \in PlanUsage, c \in Counters, n \in Nat : WithCount(plan, c, n) \in PlanUsage
<1>1. Unread \in PlanUsage
  BY UsageBounds DEF Unread, PlanUsage, Zero
<1>2. IdleMeter \in MeterRow
  BY <1>1 DEF IdleMeter, MeterRow, MeterOps
<1>3. date \in Date => NewUsage \in PlanUsage
  BY DEF NewUsage, PlanUsage, Zero, Date
<1>4. ASSUME NEW plan \in PlanUsage, date \in Date PROVE Reset(plan) \in PlanUsage
  BY <1>4 DEF Reset, PlanUsage, Date
<1>5. ASSUME NEW plan \in PlanUsage, NEW c \in Counters, NEW n \in Nat
      PROVE  WithCount(plan, c, n) \in PlanUsage
  BY DEF WithCount, PlanUsage
<1> QED
  BY <1>1, <1>2, <1>3, <1>4, <1>5

\* Every event counts on some counter, and leaves it a number.
LEMMA AddedTypes ==
  /\ \A op \in MeterOps : CounterOf[op] \in Counters
  /\ \A op \in MeterOps, n \in Nat : Added(op, n) \in Nat
BY DEF MeterOps, CounterOf, Counters, Added

\* Resetting twice on one day is resetting once, and a row of today is as it is.
LEMMA ResetAgain ==
  ASSUME NEW plan \in PlanUsage
  PROVE  /\ Reset(Reset(plan)) = Reset(plan)
         /\ plan.daily = date.day /\ plan.monthly = date.month => Reset(plan).count = plan.count
<1>1. Reset(Reset(plan)).count = Reset(plan).count
  BY DEF Reset, PlanUsage
<1>2. Reset(Reset(plan)) = Reset(plan)
  BY <1>1 DEF Reset
<1>3. plan.daily = date.day /\ plan.monthly = date.month => Reset(plan).count = plan.count
  BY DEF Reset, PlanUsage
<1> QED
  BY <1>2, <1>3

\* At the start nothing is stored and nothing was counted.
LEMMA UsageInitInv == UsageInit => UsageInvariant
<1> SUFFICES ASSUME UsageInit PROVE UsageInvariant
  OBVIOUS
<1> USE DEF UsageInit
<1>1. date \in Date /\ date.month <= date.day /\ date.day = 0 /\ date.month = 0
  BY UsageBounds DEF Date
<1>2. counted \in [Counters -> Nat]
  BY DEF Zero
<1>3. UsageTypeOK
  BY <1>1, <1>2, RowTypes DEF UsageTypeOK
<1>4. RowsDated /\ UpdatesToday /\ CountsExact
  BY <1>1 DEF RowsDated, UpdatesToday, CountsExact, Unread, IdleMeter
<1> QED
  BY <1>3, <1>4 DEF UsageInvariant

\* What a step of a handler that leaves the row alone keeps.
LEMMA MeterOnly ==
  ASSUME UsageInvariant, NEW h \in Meters, NEW q \in MeterRow,
         meter' = [meter EXCEPT ![h] = q],
         q.pc \in {"reset", "update"} => usage.exists /\ q.copy.exists,
         q.pc = "update" =>
           overlapped' \/ (q.copy.daily = date.day /\ q.copy.monthly = date.month),
         UNCHANGED << date, usage, quota, generator, counted >>,
         overlapped => overlapped', overlapped' \in BOOLEAN
  PROVE  UsageInvariant'
<1> USE DEF UsageInvariant
<1>1. UsageTypeOK'
  BY DEF UsageTypeOK
<1>2. meter'[h] = q /\ \A i \in Meters \ {h} : meter'[i] = meter[i]
  BY DEF UsageTypeOK
<1>3. RowsDated'
  BY <1>2 DEF RowsDated
<1>4. UpdatesToday'
  BY <1>2 DEF UpdatesToday
<1>5. CountsExact'
  BY DEF CountsExact, Reset
<1> QED
  BY <1>1, <1>3, <1>4, <1>5

\* A handler, at each of its steps.
LEMMA MeterStep ==
  ASSUME UsageInvariant, NEW h \in Meters,
         Meter(h) \/ FindUsage(h) \/ CreateUsage(h) \/ ResetUsage(h) \/ UpdateUsage(h)
  PROVE  UsageInvariant'
<1>1. /\ UsageTypeOK /\ meter \in [Meters -> MeterRow] /\ meter[h] \in MeterRow
      /\ usage \in PlanUsage /\ meter[h].copy \in PlanUsage /\ meter[h].op \in MeterOps
      /\ date \in Date /\ counted \in [Counters -> Nat] /\ overlapped \in BOOLEAN
  BY DEF UsageInvariant, UsageTypeOK, MeterRow
<1>2. CASE Meter(h)
  <2>1. PICK op \in MeterOps :
          meter' = [meter EXCEPT ![h] = [pc |-> "find", op |-> op, copy |-> Unread]]
    BY <1>2 DEF Meter
  <2>2. [pc |-> "find", op |-> op, copy |-> Unread] \in MeterRow
    BY RowTypes DEF MeterRow
  <2> QED
    BY <1>1, <1>2, <2>1, <2>2, MeterOnly DEF Meter
<1>3. CASE FindUsage(h)
  <2> DEFINE q == Holding(h, IF usage.exists THEN "reset" ELSE "create", usage)
  <2>1. /\ q \in MeterRow /\ q.copy = usage /\ q.pc # "update"
        /\ q.pc = "reset" => usage.exists
    BY <1>1 DEF Holding, MeterRow, PlanUsage
  <2>2. meter' = [meter EXCEPT ![h] = q]
    BY <1>3 DEF FindUsage
  <2> HIDE DEF q
  <2> QED
    BY <1>1, <1>3, <2>1, <2>2, MeterOnly DEF FindUsage
<1>4. CASE CreateUsage(h)
  <2>1. CASE usage.exists
    BY <1>1, <1>4, <2>1, RowTypes, MeterOnly DEF CreateUsage, IdleMeter
  <2>2. CASE ~usage.exists
    <3> DEFINE q == Holding(h, "reset", NewUsage)
    <3>1. /\ q \in MeterRow /\ q.copy = NewUsage /\ q.pc = "reset"
          /\ NewUsage \in PlanUsage
      BY <1>1, RowTypes DEF Holding, MeterRow
    <3>2. /\ meter' = [meter EXCEPT ![h] = q] /\ usage' = NewUsage
          /\ UNCHANGED << date, quota, generator, counted, overlapped >>
      BY <1>4, <2>2 DEF CreateUsage
    <3> HIDE DEF q
    <3>3. UsageTypeOK'
      BY <1>1, <3>1, <3>2 DEF UsageTypeOK
    <3>4. meter'[h] = q /\ \A i \in Meters \ {h} : meter'[i] = meter[i]
      BY <1>1, <3>2
    <3>5. NewUsage.exists /\ NewUsage.daily = date.day /\ NewUsage.monthly = date.month
      BY DEF NewUsage
    <3>6. RowsDated'
      BY <1>1, <3>1, <3>2, <3>4, <3>5 DEF RowsDated, UsageInvariant, Date
    <3>7. UpdatesToday'
      BY <3>1, <3>2, <3>4 DEF UpdatesToday, UsageInvariant
    <3>8. counted = Zero
      BY <2>2 DEF UsageInvariant, RowsDated
    <3>9. Reset(NewUsage).count = NewUsage.count /\ NewUsage.count = Zero
      BY <3>1, <3>5, ResetAgain DEF NewUsage
    <3>10. CountsExact'
      BY <3>2, <3>8, <3>9 DEF CountsExact, Reset
    <3> QED
      BY <3>3, <3>6, <3>7, <3>10 DEF UsageInvariant
  <2> QED
    BY <2>1, <2>2
<1>5. CASE ResetUsage(h)
  <2> DEFINE plan == Reset(meter[h].copy)
             q == Holding(h, "update", plan)
  <2>1. /\ plan \in PlanUsage /\ plan.daily = date.day /\ plan.monthly = date.month
        /\ plan.exists = meter[h].copy.exists
    BY <1>1, RowTypes DEF Reset
  <2>2. /\ q \in MeterRow /\ q.copy = plan /\ q.pc = "update"
    BY <1>1, <2>1 DEF Holding, MeterRow
  <2>3. /\ meter' = [meter EXCEPT ![h] = q] /\ meter[h].pc = "reset"
        /\ UNCHANGED << date, quota, generator, counted >>
    BY <1>5 DEF ResetUsage
  <2>4. usage.exists /\ meter[h].copy.exists
    BY <2>3 DEF UsageInvariant, RowsDated
  <2>5. CASE plan = meter[h].copy
    <3>1. UNCHANGED << usage, overlapped >>
      BY <1>5, <2>5 DEF ResetUsage
    <3> HIDE DEF q, plan
    <3> QED
      BY <1>1, <2>1, <2>2, <2>3, <2>4, <3>1, MeterOnly
  <2>6. CASE plan # meter[h].copy
    <3>1. usage' = plan /\ overlapped' = (overlapped \/ usage # meter[h].copy)
      BY <1>5, <2>6 DEF ResetUsage, Overlap
    <3>2. overlapped' \/ (~overlapped /\ usage' = Reset(usage))
      BY <1>1, <3>1
    <3>3. overlapped' \in BOOLEAN
      BY <3>1
    <3>4. Reset(Reset(usage)) = Reset(usage)
      BY <1>1, ResetAgain
    <3>5. CountsExact'
      BY <2>3, <2>4, <3>2, <3>4 DEF CountsExact, UsageInvariant, Reset
    <3> HIDE DEF q, plan
    <3>6. UsageTypeOK'
      BY <1>1, <2>1, <2>2, <2>3, <3>1, <3>3 DEF UsageTypeOK
    <3>7. meter'[h] = q /\ \A i \in Meters \ {h} : meter'[i] = meter[i]
      BY <1>1, <2>3
    <3>8. RowsDated'
      <4>1. date.day \in Int /\ date.month \in Int
        BY <1>1, UsageBounds DEF Date
      <4>2. /\ usage'.exists /\ usage'.daily = date'.day /\ usage'.monthly = date'.month
            /\ date' = date /\ q.copy.exists
        BY <2>1, <2>2, <2>3, <2>4, <3>1
      <4>3. \A i \in Meters : meter'[i].pc \in {"reset", "update"} => meter'[i].copy.exists
        BY <3>7, <4>2 DEF RowsDated, UsageInvariant
      <4> QED
        BY <4>1, <4>2, <4>3 DEF RowsDated
    <3>9. UpdatesToday'
      BY <1>1, <2>1, <2>2, <2>3, <3>1, <3>7 DEF UpdatesToday, UsageInvariant
    <3> QED
      BY <3>5, <3>6, <3>8, <3>9 DEF UsageInvariant
  <2> QED
    BY <2>5, <2>6
<1>6. CASE UpdateUsage(h)
  <2> DEFINE op == meter[h].op
             c == CounterOf[op]
  <2>1. /\ op \in MeterOps /\ c \in Counters /\ counted[c] \in Nat
        /\ meter[h].copy.count[c] \in Nat
    BY <1>1, AddedTypes DEF PlanUsage
  <2>2. /\ meter' = [meter EXCEPT ![h] = IdleMeter] /\ meter[h].pc = "update"
        /\ counted' = [counted EXCEPT ![c] = Added(op, counted[c])]
        /\ UNCHANGED << date, quota, generator >>
    BY <1>6 DEF UpdateUsage
  <2>3. usage.exists
    BY <2>2 DEF UsageInvariant, RowsDated
  <2>4. CASE op = "read"
    <3>1. counted' = counted /\ UNCHANGED << usage, overlapped >>
      BY <1>1, <1>6, <2>2, <2>4 DEF UpdateUsage, Added
    <3> QED
      BY <1>1, <2>2, <3>1, RowTypes, MeterOnly DEF IdleMeter
  <2>5. CASE op # "read"
    <3> DEFINE n == Added(op, meter[h].copy.count[c])
    <3>1. /\ usage' = WithCount(usage, c, n)
          /\ overlapped' = (overlapped \/ usage # meter[h].copy)
      BY <1>6, <2>5 DEF UpdateUsage, Overlap
    <3>2. n \in Nat /\ Added(op, counted[c]) \in Nat
      BY <2>1, AddedTypes
    <3>3. usage' \in PlanUsage
      BY <1>1, <2>1, <3>1, <3>2, RowTypes
    <3>4. counted' \in [Counters -> Nat]
      BY <1>1, <2>1, <2>2, <3>2
    <3>5. overlapped' \in BOOLEAN
      BY <3>1
    <3>6. UsageTypeOK'
      BY <1>1, <2>2, <3>3, <3>4, <3>5, RowTypes DEF UsageTypeOK
    <3>7. meter'[h].pc = "idle" /\ \A i \in Meters \ {h} : meter'[i] = meter[i]
      BY <1>1, <2>2 DEF IdleMeter
    <3>8. usage'.exists = usage.exists /\ usage'.daily = usage.daily
          /\ usage'.monthly = usage.monthly /\ usage'.count = [usage.count EXCEPT ![c] = n]
      BY <3>1 DEF WithCount
    <3>9. RowsDated'
      BY <2>2, <2>3, <3>7, <3>8 DEF RowsDated, UsageInvariant
    <3>10. UpdatesToday'
      BY <1>1, <2>2, <3>1, <3>7 DEF UpdatesToday, UsageInvariant
    <3>11. ASSUME ~overlapped' PROVE Reset(usage').count = counted'
      <4>1. usage = meter[h].copy /\ ~overlapped
        BY <3>1, <3>11
      <4>2. usage.daily = date.day /\ usage.monthly = date.month
        BY <2>2, <4>1 DEF UpdatesToday, UsageInvariant
      <4>3. Reset(usage).count = usage.count /\ Reset(usage').count = usage'.count
        BY <1>1, <3>3, <3>8, <4>2, ResetAgain
      <4>4. usage.count = counted
        BY <2>3, <4>1, <4>3 DEF CountsExact, UsageInvariant
      <4> QED
        BY <2>2, <3>8, <4>1, <4>3, <4>4
    <3>12. CountsExact'
      BY <2>2, <3>11 DEF CountsExact, Reset
    <3> QED
      BY <3>6, <3>9, <3>10, <3>12 DEF UsageInvariant
  <2> QED
    BY <2>4, <2>5
<1> QED
  BY <1>2, <1>3, <1>4, <1>5, <1>6

\* At midnight the row is not touched, and the next reader finds it a day old.
LEMMA MidnightStep ==
  ASSUME UsageInvariant, Midnight
  PROVE  UsageInvariant'
<1>1. /\ usage \in PlanUsage /\ date \in Date /\ counted \in [Counters -> Nat]
      /\ date.month <= date.day /\ usage.daily <= date.day /\ usage.monthly <= date.month
      /\ overlapped \in BOOLEAN
  BY DEF UsageInvariant, UsageTypeOK, RowsDated
<1>2. PICK m \in {date.month, date.month + 1} :
        /\ date' = [day |-> date.day + 1, month |-> m]
        /\ counted' = [c \in Counters |->
             IF c = "messagesToday" \/ (c = "campaignsThisMonth" /\ m # date.month)
               THEN 0 ELSE counted[c]]
  BY DEF Midnight
<1>3. /\ UNCHANGED << usage, meter, generator >> /\ quota' = 0 /\ date.day < MaxDays
      /\ overlapped' = (overlapped \/ \E h \in Meters : meter[h].pc \in {"reset", "update"})
  BY DEF Midnight
<1>4. /\ date' \in Date /\ date'.month <= date'.day /\ date'.day = date.day + 1
      /\ date'.month = m /\ date.day \in Nat /\ date.month \in Nat
  BY <1>1, <1>2, <1>3, UsageBounds DEF Date
<1>5. counted' \in [Counters -> Nat]
  BY <1>1, <1>2
<1>6. overlapped' \in BOOLEAN
  BY <1>3
<1>7. UsageTypeOK'
  BY <1>3, <1>4, <1>5, <1>6 DEF UsageInvariant, UsageTypeOK
<1>8. ~usage.exists => counted' = Zero
  BY <1>2 DEF UsageInvariant, RowsDated, Zero, Counters
<1>9. usage.daily \in Nat /\ usage.monthly \in Nat
  BY <1>1 DEF PlanUsage
<1>10. RowsDated'
  BY <1>1, <1>2, <1>3, <1>4, <1>8, <1>9 DEF UsageInvariant, RowsDated
<1>11. UpdatesToday'
  BY <1>3 DEF UpdatesToday
<1>12. ASSUME ~overlapped', usage.exists PROVE Reset(usage)'.count = counted'
  <2>1. Reset(usage).count = counted
    BY <1>3, <1>12 DEF UsageInvariant, CountsExact
  <2>2. ASSUME NEW c \in Counters PROVE Reset(usage)'.count[c] = counted'[c]
    <3>1. CASE c = "messagesToday"
      BY <1>1, <1>2, <1>3, <1>4, <1>9, <3>1 DEF Reset
    <3>2. CASE c = "campaignsThisMonth"
      BY <1>1, <1>2, <1>3, <1>4, <1>9, <2>1, <3>2 DEF Reset
    <3>3. CASE c = "contactCount"
      BY <1>1, <1>2, <1>3, <2>1, <3>3 DEF Reset
    <3> QED
      BY <3>1, <3>2, <3>3 DEF Counters
  <2>3. Reset(usage)'.count = [c \in Counters |-> Reset(usage)'.count[c]]
    BY DEF Reset
  <2>4. counted' = [c \in Counters |-> counted'[c]]
    BY <1>5
  <2> QED
    BY <2>2, <2>3, <2>4
<1>13. CountsExact'
  BY <1>3, <1>12 DEF CountsExact
<1> QED
  BY <1>7, <1>10, <1>11, <1>13 DEF UsageInvariant

\* Every step keeps the invariant.
LEMMA UsageStep ==
  ASSUME UsageInvariant, [UsageNext]_usageVars
  PROVE  UsageInvariant'
<1>1. ASSUME NEW g \in Generators, CheckQuota(g) \/ Generate(g) PROVE UsageInvariant'
  <2>1. UNCHANGED << date, usage, meter, counted, overlapped >>
    BY <1>1 DEF CheckQuota, Generate
  <2>2. quota' \in Nat /\ generator' \in [Generators -> {"idle", "generate"}]
    BY <1>1 DEF CheckQuota, Generate, RecordUsage, UsageInvariant, UsageTypeOK
  <2> QED
    BY <2>1, <2>2 DEF UsageInvariant, UsageTypeOK, RowsDated, UpdatesToday, CountsExact, Reset
<1>2. CASE RestartUsage
  <2>1. /\ UNCHANGED << date, usage, counted, overlapped >> /\ quota' = 0
        /\ meter' = [h \in Meters |-> IdleMeter]
        /\ generator' = [g \in Generators |-> "idle"]
    BY <1>2 DEF RestartUsage
  <2>2. UsageTypeOK'
    BY <2>1, RowTypes DEF UsageInvariant, UsageTypeOK
  <2>3. \A h \in Meters : meter'[h].pc = "idle"
    BY <2>1 DEF IdleMeter
  <2> QED
    BY <2>1, <2>2, <2>3 DEF UsageInvariant, RowsDated, UpdatesToday, CountsExact, Reset
<1>3. CASE UNCHANGED usageVars
  BY <1>3 DEF usageVars, UsageInvariant, UsageTypeOK, RowsDated, UpdatesToday, CountsExact, Reset
<1> QED
  BY <1>1, <1>2, <1>3, MeterStep, MidnightStep DEF UsageNext, AiController

\* The types of the plan's usage, and the counters that the next reader sees, in every
\* state: any number of handlers, days, months and restarts.
THEOREM UsageInvariance == UsageSpec => []UsageInvariant
  BY UsageInitInv, UsageStep, PTL DEF UsageSpec

\* For any number of handlers at once, any days and months, and restarts anywhere: as
\* long as no handler writes a row that another one or a midnight overtook, the counters
\* that the next reader sees are what the events of today and of this month made them.
THEOREM CountsAreExact ==
  UsageSpec => []CountsExact
<1>1. UsageInvariant => CountsExact
  BY DEF UsageInvariant
<1> QED
  BY <1>1, UsageInvariance, PTL

-----------------------------------------------------------------------------
(* The instances of a session, for any limit of reconnections and however many         *)
(* instances are made: each is on one way to a connection at most, and what the pool   *)
(* answers of its own is true.                                                         *)

\* Of every instance: a socket, a connect() under way and a timer exclude one another,
\* nothing is under way before it is made, and only the circuit breaker waits with the
\* attempts used up.
Single(inst) ==
  /\ inst.socket # "none" => ~inst.connecting /\ inst.timer = "none"
  /\ inst.connecting => inst.timer = "none"
  /\ ~inst.made => /\ inst.socket = "none" /\ ~inst.connecting /\ inst.timer = "none"
                   /\ inst.attempts = 0
  /\ inst.timer # "circuit" => inst.attempts <= MaxReconnect

\* Of the one in the pool: an open socket has no failed attempt behind it.
Truthful(inst) ==
  /\ inst.made
  /\ inst.state = "CONNECTED" => \/ inst.socket = "open" /\ inst.attempts = 0
                                 \/ inst.timer = "reconnect" /\ inst.attempts = 1
  /\ inst.timer = "circuit" => inst.attempts > MaxReconnect

SessionsInvariant ==
  /\ pool \in Instances \cup {NoInstance}
  /\ instance \in [Instances -> Instance]
  /\ \A i \in Instances : Single(instance[i])
  /\ pool # NoInstance => Truthful(instance[pool])

-----------------------------------------------------------------------------
(* What becomes of an instance. *)

\* The fields of an instance.
LEMMA FieldsOf ==
  ASSUME NEW inst \in Instance
  PROVE  /\ inst.made \in BOOLEAN /\ inst.state \in SessionState
         /\ inst.socket \in {"none", "opening", "open"} /\ inst.connecting \in BOOLEAN
         /\ inst.timer \in Timer /\ inst.attempts \in 0..(MaxReconnect + 1)
  BY DEF Instance

\* connect() of an instance that waits, or is new.
LEMMA ConnectingIsSound ==
  ASSUME NEW inst \in Instance, Single(inst), inst.socket = "none"
  PROVE  /\ Connecting(inst) \in Instance
         /\ Single(Connecting(inst)) /\ Truthful(Connecting(inst))
<1>1. Connecting(inst) \in Instance
  BY FieldsOf, SessionBounds DEF Connecting, Instance, SessionState, Timer
<1>2. Connecting(inst).attempts <= MaxReconnect
  BY FieldsOf, SessionBounds DEF Connecting, Single
<1> QED
  BY <1>1, <1>2 DEF Connecting, Single, Truthful

\* The socket of an instance closes for a reason that is retried.
LEMMA RetriedIsSound ==
  ASSUME NEW inst \in Instance, Single(inst), inst.socket # "none"
  PROVE  /\ Retried(inst) \in Instance
         /\ Single(Retried(inst))
         /\ Truthful(inst) => Truthful(Retried(inst))
<1>1. inst.attempts + 1 \in 0..(MaxReconnect + 1)
  BY FieldsOf, SessionBounds DEF Single
<1>2. Retried(inst) \in Instance
  BY <1>1, FieldsOf DEF Retried, Instance, SessionState, Timer
<1>3. Single(Retried(inst))
  BY <1>1, FieldsOf, SessionBounds DEF Retried, Single
<1>4. ASSUME Truthful(inst) PROVE Truthful(Retried(inst))
  BY <1>1, <1>4, FieldsOf, SessionBounds DEF Retried, Single, Truthful
<1> QED
  BY <1>2, <1>3, <1>4

\* disconnect() of an instance, whatever is under way.
LEMMA EndSocketIsSound ==
  ASSUME NEW inst \in Instance, Single(inst)
  PROVE  EndSocket(inst) \in Instance /\ Single(EndSocket(inst))
<1>1. Retried(inst).timer \in Timer
  BY DEF Retried, Timer
<1>2. EndSocket(inst) \in Instance
  BY <1>1, FieldsOf, SessionBounds DEF EndSocket, Instance, SessionState
<1>3. Single(EndSocket(inst))
  BY FieldsOf, SessionBounds DEF EndSocket, Single
<1> QED
  BY <1>2, <1>3

\* It is enough to look at the instance that changes.
LEMMA OneChanges ==
  ASSUME SessionsInvariant, NEW i \in Instances, NEW inst \in Instance, Single(inst),
         pool' \in {NoInstance, pool, i},
         pool' = i => Truthful(inst),
         instance' = [instance EXCEPT ![i] = inst]
  PROVE  SessionsInvariant'
<1>1. instance' \in [Instances -> Instance]
  BY DEF SessionsInvariant
<1>2. instance'[i] = inst /\ \A j \in Instances \ {i} : instance'[j] = instance[j]
  BY DEF SessionsInvariant
<1>3. \A j \in Instances : Single(instance'[j])
  BY <1>2 DEF SessionsInvariant
<1>4. pool' \in Instances \cup {NoInstance}
  BY DEF SessionsInvariant
<1>5. pool' # NoInstance => Truthful(instance'[pool'])
  BY <1>2, <1>4 DEF SessionsInvariant
<1> QED
  BY <1>1, <1>3, <1>4, <1>5 DEF SessionsInvariant, Single, Truthful

\* The first instance that is not made is made, and put in the pool.
LEMMA CreateAndConnectIsSound ==
  SessionsInvariant /\ CreateAndConnect => SessionsInvariant'
<1> SUFFICES ASSUME SessionsInvariant, CreateAndConnect PROVE SessionsInvariant'
  OBVIOUS
<1>1. PICK i \in Instances :
        /\ ~instance[i].made /\ pool' = i
        /\ instance' = [instance EXCEPT ![i] = Connecting(instance[i])]
  BY DEF CreateAndConnect
<1>2. instance[i] \in Instance /\ Single(instance[i]) /\ instance[i].socket = "none"
  BY <1>1 DEF SessionsInvariant, Single
<1> QED
  BY <1>1, <1>2, ConnectingIsSound, OneChanges

-----------------------------------------------------------------------------
(* The invariant. *)

LEMMA SessionsInvariantInit ==
  SessionsInit => SessionsInvariant
<1> SUFFICES ASSUME SessionsInit PROVE SessionsInvariant
  OBVIOUS
<1>1. Unmade \in Instance
  BY SessionBounds DEF Unmade, Instance, SessionState, Timer
<1>2. Single(Unmade)
  BY SessionBounds DEF Unmade, Single
<1> QED
  BY <1>1, <1>2 DEF SessionsInit, SessionsInvariant

\* What WhatsApp makes of it, and the end of connect().
LEMMA AtIsSound ==
  ASSUME NEW inst \in Instance, Single(inst), NEW said \in SessionState,
         NEW held \in {"none", "opening", "open"},
         inst.socket = "none" => inst.connecting,
         said = "CONNECTED" => held = "open" \/ (inst.connecting /\ said = inst.state)
  PROVE  /\ At(inst, said, held) \in Instance
         /\ Single(At(inst, said, held))
         /\ Truthful(inst) => Truthful(At(inst, said, held))
<1>1. At(inst, said, held) \in Instance
  BY FieldsOf, SessionBounds DEF At, Instance
<1>2. inst.timer = "none"
  BY DEF Single
<1>3. Single(At(inst, said, held))
  <2>1. At(inst, said, held).connecting <=> inst.connecting /\ held = "none"
    BY DEF At
  <2> QED
    BY <1>2, <2>1, FieldsOf, SessionBounds DEF At, Single
<1>4. ASSUME Truthful(inst) PROVE Truthful(At(inst, said, held))
  BY <1>2, <1>4, FieldsOf, SessionBounds DEF At, Single, Truthful
<1> QED
  BY <1>1, <1>3, <1>4

LEMMA InstanceKeepsInvariant ==
  ASSUME SessionsInvariant, NEW i \in Instances,
         InstanceStep(i) \/ ShowQR(i) \/ ScanQR(i) \/ Open(i) \/ CloseSocket(i)
  PROVE  SessionsInvariant'
<1>1. /\ instance[i] \in Instance /\ Single(instance[i])
      /\ pool = i => Truthful(instance[i])
  BY DEF SessionsInvariant, Instances, NoInstance
<1>2. CASE MakeSocket(i)
  <2>1. /\ instance[i].connecting /\ pool' = pool
        /\ instance' = [instance EXCEPT ![i] = At(instance[i], instance[i].state, "opening")]
    BY <1>2 DEF MakeSocket
  <2> QED
    BY <1>1, <2>1, FieldsOf, AtIsSound, OneChanges
<1>3. CASE TimerFires(i)
  <2>1. /\ pool' = pool
        /\ instance' = [instance EXCEPT ![i] = Connecting(instance[i])]
    BY <1>3 DEF TimerFires
  <2>2. instance[i].socket = "none"
    BY <1>1, <1>3 DEF TimerFires, Single
  <2> QED
    BY <1>1, <2>1, <2>2, ConnectingIsSound, OneChanges
<1>4. CASE ShowQR(i)
  <2>1. /\ instance[i].socket # "none" /\ pool' = pool
        /\ instance' = [instance EXCEPT ![i] = At(instance[i], "QR_READY", "opening")]
    BY <1>4 DEF ShowQR
  <2>2. "QR_READY" \in SessionState
    BY DEF SessionState
  <2> QED
    BY <1>1, <2>1, <2>2, AtIsSound, OneChanges
<1>5. CASE ScanQR(i)
  BY <1>5 DEF ScanQR, SessionsInvariant, Single, Truthful
<1>6. CASE Open(i)
  <2>1. /\ instance[i].socket # "none" /\ pool' = pool
        /\ instance' = [instance EXCEPT ![i] = At(instance[i], "CONNECTED", "open")]
    BY <1>6 DEF Open
  <2>2. "CONNECTED" \in SessionState
    BY DEF SessionState
  <2> QED
    BY <1>1, <2>1, <2>2, AtIsSound, OneChanges
<1>7. CASE CloseSocket(i)
  <2>1. instance[i].socket # "none" /\ pool' = pool
    BY <1>7 DEF CloseSocket
  <2>2. CASE instance' = [instance EXCEPT ![i] = Retried(instance[i])]
    BY <1>1, <2>1, <2>2, RetriedIsSound, OneChanges
  <2>3. ASSUME NEW final \in {"DISCONNECTED", "BANNED"},
               instance' = [instance EXCEPT ![i] = At(instance[i], final, "none")]
        PROVE  SessionsInvariant'
    <3>1. final \in SessionState
      BY DEF SessionState
    <3> QED
      BY <1>1, <2>1, <2>3, <3>1, AtIsSound, OneChanges
  <2> QED
    BY <1>7, <2>2, <2>3 DEF CloseSocket
<1> QED
  BY <1>2, <1>3, <1>4, <1>5, <1>6, <1>7 DEF InstanceStep

LEMMA PoolKeepsInvariant ==
  SessionsInvariant /\ [SessionsNext]_sessionVars => SessionsInvariant'
<1> SUFFICES ASSUME SessionsInvariant, [SessionsNext]_sessionVars PROVE SessionsInvariant'
  OBVIOUS
<1>1. CASE UNCHANGED << pool, instance >>
  BY <1>1 DEF SessionsInvariant, Single, Truthful
<1>2. ASSUME NEW i \in Instances,
             InstanceStep(i) \/ ShowQR(i) \/ ScanQR(i) \/ Open(i) \/ CloseSocket(i)
      PROVE  SessionsInvariant'
  BY <1>2, InstanceKeepsInvariant
<1>3. CASE SendRestores
  BY <1>3, CreateAndConnectIsSound, <1>1 DEF SendRestores, PoolRestore
<1>4. CASE Restart
  <2> DEFINE one == CHOOSE j \in Instances : TRUE
  <2>1. Unmade \in Instance /\ Single(Unmade) /\ Unmade.socket = "none"
    BY SessionBounds DEF Unmade, Instance, SessionState, Timer, Single
  <2>2. /\ Connecting(Unmade) \in Instance
        /\ Single(Connecting(Unmade)) /\ Truthful(Connecting(Unmade))
    BY <2>1, ConnectingIsSound
  <2>3. /\ pool' = IF HasCreds THEN one ELSE NoInstance
        /\ instance' = [j \in Instances |->
                          IF HasCreds /\ j = one THEN Connecting(Unmade) ELSE Unmade]
    BY <1>4 DEF Restart
  <2>4. HasCreds => one \in Instances
    BY SessionBounds DEF Instances, one
  <2> HIDE DEF one
  <2>5. \A j \in Instances : instance'[j] \in Instance /\ Single(instance'[j])
    BY <2>1, <2>2, <2>3
  <2>6. pool' # NoInstance => Truthful(instance'[pool'])
    BY <2>2, <2>3, <2>4
  <2> QED
    BY <2>1, <2>2, <2>3, <2>4, <2>5, <2>6 DEF SessionsInvariant, Single, Truthful
<1>5. CASE PostConnect
  BY <1>5, CreateAndConnectIsSound, <1>1 DEF PostConnect, PoolConnect
<1>6. CASE PollStatus
  BY <1>6, CreateAndConnectIsSound, <1>1 DEF PollStatus, PoolRestore
<1>7. CASE ClickEnd
  <2>1. CASE PoolDisconnect /\ pool # NoInstance
    <3>1. pool \in Instances /\ instance[pool] \in Instance /\ Single(instance[pool])
      BY <2>1 DEF SessionsInvariant
    <3>2. pool' = NoInstance /\ instance' = [instance EXCEPT ![pool] = EndSocket(instance[pool])]
      BY <2>1 DEF PoolDisconnect
    <3>3. pool' # pool
      BY <2>1, <3>2
    <3> QED
      BY <3>1, <3>2, <3>3, EndSocketIsSound, OneChanges
  <2> QED
    BY <1>1, <1>7, <2>1 DEF ClickEnd, PoolDisconnect
<1>8. CASE ClickConnect \/ PollAnswer \/ StopListening \/ EndRow
  BY <1>1, <1>8 DEF ClickConnect, PollAnswer, StopListening, EndRow
<1> QED
  BY <1>1, <1>2, <1>3, <1>4, <1>5, <1>6, <1>7, <1>8 DEF SessionsNext, sessionVars

\* In every order of closes, timers, connects, disconnects and restarts.
THEOREM SessionsInvariance ==
  SessionsInit /\ [][SessionsNext]_sessionVars => []SessionsInvariant
  BY SessionsInvariantInit, PoolKeepsInvariant, PTL

-----------------------------------------------------------------------------
(* What follows. *)

\* Close events, timers, disconnects and connects of BaileysInstance, in any order and
\* any number, never give an instance two sockets, or a timer beside one.
THEOREM OneWayIsKept ==
  SessionsInit /\ [][SessionsNext]_sessionVars => []OneWayToConnect
<1>1. SessionsInvariant => OneWayToConnect
  <2> SUFFICES ASSUME SessionsInvariant, NEW i \in Instances
               PROVE  Cardinality({w \in {"socket", "connect", "timer"} :
                        \/ w = "socket" /\ instance[i].socket # "none"
                        \/ w = "connect" /\ instance[i].connecting
                        \/ w = "timer" /\ instance[i].timer # "none"}) <= 1
    BY DEF OneWayToConnect
  <2> DEFINE Ways == {w \in {"socket", "connect", "timer"} :
                        \/ w = "socket" /\ instance[i].socket # "none"
                        \/ w = "connect" /\ instance[i].connecting
                        \/ w = "timer" /\ instance[i].timer # "none"}
  <2>1. \E w \in {"socket", "connect", "timer"} : Ways \subseteq {w}
    BY DEF SessionsInvariant, Single
  <2>2. PICK w \in {"socket", "connect", "timer"} : Ways \subseteq {w}
    BY <2>1
  <2>3. IsFiniteSet({w}) /\ Cardinality({w}) = 1
    BY FS_Singleton
  <2> QED
    BY <2>2, <2>3, FS_Subset
<1> QED
  BY <1>1, SessionsInvariance, PTL

\* What GET sessions/:id answers of the instance in the pool: CONNECTED is true or the
\* first reconnection is due, and the breaker is on while the attempts are used up.
THEOREM PoolIsTruthful ==
  SessionsInit /\ [][SessionsNext]_sessionVars => []PoolTellsTruth
<1>1. SessionsInvariant => PoolTellsTruth
  <2> SUFFICES ASSUME SessionsInvariant, pool # NoInstance
               PROVE  /\ instance[pool].made
                      /\ instance[pool].state = "CONNECTED" =>
                           \/ instance[pool].socket = "open"
                           \/ instance[pool].timer = "reconnect" /\ instance[pool].attempts = 1
                      /\ instance[pool].timer = "circuit" <=> instance[pool].attempts > MaxReconnect
    BY DEF PoolTellsTruth
  <2>1. pool \in Instances /\ instance[pool] \in Instance
        /\ Single(instance[pool]) /\ Truthful(instance[pool])
    BY DEF SessionsInvariant
  <2> QED
    BY <2>1, FieldsOf, SessionBounds DEF Single, Truthful
<1> QED
  BY <1>1, SessionsInvariance, PTL

-----------------------------------------------------------------------------
(* The page and the row. *)

\* The types of what the page, the row and the counters keep.
PageKeepsTypes ==
  /\ creds \in BOOLEAN /\ polling \in BOOLEAN
  /\ sessionRow \in {"NONE", "CONNECTED", "BANNED", "DISCONNECTED"}
  /\ sessionPage \in {"idle", "connect", "disconnect", "delete"}
  /\ answers \subseteq SessionState
  /\ clicks \in 0..MaxClicks /\ closes \in 0..MaxCloses /\ restarts \in 0..MaxRestarts

\* What the page, the row and the counters keep has its type at first.
LEMMA PageTypesInit == SessionsInit => PageKeepsTypes
<1> SUFFICES ASSUME SessionsInit PROVE PageKeepsTypes
  OBVIOUS
<1>1. clicks \in 0..MaxClicks /\ closes \in 0..MaxCloses /\ restarts \in 0..MaxRestarts
  BY SessionBounds DEF SessionsInit
<1>2. creds = FALSE /\ polling = FALSE /\ answers = {}
      /\ sessionRow = "DISCONNECTED" /\ sessionPage = "idle"
  BY DEF SessionsInit
<1> QED BY <1>1, <1>2 DEF PageKeepsTypes

\* What an instance and a user do keeps it.
LEMMA InstanceKeepsPage ==
  ASSUME PageKeepsTypes, NEW i \in Instances,
         InstanceStep(i) \/ ShowQR(i) \/ ScanQR(i) \/ Open(i) \/ CloseSocket(i)
  PROVE  PageKeepsTypes'
<1>1. CASE MakeSocket(i) \/ TimerFires(i) \/ ShowQR(i) \/ ScanQR(i) \/ Open(i)
  <2>1. UNCHANGED << sessionPageVars, closes, restarts >> /\ creds' \in {creds, TRUE}
    BY <1>1 DEF MakeSocket, TimerFires, ShowQR, ScanQR, Open
  <2> QED BY <2>1 DEF PageKeepsTypes, sessionPageVars
<1>2. CASE CloseSocket(i)
  <2>1. UNCHANGED << sessionPageVars, creds, restarts >> /\ closes < MaxCloses /\ closes' = closes + 1
    BY <1>2 DEF CloseSocket
  <2> QED BY <2>1, SessionBounds DEF PageKeepsTypes, sessionPageVars
<1> QED BY <1>1, <1>2 DEF InstanceStep

\* So does every step of the page.
LEMMA RowAndPageKeep ==
  ASSUME PageKeepsTypes, SessionsInvariant', [SessionsNext]_sessionVars
  PROVE  PageKeepsTypes'
<1>1. CASE UNCHANGED sessionVars
  BY <1>1 DEF PageKeepsTypes, sessionVars
<1>2. CASE SendRestores \/ StopListening
  BY <1>2 DEF SendRestores, StopListening, PageKeepsTypes, sessionPageVars
<1>3. CASE Restart
  BY <1>3, SessionBounds DEF Restart, PageKeepsTypes
<1>4. CASE ClickConnect \/ ClickEnd
  BY <1>4, SessionBounds DEF ClickConnect, ClickEnd, Click, PageKeepsTypes
<1>5. CASE PostConnect
  BY <1>5 DEF PostConnect, PoolConnect, ClearCreds, PageKeepsTypes
<1>6. CASE PollStatus
  <2>1. pool' # NoInstance => instance'[pool'].state \in SessionState
    BY FieldsOf DEF SessionsInvariant
  <2> QED BY <1>6, <2>1 DEF PollStatus, PageKeepsTypes
<1>7. CASE PollAnswer
  BY <1>7 DEF PollAnswer, WriteStatus, PageKeepsTypes
<1>8. CASE EndRow
  BY <1>8 DEF EndRow, PageKeepsTypes
<1> QED
  BY <1>1, <1>2, <1>3, <1>4, <1>5, <1>6, <1>7, <1>8, InstanceKeepsPage DEF SessionsNext

\* The page, the row and the counters keep their types beside the instances.
THEOREM SessionsTypes == SessionsInit /\ [][SessionsNext]_sessionVars => []SessionsTypeOK
<1>1. SessionsInit => SessionsInvariant /\ PageKeepsTypes
  BY SessionsInvariantInit, PageTypesInit
<1>2. SessionsInvariant /\ PageKeepsTypes /\ [SessionsNext]_sessionVars
        => (SessionsInvariant /\ PageKeepsTypes)'
  BY PoolKeepsInvariant, RowAndPageKeep
<1>3. SessionsInvariant /\ PageKeepsTypes => SessionsTypeOK
  BY DEF SessionsInvariant, PageKeepsTypes, SessionsTypeOK
<1> QED BY <1>1, <1>2, <1>3, PTL

-----------------------------------------------------------------------------
(* All of them side by side. *)

\* Each of them starts with the whole.
LEMMA EachStarts ==
  ServicesInit =>
    /\ ContactsInit /\ HooksInit /\ UsageInit /\ RowsInit /\ TokensInit /\ RecurrenceInit
    /\ AutomationsInit /\ AnalyticsInit /\ ExportsInit /\ PagesInit /\ InboxInit /\ LiveInit
    /\ SessionsInit /\ AbInit
BY DEF ServicesInit

\* What the others do leaves each as it was.
LEMMA OthersAreStill ==
  ASSUME OthersStill
  PROVE  /\ ~Is("contacts") => UNCHANGED contactVars
         /\ ~Is("webhooks") => UNCHANGED hookVars
         /\ ~Is("usage") => UNCHANGED usageVars
         /\ ~Is("rows") => UNCHANGED rowVars
         /\ ~Is("tokens") => UNCHANGED tokenVars
         /\ ~Is("recurrence") => UNCHANGED recurrenceVars
         /\ ~Is("automations") => UNCHANGED automationVars
         /\ ~Is("analytics") => UNCHANGED analyticsVars
         /\ ~Is("exports") => UNCHANGED exportVars
         /\ ~Is("pages") => UNCHANGED pageVars
         /\ ~Is("inbox") => UNCHANGED inboxVars
         /\ ~Is("live") => UNCHANGED liveVars
         /\ ~Is("sessions") => UNCHANGED sessionVars
         /\ ~Is("abTests") => UNCHANGED abVars
BY DEF OthersStill, Still

\* A step of the whole is one step of each, or none.
LEMMA EachSteps ==
  ASSUME [ServicesNext]_servicesVars
  PROVE  /\ [ContactsNext]_contactVars /\ [HooksNext]_hookVars /\ [UsageNext]_usageVars
         /\ [RowsNext]_rowVars /\ [TokensNext]_tokenVars /\ [RecurrenceNext]_recurrenceVars
         /\ [AutomationsNext]_automationVars /\ [AnalyticsNext]_analyticsVars
         /\ [ExportsNext]_exportVars /\ [PagesNext]_pageVars /\ [InboxNext]_inboxVars
         /\ [LiveNext]_liveVars /\ [SessionsNext]_sessionVars /\ [AbNext]_abVars
<1>1. CASE UNCHANGED servicesVars
  BY <1>1 DEF servicesVars
<1>2. CASE ServicesNext
  <2>1. OthersStill
    BY <1>2 DEF ServicesNext
  <2>2. /\ Is("contacts") => ContactsNext
        /\ Is("webhooks") => HooksNext
        /\ Is("usage") => UsageNext
        /\ Is("rows") => RowsNext
        /\ Is("tokens") => TokensNext
    BY <1>2 DEF ServicesNext, Is
  <2>3. /\ Is("recurrence") => RecurrenceNext
        /\ Is("automations") => AutomationsNext
        /\ Is("analytics") => AnalyticsNext
        /\ Is("exports") => ExportsNext
        /\ Is("pages") => PagesNext
    BY <1>2 DEF ServicesNext, Is
  <2>4. /\ Is("inbox") => InboxNext
        /\ Is("live") => LiveNext
        /\ Is("sessions") => SessionsNext
        /\ Is("abTests") => AbNext
    BY <1>2 DEF ServicesNext, Is
  <2> QED BY <2>1, <2>2, <2>3, <2>4, OthersAreStill
<1> QED BY <1>1, <1>2

\* So a behaviour of the whole is one of each (without the fairness that four of them
\* state), and what is proved of each holds of the whole.
THEOREM EachIsAsSpecified ==
  ServicesSpec =>
    /\ ContactsSpec /\ UsageSpec /\ RowsSpec /\ TokensSpec /\ RecurrenceSpec
    /\ AutomationsSpec /\ AnalyticsSpec /\ PagesSpec /\ InboxSpec /\ AbSpec
    /\ HooksInit /\ [][HooksNext]_hookVars
    /\ ExportsInit /\ [][ExportsNext]_exportVars
    /\ LiveInit /\ [][LiveNext]_liveVars
    /\ SessionsInit /\ [][SessionsNext]_sessionVars
BY EachStarts, EachSteps, PTL
   DEF ServicesSpec, ContactsSpec, UsageSpec, RowsSpec, TokensSpec, RecurrenceSpec,
       AutomationsSpec, AnalyticsSpec, PagesSpec, InboxSpec, AbSpec

\* Whichever component moves keeps its types.
THEOREM ServicesTypes == ServicesSpec => []ServicesTypeOK
<1>1. ServicesSpec => [](ContactsTypeOK /\ RowAsAsked /\ GroupAsAsked)
  BY EachIsAsSpecified, ContactsAreAsAsked, PTL
<1>2. ServicesSpec => []HooksInvariant
  BY EachIsAsSpecified, HooksInvariance, PTL
<1>3. ServicesSpec => []UsageInvariant
  BY EachIsAsSpecified, UsageInvariance, PTL
<1>4. ServicesSpec => [](RowsTypeOK /\ TokensTypeOK /\ RecurrenceTypeOK)
  BY EachIsAsSpecified, RowsTypes, TokenTypes, RecurrenceTypes, PTL
<1>5. ServicesSpec => [](AutomationsTypeOK /\ AnalyticsTypeOK /\ InboxTypeOK /\ AbTypeOK)
  BY EachIsAsSpecified, AutomationsTypes, AnalyticsTypes, InboxTypes, AbTypes, PTL
<1>6. ServicesSpec => [](PagesInvariance /\ ExportsInvariant)
  BY EachIsAsSpecified, PagesKeep, ExportsInvariance, PTL
<1>7. ServicesSpec => [](LiveInvariant /\ SessionsTypeOK)
  BY EachIsAsSpecified, LiveInvariance, SessionsTypes, PTL
<1>8. /\ ContactsTypeOK /\ HooksInvariant /\ UsageInvariant
      /\ RowsTypeOK /\ TokensTypeOK /\ RecurrenceTypeOK
      /\ AutomationsTypeOK /\ AnalyticsTypeOK /\ InboxTypeOK /\ AbTypeOK
      /\ PagesInvariance /\ ExportsInvariant /\ LiveInvariant /\ SessionsTypeOK
      => ServicesTypeOK
  BY DEF ServicesTypeOK, HooksInvariant, UsageInvariant, PagesInvariance, ExportsInvariant,
         LiveInvariant
<1> QED BY <1>1, <1>2, <1>3, <1>4, <1>5, <1>6, <1>7, <1>8, PTL

\* And its promises, those of every one of them (EventsReachSubscribers apart, which
\* needs the events to carry the keys the dispatch looks for).
THEOREM ServicesKeepTheirPromises ==
  ServicesSpec =>
    /\ []GroupAsAsked /\ []CountsExact /\ []QuotaOverrunBounded
    /\ []KeysStayDead /\ []RowsAsWanted /\ []ReuseExplained
    /\ []OccurrencesFollowRule /\ []GreetedOnceAYear
    /\ []StatsExact /\ []OwnWritesShow /\ []ThreadWhole /\ []UnreadIncludesLast
    /\ []OneWayToConnect /\ []PoolTellsTruth /\ []WinnerEarned
<1>1. ServicesSpec => []GroupAsAsked /\ []CountsExact /\ []QuotaOverrunBounded
  BY EachIsAsSpecified, ContactsAreAsAsked, CountsAreExact, QuotaIsBounded, PTL
<1>2. ServicesSpec => []KeysStayDead /\ []RowsAsWanted /\ []ReuseExplained
  BY EachIsAsSpecified, DeadKeysStayDead, RowsAreAsWanted, ReuseIsExplained, PTL
<1>3. ServicesSpec => []OccurrencesFollowRule /\ []GreetedOnceAYear /\ []StatsExact
  BY EachIsAsSpecified, OccurrencesFollow, GreetingsAreAnnual, StatsAreExact, PTL
<1>4. ServicesSpec => []OwnWritesShow /\ []ThreadWhole /\ []UnreadIncludesLast
  BY EachIsAsSpecified, OwnWritesAreShown, ThreadsAreWhole, UnreadIsCounted, PTL
<1>5. ServicesSpec => []OneWayToConnect /\ []PoolTellsTruth /\ []WinnerEarned
  BY EachIsAsSpecified, OneWayIsKept, PoolIsTruthful, WinnersAreEarned, PTL
<1> QED BY <1>1, <1>2, <1>3, <1>4, <1>5, PTL
=============================================================================
