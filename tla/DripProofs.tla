----------------------------- MODULE DripProofs -----------------------------
(***************************************************************************)
(* What a drip sequence sends, for any number of contacts, steps, requests *)
(* and crashes: a step is not repeated except by a crash, a contact that   *)
(* opted out gets at most the message under way, and an enrolment that     *)
(* ended sends nothing.                                                    *)
(***************************************************************************)
EXTENDS Drip, FiniteSetTheorems, TLAPS

\* Before its message: the rest of a run of processDripStep sends nothing.
BeforeSend == {"step", "replies", "send"}

\* The worker is on the one active job; it saves and adds a next step only where
\* there is a number for it.
WorkerInvariant ==
  /\ dripper.pc # "idle" => dripper.contact \in Contacts /\ dripper.number \in Numbers
  /\ dripper.pc \in {"save", "add"} => dripper.number < MaxStep
  /\ \A c \in Contacts, n \in Numbers :
       job[c][n].state = "active"
         <=> dripper.pc # "idle" /\ dripper.contact = c /\ dripper.number = n

\* A request that looked up a contact has one.
RequestInvariant ==
  \A r \in Requests : req[r].pc \in {"existing", "save", "add"} => req[r].contact \in Contacts

\* The enrolment of c may still be saved; r saved it and is to add its first job.
MayEnroll(c) == enrollment[c] = NotEnrolled /\ sequence # "DELETED"
Adding(r, c) == req[r].pc = "add" /\ req[r].contact = c

\* The unique key: one request at most ever adds a first job for a contact.
EnrolledOnce ==
  /\ \A c \in Contacts, r \in Requests : MayEnroll(c) => ~Adding(r, c)
  /\ \A c \in Contacts, q, r \in Requests : Adding(q, c) /\ Adding(r, c) => q = r

\* The steps at or before n at which a chain of jobs stands that has yet to pass
\* the message of step n.
Due(c, n) ==
  {k \in 1..n :
     \/ job[c][k].state \in {"delayed", "waiting"}
     \/ /\ job[c][k].state = "active"
        /\ IF k = n THEN dripper.pc \in BeforeSend ELSE dripper.pc # "return"}

\* A chain that is still to begin.
ToBegin(c) == IF MayEnroll(c) \/ \E r \in Requests : Adding(r, c) THEN 1 ELSE 0

\* There is one chain of jobs, and one more for each crash at most: what was sent
\* and what may yet be sent are bounded together.
ChainsBounded ==
  \A c \in Contacts, n \in Numbers :
    sent[c][n] + ToBegin(c) + Cardinality(Due(c, n)) <= 1 + crashes

CoreInvariant == DripTypeOK /\ WorkerInvariant /\ RequestInvariant
DripInvariant == CoreInvariant /\ EnrolledOnce /\ ChainsBounded

\* While the worker still may send with an opt-out it has not seen, nothing was
\* sent since.
OptOutInvariant ==
  /\ dripper.pc \in {"replies", "send"} => ~dripper.optedOut
  /\ \A c \in Contacts :
       dripper.contact = c /\ dripper.pc \in BeforeSend /\ ~dripper.optedOut
         /\ contact[c] = "out" => afterOptOut[c] = 0

\* Only the worker ends an enrolment, and then it is done with it.
SilenceInvariant ==
  dripper.pc # "idle" => enrollment[dripper.contact].status \in {"ACTIVE", "NONE"}

\* An ACTIVE enrolment has a job, or a request that is about to add its first one,
\* unless its chain was cut.
NoneStranded ==
  \A c \in Contacts : enrollment[c].status = "ACTIVE" =>
    \/ broken[c]
    \/ \E r \in Requests : Adding(r, c)
    \/ \E n \in Numbers : job[c][n].state \in Pending

\* A job is kept only of a chain that was cut, and one that is about to be removed
\* has a successor.
StrandInvariant ==
  /\ NoneStranded
  /\ \A c \in Contacts, n \in Numbers : job[c][n].state = "failed" => broken[c]
  /\ dripper.pc = "return" =>
       \/ broken[dripper.contact]
       \/ \E k \in Numbers \ {dripper.number} : job[dripper.contact][k].state \in Pending
-----------------------------------------------------------------------------
(* What the operators on jobs return. *)

\* Put changes one job.
LEMMA PutIs ==
  ASSUME job \in [Contacts -> [Numbers -> StepJob]],
         NEW c \in Contacts, NEW n \in Numbers, NEW j \in StepJob
  PROVE  /\ Put(c, n, j) \in [Contacts -> [Numbers -> StepJob]]
         /\ Put(c, n, j)[c][n] = j
         /\ \A d \in Contacts, k \in Numbers :
              d # c \/ k # n => Put(c, n, j)[d][k] = job[d][k]
BY DEF Put

\* A job that runs or waits has not used up its stalls.
LEMMA JobFields ==
  ASSUME NEW j \in StepJob
  PROVE  /\ j.state \in Pending \cup {"none", "failed"}
         /\ j.state \in Pending => j.stalls \in 0..MaxStalls
BY BoundsAssumption DEF StepJob, NoJob, Pending

\* Where a job may go.
LEMMA JobsOf ==
  /\ NoJob \in StepJob /\ NoJob.state = "none"
  /\ [state |-> "delayed", stalls |-> 0] \in StepJob
  /\ \A stalls \in 0..MaxStalls :
       /\ [state |-> "waiting", stalls |-> stalls] \in StepJob
       /\ [state |-> "active", stalls |-> stalls] \in StepJob
       /\ [state |-> "failed", stalls |-> stalls] \in StepJob
       /\ [state |-> "waiting", stalls |-> stalls].state = "waiting"
       /\ [state |-> "failed", stalls |-> stalls + 1] \in StepJob
BY BoundsAssumption DEF StepJob, NoJob, Pending

\* Move changes the state of one job.
LEMMA MoveIs ==
  ASSUME job \in [Contacts -> [Numbers -> StepJob]],
         NEW c \in Contacts, NEW n \in Numbers, job[c][n].state \in Pending,
         NEW to \in {"waiting", "active", "failed"}
  PROVE  /\ Move(c, n, to) \in [Contacts -> [Numbers -> StepJob]]
         /\ Move(c, n, to)[c][n].state = to
         /\ \A d \in Contacts, k \in Numbers :
              d # c \/ k # n => Move(c, n, to)[d][k] = job[d][k]
<1>1. job[c][n].stalls \in 0..MaxStalls
  BY JobFields
<1> DEFINE j == [state |-> to, stalls |-> job[c][n].stalls]
<1>2. j \in StepJob
  BY <1>1, JobsOf
<1>3. Move(c, n, to) = Put(c, n, j)
  BY DEF Move
<1>4. j.state = to
  OBVIOUS
<1> HIDE DEF j
<1> QED
  BY <1>2, <1>3, <1>4, PutIs

\* Add changes one job at most, and only one that is not there.
LEMMA AddIs ==
  ASSUME job \in [Contacts -> [Numbers -> StepJob]],
         NEW c \in Contacts, NEW n \in Numbers
  PROVE  /\ Add(c, n) \in [Contacts -> [Numbers -> StepJob]]
         /\ \A d \in Contacts, k \in Numbers :
              \/ Add(c, n)[d][k] = job[d][k]
              \/ d = c /\ k = n /\ job[c][n].state = "none" /\ Add(c, n)[c][n].state = "delayed"
<1>1. CASE job[c][n].state = "none"
  <2> DEFINE j == [state |-> "delayed", stalls |-> 0]
  <2>1. Add(c, n) = Put(c, n, j)
    BY <1>1 DEF Add
  <2>2. j \in StepJob /\ j.state = "delayed"
    BY JobsOf
  <2> HIDE DEF j
  <2>3. /\ Put(c, n, j) \in [Contacts -> [Numbers -> StepJob]]
        /\ Put(c, n, j)[c][n] = j
        /\ \A d \in Contacts, k \in Numbers :
             d # c \/ k # n => Put(c, n, j)[d][k] = job[d][k]
    BY <2>2, PutIs
  <2> QED
    BY <1>1, <2>1, <2>2, <2>3
<1>2. CASE job[c][n].state # "none"
  BY <1>2 DEF Add
<1> QED
  BY <1>1, <1>2

-----------------------------------------------------------------------------
(* Types, the worker and its job. *)

\* An idle worker is one.
LEMMA IdleIs ==
  Idle \in Dripper /\ Idle.pc = "idle"
BY BoundsAssumption DEF Idle, Dripper, Conditions

LEMMA CoreInit ==
  DripInit => CoreInvariant
<1> SUFFICES ASSUME DripInit PROVE CoreInvariant
  OBVIOUS
<1>1. DripTypeOK
  BY BoundsAssumption, JobsOf, NoOneAssumption
     DEF DripInit, DripTypeOK, Enrollment, NotEnrolled, Idle, Dripper, IdleRequest, Request,
         Conditions, Numbers
<1>2. WorkerInvariant
  BY JobsOf DEF DripInit, WorkerInvariant, Idle
<1>3. RequestInvariant
  BY DEF DripInit, RequestInvariant, IdleRequest
<1> QED
  BY <1>1, <1>2, <1>3 DEF CoreInvariant
\* A plan is taken step by step.
LEMMA PlanSteps ==
  ASSUME NEW S, NEW plan \in Seq(S), plan # << >>
  PROVE  Head(plan) \in S /\ Tail(plan) \in Seq(S)
OBVIOUS

\* The other requests stay.
LEMMA RequestMoves ==
  ASSUME req \in [Requests -> Request], RequestInvariant, NEW r \in Requests, NEW x \in Request,
         x.pc \in {"existing", "save", "add"} => x.contact \in Contacts,
         req' = [req EXCEPT ![r] = x]
  PROVE  req' \in [Requests -> Request] /\ RequestInvariant'
BY DEF RequestInvariant

\* What is answered holds nothing.
LEMMA RespondIs ==
  IdleRequest \in Request /\ IdleRequest.pc = "idle"
BY DEF IdleRequest, Request

\* The endpoints and the requests touch neither the worker nor its job, but to add one.
LEMMA CoreRequests ==
  ASSUME CoreInvariant, NEW r \in Requests,
         Create(r) \/ Enroll(r) \/ HandlerStep(r) \/ EnrollFails(r)
  PROVE  CoreInvariant'
<1> USE DEF CoreInvariant, DripTypeOK
<1>1. PICK x \in Request :
         /\ req' = [req EXCEPT ![r] = x]
         /\ x.pc \in {"existing", "save", "add"} => x.contact \in Contacts
  <2> DEFINE P(x) == /\ x \in Request
                     /\ req' = [req EXCEPT ![r] = x]
                     /\ x.pc \in {"existing", "save", "add"} => x.contact \in Contacts
  <2> SUFFICES \E x : P(x)
    OBVIOUS
  <2>1. req[r] \in Request
    OBVIOUS
  <2>2. CASE Respond(r)
    <3>1. P(IdleRequest)
      BY <2>2, RespondIs DEF Respond
    <3> QED
      BY <3>1
  <2>3. ASSUME NEW pc \in {"idle", "create", "steps", "contact", "existing", "save", "add"},
               pc \in {"existing", "save", "add"} => req[r].contact \in Contacts,
               EnrollGoto(r, pc)
        PROVE  \E x : P(x)
    <3> DEFINE y == [pc |-> pc, plan |-> << >>, todo |-> req[r].todo, contact |-> req[r].contact]
    <3>1. y \in Request /\ y.pc = pc /\ y.contact = req[r].contact
      BY <2>1 DEF Request
    <3>2. req' = [req EXCEPT ![r] = y]
      BY <2>3 DEF EnrollGoto
    <3> HIDE DEF y
    <3>3. P(y)
      BY <2>3, <3>1, <3>2
    <3> QED
      BY <3>3
  <2>4. CASE Create(r)
    <3>1. PICK plan \in Plans : req' = [req EXCEPT ![r] =
                 [pc |-> "create", plan |-> plan, todo |-> {}, contact |-> NoOne]]
      BY <2>4 DEF Create
    <3>2. P([pc |-> "create", plan |-> plan, todo |-> {}, contact |-> NoOne])
      BY <3>1, PlansAssumption DEF Request
    <3> QED
      BY <3>2
  <2>5. CASE CreateStep(r) /\ ~Respond(r)
    <3> DEFINE y == [pc |-> "create", plan |-> Tail(req[r].plan), todo |-> {}, contact |-> NoOne]
    <3>1. req[r].pc = "create" /\ req[r].plan # << >> /\ req' = [req EXCEPT ![r] = y]
      BY <2>5 DEF CreateStep
    <3>2. Tail(req[r].plan) \in Seq(Numbers \X Conditions)
      BY <2>1, <3>1, PlanSteps DEF Request
    <3>3. y.pc = "create" /\ y \in Request
      BY <3>2 DEF Request
    <3> HIDE DEF y
    <3>4. P(y)
      BY <3>1, <3>3
    <3> QED
      BY <3>4
  <2>6. CASE Enroll(r)
    <3>1. PICK cs \in SUBSET Contacts : req' = [req EXCEPT ![r] =
                 [pc |-> "steps", plan |-> << >>, todo |-> cs, contact |-> NoOne]]
      BY <2>6 DEF Enroll
    <3>2. P([pc |-> "steps", plan |-> << >>, todo |-> cs, contact |-> NoOne])
      BY <3>1 DEF Request
    <3> QED
      BY <3>2
  <2>7. CASE FindSteps(r)
    BY <2>2, <2>3, <2>7 DEF FindSteps
  <2>8. CASE FindContact(r) /\ ~Respond(r)
    <3>1. PICK c \in req[r].todo, pc \in {"existing", "contact"} : req' = [req EXCEPT ![r] =
                 [pc |-> pc, plan |-> << >>, todo |-> req[r].todo \ {c}, contact |-> c]]
      BY <2>8 DEF FindContact
    <3>2. req[r].todo \subseteq Contacts
      BY <2>1 DEF Request
    <3>3. P([pc |-> pc, plan |-> << >>, todo |-> req[r].todo \ {c}, contact |-> c])
      BY <3>1, <3>2 DEF Request
    <3> QED
      BY <3>3
  <2>9. CASE FindExisting(r)
    BY <2>3, <2>9 DEF FindExisting, RequestInvariant
  <2>10. CASE SaveEnrollment(r)
    BY <2>2, <2>3, <2>10 DEF SaveEnrollment, RequestInvariant
  <2>11. CASE AddFirstJob(r)
    BY <2>3, <2>11 DEF AddFirstJob, RequestInvariant
  <2> QED
    BY <2>2, <2>4, <2>5, <2>6, <2>7, <2>8, <2>9, <2>10, <2>11 DEF HandlerStep, EnrollFails
<1>2. req' \in [Requests -> Request] /\ RequestInvariant'
  BY <1>1, RequestMoves
<1>3. CASE Create(r) \/ Enroll(r) \/ FindSteps(r) \/ FindContact(r) \/ FindExisting(r)
             \/ CreateStep(r) \/ EnrollFails(r)
  <2>1. /\ sequence' \in {"NONE", "ACTIVE", "INACTIVE", "DELETED"}
        /\ broken' \in [Contacts -> BOOLEAN]
        /\ UNCHANGED << template, contact, replied, enrollment, job, dripper, bounds, sent, afterOptOut >>
    BY <1>3 DEF Create, Enroll, FindSteps, FindContact, FindExisting, CreateStep, EnrollFails, Break, rows, history
  <2>2. step' \in [Numbers -> SUBSET Conditions]
    <3>1. CASE CreateStep(r) /\ req[r].plan # << >>
      <4>1. Head(req[r].plan) \in Numbers \X Conditions
        <5>1. req[r].plan \in Seq(Numbers \X Conditions)
          BY DEF Request
        <5> QED
          BY <3>1, <5>1, PlanSteps
      <4> DEFINE n == Head(req[r].plan)[1]
                 k == Head(req[r].plan)[2]
      <4>2. n \in Numbers /\ k \in Conditions
        BY <4>1
      <4>3. UNCHANGED step \/ step' = [step EXCEPT ![n] = step[n] \cup {k}]
        BY <3>1 DEF CreateStep
      <4> HIDE DEF n, k
      <4> QED
        BY <4>2, <4>3
    <3> QED
      BY <1>3, <3>1 DEF Create, Enroll, FindSteps, FindContact, FindExisting, CreateStep, EnrollFails, rows
  <2> QED
    BY <1>2, <2>1, <2>2 DEF WorkerInvariant, bounds
<1>4. CASE SaveEnrollment(r)
  <2>1. [status |-> "ACTIVE", currentStep |-> 1] \in Enrollment
    BY BoundsAssumption DEF Enrollment, EnrollStatus, Numbers
  <2>2. enrollment' \in [Contacts -> Enrollment]
    BY <1>4, <2>1 DEF SaveEnrollment
  <2> QED
    BY <1>2, <1>4, <2>2 DEF SaveEnrollment, WorkerInvariant, rows, bounds, history
<1>5. CASE AddFirstJob(r)
  <2>1. req[r].contact \in Contacts /\ 1 \in Numbers
    BY <1>5, BoundsAssumption DEF AddFirstJob, RequestInvariant, Numbers
  <2>2. /\ job' \in [Contacts -> [Numbers -> StepJob]]
        /\ \A d \in Contacts, k \in Numbers :
             \/ job'[d][k] = job[d][k]
             \/ job[d][k].state = "none" /\ job'[d][k].state = "delayed"
    <3> DEFINE c == req[r].contact
    <3>1. job' = Add(c, 1) /\ c \in Contacts
      BY <1>5, <2>1 DEF AddFirstJob
    <3> HIDE DEF c
    <3>2. /\ Add(c, 1) \in [Contacts -> [Numbers -> StepJob]]
          /\ \A d \in Contacts, k \in Numbers :
               \/ Add(c, 1)[d][k] = job[d][k]
               \/ d = c /\ k = 1 /\ job[c][1].state = "none" /\ Add(c, 1)[c][1].state = "delayed"
      BY <2>1, <3>1, AddIs
    <3> QED
      BY <3>1, <3>2
  <2>3. UNCHANGED dripper
    BY <1>5 DEF AddFirstJob
  <2>4. WorkerInvariant'
    <3>1. \A d \in Contacts, k \in Numbers :
            job'[d][k].state = "active" <=> job[d][k].state = "active"
      BY <2>2
    <3> QED
      BY <2>3, <3>1 DEF WorkerInvariant
  <2> QED
    BY <1>2, <1>5, <2>2, <2>4 DEF AddFirstJob, WorkerInvariant, rows, bounds, history
<1> QED
  BY <1>3, <1>4, <1>5 DEF HandlerStep

\* Nor do edits, though they may take the enrolments away.
LEMMA CoreEdits ==
  ASSUME CoreInvariant, Update \/ AddStep \/ RemoveStep \/ Remove \/ OutsideEdit
  PROVE  CoreInvariant'
<1> USE DEF CoreInvariant, DripTypeOK
<1>1. UNCHANGED << job, dripper, req, crashes, sent, broken >>
  BY DEF Update, AddStep, RemoveStep, Remove, OutsideEdit, Edit, history
<1>2. edits' \in 0..MaxEdits
  BY BoundsAssumption DEF Update, AddStep, RemoveStep, Remove, OutsideEdit, Edit
<1>3. enrollment' \in [Contacts -> Enrollment]
  BY DEF Update, AddStep, RemoveStep, Remove, OutsideEdit, Edit, Enrollment
<1>4. step' \in [Numbers -> SUBSET Conditions]
  BY DEF Update, AddStep, RemoveStep, Remove, OutsideEdit
<1>5. sequence' \in {"NONE", "ACTIVE", "INACTIVE", "DELETED"}
  BY DEF Update, AddStep, RemoveStep, Remove, OutsideEdit
<1>6. /\ template' \in BOOLEAN /\ contact' \in [Contacts -> {"in", "out", "gone"}]
      /\ afterOptOut' \in [Contacts -> Nat]
  <2>1. CASE OutsideEdit
    <3>1. template' \in BOOLEAN
      BY <2>1 DEF OutsideEdit
    <3>2. contact' \in [Contacts -> {"in", "out", "gone"}] /\ afterOptOut' \in [Contacts -> Nat]
      <4>1. CASE UNCHANGED << contact, afterOptOut >>
        BY <4>1
      <4>2. CASE \E c \in Contacts, s \in {"in", "out", "gone"} :
                   contact' = [contact EXCEPT ![c] = s] /\ afterOptOut' = [afterOptOut EXCEPT ![c] = 0]
        BY <4>2
      <4> QED
        BY <2>1, <4>1, <4>2 DEF OutsideEdit
    <3> QED
      BY <3>1, <3>2
  <2>2. CASE Update \/ AddStep \/ RemoveStep \/ Remove
    <3>1. UNCHANGED << template, contact, afterOptOut >>
      BY <2>2 DEF Update, AddStep, RemoveStep, Remove, history
    <3> QED
      BY <3>1
  <2> QED
    BY <2>1, <2>2
<1>8. replied' \in [Contacts -> BOOLEAN]
  <2>1. UNCHANGED replied \/ \E c \in Contacts : replied' = [replied EXCEPT ![c] = TRUE]
    BY DEF Update, AddStep, RemoveStep, Remove, OutsideEdit
  <2> QED
    BY <2>1, Zenon
<1>7. WorkerInvariant' /\ RequestInvariant'
  BY <1>1 DEF WorkerInvariant, RequestInvariant
<1> QED
  BY <1>1, <1>2, <1>3, <1>4, <1>5, <1>6, <1>7, <1>8

\* The worker at a place of its handler, and where it may go from there.
LEMMA AtIs ==
  ASSUME dripper \in Dripper, NEW k \in Conditions,
         NEW pc \in {"step", "unsubscribe", "replies", "send", "advance", "complete",
                     "save", "add", "return"}
  PROVE  /\ At(pc, k) \in Dripper
         /\ At(pc, k).pc = pc /\ At(pc, k).contact = dripper.contact
         /\ At(pc, k).number = dripper.number /\ At(pc, k).optedOut = dripper.optedOut
BY DEF At, Dripper

\* A step of the handler stays with its job.
LEMMA WorkerGoes ==
  ASSUME CoreInvariant, dripper.pc # "idle", NEW k \in Conditions,
         NEW pc \in {"step", "unsubscribe", "replies", "send", "advance", "complete",
                     "save", "add", "return"},
         pc \in {"save", "add"} => dripper.number < MaxStep,
         dripper' = At(pc, k),
         \A c \in Contacts, n \in Numbers :
           job'[c][n].state = "active" <=> job[c][n].state = "active"
  PROVE  dripper' \in Dripper /\ WorkerInvariant'
<1>1. /\ dripper' \in Dripper
      /\ dripper'.pc = pc /\ dripper'.contact = dripper.contact
      /\ dripper'.number = dripper.number
  BY AtIs DEF CoreInvariant, DripTypeOK
<1> QED
  BY <1>1 DEF CoreInvariant, WorkerInvariant

\* The worker's contact and step.
LEMMA WorkerTypes ==
  ASSUME CoreInvariant, dripper.pc # "idle"
  PROVE  /\ dripper.contact \in Contacts /\ dripper.number \in Numbers
         /\ dripper.condition \in Conditions /\ dripper.optedOut \in BOOLEAN
         /\ job[dripper.contact][dripper.number].state = "active"
         /\ job[dripper.contact][dripper.number].state \in Pending
BY DEF CoreInvariant, DripTypeOK, WorkerInvariant, Dripper, Pending

\* The end of a handler, well or not, is the end of its job.
LEMMA WorkerEnds ==
  ASSUME CoreInvariant, dripper.pc # "idle", Done \/ Fail
  PROVE  /\ job' \in [Contacts -> [Numbers -> StepJob]]
         /\ dripper' = Idle /\ dripper' \in Dripper /\ dripper'.pc = "idle"
         /\ WorkerInvariant'
         /\ job'[dripper.contact][dripper.number].state \in {"none", "failed"}
         /\ \A d \in Contacts, k \in Numbers :
              d # dripper.contact \/ k # dripper.number => job'[d][k] = job[d][k]
<1> DEFINE c == dripper.contact
           n == dripper.number
<1>1. c \in Contacts /\ n \in Numbers /\ job[c][n].state \in Pending
  BY WorkerTypes
<1>2. /\ job' \in [Contacts -> [Numbers -> StepJob]]
      /\ job'[c][n].state \in {"none", "failed"}
      /\ \A d \in Contacts, k \in Numbers : d # c \/ k # n => job'[d][k] = job[d][k]
  <2>1. CASE Done
    <3>1. job' = Put(c, n, NoJob)
      BY <2>1 DEF Done
    <3>2. NoJob \in StepJob /\ NoJob.state = "none"
      BY JobsOf
    <3> HIDE DEF c, n, NoJob
    <3>3. /\ Put(c, n, NoJob) \in [Contacts -> [Numbers -> StepJob]]
          /\ Put(c, n, NoJob)[c][n] = NoJob
          /\ \A d \in Contacts, k \in Numbers :
               d # c \/ k # n => Put(c, n, NoJob)[d][k] = job[d][k]
      BY <1>1, <3>2, PutIs DEF CoreInvariant, DripTypeOK
    <3> QED
      BY <3>1, <3>2, <3>3
  <2>2. CASE Fail
    <3>1. job' = Move(c, n, "failed")
      BY <2>2 DEF Fail
    <3> HIDE DEF c, n
    <3> QED
      BY <1>1, <3>1, MoveIs DEF CoreInvariant, DripTypeOK
  <2> QED
    BY <2>1, <2>2
<1>3. dripper' = Idle /\ dripper' \in Dripper /\ dripper'.pc = "idle"
  BY IdleIs DEF Done, Fail
<1>4. WorkerInvariant'
  <2>1. \A d \in Contacts, k \in Numbers : job'[d][k].state # "active"
    BY <1>2 DEF CoreInvariant, WorkerInvariant
  <2> QED
    BY <1>3, <2>1 DEF WorkerInvariant
<1> QED
  BY <1>2, <1>3, <1>4

\* The state that SaveEnrollmentState saves.
LEMMA SavedIs ==
  ASSUME CoreInvariant, SaveEnrollmentState
  PROVE  /\ dripper.pc \in {"unsubscribe", "complete", "save"}
         /\ \/ Fail /\ UNCHANGED enrollment
            \/ /\ enrollment[dripper.contact] # NotEnrolled
               /\ UNCHANGED broken
               /\ \E e \in Enrollment :
                    /\ e.status \in EnrollStatus
                    /\ enrollment' = [enrollment EXCEPT ![dripper.contact] = e]
                    /\ \/ e.status # "ACTIVE" /\ Done
                       \/ e.status = "ACTIVE" /\ dripper.pc = "save" /\ Goto("add") /\ UNCHANGED job
<1> USE DEF CoreInvariant, DripTypeOK
<1> DEFINE c == dripper.contact
<1>1. dripper.pc \in {"unsubscribe", "complete", "save"} /\ dripper.pc # "idle"
  BY DEF SaveEnrollmentState
<1>2. c \in Contacts /\ dripper.number \in Numbers
  BY <1>1, WorkerTypes
<1>3. CASE enrollment[c] = NotEnrolled
  BY <1>1, <1>3 DEF SaveEnrollmentState, SaveAdvance
<1>4. CASE enrollment[c] # NotEnrolled
  <2>1. enrollment[c].currentStep \in Numbers
    BY <1>2, <1>4 DEF Enrollment
  <2>2. ASSUME NEW e \in Enrollment, e.status \in EnrollStatus, SaveAdvance(e),
               e.status = "ACTIVE" => dripper.pc = "save"
        PROVE  /\ UNCHANGED broken
               /\ enrollment' = [enrollment EXCEPT ![c] = e]
               /\ \/ e.status # "ACTIVE" /\ Done
                  \/ e.status = "ACTIVE" /\ dripper.pc = "save" /\ Goto("add") /\ UNCHANGED job
    BY <1>4, <2>2 DEF SaveAdvance
  <2>3. CASE dripper.pc = "unsubscribe"
    <3> DEFINE e == [status |-> "UNSUBSCRIBED", currentStep |-> enrollment[c].currentStep]
    <3>1. SaveAdvance(e)
      BY <2>3 DEF SaveEnrollmentState
    <3>2. e \in Enrollment /\ e.status = "UNSUBSCRIBED" /\ e.status \in EnrollStatus
      BY <2>1 DEF Enrollment, EnrollStatus
    <3> HIDE DEF e
    <3> QED
      BY <1>1, <1>4, <2>2, <3>1, <3>2
  <2>4. CASE dripper.pc = "complete"
    <3> DEFINE e == [status |-> "COMPLETED", currentStep |-> enrollment[c].currentStep]
    <3>1. SaveAdvance(e)
      BY <2>4 DEF SaveEnrollmentState
    <3>2. e \in Enrollment /\ e.status = "COMPLETED" /\ e.status \in EnrollStatus
      BY <2>1 DEF Enrollment, EnrollStatus
    <3> HIDE DEF e
    <3> QED
      BY <1>1, <1>4, <2>2, <3>1, <3>2
  <2>5. CASE dripper.pc = "save"
    <3> DEFINE e == [status |-> "ACTIVE", currentStep |-> dripper.number + 1]
    <3>1. SaveAdvance(e)
      BY <2>5 DEF SaveEnrollmentState
    <3>2. dripper.number + 1 \in Numbers
      BY <1>2, <2>5, BoundsAssumption DEF WorkerInvariant, Numbers
    <3>3. e \in Enrollment /\ e.status = "ACTIVE" /\ e.status \in EnrollStatus
      BY <3>2 DEF Enrollment, EnrollStatus
    <3> HIDE DEF e
    <3> QED
      BY <1>1, <1>4, <2>2, <2>5, <3>1, <3>3
  <2> QED
    BY <1>1, <2>3, <2>4, <2>5
<1> QED
  BY <1>3, <1>4

\* A job that the delay ends or the worker takes.
LEMMA CoreTake ==
  ASSUME CoreInvariant, NEW c \in Contacts, NEW n \in Numbers,
         DelayElapses(c, n) \/ TakeJob(c, n)
  PROVE  CoreInvariant'
<1> USE DEF CoreInvariant, DripTypeOK
<1>1. /\ UNCHANGED << sequence, step, template, contact, replied, enrollment, req, edits,
                      crashes, sent, afterOptOut, broken >>
  BY DEF DelayElapses, TakeJob, rows, bounds, history
<1>2. job[c][n].state \in Pending /\ job[c][n].state # "active"
  BY DEF DelayElapses, TakeJob, Pending
<1>3. RequestInvariant'
  BY <1>1 DEF RequestInvariant
<1>4. CASE DelayElapses(c, n)
  <2>1. job' = Move(c, n, "waiting") /\ UNCHANGED dripper
    BY <1>4 DEF DelayElapses
  <2>2. /\ job' \in [Contacts -> [Numbers -> StepJob]]
        /\ \A d \in Contacts, k \in Numbers : job'[d][k].state = "active" <=> job[d][k].state = "active"
    <3>1. /\ job' \in [Contacts -> [Numbers -> StepJob]]
          /\ job'[c][n].state = "waiting"
          /\ \A d \in Contacts, k \in Numbers : d # c \/ k # n => job'[d][k] = job[d][k]
      BY <1>2, <2>1, MoveIs
    <3> QED
      BY <1>2, <3>1
  <2> QED
    BY <1>1, <1>3, <2>1, <2>2 DEF WorkerInvariant
<1>5. CASE TakeJob(c, n) /\ enrollment[c].status = "ACTIVE"
  <2>1. job' = Move(c, n, "active") /\ dripper' = Taken(c, n) /\ dripper.pc = "idle"
    BY <1>5 DEF TakeJob
  <2>2. /\ dripper' \in Dripper /\ dripper'.pc = "step" /\ dripper'.contact = c
        /\ dripper'.number = n
    BY <2>1, BoundsAssumption DEF Taken, Dripper, Conditions, Numbers
  <2>3. /\ job' \in [Contacts -> [Numbers -> StepJob]]
        /\ job'[c][n].state = "active"
        /\ \A d \in Contacts, k \in Numbers : d # c \/ k # n => job'[d][k] = job[d][k]
    BY <1>2, <2>1, MoveIs
  <2>4. WorkerInvariant'
    BY <2>1, <2>2, <2>3 DEF WorkerInvariant
  <2> QED
    BY <1>1, <1>3, <2>2, <2>3, <2>4
<1>6. CASE TakeJob(c, n) /\ enrollment[c].status # "ACTIVE"
  <2>1. job' = Put(c, n, NoJob) /\ UNCHANGED dripper
    BY <1>6 DEF TakeJob
  <2>2. NoJob \in StepJob /\ NoJob.state # "active"
    BY JobsOf
  <2> HIDE DEF NoJob
  <2>3. /\ job' \in [Contacts -> [Numbers -> StepJob]]
        /\ \A d \in Contacts, k \in Numbers : job'[d][k].state = "active" <=> job[d][k].state = "active"
    <3>1. /\ Put(c, n, NoJob) \in [Contacts -> [Numbers -> StepJob]]
          /\ Put(c, n, NoJob)[c][n] = NoJob
          /\ \A d \in Contacts, k \in Numbers :
               d # c \/ k # n => Put(c, n, NoJob)[d][k] = job[d][k]
      BY <2>2, PutIs
    <3> QED
      BY <1>2, <2>1, <2>2, <3>1
  <2> QED
    BY <1>1, <1>3, <2>1, <2>3 DEF WorkerInvariant
<1> QED
  BY <1>4, <1>5, <1>6

\* What the worker's other steps leave alone.
LEMMA WorkerLeaves ==
  ASSUME FindStep \/ CountReplies \/ Send \/ FindNextStep \/ SaveEnrollmentState
           \/ AddNextJob \/ Return \/ StepFails
  PROVE  /\ UNCHANGED << sequence, step, template, contact, replied, req, edits, crashes >>
         /\ dripper.pc # "idle"
         /\ enrollment' # enrollment => SaveEnrollmentState
         /\ sent' # sent \/ afterOptOut' # afterOptOut
              => Send /\ Reach(dripper.contact, dripper.number)
BY DEF FindStep, CountReplies, Send, FindNextStep, SaveEnrollmentState, AddNextJob, Return,
       StepFails, rows, bounds, history

\* A step of the handler ends, or goes on with its job, or adds the next one.
LEMMA WorkerMoves ==
  ASSUME CoreInvariant,
         FindStep \/ CountReplies \/ Send \/ FindNextStep \/ SaveEnrollmentState
           \/ AddNextJob \/ Return \/ StepFails
  PROVE  \/ Done \/ Fail
         \/ /\ UNCHANGED job
            /\ \E k \in Conditions :
                 \/ /\ FindStep /\ dripper.pc = "step"
                    /\ \E pc \in {"unsubscribe", "send", "replies"} :
                         (dripper.optedOut <=> pc = "unsubscribe") /\ dripper' = At(pc, k)
                 \/ /\ CountReplies /\ dripper.pc = "replies"
                    /\ \E pc \in {"send", "advance"} : dripper' = At(pc, k)
                 \/ Send /\ dripper.pc = "send" /\ dripper' = At("advance", k)
                 \/ /\ FindNextStep /\ dripper.pc = "advance"
                    /\ \E pc \in {"save", "complete"} :
                         (pc = "save" => dripper.number < MaxStep) /\ dripper' = At(pc, k)
                 \/ SaveEnrollmentState /\ dripper.pc = "save" /\ dripper' = At("add", k)
         \/ /\ AddNextJob /\ dripper.pc = "add"
            /\ job' = Add(dripper.contact, dripper.number + 1)
            /\ \E k \in Conditions : dripper' = At("return", k)
<1> DEFINE K == dripper.condition
<1>1. dripper.pc # "idle"
  BY WorkerLeaves
<1>2. K \in Conditions /\ dripper.optedOut \in BOOLEAN
  BY <1>1, WorkerTypes
<1>3. step \in [Numbers -> SUBSET Conditions] /\ dripper.number \in Numbers
  BY <1>1, WorkerTypes DEF CoreInvariant, DripTypeOK
<1>4. CASE FindStep
  <2>1. CASE Done \/ Fail
    BY <2>1
  <2>2. CASE \E k \in step[dripper.number] :
               /\ dripper' = At(IF dripper.optedOut THEN "unsubscribe"
                                ELSE IF k = "ALWAYS" THEN "send" ELSE "replies", k)
               /\ UNCHANGED job
    <3>1. PICK k \in step[dripper.number] :
            /\ dripper' = At(IF dripper.optedOut THEN "unsubscribe"
                             ELSE IF k = "ALWAYS" THEN "send" ELSE "replies", k)
            /\ UNCHANGED job
      BY <2>2
    <3>2. k \in Conditions
      BY <1>3
    <3>3. CASE dripper.optedOut
      <4>1. dripper' = At("unsubscribe", k)
        BY <3>1, <3>3
      <4> QED
        BY <1>4, <3>1, <3>2, <3>3, <4>1 DEF FindStep
    <3>4. CASE ~dripper.optedOut
      <4>1. \E pc \in {"send", "replies"} : dripper' = At(pc, k)
        BY <3>1, <3>4
      <4> QED
        BY <1>4, <3>1, <3>2, <3>4, <4>1 DEF FindStep
    <3> QED
      BY <3>3, <3>4
  <2> QED
    BY <1>4, <2>1, <2>2 DEF FindStep
<1>5. CASE CountReplies
  <2>1. \E pc \in {"send", "advance"} : dripper' = At(pc, K)
    BY <1>5 DEF CountReplies, Goto
  <2> QED
    BY <1>2, <1>5, <2>1 DEF CountReplies
<1>6. CASE Send
  BY <1>2, <1>6 DEF Send, Goto
<1>7. CASE FindNextStep
  <2>1. \E pc \in {"save", "complete"} :
          (pc = "save" => dripper.number < MaxStep) /\ dripper' = At(pc, K)
    BY <1>7 DEF FindNextStep, Goto
  <2> QED
    BY <1>2, <1>7, <2>1 DEF FindNextStep
<1>8. CASE SaveEnrollmentState
  BY <1>2, <1>8, SavedIs DEF Goto
<1>9. CASE AddNextJob
  BY <1>2, <1>9 DEF AddNextJob, Goto
<1>10. CASE Return \/ StepFails
  BY <1>10 DEF Return, StepFails
<1> QED
  BY <1>4, <1>5, <1>6, <1>7, <1>8, <1>9, <1>10

LEMMA CoreWorker ==
  ASSUME CoreInvariant,
         FindStep \/ CountReplies \/ Send \/ FindNextStep \/ SaveEnrollmentState
           \/ AddNextJob \/ Return \/ StepFails
  PROVE  CoreInvariant'
<1> USE DEF CoreInvariant, DripTypeOK
<1> DEFINE c == dripper.contact
           n == dripper.number
<1>1. /\ UNCHANGED << sequence, step, template, contact, replied, req, edits, crashes >>
      /\ dripper.pc # "idle"
  BY WorkerLeaves
<1>2. c \in Contacts /\ n \in Numbers
  BY <1>1, WorkerTypes
<1>3. enrollment' \in [Contacts -> Enrollment]
  <2>1. CASE SaveEnrollmentState
    BY <2>1, SavedIs
  <2> QED
    BY <2>1, WorkerLeaves
<1>4. sent' \in [Contacts -> [Numbers -> Nat]] /\ afterOptOut' \in [Contacts -> Nat]
  <2>1. CASE Reach(c, n)
    <3>1. sent' = [sent EXCEPT ![c] = [sent[c] EXCEPT ![n] = sent[c][n] + 1]]
      BY <2>1 DEF Reach
    <3>2. UNCHANGED afterOptOut \/ afterOptOut' = [afterOptOut EXCEPT ![c] = afterOptOut[c] + 1]
      BY <2>1 DEF Reach
    <3> HIDE DEF c, n
    <3> DEFINE row == [sent[c] EXCEPT ![n] = sent[c][n] + 1]
    <3>3. row \in [Numbers -> Nat]
      BY <1>2
    <3>4. sent' = [sent EXCEPT ![c] = row]
      BY <3>1
    <3> HIDE DEF row
    <3>5. sent' \in [Contacts -> [Numbers -> Nat]]
      BY <1>2, <3>3, <3>4
    <3>6. afterOptOut[c] + 1 \in Nat
      BY <1>2
    <3> QED
      BY <1>2, <3>2, <3>5, <3>6
  <2>2. CASE UNCHANGED << sent, afterOptOut >>
    BY <2>2
  <2> QED
    BY <2>1, <2>2, WorkerLeaves
<1>5. broken' \in [Contacts -> BOOLEAN]
  <2>1. UNCHANGED broken \/ broken' = [broken EXCEPT ![c] = TRUE]
    BY SavedIs DEF FindStep, CountReplies, Send, FindNextStep, AddNextJob, Return,
                   StepFails, Fail, Break, history
  <2> HIDE DEF c
  <2> QED
    BY <1>2, <2>1, Zenon
<1>6. /\ job' \in [Contacts -> [Numbers -> StepJob]]
      /\ dripper' \in Dripper
      /\ WorkerInvariant'
  <2>1. CASE Done \/ Fail
    BY <1>1, <2>1, WorkerEnds
  <2>2. ASSUME NEW k \in Conditions,
               NEW pc \in {"unsubscribe", "replies", "send", "advance", "complete", "save", "add"},
               pc \in {"save", "add"} => dripper.number < MaxStep,
               dripper' = At(pc, k), UNCHANGED job
        PROVE  /\ job' \in [Contacts -> [Numbers -> StepJob]]
               /\ dripper' \in Dripper
               /\ WorkerInvariant'
    BY <1>1, <2>2, WorkerGoes
  <2>3. CASE /\ dripper.pc = "add" /\ job' = Add(c, n + 1)
             /\ \E k \in Conditions : dripper' = At("return", k)
    <3>1. PICK m \in Numbers : m = n + 1
      BY <1>2, <2>3, BoundsAssumption DEF WorkerInvariant, Numbers
    <3>2. /\ Add(c, m) \in [Contacts -> [Numbers -> StepJob]]
          /\ \A d \in Contacts, k \in Numbers :
               \/ Add(c, m)[d][k] = job[d][k]
               \/ d = c /\ k = m /\ job[c][m].state = "none" /\ Add(c, m)[c][m].state = "delayed"
      BY <1>2, AddIs
    <3>5. job' = Add(c, m)
      BY <2>3, <3>1
    <3>3. \A d \in Contacts, k \in Numbers : job'[d][k].state = "active" <=> job[d][k].state = "active"
      BY <3>2, <3>5
    <3>4. dripper' \in Dripper /\ WorkerInvariant'
      BY <1>1, <2>3, <3>3, WorkerGoes
    <3> QED
      BY <3>2, <3>4, <3>5
  <2>4. dripper.pc = "save" => n < MaxStep
    BY DEF WorkerInvariant
  <2> QED
    BY <2>1, <2>2, <2>3, <2>4, WorkerMoves
<1>7. RequestInvariant'
  BY <1>1 DEF RequestInvariant
<1> QED
  BY <1>1, <1>3, <1>4, <1>5, <1>6, <1>7

\* A crash puts the active job back, or fails it.
LEMMA CrashIs ==
  ASSUME CoreInvariant, Crash
  PROVE  /\ UNCHANGED << sequence, step, template, contact, replied, enrollment, edits, sent, afterOptOut >>
         /\ crashes' = crashes + 1 /\ crashes' \in 0..MaxCrashes
         /\ req' \in [Requests -> Request] /\ \A r \in Requests : req'[r].pc = "idle"
         /\ dripper' = Idle
         /\ job' \in [Contacts -> [Numbers -> StepJob]]
         /\ \A c \in Contacts, n \in Numbers :
              /\ job[c][n].state # "active" => job'[c][n] = job[c][n]
              /\ job[c][n].state = "active" => job'[c][n].state \in {"waiting", "failed"}
<1> USE DEF CoreInvariant, DripTypeOK
<1>1. /\ UNCHANGED << sequence, step, template, contact, replied, enrollment, edits, sent, afterOptOut >>
      /\ crashes' = crashes + 1 /\ crashes < MaxCrashes /\ dripper' = Idle
      /\ req' = [r \in Requests |-> IdleRequest]
  BY DEF Crash, rows
<1>2. req' \in [Requests -> Request] /\ \A r \in Requests : req'[r].pc = "idle"
  BY <1>1, RespondIs
<1>3. crashes' \in 0..MaxCrashes
  BY <1>1, BoundsAssumption
<1> DEFINE Back(c, n) ==
      IF job[c][n].state # "active" THEN job[c][n]
      ELSE [state |-> IF job[c][n].stalls < MaxStalls THEN "waiting" ELSE "failed",
            stalls |-> job[c][n].stalls + 1]
<1>4. job' = [c \in Contacts |-> [n \in Numbers |-> Back(c, n)]]
  BY DEF Crash
<1>5. ASSUME NEW c \in Contacts, NEW n \in Numbers
      PROVE  /\ Back(c, n) \in StepJob
             /\ job[c][n].state # "active" => Back(c, n) = job[c][n]
             /\ job[c][n].state = "active" => Back(c, n).state \in {"waiting", "failed"}
  <2>1. job[c][n] \in StepJob
    BY <1>5
  <2>2. CASE job[c][n].state # "active"
    BY <2>1, <2>2
  <2>3. CASE job[c][n].state = "active"
    <3>1. job[c][n].stalls \in 0..MaxStalls
      BY <2>1, <2>3, JobFields DEF Pending
    <3>2. CASE job[c][n].stalls < MaxStalls
      <4>1. job[c][n].stalls + 1 \in 0..MaxStalls
        BY <3>1, <3>2, BoundsAssumption
      <4> QED
        BY <2>3, <3>2, <4>1 DEF StepJob, Pending
    <3>3. CASE ~(job[c][n].stalls < MaxStalls)
      <4>1. job[c][n].stalls + 1 \in 0..(MaxStalls + 1)
        BY <3>1, BoundsAssumption
      <4> QED
        BY <2>3, <3>3, <4>1 DEF StepJob
    <3> QED
      BY <3>2, <3>3
  <2> QED
    BY <2>2, <2>3
<1> HIDE DEF Back
<1>6. job' \in [Contacts -> [Numbers -> StepJob]]
  BY <1>4, <1>5
<1>7. \A c \in Contacts, n \in Numbers : job'[c][n] = Back(c, n)
  BY <1>4
<1> QED
  BY <1>1, <1>2, <1>3, <1>5, <1>6, <1>7

LEMMA CoreCrash ==
  ASSUME CoreInvariant, Crash
  PROVE  CoreInvariant'
<1> USE DEF CoreInvariant, DripTypeOK
<1>1. broken' \in [Contacts -> BOOLEAN]
  BY DEF Crash
<1>2. dripper' \in Dripper /\ dripper'.pc = "idle"
  BY CrashIs, IdleIs
<1>3. WorkerInvariant'
  <2>1. \A c \in Contacts, n \in Numbers : job'[c][n].state # "active"
    BY CrashIs
  <2> QED
    BY <1>2, <2>1 DEF WorkerInvariant
<1>4. RequestInvariant'
  BY CrashIs DEF RequestInvariant
<1> QED
  BY <1>1, <1>2, <1>3, <1>4, CrashIs

LEMMA CoreStep ==
  CoreInvariant /\ [DripNext]_dripVars => CoreInvariant'
<1> SUFFICES ASSUME CoreInvariant, [DripNext]_dripVars
             PROVE  CoreInvariant'
  OBVIOUS
<1>1. CASE UNCHANGED dripVars
  BY <1>1 DEF dripVars, rows, bounds, history, CoreInvariant, DripTypeOK, WorkerInvariant,
              RequestInvariant
<1>2. CASE DripNext
  BY <1>2, CoreRequests, CoreEdits, CoreTake, CoreWorker, CoreCrash DEF DripNext, DripStep
<1> QED
  BY <1>1, <1>2

\* The variables of drip_sequences, drip_enrollments, the queue 'drip' and its worker keep
\* their types; the queue's one active job is the one the worker is on.
THEOREM DripTypes == DripSpec => [](DripTypeOK /\ WorkerInvariant)
<1>1. CoreInvariant => DripTypeOK /\ WorkerInvariant
  BY DEF CoreInvariant
<1> QED
  BY <1>1, CoreInit, CoreStep, PTL DEF DripSpec

-----------------------------------------------------------------------------
(* Who may begin a chain. *)

\* Any step takes a right to enrol away or leaves it; a request that is to add a first
\* job was to add it before, or has just used that right.
LEMMA RightsStep ==
  ASSUME CoreInvariant, [DripNext]_dripVars, NEW c \in Contacts
  PROVE  /\ MayEnroll(c)' => MayEnroll(c)
         /\ \A r \in Requests : Adding(r, c)' =>
              Adding(r, c) \/ (MayEnroll(c) /\ ~MayEnroll(c)' /\ SaveEnrollment(r))
<1> USE DEF MayEnroll, Adding
<1>1. CASE UNCHANGED dripVars
  BY <1>1 DEF dripVars, rows, bounds, history
<1>2. ASSUME NEW r \in Requests,
             Create(r) \/ Enroll(r) \/ EnrollFails(r) \/ CreateStep(r) \/ FindSteps(r)
               \/ FindContact(r) \/ FindExisting(r) \/ AddFirstJob(r)
      PROVE  /\ enrollment' = enrollment
             /\ sequence' # "DELETED" => sequence # "DELETED"
             /\ \E x : req' = [req EXCEPT ![r] = x] /\ x.pc # "add"
  <2>1. enrollment' = enrollment /\ (sequence' # "DELETED" => sequence # "DELETED")
    BY <1>2 DEF Create, Enroll, EnrollFails, CreateStep, FindSteps, FindContact,
                FindExisting, AddFirstJob, rows
  <2>2. \E x : req' = [req EXCEPT ![r] = x] /\ x.pc # "add"
    <3>1. CASE Respond(r)
      <4>1. req' = [req EXCEPT ![r] = IdleRequest] /\ IdleRequest.pc # "add"
        BY <3>1, RespondIs DEF Respond
      <4> WITNESS IdleRequest
      <4> QED
        BY <4>1
    <3>2. ASSUME NEW pc \in {"contact", "existing", "save"}, EnrollGoto(r, pc)
          PROVE  \E x : req' = [req EXCEPT ![r] = x] /\ x.pc # "add"
      <4> DEFINE y == [pc |-> pc, plan |-> << >>, todo |-> req[r].todo, contact |-> req[r].contact]
      <4>1. req' = [req EXCEPT ![r] = y] /\ y.pc # "add"
        BY <3>2 DEF EnrollGoto
      <4> HIDE DEF y
      <4> WITNESS y
      <4> QED
        BY <4>1
    <3>3. CASE Create(r) \/ Enroll(r)
      BY <3>3 DEF Create, Enroll
    <3>4. CASE CreateStep(r) \/ FindContact(r)
      BY <3>1, <3>4 DEF CreateStep, FindContact
    <3>5. CASE FindSteps(r) \/ FindExisting(r) \/ AddFirstJob(r) \/ EnrollFails(r)
      BY <3>1, <3>2, <3>5 DEF FindSteps, FindExisting, AddFirstJob, EnrollFails
    <3> QED
      BY <1>2, <3>3, <3>4, <3>5
  <2> QED
    BY <2>1, <2>2
<1>3. ASSUME NEW r \in Requests,
             Create(r) \/ Enroll(r) \/ EnrollFails(r) \/ CreateStep(r) \/ FindSteps(r)
               \/ FindContact(r) \/ FindExisting(r) \/ AddFirstJob(r)
      PROVE  /\ MayEnroll(c)' => MayEnroll(c)
             /\ \A q \in Requests : Adding(q, c)' => Adding(q, c)
  <2>1. PICK x : req' = [req EXCEPT ![r] = x] /\ x.pc # "add"
    BY <1>2, <1>3
  <2>2. \A q \in Requests : req'[q].pc = "add" => req'[q] = req[q]
    BY <2>1 DEF CoreInvariant, DripTypeOK
  <2> QED
    BY <1>2, <1>3, <2>2
<1>4. ASSUME NEW r \in Requests, SaveEnrollment(r)
      PROVE  /\ MayEnroll(c)' => MayEnroll(c)
             /\ \A q \in Requests : Adding(q, c)' =>
                  Adding(q, c) \/ (MayEnroll(c) /\ ~MayEnroll(c)' /\ SaveEnrollment(q))
  <2> DEFINE d == req[r].contact
  <2>1. sequence' = sequence
    BY <1>4 DEF SaveEnrollment, rows
  <2>2. CASE Respond(r) /\ UNCHANGED enrollment
    <3>1. \A q \in Requests : req'[q].pc = "add" => req'[q] = req[q]
      BY <2>2, RespondIs DEF Respond, CoreInvariant, DripTypeOK
    <3> QED
      BY <2>1, <2>2, <3>1
  <2>3. CASE /\ enrollment[d] = NotEnrolled /\ sequence # "DELETED"
             /\ enrollment' = [enrollment EXCEPT ![d] = [status |-> "ACTIVE", currentStep |-> 1]]
             /\ EnrollGoto(r, "add")
    <3>1. d \in Contacts
      BY <1>4 DEF SaveEnrollment, CoreInvariant, RequestInvariant
    <3>2. enrollment'[d] # NotEnrolled /\ \A e \in Contacts \ {d} : enrollment'[e] = enrollment[e]
      BY <2>3, <3>1 DEF NotEnrolled, CoreInvariant, DripTypeOK
    <3>3. /\ \A q \in Requests \ {r} : req'[q] = req[q]
          /\ req'[r].contact = d
      BY <2>3 DEF EnrollGoto, CoreInvariant, DripTypeOK
    <3> QED
      BY <1>4, <2>1, <2>3, <3>2, <3>3
  <2> QED
    BY <1>4, <2>2, <2>3 DEF SaveEnrollment
<1>5. CASE Update \/ AddStep \/ RemoveStep \/ Remove \/ OutsideEdit
  BY <1>5 DEF Update, AddStep, RemoveStep, Remove, OutsideEdit, Edit
<1>6. ASSUME NEW d \in Contacts, NEW n \in Numbers, DelayElapses(d, n) \/ TakeJob(d, n)
      PROVE  UNCHANGED << sequence, enrollment, req >>
  BY <1>6 DEF DelayElapses, TakeJob, rows
<1>7. CASE FindStep \/ CountReplies \/ Send \/ FindNextStep \/ SaveEnrollmentState
             \/ AddNextJob \/ Return \/ StepFails
  <2>1. UNCHANGED << sequence, req >>
    BY <1>7, WorkerLeaves
  <2>2. enrollment'[c] = NotEnrolled => enrollment[c] = NotEnrolled
    <3>1. CASE SaveEnrollmentState /\ enrollment' # enrollment
      <4>1. PICK e \in Enrollment : /\ e.status \in EnrollStatus
                                   /\ enrollment' = [enrollment EXCEPT ![dripper.contact] = e]
        BY <3>1, SavedIs
      <4>2. e # NotEnrolled
        BY <4>1 DEF EnrollStatus, NotEnrolled
      <4> QED
        BY <4>1, <4>2 DEF CoreInvariant, DripTypeOK
    <3> QED
      BY <1>7, <3>1, WorkerLeaves
  <2> QED
    BY <2>1, <2>2
<1>8. CASE Crash
  <2>1. UNCHANGED << sequence, enrollment >> /\ \A r \in Requests : req'[r].pc = "idle"
    BY <1>8, CrashIs
  <2> QED
    BY <2>1
<1> QED
  BY <1>1, <1>3, <1>4, <1>5, <1>6, <1>7, <1>8 DEF DripNext, HandlerStep, DripStep

LEMMA EnrolledOnceStep ==
  ASSUME CoreInvariant, EnrolledOnce, [DripNext]_dripVars
  PROVE  EnrolledOnce'
<1>1. ASSUME NEW c \in Contacts, NEW r \in Requests, MayEnroll(c)', Adding(r, c)'
      PROVE  FALSE
  BY <1>1, RightsStep DEF EnrolledOnce
<1>2. ASSUME NEW c \in Contacts, NEW q \in Requests, NEW r \in Requests,
             Adding(q, c)', Adding(r, c)', q # r
      PROVE  FALSE
  <2>1. CASE Adding(q, c) /\ Adding(r, c)
    BY <1>2, <2>1 DEF EnrolledOnce
  <2>2. CASE MayEnroll(c) /\ SaveEnrollment(q)
    <3>1. Adding(r, c) \/ SaveEnrollment(r)
      BY <1>2, RightsStep
    <3>2. ~SaveEnrollment(r)
      <4>1. req[q].pc = "save" /\ req'[q].pc # "save" /\ req' # req
        BY <1>2, <2>2 DEF SaveEnrollment, Adding
      <4>2. req'[r] = req[r]
        BY <1>2, <2>2 DEF SaveEnrollment, Respond, EnrollGoto, CoreInvariant, DripTypeOK
      <4> QED
        BY <1>2, <4>2 DEF SaveEnrollment, Adding
    <3> QED
      BY <2>2, <3>1, <3>2 DEF EnrolledOnce
  <2>3. CASE MayEnroll(c) /\ SaveEnrollment(r)
    <3>1. Adding(q, c) \/ SaveEnrollment(q)
      BY <1>2, RightsStep
    <3>2. ~SaveEnrollment(q)
      <4>1. req'[q] = req[q]
        BY <1>2, <2>3 DEF SaveEnrollment, Respond, EnrollGoto, CoreInvariant, DripTypeOK
      <4> QED
        BY <1>2, <4>1 DEF SaveEnrollment, Adding
    <3> QED
      BY <2>3, <3>1, <3>2 DEF EnrolledOnce
  <2> QED
    BY <1>2, <2>1, <2>2, <2>3, RightsStep
<1> QED
  BY <1>1, <1>2 DEF EnrolledOnce

-----------------------------------------------------------------------------
(* How many chains there are. *)

\* Counting within 1..n.
LEMMA Counting ==
  ASSUME NEW n \in Nat, NEW S \in SUBSET (1..n), NEW T \in SUBSET (1..n)
  PROVE  /\ Cardinality(S) \in Nat /\ Cardinality(T) \in Nat
         /\ S \subseteq T => Cardinality(S) <= Cardinality(T)
         /\ \A x : S \subseteq T \cup {x} => Cardinality(S) <= Cardinality(T) + 1
         /\ \A x \in T : S \subseteq T \ {x} => Cardinality(S) + 1 <= Cardinality(T)
         /\ \A x \in T : \A y : S \subseteq (T \ {x}) \cup {y} => Cardinality(S) <= Cardinality(T)
<1>1. IsFiniteSet(1..n)
  BY FS_Interval
<1>2. IsFiniteSet(S) /\ IsFiniteSet(T)
  BY <1>1, FS_Subset
<1>3. Cardinality(S) \in Nat /\ Cardinality(T) \in Nat
  BY <1>2, FS_CardinalityType
<1>4. S \subseteq T => Cardinality(S) <= Cardinality(T)
  BY <1>2, FS_Subset
<1>5. ASSUME NEW x, S \subseteq T \cup {x}
      PROVE  Cardinality(S) <= Cardinality(T) + 1
  <2>1. /\ IsFiniteSet(T \cup {x})
        /\ Cardinality(T \cup {x}) = Cardinality(T) \/ Cardinality(T \cup {x}) = Cardinality(T) + 1
    BY <1>2, FS_AddElement
  <2>2. Cardinality(S) <= Cardinality(T \cup {x})
    BY <1>5, <2>1, FS_Subset
  <2> QED
    BY <1>3, <2>1, <2>2
<1>6. ASSUME NEW x \in T
      PROVE  /\ IsFiniteSet(T \ {x}) /\ Cardinality(T \ {x}) \in Nat
             /\ Cardinality(T \ {x}) + 1 = Cardinality(T)
  <2>1. IsFiniteSet(T \ {x}) /\ Cardinality(T \ {x}) = Cardinality(T) - 1
    BY <1>2, FS_RemoveElement
  <2>2. Cardinality(T \ {x}) \in Nat
    BY <2>1, FS_CardinalityType
  <2> QED
    BY <1>3, <2>1, <2>2
<1>7. ASSUME NEW x \in T, S \subseteq T \ {x}
      PROVE  Cardinality(S) + 1 <= Cardinality(T)
  <2>1. Cardinality(S) <= Cardinality(T \ {x})
    BY <1>6, <1>7, FS_Subset
  <2> QED
    BY <1>3, <1>6, <2>1
<1>8. ASSUME NEW x \in T, NEW y, S \subseteq (T \ {x}) \cup {y}
      PROVE  Cardinality(S) <= Cardinality(T)
  <2>1. /\ IsFiniteSet((T \ {x}) \cup {y})
        /\ \/ Cardinality((T \ {x}) \cup {y}) = Cardinality(T \ {x})
           \/ Cardinality((T \ {x}) \cup {y}) = Cardinality(T \ {x}) + 1
    BY <1>6, FS_AddElement
  <2>2. Cardinality(S) <= Cardinality((T \ {x}) \cup {y})
    BY <1>8, <2>1, FS_Subset
  <2> QED
    BY <1>3, <1>6, <2>1, <2>2
<1> QED
  BY <1>3, <1>4, <1>5, <1>7, <1>8

\* What is due are steps.
LEMMA DueIsSteps ==
  ASSUME NEW c, NEW n \in Numbers
  PROVE  /\ Due(c, n) \in SUBSET (1..n) /\ Due(c, n)' \in SUBSET (1..n)
         /\ 1..n \subseteq Numbers /\ n \in Nat
BY BoundsAssumption DEF Due, Numbers

\* A step before which nothing more is due, nothing more was sent and nobody else came to
\* begin keeps the bound.
LEMMA BoundKept ==
  ASSUME CoreInvariant, CoreInvariant', ChainsBounded,
         NEW c \in Contacts, NEW n \in Numbers,
         crashes' >= crashes, sent'[c][n] = sent[c][n],
         ToBegin(c)' <= ToBegin(c), Due(c, n)' \subseteq Due(c, n)
  PROVE  sent'[c][n] + ToBegin(c)' + Cardinality(Due(c, n)') <= 1 + crashes'
<1>1. /\ Cardinality(Due(c, n)) \in Nat /\ Cardinality(Due(c, n)') \in Nat
      /\ Cardinality(Due(c, n)') <= Cardinality(Due(c, n))
  BY DueIsSteps, Counting
<1>2. sent[c][n] \in Nat /\ crashes \in Nat /\ crashes' \in Nat
  BY BoundsAssumption DEF CoreInvariant, DripTypeOK
<1>3. ToBegin(c) \in {0, 1} /\ ToBegin(c)' \in {0, 1}
  BY DEF ToBegin
<1>4. sent[c][n] + ToBegin(c) + Cardinality(Due(c, n)) <= 1 + crashes
  BY DEF ChainsBounded
<1> QED
  BY <1>1, <1>2, <1>3, <1>4

\* Nobody else ever comes to begin a chain.
LEMMA ToBeginStep ==
  ASSUME CoreInvariant, [DripNext]_dripVars, NEW c \in Contacts
  PROVE  ToBegin(c)' <= ToBegin(c)
<1>1. (MayEnroll(c) \/ \E r \in Requests : Adding(r, c))'
        => MayEnroll(c) \/ \E r \in Requests : Adding(r, c)
  BY RightsStep
<1> QED
  BY <1>1 DEF ToBegin

\* What goes on elsewhere is not due here.
LEMMA DueSame ==
  ASSUME NEW c \in Contacts, NEW n \in Numbers, UNCHANGED << job, dripper >>
  PROVE  Due(c, n)' = Due(c, n)
BY DEF Due

\* The chain begins: the request hands its right to the first job.
LEMMA ChainBegins ==
  ASSUME CoreInvariant, CoreInvariant', EnrolledOnce, ChainsBounded, NEW r \in Requests,
         AddFirstJob(r), [DripNext]_dripVars, NEW c \in Contacts, NEW n \in Numbers
  PROVE  sent'[c][n] + ToBegin(c)' + Cardinality(Due(c, n)') <= 1 + crashes'
<1>1. /\ req[r].pc = "add" /\ req[r].contact \in Contacts /\ 1 \in Numbers
      /\ UNCHANGED << sequence, enrollment, dripper, sent, crashes >>
  BY BoundsAssumption DEF AddFirstJob, CoreInvariant, RequestInvariant, rows, bounds, history, Numbers
<1>2. /\ job' = Add(req[r].contact, 1)
      /\ \A d \in Contacts, k \in Numbers :
           \/ job'[d][k] = job[d][k]
           \/ d = req[r].contact /\ k = 1 /\ job'[d][k].state = "delayed"
  <2>1. PICK e \in Contacts : e = req[r].contact
    BY <1>1
  <2>2. job' = Add(e, 1)
    BY <2>1 DEF AddFirstJob
  <2>3. \A d \in Contacts, k \in Numbers :
          \/ Add(e, 1)[d][k] = job[d][k]
          \/ d = e /\ k = 1 /\ Add(e, 1)[e][1].state = "delayed"
    BY <1>1, AddIs DEF CoreInvariant, DripTypeOK
  <2> QED
    BY <2>1, <2>2, <2>3
<1>3. CASE c # req[r].contact
  <2>1. \A k \in Numbers : job'[c][k] = job[c][k]
    BY <1>2, <1>3
  <2>2. Due(c, n)' \subseteq Due(c, n)
    BY <1>1, <2>1, DueIsSteps DEF Due
  <2> QED
    BY <1>1, <2>2, BoundKept, ToBeginStep DEF CoreInvariant, DripTypeOK
<1>4. CASE c = req[r].contact
  <2>1. Adding(r, c)
    BY <1>1, <1>4 DEF Adding
  <2>2. ToBegin(c) = 1
    BY <2>1 DEF ToBegin
  <2>3. ~MayEnroll(c)'
    BY <1>1, <2>1 DEF EnrolledOnce, MayEnroll
  <2>4. ASSUME NEW q \in Requests, Adding(q, c)'
        PROVE  FALSE
    <3>1. req'[r].pc = "contact" /\ \A p \in Requests \ {r} : req'[p] = req[p]
      BY DEF AddFirstJob, EnrollGoto, CoreInvariant, DripTypeOK
    <3>2. q # r /\ Adding(q, c)
      BY <2>4, <3>1 DEF Adding
    <3> QED
      BY <2>1, <3>2 DEF EnrolledOnce
  <2>5. ToBegin(c)' = 0
    BY <2>3, <2>4 DEF ToBegin
  <2>6. Due(c, n)' \subseteq Due(c, n) \cup {1}
    <3>1. \A k \in Numbers : k = 1 \/ job'[c][k] = job[c][k]
      BY <1>2
    <3> QED
      BY <1>1, <3>1, DueIsSteps DEF Due
  <2>7. /\ Cardinality(Due(c, n)) \in Nat /\ Cardinality(Due(c, n)') \in Nat
        /\ Cardinality(Due(c, n)') <= Cardinality(Due(c, n)) + 1
    BY <2>6, DueIsSteps, Counting
  <2>8. sent[c][n] \in Nat /\ crashes \in Nat
    BY BoundsAssumption DEF CoreInvariant, DripTypeOK
  <2>9. sent[c][n] + ToBegin(c) + Cardinality(Due(c, n)) <= 1 + crashes
    BY DEF ChainsBounded
  <2> QED
    BY <1>1, <2>2, <2>5, <2>7, <2>8, <2>9
<1> QED
  BY <1>3, <1>4

\* A job whose delay ends or that is taken stays due, or is dropped.
LEMMA ChainTaken ==
  ASSUME CoreInvariant, CoreInvariant', ChainsBounded, [DripNext]_dripVars,
         NEW d \in Contacts, NEW k \in Numbers, DelayElapses(d, k) \/ TakeJob(d, k),
         NEW c \in Contacts, NEW n \in Numbers
  PROVE  sent'[c][n] + ToBegin(c)' + Cardinality(Due(c, n)') <= 1 + crashes'
<1>1. UNCHANGED << sent, crashes >>
  BY DEF DelayElapses, TakeJob, bounds, history
<1>2. job[d][k].state \in {"delayed", "waiting"} /\ job[d][k].state \in Pending
  BY DEF DelayElapses, TakeJob, Pending
<1>3. ASSUME NEW m \in Numbers, c # d \/ m # k
      PROVE  job'[c][m] = job[c][m]
  <2>1. NoJob \in StepJob
    BY JobsOf
  <2>2. job' \in {Move(d, k, "waiting"), Move(d, k, "active"), Put(d, k, NoJob)}
    BY DEF DelayElapses, TakeJob
  <2>3. Put(d, k, NoJob)[c][m] = job[c][m]
    BY <1>3, <2>1, PutIs, SMTT(30) DEF CoreInvariant, DripTypeOK
  <2>4. \A to \in {"waiting", "active"} : Move(d, k, to)[c][m] = job[c][m]
    BY <1>2, <1>3, MoveIs DEF CoreInvariant, DripTypeOK
  <2> QED
    BY <2>2, <2>3, <2>4
<1>4. UNCHANGED dripper \/ dripper.pc = "idle"
  BY DEF DelayElapses, TakeJob
<1>5. ASSUME NEW m \in Due(c, n)', m \notin Due(c, n)
      PROVE  FALSE
  <2>1. m \in 1..n /\ m \in Numbers
    BY <1>5, DueIsSteps
  <2>2. c # d \/ m # k
    BY <1>2, <1>5, <2>1 DEF Due
  <2>3. job'[c][m] = job[c][m]
    BY <1>3, <2>1, <2>2
  <2>4. job[c][m].state = "active"
    BY <1>5, <2>1, <2>3 DEF Due
  <2>5. dripper.pc # "idle"
    BY <2>1, <2>4 DEF CoreInvariant, WorkerInvariant
  <2> QED
    BY <1>4, <1>5, <2>1, <2>3, <2>5 DEF Due
<1>6. Due(c, n)' \subseteq Due(c, n)
  BY <1>5
<1> QED
  BY <1>1, <1>6, BoundKept, ToBeginStep DEF CoreInvariant, DripTypeOK

\* The worker's steps but its message: what is due stays due, or is passed on to the next
\* step, or is over.
LEMMA ChainGoes ==
  ASSUME CoreInvariant, CoreInvariant', ChainsBounded, [DripNext]_dripVars,
         FindStep \/ CountReplies \/ Send \/ FindNextStep \/ SaveEnrollmentState
           \/ AddNextJob \/ Return \/ StepFails,
         NEW c \in Contacts, NEW n \in Numbers, sent'[c][n] = sent[c][n]
  PROVE  sent'[c][n] + ToBegin(c)' + Cardinality(Due(c, n)') <= 1 + crashes'
<1>1. UNCHANGED crashes /\ dripper.pc # "idle" /\ crashes \in Nat
  BY WorkerLeaves DEF CoreInvariant, DripTypeOK
<1>2. dripper.contact \in Contacts /\ dripper.number \in Numbers
  BY <1>1, WorkerTypes
<1>3. CASE Done \/ Fail
  <2>1. /\ dripper'.pc = "idle"
        /\ job'[dripper.contact][dripper.number].state \in {"none", "failed"}
        /\ \A d \in Contacts, k \in Numbers :
             d # dripper.contact \/ k # dripper.number => job'[d][k] = job[d][k]
    BY <1>1, <1>3, WorkerEnds
  <2>2. ASSUME NEW m \in Due(c, n)'
        PROVE  m \in Due(c, n)
    <3>1. m \in 1..n /\ m \in Numbers
      BY <2>2, DueIsSteps
    <3>2. job'[c][m].state # "active"
      BY <2>1, <3>1 DEF CoreInvariant, WorkerInvariant
    <3>3. job'[c][m].state \in {"delayed", "waiting"}
      BY <2>2, <3>2 DEF Due
    <3>4. job'[c][m] = job[c][m]
      BY <2>1, <3>1, <3>3
    <3> QED
      BY <3>1, <3>3, <3>4 DEF Due
  <2>3. Due(c, n)' \subseteq Due(c, n)
    BY <2>2
  <2> QED
    BY <1>1, <2>3, BoundKept, ToBeginStep
<1>4. ASSUME UNCHANGED job, dripper'.pc # "return",
             dripper'.pc \in BeforeSend => dripper.pc \in BeforeSend, dripper.pc # "return"
      PROVE  sent'[c][n] + ToBegin(c)' + Cardinality(Due(c, n)') <= 1 + crashes'
  <2>1. Due(c, n)' \subseteq Due(c, n)
    BY <1>4 DEF Due
  <2> QED
    BY <1>1, <2>1, BoundKept, ToBeginStep
<1>5. CASE /\ AddNextJob /\ dripper.pc = "add"
           /\ job' = Add(dripper.contact, dripper.number + 1)
           /\ \E k \in Conditions : dripper' = At("return", k)
  <2>1. PICK d \in Contacts, k \in Numbers : d = dripper.contact /\ k = dripper.number
    BY <1>2
  <2>2. PICK l \in Numbers : l = k + 1
    BY <1>5, <2>1, BoundsAssumption DEF CoreInvariant, WorkerInvariant, Numbers
  <2>3. dripper'.pc = "return" /\ job' = Add(d, l)
    BY <1>1, <1>5, <2>1, <2>2 DEF At
  <2>4. \A e \in Contacts, m \in Numbers :
          \/ job'[e][m] = job[e][m]
          \/ e = d /\ m = l /\ job'[e][m].state = "delayed" /\ job[e][m].state = "none"
    <3>1. \A e \in Contacts, m \in Numbers :
            \/ Add(d, l)[e][m] = job[e][m]
            \/ e = d /\ m = l /\ job[d][l].state = "none" /\ Add(d, l)[d][l].state = "delayed"
      BY AddIs DEF CoreInvariant, DripTypeOK
    <3> QED
      BY <2>3, <3>1
  <2>5. k \in Nat /\ k + 1 # k /\ job[d][k].state = "active" /\ dripper.pc \notin BeforeSend
    BY <1>1, <1>5, <2>1, WorkerTypes, BoundsAssumption DEF Numbers, BeforeSend
  <2>6. ASSUME NEW m \in Due(c, n)', m \notin Due(c, n)
        PROVE  c = d /\ m = l
    <3>1. m \in 1..n /\ m \in Numbers
      BY <2>6, DueIsSteps
    <3>2. CASE job'[c][m] = job[c][m]
      BY <1>5, <2>3, <2>6, <3>1, <3>2 DEF Due, BeforeSend
    <3> QED
      BY <2>4, <3>1, <3>2
  <2>7. CASE c = d /\ k < n
    <3>1. k \in Due(c, n)
      BY <1>5, <2>5, <2>7, DueIsSteps DEF Due, Numbers
    <3>2. k \notin Due(c, n)'
      BY <2>2, <2>3, <2>4, <2>5, <2>7 DEF Due
    <3>3. Due(c, n)' \subseteq (Due(c, n) \ {k}) \cup {l}
      BY <2>6, <3>2
    <3>4. /\ Cardinality(Due(c, n)) \in Nat /\ Cardinality(Due(c, n)') \in Nat
          /\ Cardinality(Due(c, n)') <= Cardinality(Due(c, n))
      BY <3>1, <3>3, DueIsSteps, Counting
    <3>5. ToBegin(c)' <= ToBegin(c) /\ ToBegin(c) \in {0, 1} /\ ToBegin(c)' \in {0, 1}
      BY ToBeginStep DEF ToBegin
    <3>6. sent[c][n] \in Nat /\ sent[c][n] + ToBegin(c) + Cardinality(Due(c, n)) <= 1 + crashes
      BY DEF ChainsBounded, CoreInvariant, DripTypeOK
    <3> QED
      BY <1>1, <3>4, <3>5, <3>6
  <2>8. CASE ~(c = d /\ k < n)
    <3>1. l \notin 1..n \/ c # d
      BY <2>2, <2>5, <2>8, DueIsSteps
    <3>2. Due(c, n)' \subseteq Due(c, n)
      BY <2>6, <3>1, DueIsSteps
    <3> QED
      BY <1>1, <3>2, BoundKept, ToBeginStep
  <2> QED
    BY <2>7, <2>8
<1>6. CASE /\ UNCHANGED job
           /\ \E k \in Conditions :
                \/ /\ FindStep /\ dripper.pc = "step"
                   /\ \E pc \in {"unsubscribe", "send", "replies"} :
                        (dripper.optedOut <=> pc = "unsubscribe") /\ dripper' = At(pc, k)
                \/ /\ CountReplies /\ dripper.pc = "replies"
                   /\ \E pc \in {"send", "advance"} : dripper' = At(pc, k)
                \/ Send /\ dripper.pc = "send" /\ dripper' = At("advance", k)
                \/ /\ FindNextStep /\ dripper.pc = "advance"
                   /\ \E pc \in {"save", "complete"} :
                        (pc = "save" => dripper.number < MaxStep) /\ dripper' = At(pc, k)
                \/ SaveEnrollmentState /\ dripper.pc = "save" /\ dripper' = At("add", k)
  <2>1. /\ dripper'.pc # "return" /\ dripper.pc # "return"
        /\ dripper'.pc \in BeforeSend => dripper.pc \in BeforeSend
    BY <1>6 DEF At, BeforeSend
  <2> QED
    BY <1>4, <1>6, <2>1
<1> QED
  BY <1>3, <1>5, <1>6, WorkerMoves

\* The message: the chain has passed it.
LEMMA ChainSends ==
  ASSUME CoreInvariant, CoreInvariant', ChainsBounded, [DripNext]_dripVars,
         Send, NEW c \in Contacts, NEW n \in Numbers, sent'[c][n] # sent[c][n]
  PROVE  sent'[c][n] + ToBegin(c)' + Cardinality(Due(c, n)') <= 1 + crashes'
<1>1. /\ UNCHANGED << crashes, job >> /\ dripper.pc = "send" /\ dripper'.pc = "advance"
      /\ Reach(dripper.contact, dripper.number)
  <2>1. Reach(dripper.contact, dripper.number)
    BY WorkerLeaves
  <2> QED
    BY <2>1 DEF Send, Goto, At, bounds
<1>2. dripper.contact \in Contacts /\ dripper.number \in Numbers
  BY <1>1, WorkerTypes
<1>3. /\ c = dripper.contact /\ n = dripper.number
      /\ sent'[c][n] = sent[c][n] + 1
  <2>1. PICK d \in Contacts, k \in Numbers : d = dripper.contact /\ k = dripper.number
    BY <1>2
  <2>2. sent' = [sent EXCEPT ![d] = [sent[d] EXCEPT ![k] = sent[d][k] + 1]]
    BY <1>1, <2>1 DEF Reach
  <2>3. c = d
    BY <2>2 DEF CoreInvariant, DripTypeOK
  <2>4. sent'[c] = [sent[c] EXCEPT ![k] = sent[c][k] + 1]
    BY <2>2, <2>3 DEF CoreInvariant, DripTypeOK
  <2> QED
    BY <2>1, <2>3, <2>4 DEF CoreInvariant, DripTypeOK
<1>4. job[c][n].state = "active"
  BY <1>1, <1>3, WorkerTypes
<1>5. n \in Due(c, n)
  BY <1>1, <1>4, DueIsSteps DEF Due, BeforeSend, Numbers
<1>6. n \notin Due(c, n)'
  BY <1>1, <1>4 DEF Due, BeforeSend
<1>7. Due(c, n)' \subseteq Due(c, n) \ {n}
  BY <1>1, <1>6 DEF Due, BeforeSend
<1>8. /\ Cardinality(Due(c, n)) \in Nat /\ Cardinality(Due(c, n)') \in Nat
      /\ Cardinality(Due(c, n)') + 1 <= Cardinality(Due(c, n))
  BY <1>5, <1>7, DueIsSteps, Counting
<1>9. ToBegin(c)' <= ToBegin(c) /\ ToBegin(c) \in {0, 1} /\ ToBegin(c)' \in {0, 1}
  BY ToBeginStep DEF ToBegin
<1>10. /\ sent[c][n] \in Nat /\ crashes \in Nat
       /\ sent[c][n] + ToBegin(c) + Cardinality(Due(c, n)) <= 1 + crashes
  BY DEF ChainsBounded, CoreInvariant, DripTypeOK
<1> QED
  BY <1>1, <1>3, <1>8, <1>9, <1>10

\* A crash puts one job back: one message more may be sent.
LEMMA ChainCrashes ==
  ASSUME CoreInvariant, CoreInvariant', ChainsBounded, [DripNext]_dripVars,
         Crash, NEW c \in Contacts, NEW n \in Numbers
  PROVE  sent'[c][n] + ToBegin(c)' + Cardinality(Due(c, n)') <= 1 + crashes'
<1>1. /\ UNCHANGED sent /\ crashes' = crashes + 1 /\ dripper' = Idle
      /\ \A d \in Contacts, m \in Numbers :
           /\ job[d][m].state # "active" => job'[d][m] = job[d][m]
           /\ job[d][m].state = "active" => job'[d][m].state \in {"waiting", "failed"}
  BY CrashIs
<1>2. ASSUME NEW m \in Due(c, n)', m \notin Due(c, n)
      PROVE  m = dripper.number
  <2>1. m \in 1..n /\ m \in Numbers
    BY <1>2, DueIsSteps
  <2>2. job[c][m].state = "active"
    <3>1. CASE job[c][m].state # "active"
      <4>1. job'[c][m] = job[c][m]
        BY <1>1, <2>1, <3>1
      <4> QED
        BY <1>2, <2>1, <3>1, <4>1 DEF Due
    <3> QED
      BY <3>1
  <2> QED
    BY <2>1, <2>2 DEF CoreInvariant, WorkerInvariant
<1>3. PICK k : k = dripper.number
  OBVIOUS
<1>4. Due(c, n)' \subseteq Due(c, n) \cup {k}
  BY <1>2, <1>3
<1>5. /\ Cardinality(Due(c, n)) \in Nat /\ Cardinality(Due(c, n)') \in Nat
      /\ Cardinality(Due(c, n)') <= Cardinality(Due(c, n)) + 1
  BY <1>4, DueIsSteps, Counting
<1>6. ToBegin(c)' <= ToBegin(c) /\ ToBegin(c) \in {0, 1} /\ ToBegin(c)' \in {0, 1}
  BY ToBeginStep DEF ToBegin
<1>7. /\ sent[c][n] \in Nat /\ crashes \in Nat
      /\ sent[c][n] + ToBegin(c) + Cardinality(Due(c, n)) <= 1 + crashes
  BY DEF ChainsBounded, CoreInvariant, DripTypeOK
<1> QED
  BY <1>1, <1>5, <1>6, <1>7

LEMMA ChainsInit ==
  DripInit => EnrolledOnce /\ ChainsBounded
<1> SUFFICES ASSUME DripInit PROVE EnrolledOnce /\ ChainsBounded
  OBVIOUS
<1>1. \A r \in Requests : req[r].pc = "idle"
  BY DEF DripInit, IdleRequest
<1>2. EnrolledOnce
  BY <1>1 DEF EnrolledOnce, Adding
<1>3. ASSUME NEW c \in Contacts, NEW n \in Numbers
      PROVE  sent[c][n] + ToBegin(c) + Cardinality(Due(c, n)) <= 1 + crashes
  <2>1. \A k \in Numbers : job[c][k].state = "none"
    BY JobsOf DEF DripInit
  <2>2. Due(c, n) = {}
    BY <2>1, DueIsSteps DEF Due
  <2>3. Cardinality(Due(c, n)) = 0
    BY <2>2, FS_EmptySet
  <2>4. sent[c][n] = 0 /\ crashes = 0 /\ ToBegin(c) \in {0, 1}
    BY DEF DripInit, ToBegin
  <2> QED
    BY <2>3, <2>4
<1> QED
  BY <1>2, <1>3 DEF ChainsBounded

LEMMA DripStepKeeps ==
  DripInvariant /\ [DripNext]_dripVars => DripInvariant'
<1> SUFFICES ASSUME DripInvariant, [DripNext]_dripVars
             PROVE  DripInvariant'
  OBVIOUS
<1>1. CoreInvariant /\ CoreInvariant' /\ EnrolledOnce /\ EnrolledOnce' /\ ChainsBounded
  BY CoreStep, EnrolledOnceStep DEF DripInvariant
<1>2. ASSUME NEW c \in Contacts, NEW n \in Numbers
      PROVE  sent'[c][n] + ToBegin(c)' + Cardinality(Due(c, n)') <= 1 + crashes'
  <2>1. ASSUME UNCHANGED << job, dripper, sent, crashes >>
        PROVE  sent'[c][n] + ToBegin(c)' + Cardinality(Due(c, n)') <= 1 + crashes'
    BY <1>1, <2>1, DueSame, BoundKept, ToBeginStep DEF CoreInvariant, DripTypeOK
  <2>2. CASE UNCHANGED dripVars
    BY <2>1, <2>2 DEF dripVars, bounds, history
  <2>3. ASSUME NEW r \in Requests,
               Create(r) \/ Enroll(r) \/ EnrollFails(r) \/ CreateStep(r) \/ FindSteps(r)
                 \/ FindContact(r) \/ FindExisting(r) \/ SaveEnrollment(r)
        PROVE  UNCHANGED << job, dripper, sent, crashes >>
    BY <2>3 DEF Create, Enroll, EnrollFails, CreateStep, FindSteps, FindContact, FindExisting,
                SaveEnrollment, bounds, history
  <2>4. CASE Update \/ AddStep \/ RemoveStep \/ Remove \/ OutsideEdit
    <3>1. UNCHANGED << job, dripper, sent, crashes >>
      BY <2>4 DEF Update, AddStep, RemoveStep, Remove, OutsideEdit, Edit, history
    <3> QED
      BY <2>1, <3>1
  <2>5. CASE FindStep \/ CountReplies \/ Send \/ FindNextStep \/ SaveEnrollmentState
               \/ AddNextJob \/ Return \/ StepFails
    <3>1. CASE sent'[c][n] = sent[c][n]
      BY <1>1, <2>5, <3>1, ChainGoes
    <3>2. CASE sent'[c][n] # sent[c][n]
      <4>1. Send
        BY <2>5, <3>2, WorkerLeaves
      <4> QED
        BY <1>1, <3>2, <4>1, ChainSends
    <3> QED
      BY <3>1, <3>2
  <2> QED
    BY <1>1, <2>1, <2>2, <2>3, <2>4, <2>5, ChainBegins, ChainTaken, ChainCrashes
       DEF DripNext, HandlerStep, DripStep
<1>3. ChainsBounded'
  BY <1>2 DEF ChainsBounded
<1> QED
  BY <1>1, <1>3 DEF DripInvariant

\* However enrolments race, jobs stall and chains fork, the message of a step of processDripStep
\* reaches a contact once, and once more for each crash at most.
THEOREM StepsAreNotRepeated == DripSpec => []StepsNotRepeated
<1>1. DripInit => DripInvariant
  BY CoreInit, ChainsInit DEF DripInvariant
<1>2. DripInvariant => StepsNotRepeated
  <2> SUFFICES ASSUME DripInvariant, NEW c \in Contacts, NEW n \in Numbers
               PROVE  sent[c][n] <= 1 + crashes
    BY DEF StepsNotRepeated
  <2>1. sent[c][n] + ToBegin(c) + Cardinality(Due(c, n)) <= 1 + crashes
    BY DEF DripInvariant, ChainsBounded
  <2>2. ToBegin(c) \in {0, 1} /\ Cardinality(Due(c, n)) \in Nat
    BY DueIsSteps, Counting DEF ToBegin
  <2>3. sent[c][n] \in Nat /\ crashes \in Nat
    BY BoundsAssumption DEF DripInvariant, CoreInvariant, DripTypeOK
  <2> QED
    BY <2>1, <2>2, <2>3
<1> QED
  BY <1>1, <1>2, DripStepKeeps, PTL DEF DripSpec

-----------------------------------------------------------------------------
(* Opting out, and the end of an enrolment. *)

LEMMA OptOutStep ==
  ASSUME CoreInvariant, OptOutInvariant, AtMostOneAfterOptOut, [DripNext]_dripVars
  PROVE  OptOutInvariant' /\ AtMostOneAfterOptOut'
<1> USE DEF OptOutInvariant, AtMostOneAfterOptOut
<1>1. ASSUME UNCHANGED << contact, dripper, afterOptOut >>
      PROVE  OptOutInvariant' /\ AtMostOneAfterOptOut'
  BY <1>1
<1>2. CASE UNCHANGED dripVars
  BY <1>1, <1>2 DEF dripVars, rows, history
<1>3. ASSUME NEW r \in Requests, Create(r) \/ Enroll(r) \/ HandlerStep(r) \/ EnrollFails(r)
      PROVE  UNCHANGED << contact, dripper, afterOptOut >>
  BY <1>3 DEF Create, Enroll, EnrollFails, HandlerStep, CreateStep, FindSteps, FindContact,
              FindExisting, SaveEnrollment, AddFirstJob, rows, history
<1>4. CASE Update \/ AddStep \/ RemoveStep \/ Remove
  <2>1. UNCHANGED << contact, dripper, afterOptOut >>
    BY <1>4 DEF Update, AddStep, RemoveStep, Remove, Edit, history
  <2> QED
    BY <1>1, <2>1
<1>5. CASE OutsideEdit
  <2>1. UNCHANGED dripper
    BY <1>5 DEF OutsideEdit, Edit
  <2>2. CASE UNCHANGED << contact, afterOptOut >>
    BY <1>1, <2>1, <2>2
  <2>3. ASSUME NEW c \in Contacts, NEW s,
               contact' = [contact EXCEPT ![c] = s], afterOptOut' = [afterOptOut EXCEPT ![c] = 0]
        PROVE  OptOutInvariant' /\ AtMostOneAfterOptOut'
    <3>1. /\ afterOptOut'[c] = 0
          /\ \A d \in Contacts \ {c} : afterOptOut'[d] = afterOptOut[d] /\ contact'[d] = contact[d]
      BY <2>3 DEF CoreInvariant, DripTypeOK
    <3> QED
      BY <2>1, <3>1
  <2> QED
    BY <1>5, <2>2, <2>3 DEF OutsideEdit
<1>6. ASSUME NEW c \in Contacts, NEW n \in Numbers, DelayElapses(c, n) \/ TakeJob(c, n)
      PROVE  OptOutInvariant' /\ AtMostOneAfterOptOut'
  <2>1. UNCHANGED << contact, afterOptOut >>
    BY <1>6 DEF DelayElapses, TakeJob, rows, history
  <2>2. CASE UNCHANGED dripper
    BY <1>1, <2>1, <2>2
  <2>3. CASE dripper' = Taken(c, n)
    <3>1. /\ dripper'.pc = "step" /\ dripper'.contact = c
          /\ dripper'.optedOut <=> contact[c] = "out"
      BY <2>3 DEF Taken
    <3> QED
      BY <2>1, <3>1
  <2> QED
    BY <1>6, <2>2, <2>3 DEF DelayElapses, TakeJob
<1>7. CASE FindStep \/ CountReplies \/ Send \/ FindNextStep \/ SaveEnrollmentState
             \/ AddNextJob \/ Return \/ StepFails
  <2>1. UNCHANGED contact /\ dripper.pc # "idle"
    BY <1>7, WorkerLeaves
  <2>2. /\ dripper'.pc \in {"replies", "send"} => ~dripper'.optedOut
        /\ dripper'.pc \in BeforeSend =>
             dripper.pc \in {"step", "replies"} /\ dripper'.contact = dripper.contact
               /\ (dripper'.optedOut <=> dripper.optedOut)
    <3>1. CASE Done \/ Fail
      BY <2>1, <3>1, WorkerEnds DEF BeforeSend
    <3>2. ASSUME NEW k \in Conditions,
                 NEW pc \in {"unsubscribe", "send", "replies", "advance", "save", "complete", "add", "return"},
                 dripper' = At(pc, k)
          PROVE  /\ dripper'.pc = pc /\ dripper'.contact = dripper.contact
                 /\ dripper'.optedOut <=> dripper.optedOut
      BY <3>2 DEF At
    <3> QED
      BY <1>7, <3>1, <3>2, WorkerMoves DEF BeforeSend
  <2>3. CASE UNCHANGED afterOptOut
    BY <2>1, <2>2, <2>3 DEF BeforeSend
  <2>4. CASE Send /\ Reach(dripper.contact, dripper.number)
    <3>1. dripper.pc = "send" /\ ~dripper.optedOut
      BY <2>4 DEF Send
    <3>2. dripper'.pc \notin BeforeSend
      BY <2>2, <3>1
    <3>3. PICK d \in Contacts : d = dripper.contact
      BY <2>1, WorkerTypes
    <3>4. \/ UNCHANGED afterOptOut
          \/ contact[d] = "out" /\ afterOptOut' = [afterOptOut EXCEPT ![d] = afterOptOut[d] + 1]
      BY <2>4, <3>3 DEF Reach
    <3>5. contact[d] = "out" => afterOptOut[d] = 0
      BY <3>1, <3>3 DEF BeforeSend
    <3>6. \A c \in Contacts : afterOptOut'[c] = afterOptOut[c] \/ afterOptOut'[c] = 1
      BY <3>4, <3>5 DEF CoreInvariant, DripTypeOK
    <3> QED
      BY <3>2, <3>6 DEF BeforeSend
  <2> QED
    BY <1>7, <2>3, <2>4, WorkerLeaves
<1>8. CASE Crash
  <2>1. UNCHANGED << contact, afterOptOut >> /\ dripper'.pc = "idle"
    BY <1>8, CrashIs, IdleIs
  <2> QED
    BY <2>1 DEF BeforeSend
<1> QED
  BY <1>1, <1>2, <1>3, <1>4, <1>5, <1>6, <1>7, <1>8 DEF DripNext, DripStep

\* processDripStep reads optedOut once, before its awaits; still, a contact that opted out gets
\* the one message that was under way at most.
THEOREM AtMostOneMessageAfterOptOut == DripSpec => []AtMostOneAfterOptOut
<1>1. DripInit => CoreInvariant /\ OptOutInvariant /\ AtMostOneAfterOptOut
  BY CoreInit DEF DripInit, OptOutInvariant, AtMostOneAfterOptOut, Idle, BeforeSend
<1> QED
  BY <1>1, CoreStep, OptOutStep, PTL DEF DripSpec

LEMMA SilenceStep ==
  ASSUME CoreInvariant, SilenceInvariant, [DripNext]_dripVars
  PROVE  /\ SilenceInvariant'
         /\ \A c \in Contacts :
              sent'[c] # sent[c] => enrollment[c].status \notin {"COMPLETED", "UNSUBSCRIBED"}
<1> DEFINE Silent == \A c \in Contacts :
             sent'[c] # sent[c] => enrollment[c].status \notin {"COMPLETED", "UNSUBSCRIBED"}
<1> USE DEF SilenceInvariant
<1>1. ASSUME UNCHANGED << dripper, sent >>,
             \A c \in Contacts : enrollment'[c] = enrollment[c]
                                  \/ enrollment'[c].status \in {"ACTIVE", "NONE"}
      PROVE  SilenceInvariant' /\ Silent
  <2>1. dripper.pc # "idle" => dripper.contact \in Contacts
    BY DEF CoreInvariant, WorkerInvariant
  <2> QED
    BY <1>1, <2>1
<1>2. CASE UNCHANGED dripVars
  BY <1>1, <1>2 DEF dripVars, history
<1>3. ASSUME NEW r \in Requests, Create(r) \/ Enroll(r) \/ HandlerStep(r) \/ EnrollFails(r)
      PROVE  SilenceInvariant' /\ Silent
  <2>1. UNCHANGED << dripper, sent >>
    BY <1>3 DEF Create, Enroll, EnrollFails, HandlerStep, CreateStep, FindSteps, FindContact,
                FindExisting, SaveEnrollment, AddFirstJob, history
  <2>2. UNCHANGED enrollment
        \/ enrollment' = [enrollment EXCEPT ![req[r].contact] = [status |-> "ACTIVE", currentStep |-> 1]]
    BY <1>3 DEF Create, Enroll, EnrollFails, HandlerStep, CreateStep, FindSteps, FindContact,
                FindExisting, SaveEnrollment, AddFirstJob
  <2>3. \A c \in Contacts : enrollment'[c] = enrollment[c] \/ enrollment'[c].status = "ACTIVE"
    BY <2>2 DEF CoreInvariant, DripTypeOK
  <2> QED
    BY <1>1, <2>1, <2>3
<1>4. CASE Update \/ AddStep \/ RemoveStep \/ Remove \/ OutsideEdit
  <2>1. UNCHANGED << dripper, sent >>
    BY <1>4 DEF Update, AddStep, RemoveStep, Remove, OutsideEdit, Edit, history
  <2>2. UNCHANGED enrollment \/ enrollment' = [c \in Contacts |-> NotEnrolled]
    BY <1>4 DEF Update, AddStep, RemoveStep, Remove, OutsideEdit, Edit
  <2> QED
    BY <1>1, <2>1, <2>2 DEF NotEnrolled
<1>5. ASSUME NEW c \in Contacts, NEW n \in Numbers, DelayElapses(c, n) \/ TakeJob(c, n)
      PROVE  SilenceInvariant' /\ Silent
  <2>1. UNCHANGED << enrollment, sent >>
    BY <1>5 DEF DelayElapses, TakeJob, history
  <2>2. CASE UNCHANGED dripper
    BY <1>1, <2>1, <2>2
  <2>3. CASE dripper' = Taken(c, n) /\ enrollment[c].status = "ACTIVE"
    BY <2>1, <2>3 DEF Taken
  <2> QED
    BY <1>5, <2>2, <2>3 DEF DelayElapses, TakeJob
<1>6. CASE FindStep \/ CountReplies \/ Send \/ FindNextStep \/ SaveEnrollmentState
             \/ AddNextJob \/ Return \/ StepFails
  <2>1. dripper.pc # "idle"
    BY <1>6, WorkerLeaves
  <2>2. Silent
    <3>1. CASE UNCHANGED sent
      BY <3>1
    <3>2. CASE Reach(dripper.contact, dripper.number)
      <4>1. PICK d \in Contacts : d = dripper.contact
        BY <2>1, WorkerTypes
      <4>2. \A c \in Contacts : c = d \/ sent'[c] = sent[c]
        BY <3>2, <4>1 DEF Reach, CoreInvariant, DripTypeOK
      <4> QED
        BY <2>1, <4>1, <4>2
    <3> QED
      BY <1>6, <3>1, <3>2, WorkerLeaves
  <2>3. SilenceInvariant'
    <3>1. CASE Done \/ Fail
      BY <2>1, <3>1, WorkerEnds
    <3>2. CASE ~(Done \/ Fail)
      <4>1. dripper'.contact = dripper.contact
        BY <1>6, <3>2, WorkerMoves DEF At
      <4>2. CASE UNCHANGED enrollment
        BY <2>1, <4>1, <4>2
      <4>3. CASE SaveEnrollmentState
        <5>1. UNCHANGED enrollment \/ \E e \in Enrollment :
                e.status = "ACTIVE" /\ enrollment' = [enrollment EXCEPT ![dripper.contact] = e]
          BY <3>2, <4>3, SavedIs
        <5>2. dripper.contact \in Contacts
          BY <2>1, WorkerTypes
        <5> QED
          BY <4>1, <4>2, <5>1, <5>2 DEF CoreInvariant, DripTypeOK
      <4> QED
        BY <1>6, <4>2, <4>3, WorkerLeaves
    <3> QED
      BY <3>1, <3>2
  <2> QED
    BY <2>2, <2>3
<1>7. CASE Crash
  <2>1. UNCHANGED sent /\ dripper'.pc = "idle"
    BY <1>7, CrashIs, IdleIs
  <2> QED
    BY <2>1
<1> QED
  BY <1>1, <1>2, <1>3, <1>4, <1>5, <1>6, <1>7 DEF DripNext, DripStep

\* An enrolment that is COMPLETED or UNSUBSCRIBED sends nothing more, not even from a job that
\* stalled and runs again: processDripStep reads the status first, and only it ends an enrolment.
THEOREM EndedEnrollmentsAreSilent == DripSpec => EndedIsSilent
<1>1. DripInit => CoreInvariant /\ SilenceInvariant
  BY CoreInit DEF DripInit, SilenceInvariant, Idle
<1>2. CoreInvariant /\ SilenceInvariant /\ [DripNext]_dripVars
        => [\A c \in Contacts :
              sent'[c] # sent[c] => enrollment[c].status \notin {"COMPLETED", "UNSUBSCRIBED"}]_dripVars
  BY SilenceStep
<1>3. CoreInvariant /\ SilenceInvariant /\ [DripNext]_dripVars => CoreInvariant' /\ SilenceInvariant'
  BY CoreStep, SilenceStep
<1> QED
  BY <1>1, <1>2, <1>3, PTL DEF DripSpec, EndedIsSilent

-----------------------------------------------------------------------------
(* No enrolment is forgotten. *)

\* A chain that is cut is marked.
LEMMA BreakIs ==
  ASSUME broken \in [Contacts -> BOOLEAN], NEW c \in Contacts, Break(c)
  PROVE  broken'[c] /\ \A d \in Contacts : broken[d] => broken'[d]
BY DEF Break

\* What leaves the jobs and the worker alone strands none, as long as a first job is
\* not given up unmarked.
LEMMA StrandedByNone ==
  ASSUME StrandInvariant, WorkerInvariant, UNCHANGED << job, dripper >>,
         \A c \in Contacts : broken[c] => broken'[c],
         \A c \in Contacts : enrollment'[c].status = "ACTIVE" =>
           enrollment[c].status = "ACTIVE" \/ \E r \in Requests : Adding(r, c)',
         \A c \in Contacts, r \in Requests : Adding(r, c) => broken'[c] \/ Adding(r, c)'
  PROVE  StrandInvariant'
BY DEF StrandInvariant, NoneStranded, WorkerInvariant

\* The same where a job is added or moves on.
LEMMA StrandedByMoves ==
  ASSUME StrandInvariant, WorkerInvariant, UNCHANGED << enrollment, broken >>,
         dripper.pc = "return" => dripper'.pc = "idle" \/ UNCHANGED dripper,
         dripper'.pc = "return" => UNCHANGED dripper,
         \A c \in Contacts, n \in Numbers :
           job[c][n].state \in Pending => job'[c][n].state \in Pending,
         \A c \in Contacts, n \in Numbers : job'[c][n].state = "failed" => job[c][n].state = "failed",
         \A c \in Contacts, r \in Requests :
           Adding(r, c) => \/ broken[c] \/ Adding(r, c)'
                           \/ \E n \in Numbers : job'[c][n].state \in Pending
  PROVE  StrandInvariant'
BY DEF StrandInvariant, NoneStranded, WorkerInvariant

LEMMA StrandRequests ==
  ASSUME CoreInvariant, StrandInvariant, NEW r \in Requests,
         Create(r) \/ Enroll(r) \/ HandlerStep(r) \/ EnrollFails(r)
  PROVE  StrandInvariant'
<1> USE DEF CoreInvariant, DripTypeOK
<1>1. \A s \in Requests \ {r} : req'[s] = req[s]
  BY DEF Create, Enroll, HandlerStep, CreateStep, FindSteps, FindContact, FindExisting,
         SaveEnrollment, AddFirstJob, EnrollFails, Respond, EnrollGoto
<1>2. \A s \in Requests \ {r}, c \in Contacts : Adding(s, c) => Adding(s, c)'
  BY <1>1 DEF Adding
<1>3. CASE EnrollFails(r)
  <2>1. UNCHANGED << job, dripper, enrollment >>
    BY <1>3 DEF EnrollFails
  <2>2. CASE req[r].pc = "add"
    <3>1. req[r].contact \in Contacts /\ Break(req[r].contact)
      BY <1>3, <2>2 DEF EnrollFails, RequestInvariant
    <3>2. broken'[req[r].contact] /\ \A d \in Contacts : broken[d] => broken'[d]
      BY <3>1, BreakIs
    <3>3. \A c \in Contacts : Adding(r, c) => broken'[c]
      BY <3>2 DEF Adding
    <3> QED
      BY <1>2, <2>1, <3>2, <3>3, StrandedByNone
  <2>3. CASE req[r].pc # "add"
    <3>1. UNCHANGED broken /\ \A c \in Contacts : ~Adding(r, c)
      BY <1>3, <2>3 DEF EnrollFails, Adding
    <3> QED
      BY <1>2, <2>1, <3>1, StrandedByNone
  <2> QED
    BY <2>2, <2>3
<1>4. CASE Create(r) \/ Enroll(r) \/ FindSteps(r) \/ FindContact(r) \/ FindExisting(r)
             \/ CreateStep(r)
  <2>1. UNCHANGED << job, dripper, enrollment, broken >> /\ req[r].pc # "add"
    BY <1>4 DEF Create, Enroll, FindSteps, FindContact, FindExisting, CreateStep, history
  <2>2. \A c \in Contacts : ~Adding(r, c)
    BY <2>1 DEF Adding
  <2> QED
    BY <1>2, <2>1, <2>2, StrandedByNone
<1>5. CASE SaveEnrollment(r)
  <2>1. UNCHANGED << job, dripper, broken >> /\ req[r].pc = "save" /\ req[r].contact \in Contacts
    BY <1>5 DEF SaveEnrollment, history, RequestInvariant
  <2>2. \A c \in Contacts : ~Adding(r, c)
    BY <2>1 DEF Adding
  <2>3. CASE UNCHANGED enrollment
    BY <1>2, <2>1, <2>2, <2>3, StrandedByNone
  <2>4. CASE /\ enrollment' = [enrollment EXCEPT ![req[r].contact] = [status |-> "ACTIVE", currentStep |-> 1]]
             /\ EnrollGoto(r, "add")
    <3>1. PICK d \in Contacts : d = req[r].contact
      BY <2>1
    <3>2. Adding(r, d)'
      BY <2>4, <3>1 DEF EnrollGoto, Adding
    <3>3. \A c \in Contacts : c = d \/ enrollment'[c] = enrollment[c]
      BY <2>4, <3>1
    <3>4. \A c \in Contacts : enrollment'[c].status = "ACTIVE" =>
            enrollment[c].status = "ACTIVE" \/ \E s \in Requests : Adding(s, c)'
      BY <3>2, <3>3
    <3> QED
      BY <1>2, <2>1, <2>2, <3>4, StrandedByNone
  <2> QED
    BY <1>5, <2>3, <2>4 DEF SaveEnrollment
<1>6. CASE AddFirstJob(r)
  <2>1. UNCHANGED << enrollment, dripper, broken >> /\ 1 \in Numbers
    BY <1>6, BoundsAssumption DEF AddFirstJob, history, Numbers
  <2>2. PICK d \in Contacts : d = req[r].contact
    BY <1>6 DEF AddFirstJob, RequestInvariant
  <2>3. job' = Add(d, 1)
    BY <1>6, <2>2 DEF AddFirstJob
  <2>4. \A c \in Contacts, n \in Numbers :
          \/ job'[c][n] = job[c][n]
          \/ job[c][n].state = "none" /\ job'[c][n].state = "delayed"
    <3>1. \A c \in Contacts, k \in Numbers :
            \/ Add(d, 1)[c][k] = job[c][k]
            \/ c = d /\ k = 1 /\ job[d][1].state = "none" /\ Add(d, 1)[d][1].state = "delayed"
      BY <2>1, AddIs
    <3> QED
      BY <2>3, <3>1
  <2>5. broken[d] \/ job'[d][1].state \in Pending
    <3>1. CASE job[d][1].state = "none"
      <4> DEFINE j == [state |-> "delayed", stalls |-> 0]
      <4>1. job' = Put(d, 1, j)
        BY <2>3, <3>1 DEF Add
      <4>2. j \in StepJob /\ j.state = "delayed"
        BY JobsOf
      <4> HIDE DEF j
      <4>3. Put(d, 1, j)[d][1] = j
        BY <2>1, <4>2, PutIs
      <4> QED
        BY <4>1, <4>2, <4>3 DEF Pending
    <3>2. CASE job[d][1].state # "none"
      <4>1. job[d][1] \in StepJob /\ job'[d][1] = job[d][1]
        BY <2>1, <2>4, <3>2
      <4>2. job[d][1].state \in Pending \/ job[d][1].state = "failed"
        BY <3>2, <4>1, JobFields
      <4> QED
        BY <2>1, <4>1, <4>2 DEF StrandInvariant
    <3> QED
      BY <3>1, <3>2
  <2>6. \A c \in Contacts : Adding(r, c) => c = d
    BY <2>2 DEF Adding
  <2>7. \A c \in Contacts, n \in Numbers :
          /\ job[c][n].state \in Pending => job'[c][n].state \in Pending
          /\ job'[c][n].state = "failed" => job[c][n].state = "failed"
    BY <2>4 DEF Pending
  <2>8. \A c \in Contacts, s \in Requests :
          Adding(s, c) => \/ broken[c] \/ Adding(s, c)'
                          \/ \E n \in Numbers : job'[c][n].state \in Pending
    BY <1>2, <2>1, <2>5, <2>6
  <2> QED
    BY <2>1, <2>7, <2>8, StrandedByMoves
<1> QED
  BY <1>3, <1>4, <1>5, <1>6 DEF HandlerStep

LEMMA StrandTake ==
  ASSUME CoreInvariant, StrandInvariant, NEW c \in Contacts, NEW n \in Numbers,
         DelayElapses(c, n) \/ TakeJob(c, n)
  PROVE  StrandInvariant'
<1> USE DEF CoreInvariant, DripTypeOK
<1>1. UNCHANGED << enrollment, req, broken >>
  BY DEF DelayElapses, TakeJob, history
<1>2. \A d \in Contacts, r \in Requests : Adding(r, d) => Adding(r, d)'
  BY <1>1 DEF Adding
<1>3. job[c][n].state \in Pending
  BY DEF DelayElapses, TakeJob, Pending
<1>4. ASSUME NEW to \in {"waiting", "active"}, job' = Move(c, n, to)
      PROVE  \A d \in Contacts, k \in Numbers :
               /\ job[d][k].state \in Pending => job'[d][k].state \in Pending
               /\ job'[d][k].state = "failed" => job[d][k].state = "failed"
  <2>1. /\ job'[c][n].state = to
        /\ \A d \in Contacts, k \in Numbers : d # c \/ k # n => job'[d][k] = job[d][k]
    BY <1>3, <1>4, MoveIs
  <2> QED
    BY <2>1 DEF Pending
<1>5. CASE DelayElapses(c, n)
  <2>1. job' = Move(c, n, "waiting") /\ UNCHANGED dripper
    BY <1>5 DEF DelayElapses
  <2> QED
    BY <1>1, <1>2, <1>4, <2>1, StrandedByMoves
<1>6. CASE TakeJob(c, n) /\ enrollment[c].status = "ACTIVE"
  <2>1. job' = Move(c, n, "active") /\ dripper.pc = "idle" /\ dripper'.pc = "step"
    BY <1>6 DEF TakeJob, Taken
  <2> QED
    BY <1>1, <1>2, <1>4, <2>1, StrandedByMoves
<1>7. CASE TakeJob(c, n) /\ enrollment[c].status # "ACTIVE"
  <2>1. job' = Put(c, n, NoJob) /\ dripper.pc = "idle" /\ UNCHANGED dripper
    BY <1>7 DEF TakeJob
  <2>2. /\ job'[c][n].state = "none"
        /\ \A d \in Contacts, k \in Numbers : d # c \/ k # n => job'[d][k] = job[d][k]
    <3>1. NoJob \in StepJob /\ NoJob.state = "none"
      BY JobsOf
    <3> HIDE DEF NoJob
    <3>2. /\ Put(c, n, NoJob)[c][n] = NoJob
          /\ \A d \in Contacts, k \in Numbers :
               d # c \/ k # n => Put(c, n, NoJob)[d][k] = job[d][k]
      BY <3>1, PutIs
    <3> QED
      BY <2>1, <3>1, <3>2
  <2>3. \A d \in Contacts, k \in Numbers : job'[d][k].state = "failed" => job[d][k].state = "failed"
    BY <2>2
  <2>4. NoneStranded'
    <3>1. ASSUME NEW d \in Contacts, enrollment'[d].status = "ACTIVE"
          PROVE  \/ broken'[d]
                 \/ \E r \in Requests : Adding(r, d)'
                 \/ \E k \in Numbers : job'[d][k].state \in Pending
      <4>1. d # c /\ enrollment[d].status = "ACTIVE"
        BY <1>1, <1>7, <3>1
      <4>2. \A k \in Numbers : job'[d][k] = job[d][k]
        BY <2>2, <4>1
      <4> QED
        BY <1>1, <1>2, <4>1, <4>2 DEF StrandInvariant, NoneStranded
    <3> QED
      BY <3>1 DEF NoneStranded
  <2> QED
    BY <1>1, <2>1, <2>3, <2>4 DEF StrandInvariant
<1> QED
  BY <1>5, <1>6, <1>7

\* The worker ends a job that has a successor, or whose enrolment ends with it, or it
\* marks the chain as cut.
LEMMA StrandWorker ==
  ASSUME CoreInvariant, StrandInvariant,
         FindStep \/ CountReplies \/ Send \/ FindNextStep \/ SaveEnrollmentState
           \/ AddNextJob \/ Return \/ StepFails
  PROVE  StrandInvariant'
<1> USE DEF CoreInvariant, DripTypeOK
<1>1. UNCHANGED req /\ dripper.pc # "idle"
  BY WorkerLeaves
<1>2. \A d \in Contacts, r \in Requests : Adding(r, d) <=> Adding(r, d)'
  BY <1>1 DEF Adding
<1>3. PICK c \in Contacts, n \in Numbers :
        /\ c = dripper.contact /\ n = dripper.number /\ job[c][n].state = "active"
  BY <1>1, WorkerTypes
\* A job that ends.
<1>4. ASSUME Done \/ Fail, \A d \in Contacts : broken[d] => broken'[d],
             \A d \in Contacts : d # c => enrollment'[d] = enrollment[d],
             Fail => broken'[c],
             \/ broken'[c]
             \/ enrollment'[c].status # "ACTIVE"
             \/ \E k \in Numbers \ {n} : job[c][k].state \in Pending
      PROVE  StrandInvariant'
  <2>1. /\ dripper'.pc = "idle"
        /\ job'[c][n].state \in {"none", "failed"}
        /\ \A d \in Contacts, k \in Numbers : d # c \/ k # n => job'[d][k] = job[d][k]
    BY <1>1, <1>3, <1>4, WorkerEnds
  <2>2. job'[c][n].state = "failed" => broken'[c]
    <3>1. CASE Done
      <4>1. job' = Put(c, n, NoJob)
        BY <1>3, <3>1 DEF Done
      <4>2. NoJob \in StepJob /\ NoJob.state = "none"
        BY JobsOf
      <4> HIDE DEF NoJob
      <4>3. Put(c, n, NoJob)[c][n] = NoJob
        BY <4>2, PutIs
      <4> QED
        BY <4>1, <4>2, <4>3
    <3> QED
      BY <1>4, <3>1
  <2>3. \A d \in Contacts, k \in Numbers : job'[d][k].state = "failed" => broken'[d]
    BY <1>4, <2>1, <2>2 DEF StrandInvariant
  <2>4. ASSUME NEW d \in Contacts, enrollment'[d].status = "ACTIVE"
        PROVE  \/ broken'[d]
               \/ \E r \in Requests : Adding(r, d)'
               \/ \E k \in Numbers : job'[d][k].state \in Pending
    <3>1. CASE d = c
      BY <1>4, <2>1, <2>4, <3>1
    <3>2. CASE d # c
      <4>1. enrollment[d].status = "ACTIVE" /\ \A k \in Numbers : job'[d][k] = job[d][k]
        BY <1>4, <2>1, <2>4, <3>2
      <4> QED
        BY <1>2, <1>4, <4>1 DEF StrandInvariant, NoneStranded
    <3> QED
      BY <3>1, <3>2
  <2>5. NoneStranded'
    BY <2>4 DEF NoneStranded
  <2> QED
    BY <2>1, <2>3, <2>5 DEF StrandInvariant
\* A handler that goes on with its job.
<1>5. ASSUME UNCHANGED << job, broken >>, \A d \in Contacts : d # c => enrollment'[d] = enrollment[d],
             dripper'.pc # "return"
      PROVE  StrandInvariant'
  <2>1. NoneStranded'
    BY <1>2, <1>3, <1>5 DEF StrandInvariant, NoneStranded, Pending
  <2> QED
    BY <1>5, <2>1 DEF StrandInvariant
<1>6. ASSUME NEW k, NEW pc, dripper' = At(pc, k)
      PROVE  dripper'.pc = pc /\ dripper'.contact = c /\ dripper'.number = n
  BY <1>3, <1>6 DEF At
<1>7. Break(c) => broken'[c] /\ \A d \in Contacts : broken[d] => broken'[d]
  BY BreakIs
<1>8. Fail => Break(c)
  BY <1>3 DEF Fail
<1>9. CASE Fail /\ UNCHANGED enrollment
  BY <1>4, <1>7, <1>8, <1>9
<1>10. CASE Done /\ Break(c) /\ UNCHANGED enrollment
  BY <1>4, <1>7, <1>8, <1>10
<1>11. CASE FindStep
  <2>1. UNCHANGED enrollment
    BY <1>11 DEF FindStep
  <2>2. ASSUME NEW k,
               dripper' = At(IF dripper.optedOut THEN "unsubscribe"
                             ELSE IF k = "ALWAYS" THEN "send" ELSE "replies", k),
               UNCHANGED << job, broken >>
        PROVE  StrandInvariant'
    <3>1. dripper'.pc # "return"
      BY <2>2 DEF At
    <3> QED
      BY <1>5, <2>1, <2>2, <3>1
  <2> QED
    BY <1>3, <1>9, <1>10, <1>11, <2>1, <2>2 DEF FindStep
<1>12. CASE CountReplies \/ FindNextStep
  <2>1. \E pc \in {"send", "advance", "save", "complete"} : dripper' = At(pc, dripper.condition)
    BY <1>12 DEF CountReplies, FindNextStep, Goto
  <2>2. UNCHANGED << job, broken, enrollment >>
    BY <1>12 DEF CountReplies, FindNextStep, history
  <2> QED
    BY <1>5, <1>6, <2>1, <2>2
<1>13. CASE Send
  <2>1. UNCHANGED enrollment
    BY <1>13 DEF Send
  <2>2. CASE Done /\ Break(dripper.contact)
    BY <1>3, <1>10, <2>1, <2>2
  <2>3. CASE Goto("advance") /\ UNCHANGED << job, broken >>
    BY <1>5, <1>6, <2>1, <2>3 DEF Goto
  <2> QED
    BY <1>13, <2>2, <2>3 DEF Send
<1>14. CASE SaveEnrollmentState
  <2>1. CASE Fail /\ UNCHANGED enrollment
    BY <1>9, <2>1
  <2>2. ASSUME NEW e \in Enrollment, UNCHANGED broken,
               enrollment' = [enrollment EXCEPT ![c] = e],
               \/ e.status # "ACTIVE" /\ Done
               \/ Goto("add") /\ UNCHANGED job
        PROVE  StrandInvariant'
    <3>1. enrollment'[c] = e /\ \A d \in Contacts : d # c => enrollment'[d] = enrollment[d]
      BY <2>2
    <3>2. CASE e.status # "ACTIVE" /\ Done
      <4>1. Fail => broken'[c]
        BY <1>7, <1>8
      <4> QED
        BY <1>4, <2>2, <3>1, <3>2, <4>1
    <3>3. CASE Goto("add") /\ UNCHANGED job
      BY <1>5, <1>6, <2>2, <3>1, <3>3 DEF Goto
    <3> QED
      BY <2>2, <3>2, <3>3
  <2> QED
    BY <1>3, <1>14, <2>1, <2>2, SavedIs
<1>15. CASE AddNextJob
  <2>1. UNCHANGED << enrollment, broken >> /\ dripper.pc = "add" /\ n + 1 \in Numbers /\ n + 1 # n
    BY <1>3, <1>15, BoundsAssumption DEF AddNextJob, history, WorkerInvariant, Numbers
  <2>2. /\ job' = Add(c, n + 1)
        /\ dripper'.pc = "return" /\ dripper'.contact = c /\ dripper'.number = n
    BY <1>3, <1>6, <1>15 DEF AddNextJob, Goto
  <2> DEFINE m == n + 1
  <2>3. m \in Numbers /\ m # n /\ job' = Add(c, m)
    BY <2>1, <2>2
  <2> HIDE DEF m
  <2>4. \A d \in Contacts, k \in Numbers :
          \/ job'[d][k] = job[d][k]
          \/ job[d][k].state = "none" /\ job'[d][k].state = "delayed"
    <3>1. \A d \in Contacts, k \in Numbers :
            \/ Add(c, m)[d][k] = job[d][k]
            \/ d = c /\ k = m /\ job[c][m].state = "none" /\ Add(c, m)[c][m].state = "delayed"
      BY <2>3, AddIs
    <3> QED
      BY <2>3, <3>1
  <2>5. broken[c] \/ job'[c][m].state \in Pending
    <3>1. CASE job[c][m].state = "none"
      <4> DEFINE j == [state |-> "delayed", stalls |-> 0]
      <4>1. job' = Put(c, m, j)
        BY <2>3, <3>1 DEF Add
      <4>2. j \in StepJob /\ j.state = "delayed"
        BY JobsOf
      <4> HIDE DEF j
      <4>3. Put(c, m, j)[c][m] = j
        BY <2>3, <4>2, PutIs
      <4> QED
        BY <4>1, <4>2, <4>3 DEF Pending
    <3>2. CASE job[c][m].state # "none"
      <4>1. job[c][m] \in StepJob /\ job'[c][m] = job[c][m]
        BY <2>3, <2>4, <3>2
      <4>2. job[c][m].state \in Pending \/ job[c][m].state = "failed"
        BY <3>2, <4>1, JobFields
      <4> QED
        BY <2>3, <4>1, <4>2 DEF StrandInvariant
    <3> QED
      BY <3>1, <3>2
  <2>6. \A d \in Contacts, k \in Numbers :
          /\ job[d][k].state \in Pending => job'[d][k].state \in Pending
          /\ job'[d][k].state = "failed" => job[d][k].state = "failed"
    BY <2>4 DEF Pending
  <2>7. NoneStranded'
    BY <1>2, <2>1, <2>6 DEF StrandInvariant, NoneStranded
  <2> QED
    BY <2>1, <2>2, <2>3, <2>5, <2>6, <2>7 DEF StrandInvariant
<1>16. CASE Return
  <2>1. UNCHANGED << enrollment, broken >> /\ Done /\ dripper.pc = "return"
    BY <1>16 DEF Return, history
  <2>2. broken[c] \/ \E k \in Numbers \ {n} : job[c][k].state \in Pending
    BY <1>3, <2>1 DEF StrandInvariant
  <2> QED
    BY <1>4, <1>7, <1>8, <2>1, <2>2
<1>17. CASE StepFails
  BY <1>9, <1>17 DEF StepFails
<1> QED
  BY <1>11, <1>12, <1>13, <1>14, <1>15, <1>16, <1>17

\* A crash marks the chains whose job has used up its stalls, and those whose first job
\* was about to be added.
LEMMA StrandCrash ==
  ASSUME CoreInvariant, StrandInvariant, Crash
  PROVE  StrandInvariant'
<1> USE DEF CoreInvariant, DripTypeOK
<1>1. /\ UNCHANGED enrollment /\ dripper'.pc = "idle"
      /\ \A c \in Contacts, n \in Numbers :
           /\ job[c][n].state # "active" => job'[c][n] = job[c][n]
           /\ job[c][n].state = "active" => job'[c][n].state \in {"waiting", "failed"}
  BY CrashIs, IdleIs
<1>2. /\ \A c \in Contacts : broken[c] => broken'[c]
      /\ \A c \in Contacts, r \in Requests : Adding(r, c) => broken'[c]
  BY DEF Crash, Adding
<1>3. ASSUME NEW c \in Contacts, NEW n \in Numbers,
             job[c][n].state = "active", job'[c][n].state = "failed"
      PROVE  broken'[c]
  <2>1. dripper.pc # "idle" /\ dripper.contact = c /\ dripper.number = n
    BY <1>3 DEF WorkerInvariant
  <2>2. job[c][n].stalls \in 0..MaxStalls
    BY <1>3, JobFields DEF Pending
  <2>3. ~(job[c][n].stalls < MaxStalls)
    <3>1. job'[c][n] = [state |-> IF job[c][n].stalls < MaxStalls THEN "waiting" ELSE "failed",
                        stalls |-> job[c][n].stalls + 1]
      BY <1>3 DEF Crash
    <3> QED
      BY <1>3, <3>1
  <2>4. job[c][n].stalls = MaxStalls
    <3> DEFINE s == job[c][n].stalls
    <3>1. s \in 0..MaxStalls /\ ~(s < MaxStalls)
      BY <2>2, <2>3
    <3> HIDE DEF s
    <3>2. s = MaxStalls
      BY <3>1, BoundsAssumption
    <3> QED
      BY <3>2 DEF s
  <2> DEFINE cut == {d \in {dripper.contact} : job[d][dripper.number].stalls = MaxStalls}
             Cut(d) == \E r \in Requests : req[r].pc = "add" /\ req[r].contact = d
  <2>5. c \in cut
    BY <2>1, <2>4
  <2>6. broken' = [d \in Contacts |-> broken[d] \/ d \in cut \/ Cut(d)]
    BY <2>1 DEF Crash
  <2> HIDE DEF cut, Cut
  <2> QED
    BY <2>5, <2>6
<1>4. \A c \in Contacts, n \in Numbers : job'[c][n].state = "failed" => broken'[c]
  <2> SUFFICES ASSUME NEW c \in Contacts, NEW n \in Numbers, job'[c][n].state = "failed"
               PROVE  broken'[c]
    OBVIOUS
  <2>1. CASE job[c][n].state = "active"
    BY <1>3, <2>1
  <2>2. CASE job[c][n].state # "active"
    <3>1. job[c][n].state = "failed"
      BY <1>1, <2>2
    <3>2. broken[c]
      BY <3>1 DEF StrandInvariant
    <3> QED
      BY <1>2, <3>2
  <2> QED
    BY <2>1, <2>2
<1>5. \A c \in Contacts, n \in Numbers :
        job[c][n].state \in Pending => job'[c][n].state \in Pending \/ broken'[c]
  BY <1>1, <1>3 DEF Pending
<1>6. NoneStranded'
  <2>1. ASSUME NEW c \in Contacts, enrollment[c].status = "ACTIVE"
        PROVE  broken'[c] \/ \E n \in Numbers : job'[c][n].state \in Pending
    <3>1. CASE \E n \in Numbers : job[c][n].state \in Pending
      BY <1>5, <3>1
    <3>2. CASE broken[c] \/ \E r \in Requests : Adding(r, c)
      BY <1>2, <3>2
    <3> QED
      BY <2>1, <3>1, <3>2 DEF StrandInvariant, NoneStranded
  <2> QED
    BY <1>1, <2>1 DEF NoneStranded
<1> QED
  BY <1>1, <1>4, <1>6 DEF StrandInvariant

\* No enrolment is forgotten: as long as it is ACTIVE, the queue 'drip' has a job for it or
\* enroll() is about to add one, unless the chain was cut and is marked so. Whatever EnrollmentEnds
\* waits for, something is there to bring it about.
THEOREM NoEnrollmentIsStranded == DripSpec => []NoneStranded
<1>1. DripInit => CoreInvariant /\ StrandInvariant
  BY CoreInit, JobsOf DEF DripInit, StrandInvariant, NoneStranded, NotEnrolled, Idle
<1>2. CoreInvariant /\ StrandInvariant /\ [DripNext]_dripVars => CoreInvariant' /\ StrandInvariant'
  <2> SUFFICES ASSUME CoreInvariant, StrandInvariant, [DripNext]_dripVars
               PROVE  StrandInvariant'
    BY CoreStep
  <2>1. CASE UNCHANGED dripVars
    BY <2>1, StrandedByNone DEF dripVars, history, Adding, CoreInvariant
  <2>2. CASE Update \/ AddStep \/ RemoveStep \/ Remove \/ OutsideEdit
    <3>1. UNCHANGED << job, dripper, req, broken >>
      BY <2>2 DEF Update, AddStep, RemoveStep, Remove, OutsideEdit, Edit, history
    <3>2. UNCHANGED enrollment \/ enrollment' = [c \in Contacts |-> NotEnrolled]
      BY <2>2 DEF Update, AddStep, RemoveStep, Remove, OutsideEdit, Edit
    <3> QED
      BY <3>1, <3>2, StrandedByNone DEF NotEnrolled, Adding, CoreInvariant
  <2> QED
    BY <2>1, <2>2, StrandRequests, StrandTake, StrandWorker, StrandCrash DEF DripNext, DripStep
<1>3. StrandInvariant => NoneStranded
  BY DEF StrandInvariant
<1> QED
  BY <1>1, <1>2, <1>3, PTL DEF DripSpec
=============================================================================
