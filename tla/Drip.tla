-------------------------------- MODULE Drip --------------------------------
(***************************************************************************)
(* Drip sequences: the endpoints of DripController, DripService.enroll,    *)
(* and the BullMQ queue 'drip' whose worker runs processDripStep.          *)
(*                                                                         *)
(* One sequence.  An action ends at each await that another actor can      *)
(* interleave with.  The worker takes one job at a time; a job has one     *)
(* attempt, is deleted when it completes and kept when it fails, and its   *)
(* jobId is made of the enrolment and the step number.                     *)
(***************************************************************************)
EXTENDS Integers, FiniteSets, Sequences

CONSTANTS
  Contacts, Requests,
  NoOne,        \* no contact
  Plans,        \* the steps of a CreateDripSequenceDto: sequences of <<number, condition>>
  MaxStep,      \* bound: step numbers in use
  MaxStalls,    \* maxStalledCount of the BullMQ worker
  MaxCrashes,   \* bound: crashes of the backend
  MaxEdits,     \* bound: edits of the sequence, its steps and template, and contacts
  DripFaults    \* whether an access to the database or Redis may fail

Numbers    == 1..MaxStep
Conditions == {"ALWAYS", "NO_REPLY", "REPLIED"}

ASSUME BoundsAssumption ==
  MaxStep \in Nat \ {0} /\ MaxStalls \in Nat /\ MaxCrashes \in Nat /\ MaxEdits \in Nat
ASSUME PlansAssumption == Plans \subseteq Seq(Numbers \X Conditions)
ASSUME NoOneAssumption == NoOne \notin Contacts
ASSUME DripFaultsAssumption == DripFaults \in BOOLEAN

VARIABLES
  sequence,    \* the row of drip_sequences: its isActive, or no row
  step,        \* the rows of drip_steps with a number: findOne returns any of them
  template,    \* whether the steps' template is there, not soft-deleted
  contact,     \* subscribed, opted out, or soft-deleted
  replied,     \* whether message_logs holds an INBOUND row of the contact
  enrollment,  \* the row of drip_enrollments of a contact
  job,         \* job[c][n]: the BullMQ job drip-<enrolment of c>-step-<n>
  dripper,     \* processDripStep: the next await and the copies it holds
  req,         \* the requests in flight
  edits, crashes,
  sent,        \* history: messages of a step that reached the contact
  afterOptOut, \* history: those that reached it since it opted out
  broken       \* history: the chain of the enrolment was cut (see Break)

rows     == << sequence, step, template, contact, replied >>
bounds   == << edits, crashes >>
history  == << sent, afterOptOut, broken >>
dripVars == << rows, enrollment, job, dripper, req, bounds, history >>

\* PAUSED is declared as well, but nothing ever writes it.
EnrollStatus == {"ACTIVE", "COMPLETED", "UNSUBSCRIBED"}
NotEnrolled  == [status |-> "NONE", currentStep |-> 0]
Enrollment   == {NotEnrolled} \cup [status : EnrollStatus, currentStep : Numbers]

NoJob     == [state |-> "none", stalls |-> 0]
Pending   == {"delayed", "waiting", "active"}
StepJob   == {NoJob} \cup [state : Pending, stalls : 0..MaxStalls]
                     \cup [state : {"failed"}, stalls : 0..(MaxStalls + 1)]

Idle      == [pc |-> "idle", contact |-> NoOne, number |-> 0, optedOut |-> FALSE,
              condition |-> "ALWAYS"]
Dripper   == [pc : {"idle", "step", "unsubscribe", "replies", "send", "advance",
                    "complete", "save", "add", "return"},
              contact : Contacts \cup {NoOne}, number : 0..MaxStep,
              optedOut : BOOLEAN, condition : Conditions]

IdleRequest == [pc |-> "idle", plan |-> << >>, todo |-> {}, contact |-> NoOne]
Request     == [pc : {"idle", "create", "steps", "contact", "existing", "save", "add"},
                plan : Seq(Numbers \X Conditions), todo : SUBSET Contacts,
                contact : Contacts \cup {NoOne}]

DripInit ==
  /\ sequence = "NONE"
  /\ step = [n \in Numbers |-> {}]
  /\ template = TRUE
  /\ contact \in [Contacts -> {"in"}]
  /\ replied = [c \in Contacts |-> FALSE]
  /\ enrollment = [c \in Contacts |-> NotEnrolled]
  /\ job = [c \in Contacts |-> [n \in Numbers |-> NoJob]]
  /\ dripper = Idle
  /\ req = [r \in Requests |-> IdleRequest]
  /\ edits = 0 /\ crashes = 0
  /\ sent = [c \in Contacts |-> [n \in Numbers |-> 0]]
  /\ afterOptOut = [c \in Contacts |-> 0]
  /\ broken = [c \in Contacts |-> FALSE]

Break(c) == broken' = [broken EXCEPT ![c] = TRUE]

-----------------------------------------------------------------------------
(* The endpoints that write the sequence and its steps. *)

Respond(r) == req' = [req EXCEPT ![r] = IdleRequest]

\* POST /drip-sequences: the sequence is saved first, then its steps one by one.
Create(r) ==
  /\ req[r].pc = "idle" /\ sequence = "NONE"
  /\ \E plan \in Plans :
       req' = [req EXCEPT ![r] =
                 [pc |-> "create", plan |-> plan, todo |-> {}, contact |-> NoOne]]
  /\ sequence' = "ACTIVE"
  /\ UNCHANGED << step, template, contact, replied, enrollment, job, dripper, bounds,
                  history >>

CreateStep(r) ==
  /\ req[r].pc = "create"
  /\ IF req[r].plan = << >> \/ sequence = "DELETED"
       THEN Respond(r) /\ UNCHANGED step
       ELSE /\ LET new == Head(req[r].plan) IN
               step' = [step EXCEPT ![new[1]] = step[new[1]] \cup {new[2]}]
            /\ req' = [req EXCEPT ![r] = [pc |-> "create", plan |-> Tail(req[r].plan),
                                         todo |-> {}, contact |-> NoOne]]
  /\ UNCHANGED << sequence, template, contact, replied, enrollment, job, dripper, bounds,
                  history >>

Edit == edits < MaxEdits /\ edits' = edits + 1
      /\ UNCHANGED << enrollment, job, dripper, req, crashes, sent, broken >>

\* PATCH /drip-sequences/:id with isActive.
Update ==
  /\ Edit
  /\ \/ sequence = "ACTIVE" /\ sequence' = "INACTIVE"
     \/ sequence = "INACTIVE" /\ sequence' = "ACTIVE"
  /\ UNCHANGED << step, template, contact, replied, afterOptOut >>

\* POST :id/steps does not look for a step that has the number.
AddStep ==
  /\ Edit
  /\ sequence \in {"ACTIVE", "INACTIVE"}
  /\ \E n \in Numbers, k \in Conditions : step' = [step EXCEPT ![n] = step[n] \cup {k}]
  /\ UNCHANGED << sequence, template, contact, replied, afterOptOut >>

\* DELETE :id/steps/:stepId asks neither who waits for the step nor renumbers.
RemoveStep ==
  /\ Edit
  /\ \E n \in Numbers : \E k \in step[n] : step' = [step EXCEPT ![n] = step[n] \ {k}]
  /\ UNCHANGED << sequence, template, contact, replied, afterOptOut >>

\* DELETE :id: the database deletes steps and enrolments with the sequence; the
\* jobs stay.
Remove ==
  /\ edits < MaxEdits /\ edits' = edits + 1
  /\ sequence \in {"ACTIVE", "INACTIVE"}
  /\ sequence' = "DELETED"
  /\ step' = [n \in Numbers |-> {}]
  /\ enrollment' = [c \in Contacts |-> NotEnrolled]
  /\ UNCHANGED << template, contact, replied, job, dripper, req, crashes, history >>

\* Elsewhere: the template is soft-deleted; the contact opts out or in by
\* keyword or edit, replies, or is soft-deleted, which nothing takes back.
OutsideEdit ==
  /\ Edit
  /\ UNCHANGED << sequence, step >>
  /\ \/ template' = FALSE /\ UNCHANGED << contact, replied, afterOptOut >>
     \/ \E c \in Contacts :
          \/ replied' = [replied EXCEPT ![c] = TRUE]
             /\ UNCHANGED << template, contact, afterOptOut >>
          \/ /\ contact[c] # "gone"
             /\ \E s \in {"in", "out", "gone"} \ {contact[c]} : contact' = [contact EXCEPT ![c] = s]
             /\ afterOptOut' = [afterOptOut EXCEPT ![c] = 0]
             /\ UNCHANGED << template, replied >>

-----------------------------------------------------------------------------
(* POST /drip-sequences/:id/enroll. *)

EnrollGoto(r, pc) ==
  req' = [req EXCEPT ![r] = [pc |-> pc, plan |-> << >>, todo |-> req[r].todo,
                             contact |-> req[r].contact]]

Enroll(r) ==
  /\ req[r].pc = "idle"
  /\ sequence = "ACTIVE"
  /\ \E cs \in SUBSET Contacts \ {{}} :
       req' = [req EXCEPT ![r] =
                 [pc |-> "steps", plan |-> << >>, todo |-> cs, contact |-> NoOne]]
  /\ UNCHANGED << rows, enrollment, job, dripper, bounds, history >>

\* No steps: 400.
FindSteps(r) ==
  /\ req[r].pc = "steps"
  /\ IF \A n \in Numbers : step[n] = {} THEN Respond(r) ELSE EnrollGoto(r, "contact")
  /\ UNCHANGED << rows, enrollment, job, dripper, bounds, history >>

\* Skips a contact that is gone or opted out.
FindContact(r) ==
  /\ req[r].pc = "contact"
  /\ IF req[r].todo = {} THEN Respond(r)
     ELSE \E c \in req[r].todo :
            req' = [req EXCEPT ![r] =
                      [pc |-> IF contact[c] = "in" THEN "existing" ELSE "contact",
                       plan |-> << >>, todo |-> req[r].todo \ {c}, contact |-> c]]
  /\ UNCHANGED << rows, enrollment, job, dripper, bounds, history >>

FindExisting(r) ==
  /\ req[r].pc = "existing"
  /\ EnrollGoto(r, IF enrollment[req[r].contact] = NotEnrolled THEN "save" ELSE "contact")
  /\ UNCHANGED << rows, enrollment, job, dripper, bounds, history >>

\* Mutant: without the unique key on sequence and contact.
SaveEnrollmentAgain(r) ==
  /\ req[r].pc = "save" /\ sequence # "DELETED"
  /\ enrollment' = [enrollment EXCEPT
                      ![req[r].contact] = [status |-> "ACTIVE", currentStep |-> 1]]
  /\ EnrollGoto(r, "add")
  /\ UNCHANGED << rows, job, dripper, bounds, history >>

\* A second enrolment of the contact breaks the unique key and one in a deleted
\* sequence the foreign key: 500, and the contacts that are left are not enrolled.
SaveEnrollment(r) ==
  /\ req[r].pc = "save"
  /\ IF enrollment[req[r].contact] = NotEnrolled /\ sequence # "DELETED"
       THEN /\ enrollment' = [enrollment EXCEPT
                                ![req[r].contact] = [status |-> "ACTIVE", currentStep |-> 1]]
            /\ EnrollGoto(r, "add")
       ELSE Respond(r) /\ UNCHANGED enrollment
  /\ UNCHANGED << rows, job, dripper, bounds, history >>

Put(c, n, j) == [job EXCEPT ![c] = [job[c] EXCEPT ![n] = j]]

Move(c, n, state) == Put(c, n, [state |-> state, stalls |-> job[c][n].stalls])

\* BullMQ ignores an add whose jobId exists.
Add(c, n) ==
  IF job[c][n].state = "none" THEN Put(c, n, [state |-> "delayed", stalls |-> 0]) ELSE job

\* The first job is for step 1, whatever number the first step has.
AddFirstJob(r) ==
  /\ req[r].pc = "add"
  /\ job' = Add(req[r].contact, 1)
  /\ EnrollGoto(r, "contact")
  /\ UNCHANGED << rows, enrollment, dripper, bounds, history >>

\* A database or Redis error: 500.
EnrollFails(r) ==
  /\ DripFaults /\ req[r].pc # "idle"
  /\ Respond(r)
  /\ IF req[r].pc = "add" THEN Break(req[r].contact) ELSE UNCHANGED broken
  /\ UNCHANGED << rows, enrollment, job, dripper, bounds, sent, afterOptOut >>

-----------------------------------------------------------------------------
(* DripProcessor.process, DripService.processDripStep, advanceToNextStep. *)

At(pc, k) == [pc |-> pc, contact |-> dripper.contact, number |-> dripper.number,
              optedOut |-> dripper.optedOut, condition |-> k]

Goto(pc) == dripper' = At(pc, dripper.condition)

DelayElapses(c, n) ==
  /\ job[c][n].state = "delayed"
  /\ job' = Move(c, n, "waiting")
  /\ UNCHANGED << rows, enrollment, dripper, req, bounds, history >>

\* The handler returns and the job is removed.
Done == /\ job' = Put(dripper.contact, dripper.number, NoJob)
        /\ dripper' = Idle

\* The handler throws: one attempt, and the job is kept.
Fail == /\ job' = Move(dripper.contact, dripper.number, "failed")
        /\ dripper' = Idle
        /\ Break(dripper.contact)

Taken(c, n) == [pc |-> "step", contact |-> c, number |-> n,
                optedOut |-> (contact[c] = "out"), condition |-> "ALWAYS"]

\* Mutant: the enrolment's status is not looked at.
TakeJobAnyStatus(c, n) ==
  /\ dripper.pc = "idle" /\ job[c][n].state = "waiting"
  /\ job' = Move(c, n, "active")
  /\ dripper' = Taken(c, n)
  /\ UNCHANGED << rows, enrollment, req, bounds, history >>

\* Loads enrolment and contact; only an ACTIVE enrolment goes on.
TakeJob(c, n) ==
  /\ dripper.pc = "idle" /\ job[c][n].state = "waiting"
  /\ IF enrollment[c].status = "ACTIVE"
       THEN job' = Move(c, n, "active") /\ dripper' = Taken(c, n)
       ELSE job' = Put(c, n, NoJob) /\ UNCHANGED dripper
  /\ UNCHANGED << rows, enrollment, req, bounds, history >>

\* Mutant: the copy's optedOut is not looked at.
FindStepIgnoresOptOut ==
  /\ dripper.pc = "step"
  /\ \/ /\ step[dripper.number] = {}
        /\ Done /\ Break(dripper.contact)
     \/ \E k \in step[dripper.number] :
          /\ dripper' = At(IF k = "ALWAYS" THEN "send" ELSE "replies", k)
          /\ UNCHANGED << job, broken >>
  /\ UNCHANGED << rows, enrollment, req, bounds, sent, afterOptOut >>

\* A step that is gone ends the job; a contact that was soft-deleted is not
\* joined, and reading its optedOut throws.
FindStep ==
  /\ dripper.pc = "step"
  /\ \/ /\ step[dripper.number] = {}
        /\ Done /\ Break(dripper.contact)
     \/ contact[dripper.contact] = "gone" /\ step[dripper.number] # {} /\ Fail
     \/ \E k \in step[dripper.number] :
          /\ contact[dripper.contact] # "gone"
          /\ dripper' = At(IF dripper.optedOut THEN "unsubscribe"
                           ELSE IF k = "ALWAYS" THEN "send" ELSE "replies", k)
          /\ UNCHANGED << job, broken >>
  /\ UNCHANGED << rows, enrollment, req, bounds, sent, afterOptOut >>

\* Any reply the contact ever sent counts.
CountReplies ==
  /\ dripper.pc = "replies"
  /\ Goto(IF (dripper.condition = "REPLIED") = replied[dripper.contact]
            THEN "send" ELSE "advance")
  /\ UNCHANGED << rows, enrollment, job, req, bounds, history >>

Reach(c, n) ==
  /\ sent' = [sent EXCEPT ![c] = [sent[c] EXCEPT ![n] = sent[c][n] + 1]]
  /\ afterOptOut' = IF contact[c] = "out"
                      THEN [afterOptOut EXCEPT ![c] = afterOptOut[c] + 1] ELSE afterOptOut

\* No template: the job ends.  Otherwise the message reaches the contact or not;
\* whatever goes wrong is swallowed, and so is the error of the message log,
\* whose userId is never the sequence's.
Send ==
  /\ dripper.pc = "send"
  /\ \/ /\ ~template
        /\ Done /\ Break(dripper.contact)
        /\ UNCHANGED << sent, afterOptOut >>
     \/ /\ template
        /\ Goto("advance")
        /\ \/ Reach(dripper.contact, dripper.number)
           \/ UNCHANGED << sent, afterOptOut >>
        /\ UNCHANGED << job, broken >>
  /\ UNCHANGED << rows, enrollment, req, bounds >>

FindNextStep ==
  /\ dripper.pc = "advance"
  /\ Goto(IF dripper.number < MaxStep /\ step[dripper.number + 1] # {}
            THEN "save" ELSE "complete")
  /\ UNCHANGED << rows, enrollment, job, req, bounds, history >>

\* The save of an enrolment whose sequence was deleted breaks the foreign key.
SaveAdvance(e) ==
  IF enrollment[dripper.contact] = NotEnrolled
    THEN Fail /\ UNCHANGED enrollment
    ELSE /\ enrollment' = [enrollment EXCEPT ![dripper.contact] = e]
         /\ UNCHANGED broken
         /\ IF e.status = "ACTIVE" THEN Goto("add") /\ UNCHANGED job ELSE Done

SaveEnrollmentState ==
  /\ \/ /\ dripper.pc = "unsubscribe"
        /\ SaveAdvance([status |-> "UNSUBSCRIBED",
                        currentStep |-> enrollment[dripper.contact].currentStep])
     \/ /\ dripper.pc = "complete"
        /\ SaveAdvance([status |-> "COMPLETED",
                        currentStep |-> enrollment[dripper.contact].currentStep])
     \/ /\ dripper.pc = "save"
        /\ SaveAdvance([status |-> "ACTIVE", currentStep |-> dripper.number + 1])
  /\ UNCHANGED << rows, req, bounds, sent, afterOptOut >>

\* Mutant: the next job is added under the number of the step just done.
AddNextJobSameNumber ==
  /\ dripper.pc = "add"
  /\ job' = Put(dripper.contact, dripper.number, NoJob)
  /\ dripper' = Idle
  /\ UNCHANGED << rows, enrollment, req, bounds, history >>

\* Adds the next job; once the handler returns, BullMQ removes this one.
AddNextJob ==
  /\ dripper.pc = "add"
  /\ job' = Add(dripper.contact, dripper.number + 1)
  /\ Goto("return")
  /\ UNCHANGED << rows, enrollment, req, bounds, history >>

Return ==
  /\ dripper.pc = "return"
  /\ Done
  /\ UNCHANGED << rows, enrollment, req, bounds, history >>

\* A database or Redis error in the handler; the fetch swallows its own.
StepFails ==
  /\ DripFaults /\ dripper.pc \notin {"idle", "send", "return"}
  /\ Fail
  /\ UNCHANGED << rows, enrollment, req, bounds, sent, afterOptOut >>

-----------------------------------------------------------------------------

\* Requests are lost; the active job is run again from its start, MaxStalls times.
Crash ==
  LET cut == IF dripper.pc = "idle" THEN {}
             ELSE {c \in {dripper.contact} :
                     job[c][dripper.number].stalls = MaxStalls} IN
  /\ crashes < MaxCrashes
  /\ crashes' = crashes + 1
  /\ req' = [r \in Requests |-> IdleRequest]
  /\ dripper' = Idle
  /\ job' = [c \in Contacts |-> [n \in Numbers |->
               IF job[c][n].state # "active" THEN job[c][n]
               ELSE [state |-> IF job[c][n].stalls < MaxStalls THEN "waiting" ELSE "failed",
                     stalls |-> job[c][n].stalls + 1]]]
  /\ broken' = [c \in Contacts |-> broken[c] \/ c \in cut
                  \/ \E r \in Requests : req[r].pc = "add" /\ req[r].contact = c]
  /\ UNCHANGED << rows, enrollment, edits, sent, afterOptOut >>

HandlerStep(r) ==
  \/ CreateStep(r)
  \/ FindSteps(r) \/ FindContact(r) \/ FindExisting(r) \/ SaveEnrollment(r) \/ AddFirstJob(r)

DripStep ==
  \/ \E c \in Contacts, n \in Numbers : TakeJob(c, n)
  \/ FindStep \/ CountReplies \/ Send \/ FindNextStep \/ SaveEnrollmentState
  \/ AddNextJob \/ Return

DripNext ==
  \/ \E r \in Requests : Create(r) \/ Enroll(r) \/ HandlerStep(r) \/ EnrollFails(r)
  \/ Update \/ AddStep \/ RemoveStep \/ Remove \/ OutsideEdit
  \/ \E c \in Contacts, n \in Numbers : DelayElapses(c, n)
  \/ DripStep \/ StepFails
  \/ Crash

\* The process runs its handlers and its worker, and delays end.
DripSpec ==
  /\ DripInit /\ [][DripNext]_dripVars
  /\ WF_dripVars(DripStep)
  /\ \A r \in Requests : WF_dripVars(HandlerStep(r))
  /\ \A c \in Contacts, n \in Numbers : WF_dripVars(DelayElapses(c, n))
-----------------------------------------------------------------------------
(* Properties. *)

\* Every variable keeps its type.
DripTypeOK ==
  /\ sequence \in {"NONE", "ACTIVE", "INACTIVE", "DELETED"}
  /\ step \in [Numbers -> SUBSET Conditions]
  /\ template \in BOOLEAN
  /\ contact \in [Contacts -> {"in", "out", "gone"}]
  /\ replied \in [Contacts -> BOOLEAN]
  /\ enrollment \in [Contacts -> Enrollment]
  /\ job \in [Contacts -> [Numbers -> StepJob]]
  /\ dripper \in Dripper
  /\ req \in [Requests -> Request]
  /\ edits \in 0..MaxEdits /\ crashes \in 0..MaxCrashes
  /\ sent \in [Contacts -> [Numbers -> Nat]]
  /\ afterOptOut \in [Contacts -> Nat]
  /\ broken \in [Contacts -> BOOLEAN]

\* A step reaches a contact once, and once more for each crash at most, however
\* enrolments race, jobs stall and a stalled step runs again after its successor
\* was queued: the unique key sees to it that a contact has one chain of jobs, and
\* a crash makes at most one more of it.
StepsNotRepeated ==
  \A c \in Contacts, n \in Numbers : sent[c][n] <= 1 + crashes

\* A contact that opted out gets the message that was under way, and no other.
AtMostOneAfterOptOut == \A c \in Contacts : afterOptOut[c] <= 1

\* An enrolment that ended sends nothing, not even from a job that stalled.
EndedIsSilent ==
  [][\A c \in Contacts :
       sent'[c] # sent[c] => enrollment[c].status \notin {"COMPLETED", "UNSUBSCRIBED"}]_dripVars

\* An enrolment ends, unless its chain is cut: a failed job, an enrolment
\* interrupted before its first job, or a step, template or contact that is gone.
EnrollmentEnds ==
  \A c \in Contacts :
    enrollment[c].status = "ACTIVE" ~> enrollment[c].status # "ACTIVE" \/ broken[c]
=============================================================================
