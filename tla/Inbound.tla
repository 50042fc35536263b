------------------------------ MODULE Inbound -------------------------------
(***************************************************************************)
(* Inbound messages: InboundHandler of the session manager, the queue      *)
(* 'inbound-messages', InboundProcessor with its opt-out and opt-in        *)
(* keywords, and the auto-reply rules; composed with the Contacts they     *)
(* write.                                                                  *)
(*                                                                         *)
(* A message takes one Redis key, then one job with one attempt.           *)
(***************************************************************************)
EXTENDS Contacts, Sequences

CONSTANTS
  Messages,       \* WhatsApp messages, by id
  Sender,         \* the phone in the JID of a message
  Keyword,        \* "stop", "start" or "text": what its body is to the processor
  Rules,          \* auto-reply rules: active or not, a priority, the messages matched
  MaxDeliveries,  \* bound: messages.upsert events
  MaxStalls,      \* maxStalledCount of the BullMQ worker
  MaxCrashes      \* bound: crashes of the backend or the session manager

ASSUME SenderAssumption == Sender \in [Messages -> Phones]
ASSUME KeywordAssumption == Keyword \in [Messages -> {"stop", "start", "text"}]
AutoReplyRule == [priority : Nat, isActive : BOOLEAN, matches : SUBSET Messages]

ASSUME RulesAssumption == Rules \subseteq AutoReplyRule
ASSUME InboundBounds == MaxDeliveries \in Nat /\ MaxStalls \in Nat /\ MaxCrashes \in Nat

VARIABLES
  dedup,       \* the Redis keys dedup:inbound:<id>; they live for a day
  handler,     \* the handleMessages calls in flight: the batches left, and an await
  queue,       \* the jobs that wait, the next one first
  worker,      \* InboundProcessor.process: its job, next await and contact copy
  rules,       \* the rows of auto_reply_rules
  logged,      \* INBOUND rows of a message
  replied,     \* history: replies sent for a message
  finished,    \* history: messages whose job completed
  lost,        \* history: messages whose key is set and that no job will finish
  deliveries, crashes

workVars    == << dedup, handler, queue, worker, rules >>
resultVars  == << logged, replied, finished, lost >>
inboundVars == << contactVars, workVars, resultVars, deliveries, crashes >>

Handlers == {1, 2}
NoHandler == [pc |-> "idle", batch |-> << >>]
Job       == [msg : Messages, stalls : 0..MaxStalls]
At(pc, job, copy) == [pc |-> pc, job |-> job, copy |-> copy]   \* of the worker
NoWork    == At("idle", << >>, Absent)
Copy      == worker.copy
Msg       == Head(worker.job).msg
From      == Sender[Msg]

InboundInit ==
  /\ ContactsInit
  /\ dedup = {}
  /\ handler = [h \in Handlers |-> NoHandler]
  /\ queue = << >>
  /\ worker = NoWork
  /\ rules = {}
  /\ logged = [m \in Messages |-> 0] /\ replied = logged
  /\ finished = {} /\ lost = {}
  /\ deliveries = 0 /\ crashes = 0

-----------------------------------------------------------------------------
(* The session manager. *)

\* Baileys emits messages.upsert, after a reconnect also for messages it emitted
\* before; our own and empty messages are not among Messages.
Upsert(h) ==
  /\ handler[h].pc = "idle" /\ deliveries < MaxDeliveries
  /\ \E m, n \in Messages :
       handler' = [handler EXCEPT ![h] =
         [pc |-> "dedup", batch |-> IF m = n THEN <<m>> ELSE <<m, n>>]]
  /\ deliveries' = deliveries + 1
  /\ UNCHANGED << contactVars, dedup, queue, worker, rules, resultVars, crashes >>

NextMessage(h) ==
  handler' = [handler EXCEPT ![h] = IF Tail(handler[h].batch) = << >> THEN NoHandler
                ELSE [pc |-> "dedup", batch |-> Tail(handler[h].batch)]]

KeySet(h) == handler' = [handler EXCEPT ![h] = [pc |-> "add", batch |-> handler[h].batch]]

\* Mutant: the key is not looked at.
SetDedupKeyBlindly(h) ==
  /\ handler[h].pc = "dedup"
  /\ dedup' = dedup \cup {Head(handler[h].batch)}
  /\ KeySet(h)
  /\ UNCHANGED << contactVars, queue, worker, rules, resultVars, deliveries, crashes >>

\* SET NX: a key that exists marks a duplicate.
SetDedupKey(h) ==
  LET m == Head(handler[h].batch) IN
  /\ handler[h].pc = "dedup"
  /\ dedup' = dedup \cup {m}
  /\ IF m \in dedup THEN NextMessage(h) ELSE KeySet(h)
  /\ UNCHANGED << contactVars, queue, worker, rules, resultVars, deliveries, crashes >>

AddInbound(h) ==
  /\ handler[h].pc = "add"
  /\ queue' = Append(queue, [msg |-> Head(handler[h].batch), stalls |-> 0])
  /\ NextMessage(h)
  /\ UNCHANGED << contactVars, dedup, worker, rules, resultVars, deliveries, crashes >>

\* Redis fails: the rest of the batch is dropped, and the message whose key is
\* set will pass for a duplicate.
DropBatch(hs) ==
  /\ handler' = [h \in Handlers |-> IF h \in hs THEN NoHandler ELSE handler[h]]
  /\ lost' = lost \cup {Head(handler[h].batch) : h \in {g \in hs : handler[g].pc = "add"}}

HandlerFails(h) ==
  /\ handler[h].pc # "idle"
  /\ DropBatch({h})
  /\ UNCHANGED << contactVars, dedup, queue, worker, rules, logged, replied, finished,
                  deliveries, crashes >>

-----------------------------------------------------------------------------
(* InboundProcessor.process. *)

Step(pc) == worker' = At(pc, worker.job, worker.copy)

UnchangedButWorker ==
  UNCHANGED << dedup, handler, queue, rules, deliveries, crashes,
               group, request, requests, grouped, groupRaced >>

TakeMessage ==
  /\ worker.pc = "idle" /\ queue # << >>
  /\ worker' = At("find", <<Head(queue)>>, Absent)
  /\ queue' = Tail(queue)
  /\ UNCHANGED << contactVars, dedup, handler, rules, resultVars, deliveries, crashes >>

\* process() returned, or threw: its one attempt is over.
Finish == worker' = NoWork /\ finished' = finished \cup {Msg} /\ UNCHANGED lost
Throw  == worker' = NoWork /\ lost' = lost \cup {Msg} /\ UNCHANGED finished

\* Before that the session is read: without its row the message is dropped.
FindSender ==
  /\ worker.pc = "find"
  /\ worker' = At(IF contact[From].state = "live" THEN "log" ELSE "insert",
                  worker.job, contact[From])
  /\ UnchangedButWorker /\ UNCHANGED << contact, asked, raced, resultVars >>

\* The sender exists by now, or is soft-deleted: the unique key makes it throw.
InsertSender ==
  /\ worker.pc = "insert"
  /\ \/ /\ Insert(From)
        /\ worker' = At("log", worker.job, Fresh)
        /\ UNCHANGED << finished, lost >>
     \/ contact[From].state # "none" /\ Throw /\ UNCHANGED << contact, asked >>
  /\ UnchangedButWorker /\ UNCHANGED << raced, logged, replied >>

\* Saves the INBOUND row; then the keywords, of which START counts for a contact
\* whose copy is opted out only.
LogInbound ==
  /\ worker.pc = "log"
  /\ logged' = [logged EXCEPT ![Msg] = logged[Msg] + 1]
  /\ Step(CASE Keyword[Msg] = "stop" -> "optOut"
            [] Keyword[Msg] = "start" /\ Copy.optedOut -> "optIn"
            [] OTHER -> "match")
  /\ UnchangedButWorker /\ UNCHANGED << contact, asked, raced, replied, finished, lost >>

\* Mutant: the opt-out is logged and confirmed, not saved.
SaveKeywordOptInOnly ==
  /\ \/ worker.pc = "optOut" /\ Step("audit") /\ UNCHANGED << contact, raced >>
        /\ asked' = [asked EXCEPT ![From] = Edited(asked[From], {TRUE})]
     \/ worker.pc = "optIn" /\ SaveCopy(From, Copy, {FALSE}) /\ Step("reply")
  /\ UnchangedButWorker /\ UNCHANGED resultVars

\* handleOptOut and handleOptIn save the contact, then answer.
SaveKeyword ==
  /\ \/ worker.pc = "optOut" /\ SaveCopy(From, Copy, {TRUE}) /\ Step("audit")
     \/ worker.pc = "optIn" /\ SaveCopy(From, Copy, {FALSE}) /\ Step("reply")
  /\ UnchangedButWorker /\ UNCHANGED resultVars

LogOptOut ==
  /\ worker.pc = "audit" /\ Step("reply")
  /\ UnchangedButWorker /\ UNCHANGED << contact, asked, raced, resultVars >>

\* findMatch: an active rule of the highest priority among those that match.
Matching == {r \in rules : r.isActive /\ Msg \in r.matches}

MatchRules ==
  /\ worker.pc = "match"
  /\ IF Matching = {} THEN Finish ELSE Step("reply") /\ UNCHANGED << finished, lost >>
  /\ UnchangedButWorker /\ UNCHANGED << contact, asked, raced, logged, replied >>

\* Mutant: a reply that failed is tried again, from the rules on.
SendReplyRetries ==
  /\ worker.pc = "reply"
  /\ \/ replied' = [replied EXCEPT ![Msg] = replied[Msg] + 1] /\ Finish
     \/ UNCHANGED << replied, finished, lost >> /\ Step("match")
  /\ UnchangedButWorker /\ UNCHANGED << contact, asked, raced, logged >>

\* sendReply: sent or not, its log saved or not, process() returns.
SendReply ==
  /\ worker.pc = "reply"
  /\ \/ replied' = [replied EXCEPT ![Msg] = replied[Msg] + 1]
     \/ UNCHANGED replied
  /\ Finish
  /\ UnchangedButWorker /\ UNCHANGED << contact, asked, raced, logged >>

\* The session's row is gone, or the database fails.
ProcessFails ==
  /\ worker.pc \notin {"idle", "reply"}
  /\ Throw
  /\ UnchangedButWorker /\ UNCHANGED << contact, asked, raced, logged, replied >>

-----------------------------------------------------------------------------

\* AutoReplyController: rules come, change and go.
SaveRule(old) == \E r \in Rules \ rules : rules' = (rules \ old) \cup {r}

\* The system's STOP rule stays.
RemoveRule(r) ==
  /\ r.priority < 9999 \/ \A m \in r.matches : Keyword[m] # "stop"
  /\ rules' = rules \ {r}

EditRules ==
  /\ \/ SaveRule({})
     \/ \E r \in rules : SaveRule({r}) \/ RemoveRule(r)
  /\ UNCHANGED << contactVars, dedup, handler, queue, worker, resultVars, deliveries, crashes >>

\* The session manager crashes and forgets its calls.
SessionManagerCrash ==
  /\ crashes < MaxCrashes /\ crashes' = crashes + 1
  /\ DropBatch(Handlers)
  /\ UNCHANGED << contactVars, dedup, queue, worker, rules, logged, replied, finished,
                  deliveries >>

\* The backend crashes: requests are lost, and BullMQ puts the stalled job at the
\* head of the queue, MaxStalls times.
BackendCrash ==
  /\ crashes < MaxCrashes /\ crashes' = crashes + 1
  /\ request' = [u \in Users |-> IdleRequest]
  /\ worker' = NoWork
  /\ \/ worker.pc = "idle" /\ UNCHANGED << queue, lost >>
     \/ /\ worker.pc # "idle"
        /\ LET job == Head(worker.job) IN
           IF job.stalls < MaxStalls
             THEN /\ queue' = <<[msg |-> Msg, stalls |-> job.stalls + 1]>> \o queue
                  /\ UNCHANGED lost
             ELSE lost' = lost \cup {Msg} /\ UNCHANGED queue
  /\ UNCHANGED << contact, group, requests, asked, raced, grouped, groupRaced,
                  dedup, handler, rules, logged, replied, finished, deliveries >>

ProcessStep ==
  TakeMessage \/ FindSender \/ InsertSender \/ LogInbound \/ SaveKeyword \/ LogOptOut
    \/ MatchRules \/ SendReply

HandlerStep(h) == SetDedupKey(h) \/ AddInbound(h)

UserStep == ContactsNext
  /\ UNCHANGED << workVars, resultVars, deliveries, crashes >>

InboundNext ==
  \/ \E h \in Handlers : Upsert(h) \/ HandlerStep(h) \/ HandlerFails(h)
  \/ ProcessStep \/ ProcessFails
  \/ EditRules \/ UserStep
  \/ SessionManagerCrash \/ BackendCrash

\* Both processes run what they have started; users and faults owe nothing.
InboundSpec ==
  /\ InboundInit /\ [][InboundNext]_inboundVars
  /\ WF_inboundVars(ProcessStep)
  /\ \A h \in Handlers : WF_inboundVars(HandlerStep(h))
-----------------------------------------------------------------------------
(* Properties. *)

\* Every variable keeps its type.
InboundTypeOK ==
  /\ ContactsTypeOK
  /\ dedup \subseteq Messages /\ finished \subseteq Messages /\ lost \subseteq Messages
  /\ handler \in [Handlers -> [pc : {"idle", "dedup", "add"}, batch : Seq(Messages)]]
  /\ \A h \in Handlers : handler[h].pc # "idle" => handler[h].batch # << >>
  /\ queue \in Seq(Job)
  /\ worker \in [pc : {"idle", "find", "insert", "log", "optOut", "optIn", "audit", "match",
                       "reply"}, job : Seq(Job), copy : Row]
  /\ worker.pc # "idle" => worker.job # << >>
  /\ rules \subseteq Rules
  /\ logged \in [Messages -> Nat] /\ replied \in [Messages -> Nat]
  /\ deliveries \in 0..MaxDeliveries /\ crashes \in 0..MaxCrashes

\* A message that is delivered again, in whatever order the calls of the handler
\* run, is logged and answered once; once more for each crash at most. It is
\* never answered oftener than it was logged: no answer precedes its message.
HandledOnce ==
  \A m \in Messages :
    logged[m] <= 1 + crashes /\ replied[m] <= 1 + crashes /\ replied[m] <= logged[m]

\* A message whose key is set is worked to the end, or is known to be lost: its
\* add or its one attempt failed, or a crash came between the key and the add.
InboundSettles == \A m \in Messages : m \in dedup ~> m \in finished \cup lost

=============================================================================
