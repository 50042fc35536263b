--------------------------- MODULE InboundProofs ----------------------------
(***************************************************************************)
(* Proofs about Inbound, composed with Contacts: what is proved of the     *)
(* contacts holds beside the worker, and a message delivered again is      *)
(* logged and answered once, for any numbers of messages, rules,           *)
(* deliveries, stalls and crashes.                                         *)
(***************************************************************************)
EXTENDS Inbound, ContactsProofs, SequenceTheorems

-----------------------------------------------------------------------------
(* Messages. *)

Adding(h, m)  == handler[h].pc = "add" /\ Head(handler[h].batch) = m
WaitsAt(i, m) == i \in 1..Len(queue) /\ queue[i].msg = m
WorkedOn(m)   == worker.pc # "idle" /\ Msg = m

InHand(m) ==
  \/ \E h \in Handlers : Adding(h, m)
  \/ \E i \in 1..Len(queue) : WaitsAt(i, m)
  \/ WorkedOn(m)

\* A message is in one place at most: with one handler, at one position of the
\* queue, or with the worker.
OnePlace(m) ==
  /\ \A g, h \in Handlers : Adding(g, m) /\ Adding(h, m) => g = h
  /\ \A i, j \in 1..Len(queue) : WaitsAt(i, m) /\ WaitsAt(j, m) => i = j
  /\ \A h \in Handlers, i \in 1..Len(queue) : ~(Adding(h, m) /\ WaitsAt(i, m))
  /\ \A h \in Handlers : ~(Adding(h, m) /\ WorkedOn(m))
  /\ \A i \in 1..Len(queue) : ~(WaitsAt(i, m) /\ WorkedOn(m))

\* The messages that may yet be answered, and those that may yet be logged: to
\* begin with all of them.
ToReply(m) == m \notin dedup \/ InHand(m)
Late       == {"optOut", "optIn", "audit", "match", "reply"}
ToLog(m)   == ToReply(m) /\ ~(WorkedOn(m) /\ worker.pc \in Late)

\* An answer follows a log that has no answer yet.
Answered(m) ==
  /\ replied[m] <= logged[m]
  /\ WorkedOn(m) /\ worker.pc \in Late => replied[m] < logged[m]

\* Its key is set before it is in hand, and only a crash gives back the right to
\* log or to answer it.
Handled(m) ==
  /\ OnePlace(m)
  /\ InHand(m) => m \in dedup
  /\ logged[m] <= 1 + crashes /\ (ToLog(m) => logged[m] <= crashes)
  /\ replied[m] <= 1 + crashes /\ (ToReply(m) => replied[m] <= crashes)
  /\ Answered(m)

HandlingInvariant == \A m \in Messages : Handled(m)

\* A message whose key is set is in somebody's hand, done, or known to be lost.
NoneForgotten == \A m \in dedup : InHand(m) \/ m \in finished \cup lost
-----------------------------------------------------------------------------
(* What the steps may do to the places of one message. *)

\* Nothing takes the message in hand, or takes it back to before its log.
LEMMA Kept ==
  ASSUME InboundTypeOK, NEW m \in Messages, Handled(m),
         UNCHANGED << queue, dedup >>, crashes' \in Nat, crashes <= crashes',
         \A h \in Handlers : Adding(h, m)' => Adding(h, m),
         WorkedOn(m)' => WorkedOn(m) /\ (worker.pc \in Late => worker'.pc \in Late),
         \/ logged'[m] = logged[m] /\ (WorkedOn(m)' /\ worker'.pc \in Late => worker.pc \in Late)
         \/ /\ logged'[m] = logged[m] + 1 /\ WorkedOn(m) /\ worker.pc \notin Late
            /\ WorkedOn(m)' => worker'.pc \in Late,
         \/ replied'[m] = replied[m]
         \/ /\ replied'[m] = replied[m] + 1 /\ WorkedOn(m) /\ ~WorkedOn(m)'
            /\ worker.pc \in Late
  PROVE  Handled(m)'
<1>1. /\ logged[m] \in Nat /\ replied[m] \in Nat /\ crashes \in Nat
  BY DEF InboundTypeOK
<1>2. Len(queue') = Len(queue) /\ \A i \in 1..Len(queue) : WaitsAt(i, m)' <=> WaitsAt(i, m)
  BY DEF WaitsAt
<1>3. OnePlace(m) /\ (InHand(m) => m \in dedup)
  BY DEF Handled
<1>4. OnePlace(m)'
  BY <1>2, <1>3 DEF OnePlace
<1>5. InHand(m)' => InHand(m)
  BY <1>2 DEF InHand
<1>6. ToReply(m)' => ToReply(m)
  BY <1>5 DEF ToReply
<1>7. ToLog(m)' => ToLog(m)
  <2>1. CASE WorkedOn(m)
    <3>1. ~InHand(m)' \/ WorkedOn(m)'
      BY <1>2, <1>3, <2>1 DEF InHand, OnePlace
    <3>2. m \in dedup'
      BY <1>3, <2>1 DEF InHand
    <3> QED BY <1>6, <2>1, <3>1, <3>2 DEF ToLog, ToReply
  <2>2. CASE ~WorkedOn(m)
    BY <1>6, <2>2 DEF ToLog
  <2> QED BY <2>1, <2>2
<1>8. logged'[m] <= 1 + crashes' /\ (ToLog(m)' => logged'[m] <= crashes')
  <2>1. CASE logged'[m] = logged[m]
    BY <1>1, <1>7, <2>1 DEF Handled
  <2>2. CASE /\ logged'[m] = logged[m] + 1 /\ WorkedOn(m) /\ worker.pc \notin Late
             /\ WorkedOn(m)' => worker'.pc \in Late
    <3>1. ToLog(m)
      BY <2>2 DEF ToLog, ToReply, InHand
    <3>2. ~ToLog(m)'
      <4>1. ~InHand(m)' \/ WorkedOn(m)'
        BY <1>2, <1>3, <2>2 DEF InHand, OnePlace
      <4>2. m \in dedup'
        BY <1>3, <2>2 DEF InHand
      <4> QED BY <2>2, <4>1, <4>2 DEF ToLog, ToReply
    <3> QED BY <1>1, <2>2, <3>1, <3>2 DEF Handled
  <2> QED BY <2>1, <2>2
<1>9. replied'[m] <= 1 + crashes' /\ (ToReply(m)' => replied'[m] <= crashes')
  <2>1. CASE replied'[m] = replied[m]
    BY <1>1, <1>6, <2>1 DEF Handled
  <2>2. CASE replied'[m] = replied[m] + 1 /\ WorkedOn(m) /\ ~WorkedOn(m)'
    <3>1. ToReply(m)
      BY <2>2 DEF ToReply, InHand
    <3>2. ~ToReply(m)'
      BY <1>2, <1>3, <2>2 DEF ToReply, InHand, OnePlace
    <3> QED BY <1>1, <2>2, <3>1, <3>2 DEF Handled
  <2> QED BY <2>1, <2>2
<1>10. Answered(m)'
  <2>1. Answered(m)
    BY DEF Handled
  <2>2. CASE /\ replied'[m] = replied[m] + 1 /\ WorkedOn(m) /\ ~WorkedOn(m)'
             /\ worker.pc \in Late
    BY <1>1, <2>1, <2>2 DEF Answered
  <2>3. CASE replied'[m] = replied[m]
    BY <1>1, <2>1, <2>3 DEF Answered
  <2> QED BY <2>2, <2>3
<1> QED BY <1>3, <1>4, <1>5, <1>8, <1>9, <1>10 DEF Handled

\* Moving from one place to another, it stays at one; the log is not taken back
\* but for a crash.
LEMMA Relocated ==
  ASSUME InboundTypeOK, NEW m \in Messages, Handled(m), OnePlace(m)',
         dedup \subseteq dedup', InHand(m)' => m \in dedup',
         InHand(m)' => InHand(m) \/ m \notin dedup,
         crashes' \in Nat, logged'[m] = logged[m], replied'[m] = replied[m],
         \/ crashes' = crashes /\ (WorkedOn(m) => WorkedOn(m)' /\ UNCHANGED worker)
         \/ crashes' = crashes + 1,
         WorkedOn(m)' /\ worker'.pc \in Late => WorkedOn(m) /\ UNCHANGED worker
  PROVE  Handled(m)'
<1>1. /\ logged[m] \in Nat /\ replied[m] \in Nat /\ crashes \in Nat
  BY DEF InboundTypeOK
<1>2. ToReply(m)' => ToReply(m)
  BY DEF ToReply
<1>3. crashes' = crashes => (ToLog(m)' => ToLog(m))
  BY <1>1, <1>2 DEF ToLog
<1>4. Answered(m)'
  BY DEF Handled, Answered
<1> QED BY <1>1, <1>2, <1>3, <1>4 DEF Handled

-----------------------------------------------------------------------------
(* Types of the handlers, the queue and the worker. *)

HandlersOK ==
  /\ handler \in [Handlers -> [pc : {"idle", "dedup", "add"}, batch : Seq(Messages)]]
  /\ \A h \in Handlers : handler[h].pc # "idle" => handler[h].batch # << >>

WorkerOK ==
  /\ worker \in [pc : {"idle", "find", "insert", "log", "optOut", "optIn", "audit", "match",
                       "reply"}, job : Seq(Job), copy : Row]
  /\ worker.pc # "idle" => worker.job # << >>

RestOK ==
  /\ dedup \subseteq Messages /\ finished \subseteq Messages /\ lost \subseteq Messages
  /\ queue \in Seq(Job)
  /\ rules \subseteq Rules
  /\ logged \in [Messages -> Nat] /\ replied \in [Messages -> Nat]
  /\ deliveries \in 0..MaxDeliveries /\ crashes \in 0..MaxCrashes

LEMMA InboundParts == InboundTypeOK <=> ContactsTypeOK /\ HandlersOK /\ WorkerOK /\ RestOK
  BY DEF InboundTypeOK, HandlersOK, WorkerOK, RestOK

LEMMA Sequences1 ==
  ASSUME NEW S, NEW s \in Seq(S), s # << >>
  PROVE  Head(s) \in S /\ Tail(s) \in Seq(S)
  BY HeadTailProperties

\* The head of a batch is a message.
LEMMA Heads ==
  ASSUME HandlersOK, NEW h \in Handlers, handler[h].pc # "idle"
  PROVE  Head(handler[h].batch) \in Messages /\ Tail(handler[h].batch) \in Seq(Messages)
  BY Sequences1 DEF HandlersOK

\* The worker's message, and the phone that sent it.
LEMMA Working ==
  ASSUME WorkerOK, worker.pc # "idle"
  PROVE  /\ Head(worker.job) \in Job /\ Msg \in Messages /\ From \in Phones
         /\ worker.job \in Seq(Job) /\ worker.copy \in Row
<1>1. worker.job \in Seq(Job) /\ worker.copy \in Row /\ worker.job # << >>
  BY DEF WorkerOK
<1>2. Head(worker.job) \in Job
  BY <1>1, Sequences1
<1> QED BY <1>1, <1>2, SenderAssumption DEF Job, Msg, From

LEMMA WorkerAt ==
  ASSUME NEW pc \in {"find", "insert", "log", "optOut", "optIn", "audit", "match", "reply"},
         NEW job \in Seq(Job), job # << >>, NEW row \in Row, worker' = At(pc, job, row)
  PROVE  WorkerOK'
  BY DEF WorkerOK, At

LEMMA WorkerRests ==
  ASSUME worker' = NoWork
  PROVE  WorkerOK' /\ \A m : ~WorkedOn(m)'
  BY EmptySeq DEF WorkerOK, NoWork, At, Absent, Row, WorkedOn

LEMMA HandlerMoves ==
  ASSUME HandlersOK, NEW h \in Handlers, NEW r,
         r \in [pc : {"idle", "dedup", "add"}, batch : Seq(Messages)],
         r.pc # "idle" => r.batch # << >>,
         handler' = [handler EXCEPT ![h] = r]
  PROVE  /\ HandlersOK'
         /\ \A g \in Handlers \ {h} : \A m : Adding(g, m)' <=> Adding(g, m)
         /\ \A m : Adding(h, m)' <=> r.pc = "add" /\ Head(r.batch) = m
  BY DEF HandlersOK, Adding

\* After a message comes the next of its batch, whose key is not yet asked for.
LEMMA NextMessages ==
  ASSUME HandlersOK, NEW h \in Handlers, handler[h].pc # "idle", NextMessage(h)
  PROVE  /\ HandlersOK'
         /\ \A g \in Handlers \ {h} : \A m : Adding(g, m)' <=> Adding(g, m)
         /\ \A m : ~Adding(h, m)'
<1>1. Tail(handler[h].batch) \in Seq(Messages)
  BY Heads
<1>2. CASE Tail(handler[h].batch) = << >>
  <2>1. handler' = [handler EXCEPT ![h] = NoHandler]
    BY <1>2 DEF NextMessage
  <2>2. NoHandler \in [pc : {"idle", "dedup", "add"}, batch : Seq(Messages)]
        /\ NoHandler.pc = "idle"
    BY EmptySeq DEF NoHandler
  <2> QED BY <2>1, <2>2, HandlerMoves
<1>3. CASE Tail(handler[h].batch) # << >>
  <2> DEFINE r == [pc |-> "dedup", batch |-> Tail(handler[h].batch)]
  <2>1. handler' = [handler EXCEPT ![h] = r]
    BY <1>3 DEF NextMessage
  <2>2. r \in [pc : {"idle", "dedup", "add"}, batch : Seq(Messages)]
        /\ r.pc = "dedup" /\ r.batch # << >>
    BY <1>1, <1>3
  <2> HIDE DEF r
  <2> QED BY <2>1, <2>2, HandlerMoves
<1> QED BY <1>2, <1>3

LEMMA BatchesDropped ==
  ASSUME HandlersOK, NEW hs \in SUBSET Handlers, DropBatch(hs), lost \subseteq Messages
  PROVE  HandlersOK' /\ lost' \subseteq Messages
         /\ \A g \in Handlers : \A m : Adding(g, m)' => Adding(g, m)
<1>1. NoHandler \in [pc : {"idle", "dedup", "add"}, batch : Seq(Messages)]
      /\ NoHandler.pc = "idle"
  BY EmptySeq DEF NoHandler
<1>2. HandlersOK'
  BY <1>1 DEF HandlersOK, DropBatch
<1>3. \A g \in Handlers : \A m : Adding(g, m)' => Adding(g, m)
  BY <1>1 DEF Adding, DropBatch
<1>4. \A h \in Handlers : handler[h].pc = "add" => Head(handler[h].batch) \in Messages
  BY Heads
<1> QED BY <1>2, <1>3, <1>4 DEF DropBatch

-----------------------------------------------------------------------------
(* The steps of the session manager. *)

LEMMA WorkerStill ==
  ASSUME WorkerOK, UNCHANGED worker
  PROVE  WorkerOK' /\ \A m : WorkedOn(m)' <=> WorkedOn(m)
  BY DEF WorkerOK, WorkedOn, Msg

LEMMA Upserted ==
  ASSUME InboundTypeOK, HandlingInvariant, NEW h \in Handlers, Upsert(h)
  PROVE  HandlersOK' /\ WorkerOK' /\ RestOK' /\ HandlingInvariant'
<1>1. HandlersOK /\ WorkerOK /\ RestOK
  BY InboundParts
<1>2. /\ UNCHANGED << dedup, queue, worker, rules, logged, replied, finished, lost, crashes >>
      /\ deliveries' \in 0..MaxDeliveries
  BY <1>1, InboundBounds DEF Upsert, resultVars, RestOK
<1>3. PICK r : /\ r \in [pc : {"idle", "dedup", "add"}, batch : Seq(Messages)]
               /\ r.pc = "dedup" /\ r.batch # << >>
               /\ handler' = [handler EXCEPT ![h] = r]
  <2>1. PICK m, n \in Messages : handler' = [handler EXCEPT ![h] =
           [pc |-> "dedup", batch |-> IF m = n THEN <<m>> ELSE <<m, n>>]]
    BY DEF Upsert
  <2>2. PICK b : b = IF m = n THEN <<m>> ELSE <<m, n>>
    OBVIOUS
  <2>3. b \in Seq(Messages) /\ b # << >>
    BY <2>2
  <2> QED BY <2>1, <2>2, <2>3
<1>4. HandlersOK' /\ \A g \in Handlers : \A m : Adding(g, m)' => Adding(g, m)
  BY <1>1, <1>3, HandlerMoves
<1>5. WorkerOK' /\ \A m : WorkedOn(m)' <=> WorkedOn(m)
  BY <1>1, <1>2, WorkerStill
<1>6. ASSUME NEW m \in Messages
      PROVE  Handled(m)'
  <2>1. Handled(m) /\ crashes' \in Nat /\ crashes <= crashes'
    BY <1>1, <1>2, InboundBounds DEF HandlingInvariant, RestOK
  <2> QED BY <1>2, <1>4, <1>5, <2>1, Kept
<1> QED BY <1>1, <1>2, <1>4, <1>5, <1>6 DEF RestOK, HandlingInvariant

LEMMA KeysSet ==
  ASSUME InboundTypeOK, HandlingInvariant, NEW h \in Handlers, SetDedupKey(h)
  PROVE  HandlersOK' /\ WorkerOK' /\ RestOK' /\ HandlingInvariant'
<1>1. HandlersOK /\ WorkerOK /\ RestOK /\ handler[h].pc = "dedup"
  BY InboundParts DEF SetDedupKey
<1>2. PICK k \in Messages : k = Head(handler[h].batch)
  BY <1>1, Heads
<1>3. /\ UNCHANGED << queue, worker, rules, logged, replied, finished, lost, deliveries, crashes >>
      /\ dedup' = dedup \cup {k}
  BY <1>2 DEF SetDedupKey, resultVars
<1>4. RestOK'
  BY <1>1, <1>3 DEF RestOK
<1>5. WorkerOK' /\ \A m : WorkedOn(m)' <=> WorkedOn(m)
  BY <1>1, <1>3, WorkerStill
<1>6. crashes' \in Nat /\ crashes <= crashes' /\ crashes' = crashes
  BY <1>1, <1>3, InboundBounds DEF RestOK
<1>7. \A m : ~Adding(h, m)
  BY <1>1 DEF Adding
<1>8. CASE k \in dedup
  <2>1. NextMessage(h)
    BY <1>2, <1>8 DEF SetDedupKey
  <2>2. HandlersOK' /\ \A g \in Handlers : \A m : Adding(g, m)' => Adding(g, m)
    BY <1>1, <2>1, NextMessages
  <2>3. ASSUME NEW m \in Messages
        PROVE  Handled(m)'
    <3>1. Handled(m) /\ dedup' = dedup
      BY <1>3, <1>8 DEF HandlingInvariant
    <3> QED BY <1>3, <1>5, <1>6, <2>2, <3>1, Kept
  <2> QED BY <1>4, <1>5, <2>2, <2>3 DEF HandlingInvariant
<1>9. CASE k \notin dedup
  <2>1. PICK r : r = [pc |-> "add", batch |-> handler[h].batch]
    OBVIOUS
  <2>2. handler' = [handler EXCEPT ![h] = r]
    BY <1>2, <1>9, <2>1 DEF SetDedupKey, KeySet
  <2>3. /\ r \in [pc : {"idle", "dedup", "add"}, batch : Seq(Messages)] /\ r.batch # << >>
        /\ r.pc = "add" /\ Head(r.batch) = k
    BY <1>1, <1>2, <2>1 DEF HandlersOK
  <2>4. /\ HandlersOK'
        /\ \A g \in Handlers \ {h} : \A m : Adding(g, m)' <=> Adding(g, m)
        /\ \A m : Adding(h, m)' <=> m = k
    <3>1. /\ HandlersOK'
          /\ \A g \in Handlers \ {h} : \A m : Adding(g, m)' <=> Adding(g, m)
          /\ \A m : Adding(h, m)' <=> r.pc = "add" /\ Head(r.batch) = m
      BY <1>1, <2>2, <2>3, HandlerMoves
    <3> QED BY <2>3, <3>1
  <2>5. ASSUME NEW m \in Messages
        PROVE  Handled(m)'
    <3>1. Handled(m)
      BY DEF HandlingInvariant
    <3>2. Len(queue') = Len(queue) /\ \A i \in 1..Len(queue) : WaitsAt(i, m)' <=> WaitsAt(i, m)
      BY <1>3 DEF WaitsAt
    \* The message whose key is set now was in nobody's hand.
    <3>3. m = k => ~InHand(m)
      BY <1>9, <3>1 DEF Handled
    <3>4. OnePlace(m)' /\ (InHand(m)' => InHand(m) \/ m = k)
      <4>1. CASE m = k
        BY <1>5, <2>4, <3>1, <3>2, <3>3, <4>1 DEF OnePlace, InHand, Handled
      <4>2. CASE m # k
        BY <1>5, <2>4, <3>1, <3>2, <4>2 DEF OnePlace, InHand, Handled
      <4> QED BY <4>1, <4>2
    <3>5. InHand(m)' => m \in dedup'
      BY <1>3, <3>1, <3>4 DEF Handled
    <3> QED BY <1>3, <1>5, <1>6, <1>9, <3>1, <3>4, <3>5, Relocated
  <2> QED BY <1>4, <1>5, <2>4, <2>5 DEF HandlingInvariant
<1> QED BY <1>8, <1>9

LEMMA Appending ==
  ASSUME NEW S, NEW s \in Seq(S), NEW x \in S
  PROVE  /\ Append(s, x) \in Seq(S) /\ Len(Append(s, x)) = Len(s) + 1
         /\ \A i \in 1..Len(s) : Append(s, x)[i] = s[i]
         /\ Append(s, x)[Len(s) + 1] = x
  BY AppendProperties

LEMMA InboundAdded ==
  ASSUME InboundTypeOK, HandlingInvariant, NEW h \in Handlers, AddInbound(h)
  PROVE  HandlersOK' /\ WorkerOK' /\ RestOK' /\ HandlingInvariant'
<1>1. HandlersOK /\ WorkerOK /\ RestOK /\ handler[h].pc = "add"
  BY InboundParts DEF AddInbound
<1>2. PICK k \in Messages : k = Head(handler[h].batch)
  BY <1>1, Heads
<1>3. UNCHANGED << dedup, worker, rules, logged, replied, finished, lost, deliveries, crashes >>
  BY DEF AddInbound, resultVars
<1>4. PICK job \in Job : job.msg = k /\ queue' = Append(queue, job)
  <2>1. [msg |-> k, stalls |-> 0] \in Job /\ [msg |-> k, stalls |-> 0].msg = k
    BY InboundBounds DEF Job
  <2> QED BY <1>2, <2>1 DEF AddInbound
<1>5. PICK n \in Nat : n = Len(queue)
  BY <1>1, LenProperties DEF RestOK
<1>6. /\ queue' \in Seq(Job) /\ Len(queue') = n + 1
      /\ \A i \in 1..n : queue'[i] = queue[i]
      /\ queue'[n + 1] = job
  BY <1>1, <1>4, <1>5, Appending DEF RestOK
<1>7. WorkerOK' /\ \A m : WorkedOn(m)' <=> WorkedOn(m)
  BY <1>1, <1>3, WorkerStill
<1>8. /\ HandlersOK'
      /\ \A g \in Handlers \ {h} : \A m : Adding(g, m)' <=> Adding(g, m)
      /\ \A m : ~Adding(h, m)'
  BY <1>1, NextMessages DEF AddInbound
<1>9. RestOK'
  BY <1>1, <1>3, <1>6 DEF RestOK
<1>10. ASSUME NEW m \in Messages
       PROVE  Handled(m)'
  <2>1. Handled(m) /\ (m = k => Adding(h, m)) /\ (m # k => ~Adding(h, m))
    BY <1>1, <1>2 DEF HandlingInvariant, Adding
  <2>2. /\ \A i \in 1..Len(queue) : WaitsAt(i, m)' <=> WaitsAt(i, m)
        /\ WaitsAt(n + 1, m)' <=> m = k
        /\ 1..Len(queue') = 1..Len(queue) \cup {n + 1} /\ n + 1 \notin 1..Len(queue)
    BY <1>4, <1>5, <1>6 DEF WaitsAt
  <2>3. OnePlace(m)' /\ (InHand(m)' => InHand(m)) /\ (InHand(m) => m \in dedup)
    <3>1. CASE m = k
      BY <1>7, <1>8, <2>1, <2>2, <3>1 DEF OnePlace, InHand, Handled
    <3>2. CASE m # k
      BY <1>7, <1>8, <2>1, <2>2, <3>2 DEF OnePlace, InHand, Handled
    <3> QED BY <3>1, <3>2
  <2>4. crashes' \in Nat /\ crashes' = crashes
    BY <1>1, <1>3, InboundBounds DEF RestOK
  <2> QED BY <1>3, <1>7, <2>1, <2>3, <2>4, Relocated
<1> QED BY <1>7, <1>8, <1>9, <1>10 DEF HandlingInvariant

LEMMA HandlersStopped ==
  ASSUME InboundTypeOK, HandlingInvariant,
         SessionManagerCrash \/ \E h \in Handlers : HandlerFails(h)
  PROVE  HandlersOK' /\ WorkerOK' /\ RestOK' /\ HandlingInvariant'
<1>1. HandlersOK /\ WorkerOK /\ RestOK
  BY InboundParts
<1>2. PICK hs \in SUBSET Handlers : DropBatch(hs)
  BY DEF SessionManagerCrash, HandlerFails
<1>3. /\ UNCHANGED << dedup, queue, worker, rules, logged, replied, finished, deliveries >>
      /\ \/ crashes' = crashes
         \/ crashes < MaxCrashes /\ crashes' = crashes + 1
  <2>1. CASE SessionManagerCrash
    BY <2>1 DEF SessionManagerCrash
  <2>2. ASSUME NEW h \in Handlers, HandlerFails(h)
        PROVE  UNCHANGED << dedup, queue, worker, rules, logged, replied, finished, deliveries,
                            crashes >>
    BY <2>2 DEF HandlerFails
  <2> QED BY <2>1, <2>2
<1>4. HandlersOK' /\ lost' \subseteq Messages
      /\ \A g \in Handlers : \A m : Adding(g, m)' => Adding(g, m)
  BY <1>1, <1>2, BatchesDropped DEF RestOK
<1>5. crashes' \in 0..MaxCrashes /\ crashes' \in Nat /\ crashes <= crashes'
  BY <1>1, <1>3, InboundBounds DEF RestOK
<1>6. RestOK'
  BY <1>1, <1>3, <1>4, <1>5 DEF RestOK
<1>7. WorkerOK' /\ \A m : WorkedOn(m)' <=> WorkedOn(m)
  BY <1>1, <1>3, WorkerStill
<1>8. ASSUME NEW m \in Messages
      PROVE  Handled(m)'
  <2>1. Handled(m)
    BY DEF HandlingInvariant
  <2> QED BY <1>3, <1>4, <1>5, <1>7, <2>1, Kept
<1> QED BY <1>4, <1>6, <1>7, <1>8 DEF HandlingInvariant

-----------------------------------------------------------------------------
(* The steps of the worker. *)

LEMMA MessageTaken ==
  ASSUME InboundTypeOK, HandlingInvariant, TakeMessage
  PROVE  HandlersOK' /\ WorkerOK' /\ RestOK' /\ HandlingInvariant'
<1>1. HandlersOK /\ WorkerOK /\ RestOK /\ worker.pc = "idle" /\ queue # << >>
  BY InboundParts DEF TakeMessage
<1>2. UNCHANGED << dedup, handler, rules, logged, replied, finished, lost, deliveries, crashes >>
  BY DEF TakeMessage, resultVars
<1>3. PICK n \in Nat : n + 1 = Len(queue)
  BY <1>1, LenProperties, EmptySeq DEF RestOK
<1>4. /\ queue' \in Seq(Job) /\ Len(queue') = n /\ \A i \in 1..n : queue'[i] = queue[i + 1]
      /\ Head(queue) \in Job /\ Head(queue) = queue[1]
  BY <1>1, <1>3, HeadTailProperties DEF RestOK, TakeMessage
<1>5. PICK job \in Job : job = Head(queue)
  BY <1>4
<1>6. worker' = At("find", <<job>>, Absent) /\ Absent \in Row
  BY <1>5 DEF TakeMessage, Absent, Row
<1>7. WorkerOK'
  <2>1. <<job>> \in Seq(Job) /\ <<job>> # << >>
    OBVIOUS
  <2> QED BY <1>6, <2>1, WorkerAt
<1>8. \A m : ~WorkedOn(m) /\ (WorkedOn(m)' <=> job.msg = m)
  <2>1. Head(<<job>>) = job
    OBVIOUS
  <2> QED BY <1>1, <1>6, <2>1 DEF WorkedOn, Msg, At
<1>9. HandlersOK' /\ \A h \in Handlers : \A m : Adding(h, m)' <=> Adding(h, m)
  BY <1>1, <1>2 DEF HandlersOK, Adding
<1>10. RestOK'
  BY <1>1, <1>2, <1>4 DEF RestOK
<1>11. ASSUME NEW m \in Messages
       PROVE  Handled(m)'
  <2>1. Handled(m)
    BY DEF HandlingInvariant
  <2>2. /\ \A i \in 1..n : WaitsAt(i, m)' <=> WaitsAt(i + 1, m)
        /\ \A i \in 1..n : i + 1 \in 1..Len(queue) /\ i + 1 # 1
        /\ 1 \in 1..Len(queue) /\ (WaitsAt(1, m) <=> job.msg = m)
        /\ 1..Len(queue') = 1..n
    BY <1>3, <1>4, <1>5 DEF WaitsAt
  <2>3. \A i, j \in 1..n : i + 1 = j + 1 => i = j
    OBVIOUS
  <2>4. OnePlace(m)' /\ (InHand(m)' => InHand(m))
    <3> DEFINE W(i) == WaitsAt(i, m)
               N(i) == WaitsAt(i, m)'
    <3> HIDE DEF W, N
    <3>1. OnePlace(m) /\ ~WorkedOn(m)
      BY <1>8, <2>1 DEF Handled
    <3>2. \A i \in 1..n : N(i) => W(i + 1) /\ i + 1 \in 1..Len(queue) /\ i + 1 # 1
      BY <2>2 DEF N, W
    <3>3. WorkedOn(m)' => W(1) /\ 1 \in 1..Len(queue)
      BY <1>8, <2>2 DEF W
    <3>4. /\ \A i, j \in 1..Len(queue) : W(i) /\ W(j) => i = j
          /\ \A h \in Handlers, i \in 1..Len(queue) : ~(Adding(h, m) /\ W(i))
          /\ \A g, h \in Handlers : Adding(g, m) /\ Adding(h, m) => g = h
      BY <3>1 DEF OnePlace, W
    <3>5. \A i, j \in 1..n : N(i) /\ N(j) => i = j
      BY <2>3, <3>2, <3>4
    <3>6. \A i \in 1..n : ~(N(i) /\ WorkedOn(m)')
      BY <3>2, <3>3, <3>4
    <3>7. /\ \A h \in Handlers, i \in 1..n : ~(Adding(h, m)' /\ N(i))
          /\ \A h \in Handlers : ~(Adding(h, m)' /\ WorkedOn(m)')
          /\ \A g, h \in Handlers : Adding(g, m)' /\ Adding(h, m)' => g = h
      BY <1>9, <3>2, <3>3, <3>4
    <3>8. OnePlace(m)'
      BY <2>2, <3>5, <3>6, <3>7 DEF OnePlace, N
    <3>9. InHand(m)' => InHand(m)
      BY <1>9, <2>2, <3>2, <3>3 DEF InHand, N, W
    <3> QED BY <3>8, <3>9
  <2>5. InHand(m)' => m \in dedup'
    BY <1>2, <2>1, <2>4 DEF Handled
  <2>6. crashes' \in Nat /\ crashes' = crashes
    BY <1>1, <1>2, InboundBounds DEF RestOK
  <2>7. worker'.pc \notin Late
    BY <1>6 DEF At, Late
  <2> QED BY <1>2, <1>8, <2>1, <2>4, <2>5, <2>6, <2>7, Relocated
<1> QED BY <1>7, <1>9, <1>10, <1>11 DEF HandlingInvariant

\* Whatever the worker does, the message stays with it until it is done, and its log
\* comes before the rest.
LEMMA WorkerHolds ==
  ASSUME InboundTypeOK, HandlingInvariant, UnchangedButWorker, worker.pc # "idle",
         finished' \subseteq Messages, lost' \subseteq Messages,
         \/ worker' = NoWork
         \/ \E pc \in {"find", "insert", "log"} \cup Late, row \in Row :
              /\ worker' = At(pc, worker.job, row)
              /\ worker.pc \in Late => pc \in Late,
         \/ /\ UNCHANGED logged
            /\ worker' = NoWork \/ worker.pc \in Late \/ worker'.pc \notin Late
         \/ /\ logged' = [logged EXCEPT ![Msg] = logged[Msg] + 1]
            /\ worker.pc = "log" /\ worker'.pc \in Late,
         \/ UNCHANGED replied
         \/ /\ replied' = [replied EXCEPT ![Msg] = replied[Msg] + 1]
            /\ worker.pc \in Late /\ worker' = NoWork
  PROVE  HandlersOK' /\ WorkerOK' /\ RestOK' /\ HandlingInvariant'
<1>1. HandlersOK /\ WorkerOK /\ RestOK
  BY InboundParts
<1>2. UNCHANGED << dedup, handler, queue, rules, deliveries, crashes >>
  BY DEF UnchangedButWorker
<1>3. Msg \in Messages /\ worker.job \in Seq(Job) /\ worker.job # << >>
  BY <1>1, Working DEF WorkerOK
<1>4. WorkerOK'
  <2>1. CASE worker' = NoWork
    BY <2>1, WorkerRests
  <2>2. ASSUME NEW pc \in {"find", "insert", "log"} \cup Late, NEW row \in Row,
               worker' = At(pc, worker.job, row)
        PROVE  WorkerOK'
    BY <1>3, <2>2, WorkerAt DEF Late
  <2> QED BY <2>1, <2>2
<1>5. \A m : WorkedOn(m)' => WorkedOn(m) /\ (worker.pc \in Late => worker'.pc \in Late)
  BY WorkerRests DEF WorkedOn, Msg, At
<1>6. HandlersOK' /\ \A h \in Handlers : \A m : Adding(h, m)' => Adding(h, m)
  BY <1>1, <1>2 DEF HandlersOK, Adding
<1>10. worker' = NoWork => worker'.pc \notin Late
  BY DEF NoWork, At, Late
<1>7. logged' \in [Messages -> Nat] /\ replied' \in [Messages -> Nat]
  <2>1. logged[Msg] + 1 \in Nat /\ replied[Msg] + 1 \in Nat
    BY <1>1, <1>3 DEF RestOK
  <2> QED BY <1>1, <2>1 DEF RestOK
<1>8. RestOK'
  BY <1>1, <1>2, <1>7 DEF RestOK
<1>9. ASSUME NEW m \in Messages
      PROVE  Handled(m)'
  <2>1. Handled(m) /\ crashes' \in Nat /\ crashes <= crashes'
    BY <1>1, <1>2, InboundBounds DEF HandlingInvariant, RestOK
  <2>2. \/ logged'[m] = logged[m] /\ (WorkedOn(m)' /\ worker'.pc \in Late => worker.pc \in Late)
        \/ /\ logged'[m] = logged[m] + 1 /\ WorkedOn(m) /\ worker.pc \notin Late
           /\ WorkedOn(m)' => worker'.pc \in Late
    <3>1. CASE UNCHANGED logged /\ (worker' = NoWork \/ worker.pc \in Late \/ worker'.pc \notin Late)
      BY <1>10, <3>1
    <3>2. CASE /\ logged' = [logged EXCEPT ![Msg] = logged[Msg] + 1]
               /\ worker.pc = "log" /\ worker'.pc \in Late
      <4>1. worker.pc \notin Late
        BY <3>2 DEF Late
      <4>2. CASE m = Msg
        BY <1>1, <3>2, <4>1, <4>2 DEF RestOK, WorkedOn
      <4>3. CASE m # Msg
        <5>1. ~WorkedOn(m)'
          BY <1>5, <4>3 DEF WorkedOn
        <5> QED BY <1>1, <3>2, <4>3, <5>1 DEF RestOK
      <4> QED BY <4>2, <4>3
    <3> QED BY <3>1, <3>2
  <2>3. \/ replied'[m] = replied[m]
        \/ /\ replied'[m] = replied[m] + 1 /\ WorkedOn(m) /\ ~WorkedOn(m)'
           /\ worker.pc \in Late
    BY <1>1, WorkerRests DEF RestOK, WorkedOn
  <2> QED BY <1>2, <1>5, <1>6, <2>1, <2>2, <2>3, Kept
<1> QED BY <1>4, <1>6, <1>8, <1>9 DEF HandlingInvariant

\* What the worker writes of the contacts.
LEMMA WorkerWrites ==
  ASSUME InboundTypeOK, ContactsInvariant, worker.pc # "idle",
         UNCHANGED << group, request, requests, grouped, groupRaced >>,
         \/ UNCHANGED << contact, asked, raced >>
         \/ Insert(From) /\ UNCHANGED raced
         \/ \E asks \in {{TRUE}, {FALSE}} : SaveCopy(From, Copy, asks)
  PROVE  ContactsInvariant'
<1>1. RowsOK /\ RequestsOK /\ requests \in 0..MaxRequests /\ RowAsAsked /\ MembersAsAsked
  BY TypeParts DEF ContactsInvariant
<1>2. PICK p \in Phones : p = From
  BY Working, InboundParts
<1>3. PICK copy \in Row : copy = Copy
  BY Working, InboundParts DEF Copy
<1>4. RequestsOK' /\ (requests \in 0..MaxRequests)' /\ MembersAsAsked'
  BY <1>1 DEF RequestsOK, RequestOK, MembersAsAsked
<1>5. RowAsAsked' /\ contact' \in [Phones -> Row] /\ asked' \in [Phones -> Row]
      /\ raced' \subseteq Phones
  <2>1. CASE UNCHANGED << contact, asked, raced >>
    BY <1>1, <2>1 DEF RowAsAsked, RowsOK
  <2>2. CASE Insert(From) /\ UNCHANGED raced
    <3>1. Insert(p) /\ UNCHANGED raced
      BY <1>2, <2>2
    <3> QED BY <1>1, <3>1, Inserted DEF RowsOK
  <2>3. ASSUME NEW asks \in {{TRUE}, {FALSE}}, SaveCopy(From, Copy, asks)
        PROVE  RowAsAsked' /\ contact' \in [Phones -> Row] /\ asked' \in [Phones -> Row]
               /\ raced' \subseteq Phones
    <3>1. SaveCopy(p, copy, asks) /\ asks \in SUBSET BOOLEAN
      BY <1>2, <1>3, <2>3
    <3> QED BY <1>1, <3>1, CopiesSaved
  <2> QED BY <2>1, <2>2, <2>3
<1>6. RowsOK'
  BY <1>1, <1>5 DEF RowsOK
<1> QED BY <1>1, <1>4, <1>5, <1>6, ContactsHold DEF ContactsInvariant

WorkerAction ==
  FindSender \/ InsertSender \/ LogInbound \/ SaveKeyword \/ LogOptOut \/ MatchRules
    \/ SendReply \/ ProcessFails

LEMMA WorkerSteps ==
  ASSUME InboundTypeOK, ContactsInvariant, HandlingInvariant, WorkerAction
  PROVE  ContactsInvariant' /\ HandlersOK' /\ WorkerOK' /\ RestOK' /\ HandlingInvariant'
<1>1. HandlersOK /\ WorkerOK /\ RestOK
  BY InboundParts
<1>2. worker.pc # "idle" /\ UnchangedButWorker
  BY DEF WorkerAction, FindSender, InsertSender, LogInbound, SaveKeyword, LogOptOut,
         MatchRules, SendReply, ProcessFails
<1>3. Msg \in Messages /\ From \in Phones /\ worker.copy \in Row
  BY <1>1, <1>2, Working
<1>4. contact[From] \in Row /\ Fresh \in Row
  BY <1>3, TypeParts DEF ContactsInvariant, RowsOK, Fresh, Row
<1>5. Finish \/ Throw \/ UNCHANGED << finished, lost >>
        => finished' \subseteq Messages /\ lost' \subseteq Messages
  BY <1>1, <1>3 DEF Finish, Throw, RestOK
<1>6. UNCHANGED << group, request, requests, grouped, groupRaced >>
  BY <1>2 DEF UnchangedButWorker
<1> DEFINE Holds  == HandlersOK' /\ WorkerOK' /\ RestOK' /\ HandlingInvariant'
           Writes == ContactsInvariant'
<1>7. CASE FindSender
  <2>1. UNCHANGED << contact, asked, raced, logged, replied, finished, lost >>
    BY <1>7 DEF FindSender, resultVars
  <2>2. PICK pc \in {"find", "insert", "log"} : worker' = At(pc, worker.job, contact[From])
    BY <1>7 DEF FindSender
  <2>3. worker.pc \notin Late /\ worker'.pc \notin Late
    BY <1>7 DEF FindSender, At, Late
  <2>4. Holds
    BY <1>1, <1>2, <1>4, <1>5, <2>1, <2>2, <2>3, WorkerHolds
  <2> QED BY <1>2, <1>6, <2>1, <2>4, WorkerWrites
<1>8. CASE InsertSender
  <2>1. UNCHANGED << raced, logged, replied >> /\ worker.pc \notin Late
    BY <1>8 DEF InsertSender, Late
  <2>2. CASE /\ Insert(From) /\ worker' = At("log", worker.job, Fresh)
             /\ UNCHANGED << finished, lost >>
    <3>1. worker'.pc \notin Late
      BY <2>2 DEF At, Late
    <3>2. Holds
      BY <1>1, <1>2, <1>4, <1>5, <2>1, <2>2, <3>1, WorkerHolds
    <3> QED BY <1>2, <1>6, <2>1, <2>2, <3>2, WorkerWrites
  <2>3. CASE Throw /\ UNCHANGED << contact, asked >>
    <3>1. worker' = NoWork
      BY <2>3 DEF Throw
    <3>2. Holds
      BY <1>2, <1>5, <2>1, <2>3, <3>1, WorkerHolds
    <3> QED BY <1>2, <1>6, <2>1, <2>3, <3>2, WorkerWrites
  <2> QED BY <1>8, <2>2, <2>3 DEF InsertSender
<1>9. CASE LogInbound
  <2>1. /\ UNCHANGED << contact, asked, raced, replied, finished, lost >> /\ worker.pc = "log"
        /\ logged' = [logged EXCEPT ![Msg] = logged[Msg] + 1]
    BY <1>9 DEF LogInbound
  <2>2. PICK pc \in {"optOut", "optIn", "match"} : worker' = At(pc, worker.job, worker.copy)
    <3>1. CASE Keyword[Msg] = "stop"
      BY <1>9, <3>1 DEF LogInbound, Step
    <3>2. CASE Keyword[Msg] # "stop"
      BY <1>9, <3>2 DEF LogInbound, Step
    <3> QED BY <3>1, <3>2
  <2>3. pc \in Late /\ worker'.pc \in Late
    BY <2>2 DEF Late, At
  <2>4. \E pp \in {"find", "insert", "log"} \cup Late, row \in Row :
          worker' = At(pp, worker.job, row) /\ (worker.pc \in Late => pp \in Late)
    BY <1>3, <2>2, <2>3
  <2>5. Holds
    BY <1>2, <1>5, <2>1, <2>3, <2>4, WorkerHolds
  <2> QED BY <1>2, <1>6, <2>1, <2>5, WorkerWrites
<1>10. CASE SaveKeyword
  <2>1. UNCHANGED << logged, replied, finished, lost >>
    BY <1>10 DEF SaveKeyword, resultVars
  <2>2. PICK pc \in {"audit", "reply"} : worker' = At(pc, worker.job, worker.copy)
    BY <1>10 DEF SaveKeyword, Step
  <2>3. pc \in Late /\ worker.pc \in Late
    BY <1>10, <2>2 DEF SaveKeyword, Late
  <2>4. \E pp \in {"find", "insert", "log"} \cup Late, row \in Row :
          worker' = At(pp, worker.job, row) /\ (worker.pc \in Late => pp \in Late)
    BY <1>3, <2>2, <2>3
  <2>5. Holds
    BY <1>2, <1>5, <2>1, <2>3, <2>4, WorkerHolds
  <2>6. \E asks \in {{TRUE}, {FALSE}} : SaveCopy(From, Copy, asks)
    BY <1>10 DEF SaveKeyword
  <2> QED BY <1>2, <1>6, <2>5, <2>6, WorkerWrites
<1>11. CASE LogOptOut
  <2>1. UNCHANGED << contact, asked, raced, logged, replied, finished, lost >>
    BY <1>11 DEF LogOptOut, resultVars
  <2>2. /\ worker' = At("reply", worker.job, worker.copy) /\ "reply" \in Late
        /\ worker.pc \in Late
    BY <1>11 DEF LogOptOut, Step, Late
  <2>3. \E pp \in {"find", "insert", "log"} \cup Late, row \in Row :
          worker' = At(pp, worker.job, row) /\ (worker.pc \in Late => pp \in Late)
    BY <1>3, <2>2
  <2>4. Holds
    BY <1>2, <1>5, <2>1, <2>2, <2>3, WorkerHolds
  <2> QED BY <1>2, <1>6, <2>1, <2>4, WorkerWrites
<1>12. CASE MatchRules
  <2>1. UNCHANGED << contact, asked, raced, logged, replied >> /\ worker.pc \in Late
    BY <1>12 DEF MatchRules, Late
  <2>2. CASE Finish
    <3>1. worker' = NoWork
      BY <2>2 DEF Finish
    <3>2. Holds
      BY <1>2, <1>5, <2>1, <2>2, <3>1, WorkerHolds
    <3> QED BY <1>2, <1>6, <2>1, <3>2, WorkerWrites
  <2>3. CASE Step("reply") /\ UNCHANGED << finished, lost >>
    <3>1. worker' = At("reply", worker.job, worker.copy) /\ "reply" \in Late
      BY <2>3 DEF Step, Late
    <3>2. \E pp \in {"find", "insert", "log"} \cup Late, row \in Row :
            worker' = At(pp, worker.job, row) /\ (worker.pc \in Late => pp \in Late)
      BY <1>3, <3>1
    <3>3. Holds
      BY <1>2, <1>5, <2>1, <2>3, <3>2, WorkerHolds
    <3> QED BY <1>2, <1>6, <2>1, <3>3, WorkerWrites
  <2> QED BY <1>12, <2>2, <2>3 DEF MatchRules
<1>13. CASE SendReply
  <2>1. UNCHANGED << contact, asked, raced, logged >> /\ Finish /\ worker.pc \in Late
    BY <1>13 DEF SendReply, Late
  <2>2. UNCHANGED replied \/ replied' = [replied EXCEPT ![Msg] = replied[Msg] + 1]
    BY <1>13 DEF SendReply
  <2>3. worker' = NoWork
    BY <2>1 DEF Finish
  <2>4. Holds
    BY <1>2, <1>5, <2>1, <2>2, <2>3, WorkerHolds
  <2> QED BY <1>2, <1>6, <2>1, <2>4, WorkerWrites
<1>14. CASE ProcessFails
  <2>1. UNCHANGED << contact, asked, raced, logged, replied >> /\ Throw
    BY <1>14 DEF ProcessFails
  <2>2. worker' = NoWork
    BY <2>1 DEF Throw
  <2>3. Holds
    BY <1>2, <1>5, <2>1, <2>2, WorkerHolds
  <2> QED BY <1>2, <1>6, <2>1, <2>3, WorkerWrites
<1> QED BY <1>7, <1>8, <1>9, <1>10, <1>11, <1>12, <1>13, <1>14 DEF WorkerAction

\* A stalled job goes back to the head of the queue.
LEMMA Prepending ==
  ASSUME NEW S, NEW s \in Seq(S), NEW x \in S
  PROVE  /\ <<x>> \o s \in Seq(S) /\ Len(<<x>> \o s) = Len(s) + 1
         /\ (<<x>> \o s)[1] = x
         /\ \A i \in 1..Len(s) : (<<x>> \o s)[i + 1] = s[i]
<1>1. <<x>> \in Seq(S) /\ Len(<<x>>) = 1 /\ <<x>>[1] = x
  OBVIOUS
<1> QED BY <1>1, ConcatProperties

\* The crash drops the requests and what the worker held of a contact.
LEMMA RequestsDropped ==
  ASSUME ContactsInvariant, BackendCrash
  PROVE  ContactsInvariant'
<1>1. RowsOK /\ RequestsOK /\ requests \in 0..MaxRequests /\ RowAsAsked /\ MembersAsAsked
  BY TypeParts DEF ContactsInvariant
<1>2. UNCHANGED << contact, group, requests, asked, raced, grouped, groupRaced >>
  BY DEF BackendCrash
<1>3. RequestsOK'
  <2>1. RequestOK(IdleRequest)
    BY Askings DEF IdleRequest
  <2>2. request' = [v \in Users |-> IdleRequest]
    BY DEF BackendCrash
  <2>3. IdleRequest \in ContactRequest
    BY <2>1 DEF RequestOK
  <2> QED BY <2>1, <2>2, <2>3 DEF RequestsOK
<1>4. RowsOK' /\ RowAsAsked' /\ MembersAsAsked'
  BY <1>1, <1>2 DEF RowsOK, RowAsAsked, MembersAsAsked
<1> QED BY <1>1, <1>2, <1>3, <1>4, ContactsHold DEF ContactsInvariant

LEMMA BackendStopped ==
  ASSUME InboundTypeOK, HandlingInvariant, BackendCrash
  PROVE  HandlersOK' /\ WorkerOK' /\ RestOK' /\ HandlingInvariant'
<1>1. HandlersOK /\ WorkerOK /\ RestOK
  BY InboundParts
<1>2. /\ UNCHANGED << dedup, handler, rules, logged, replied, finished, deliveries >>
      /\ worker' = NoWork /\ crashes' = crashes + 1 /\ crashes < MaxCrashes
  BY DEF BackendCrash
<1>3. WorkerOK' /\ \A m : ~WorkedOn(m)'
  BY <1>2, WorkerRests
<1>4. crashes' \in 0..MaxCrashes /\ crashes' \in Nat /\ crashes \in Nat /\ crashes <= crashes'
  BY <1>1, <1>2, InboundBounds DEF RestOK
<1>5. HandlersOK' /\ \A h \in Handlers : \A m : Adding(h, m)' <=> Adding(h, m)
  BY <1>1, <1>2 DEF HandlersOK, Adding
<1>6. CASE /\ UNCHANGED queue
           /\ \/ UNCHANGED lost
              \/ worker.pc # "idle" /\ lost' = lost \cup {Msg}
  <2>1. RestOK'
    <3>1. worker.pc # "idle" => Msg \in Messages
      BY <1>1, Working
    <3> QED BY <1>1, <1>2, <1>4, <1>6, <3>1 DEF RestOK
  <2>2. ASSUME NEW m \in Messages
        PROVE  Handled(m)'
    <3>1. Handled(m)
      BY DEF HandlingInvariant
    <3> QED BY <1>2, <1>3, <1>4, <1>5, <1>6, <3>1, Kept
  <2> QED BY <1>3, <1>5, <2>1, <2>2 DEF HandlingInvariant
<1>7. CASE /\ worker.pc # "idle" /\ Head(worker.job).stalls < MaxStalls /\ UNCHANGED lost
           /\ queue' = <<[msg |-> Msg, stalls |-> Head(worker.job).stalls + 1]>> \o queue
  <2>1. Head(worker.job) \in Job /\ Msg \in Messages
    BY <1>1, <1>7, Working
  <2>2. PICK job \in Job : job.msg = Msg /\ queue' = <<job>> \o queue
    <3>1. Head(worker.job).stalls + 1 \in 0..MaxStalls
      BY <1>7, <2>1, InboundBounds DEF Job
    <3>2. [msg |-> Msg, stalls |-> Head(worker.job).stalls + 1] \in Job
      BY <2>1, <3>1 DEF Job
    <3> QED BY <1>7, <3>2
  <2>3. PICK n \in Nat : n = Len(queue)
    BY <1>1, LenProperties DEF RestOK
  <2>4. /\ queue' \in Seq(Job) /\ Len(queue') = n + 1 /\ queue'[1] = job
        /\ \A i \in 1..n : queue'[i + 1] = queue[i]
    BY <1>1, <2>2, <2>3, Prepending DEF RestOK
  <2>5. RestOK'
    BY <1>1, <1>2, <1>4, <1>7, <2>4 DEF RestOK
  <2>6. ASSUME NEW m \in Messages
        PROVE  Handled(m)'
    <3> DEFINE W(i) == WaitsAt(i, m)
               N(i) == WaitsAt(i, m)'
    <3>1. Handled(m)
      BY DEF HandlingInvariant
    <3>2. WorkedOn(m) <=> job.msg = m
      BY <1>7, <2>2 DEF WorkedOn
    <3>3. \A i \in 1..(n + 1) : i = 1 \/ i - 1 \in 1..n
      OBVIOUS
    <3>4. \A i \in 1..(n + 1) : N(i) =>
            \/ i = 1 /\ WorkedOn(m)
            \/ i # 1 /\ i - 1 \in 1..Len(queue) /\ W(i - 1)
      <4>1. ASSUME NEW i \in 1..n
            PROVE  queue'[i + 1] = queue[i]
        BY <2>4
      <4>2. \A i \in 1..(n + 1) : i - 1 \in 1..n => queue'[i] = queue[i - 1]
        <5>1. \A i \in 1..(n + 1) : (i - 1) + 1 = i
          OBVIOUS
        <5> QED BY <4>1, <5>1
      <4> QED BY <2>3, <2>4, <3>2, <3>3, <4>2 DEF WaitsAt
    <3>5. 1..Len(queue') = 1..(n + 1) /\ Len(queue) = n
      BY <2>3, <2>4
    <3> HIDE DEF W, N
    <3>6. OnePlace(m)
      BY <3>1 DEF Handled
    <3>7. /\ \A i, j \in 1..Len(queue) : W(i) /\ W(j) => i = j
          /\ \A h \in Handlers, i \in 1..Len(queue) : ~(Adding(h, m) /\ W(i))
          /\ \A h \in Handlers : ~(Adding(h, m) /\ WorkedOn(m))
          /\ \A i \in 1..Len(queue) : ~(W(i) /\ WorkedOn(m))
          /\ \A g, h \in Handlers : Adding(g, m) /\ Adding(h, m) => g = h
      BY <3>6 DEF OnePlace, W
    <3>8. \A i, j \in 1..(n + 1) : N(i) /\ N(j) => i = j
      <4>1. \A i, j \in 1..(n + 1) : i - 1 = j - 1 => i = j
        OBVIOUS
      <4> QED BY <3>4, <3>7, <4>1
    <3>9. \A h \in Handlers, i \in 1..(n + 1) : ~(Adding(h, m)' /\ N(i))
      BY <1>5, <3>4, <3>7
    <3>10. OnePlace(m)'
      BY <1>3, <1>5, <3>5, <3>7, <3>8, <3>9 DEF OnePlace, N
    <3>11. InHand(m)' => InHand(m)
      BY <1>3, <1>5, <3>4, <3>5 DEF InHand, N, W
    <3>12. InHand(m)' => m \in dedup'
      BY <1>2, <3>1, <3>11 DEF Handled
    <3> QED BY <1>2, <1>3, <1>4, <3>1, <3>10, <3>11, <3>12, Relocated
  <2> QED BY <1>3, <1>5, <2>5, <2>6 DEF HandlingInvariant
<1>8. \/ worker.pc = "idle" /\ UNCHANGED << queue, lost >>
      \/ /\ worker.pc # "idle"
         /\ IF Head(worker.job).stalls < MaxStalls
              THEN /\ queue' = <<[msg |-> Msg, stalls |-> Head(worker.job).stalls + 1]>> \o queue
                   /\ UNCHANGED lost
              ELSE lost' = lost \cup {Msg} /\ UNCHANGED queue
  BY DEF BackendCrash
<1>9. CASE worker.pc = "idle"
  BY <1>6, <1>8, <1>9
<1>10. CASE worker.pc # "idle" /\ Head(worker.job).stalls < MaxStalls
  BY <1>7, <1>8, <1>10
<1>11. CASE worker.pc # "idle" /\ ~(Head(worker.job).stalls < MaxStalls)
  BY <1>6, <1>8, <1>11
<1> QED BY <1>9, <1>10, <1>11

-----------------------------------------------------------------------------
(* The theorems. *)

LEMMA InboundStarts == InboundInit => ContactsInvariant /\ InboundTypeOK /\ HandlingInvariant
<1> SUFFICES ASSUME InboundInit
             PROVE  ContactsInvariant /\ InboundTypeOK /\ HandlingInvariant
  OBVIOUS
<1>1. ContactsInvariant
  <2>1. ContactsInit
    BY DEF InboundInit
  <2> QED BY <2>1, ContactsStarts
<1>2. HandlersOK /\ WorkerOK
  <2>1. NoHandler \in [pc : {"idle", "dedup", "add"}, batch : Seq(Messages)]
        /\ NoHandler.pc = "idle"
    BY EmptySeq DEF NoHandler
  <2> QED BY <2>1, EmptySeq DEF InboundInit, HandlersOK, WorkerOK, NoWork, At, Absent, Row
<1>3. RestOK
  BY EmptySeq, InboundBounds DEF InboundInit, RestOK
<1>4. InboundTypeOK
  BY <1>1, <1>2, <1>3, InboundParts DEF ContactsInvariant
<1>5. ASSUME NEW m \in Messages
      PROVE  Handled(m)
  <2>1. /\ \A h \in Handlers : ~Adding(h, m)
        /\ 1..Len(queue) = {} /\ ~WorkedOn(m)
    BY DEF InboundInit, Adding, WorkedOn, NoHandler, NoWork, At
  <2>2. logged[m] = 0 /\ replied[m] = 0 /\ crashes = 0
    BY DEF InboundInit
  <2> QED BY <2>1, <2>2 DEF Handled, OnePlace, InHand, Answered
<1> QED BY <1>1, <1>4, <1>5 DEF HandlingInvariant

LEMMA InboundSteps ==
  ContactsInvariant /\ InboundTypeOK /\ HandlingInvariant /\ [InboundNext]_inboundVars
    => (ContactsInvariant /\ InboundTypeOK /\ HandlingInvariant)'
<1> SUFFICES ASSUME ContactsInvariant, InboundTypeOK, HandlingInvariant,
                    [InboundNext]_inboundVars
             PROVE  ContactsInvariant' /\ InboundTypeOK' /\ HandlingInvariant'
  OBVIOUS
<1> DEFINE Holds == HandlersOK' /\ WorkerOK' /\ RestOK' /\ HandlingInvariant'
<1>1. SUFFICES ContactsInvariant' /\ Holds
  <2>1. ContactsInvariant' /\ Holds => ContactsTypeOK'
    BY DEF ContactsInvariant
  <2>2. ContactsInvariant' /\ Holds => InboundTypeOK'
    BY <2>1 DEF InboundTypeOK, HandlersOK, WorkerOK, RestOK
  <2> QED BY <2>2
<1>2. HandlersOK /\ WorkerOK /\ RestOK
  BY InboundParts
\* What leaves the messages alone leaves them handled.
<1>3. ASSUME UNCHANGED << dedup, handler, queue, worker, resultVars, crashes, deliveries >>,
             rules' \subseteq Rules
      PROVE  Holds
  <2>1. UNCHANGED << dedup, handler, queue, worker, logged, replied, finished, lost, crashes,
                     deliveries >>
    BY <1>3 DEF resultVars
  <2>2. HandlersOK' /\ WorkerOK' /\ RestOK'
    BY <1>2, <1>3, <2>1 DEF HandlersOK, WorkerOK, RestOK
  <2>3. /\ \A h \in Handlers : \A m : Adding(h, m)' <=> Adding(h, m)
        /\ \A m : WorkedOn(m)' <=> WorkedOn(m)
    BY <1>2, <2>1, WorkerStill DEF Adding
  <2>4. ASSUME NEW m \in Messages
        PROVE  Handled(m)'
    <3>1. Handled(m) /\ crashes' \in Nat /\ crashes <= crashes'
      BY <1>2, <2>1, InboundBounds DEF HandlingInvariant, RestOK
    <3> QED BY <2>1, <2>3, <3>1, Kept
  <2> QED BY <2>2, <2>4 DEF HandlingInvariant
<1>4. ASSUME NEW h \in Handlers, Upsert(h) \/ HandlerStep(h)
      PROVE  ContactsInvariant' /\ Holds
  <2>1. UNCHANGED contactVars
    BY <1>4 DEF Upsert, HandlerStep, SetDedupKey, AddInbound
  <2> QED BY <1>4, <2>1, ContactsStill, Upserted, KeysSet, InboundAdded DEF HandlerStep
<1>5. CASE SessionManagerCrash \/ \E h \in Handlers : HandlerFails(h)
  <2>1. UNCHANGED contactVars
    BY <1>5 DEF SessionManagerCrash, HandlerFails
  <2> QED BY <1>5, <2>1, ContactsStill, HandlersStopped
<1>6. CASE TakeMessage
  <2>1. UNCHANGED contactVars
    BY <1>6 DEF TakeMessage
  <2> QED BY <1>6, <2>1, ContactsStill, MessageTaken
<1>7. CASE WorkerAction
  BY <1>7, WorkerSteps
<1>8. CASE EditRules
  <2>1. UNCHANGED << contactVars, dedup, handler, queue, worker, resultVars, deliveries, crashes >>
    BY <1>8 DEF EditRules
  <2>2. rules' \subseteq Rules
    BY <1>2, <1>8 DEF EditRules, SaveRule, RemoveRule, RestOK
  <2> QED BY <1>3, <2>1, <2>2, ContactsStill
<1>9. CASE UserStep
  <2>1. UNCHANGED << dedup, handler, queue, worker, rules, resultVars, deliveries, crashes >>
        /\ ContactsNext
    BY <1>9 DEF UserStep, workVars
  <2>2. rules' \subseteq Rules
    BY <1>2, <2>1 DEF RestOK
  <2> QED BY <1>3, <2>1, <2>2, ContactSteps
<1>10. CASE BackendCrash
  BY <1>10, RequestsDropped, BackendStopped
<1>11. CASE UNCHANGED inboundVars
  <2>1. UNCHANGED << contactVars, dedup, handler, queue, worker, rules, resultVars, deliveries,
                     crashes >>
    BY <1>11 DEF inboundVars, workVars
  <2>2. rules' \subseteq Rules
    BY <1>2, <2>1 DEF RestOK
  <2> QED BY <1>3, <2>1, <2>2, ContactsStill
<1> QED
  BY <1>4, <1>5, <1>6, <1>7, <1>8, <1>9, <1>10, <1>11
  DEF InboundNext, ProcessStep, WorkerAction

\* Every variable keeps its type, and the rows, the group and the messages their
\* invariants, through every interleaving of the requests, the handlers of the
\* session manager and the worker, and through their crashes.
THEOREM InboundInvariance ==
  InboundSpec => [](ContactsInvariant /\ InboundTypeOK /\ HandlingInvariant)
<1>1. InboundInit => ContactsInvariant /\ InboundTypeOK /\ HandlingInvariant
  BY InboundStarts
<1>2. ContactsInvariant /\ InboundTypeOK /\ HandlingInvariant /\ [InboundNext]_inboundVars
        => (ContactsInvariant /\ InboundTypeOK /\ HandlingInvariant)'
  BY InboundSteps
<1> QED BY <1>1, <1>2, PTL DEF InboundSpec

\* Whoever opts out, or is deleted, stays so: SaveContact, SaveKeyword and
\* RemoveContact undo it only by saving a stale copy.
THEOREM OptOutsStay == InboundSpec => []RowAsAsked
<1>1. ContactsInvariant => RowAsAsked
  BY DEF ContactsInvariant
<1> QED BY <1>1, InboundInvariance, PTL

\* A message delivered again is logged and answered once, and once more for each
\* crash, and is not answered before it is logged: SetDedupKey lets it in once, and it is in one place from then on.
THEOREM MessagesAreHandledOnce == InboundSpec => []HandledOnce
<1>1. HandlingInvariant => HandledOnce
  BY DEF HandlingInvariant, Handled, Answered, HandledOnce
<1> QED BY <1>1, InboundInvariance, PTL

\* So they are beside the worker, which makes contacts live and deletes none.
THEOREM GroupIsAsAsked == InboundSpec => []GroupAsAsked
<1>1. ContactsInvariant => GroupAsAsked
  BY MembersLive DEF ContactsInvariant
<1> QED BY <1>1, InboundInvariance, PTL

-----------------------------------------------------------------------------
(* No message is forgotten. *)

\* Steps that set no key and take a message out of hand only to end it.
LEMMA NotForgotten ==
  ASSUME NoneForgotten, UNCHANGED dedup, finished \subseteq finished', lost \subseteq lost',
         \A m \in dedup : InHand(m) => InHand(m)' \/ m \in finished' \cup lost'
  PROVE  NoneForgotten'
  BY DEF NoneForgotten

\* A handler that keeps to the messages whose keys are not set, and the queue and the
\* worker that stay, leave them all in hand.
LEMMA HandsStill ==
  ASSUME UNCHANGED << queue, worker >>, NEW m,
         \A h \in Handlers : Adding(h, m) => Adding(h, m)' \/ m \in lost'
  PROVE  InHand(m) => InHand(m)' \/ m \in lost'
<1>1. \A i \in 1..Len(queue) : WaitsAt(i, m) => WaitsAt(i, m)'
  BY DEF WaitsAt
<1>2. WorkedOn(m) => WorkedOn(m)'
  BY DEF WorkedOn, Msg
<1> QED BY <1>1, <1>2 DEF InHand

\* The session manager sets the key, then adds the message, or drops it as lost.
LEMMA HandlersForgetNone ==
  ASSUME InboundTypeOK, NoneForgotten,
         \/ \E h \in Handlers : Upsert(h) \/ HandlerStep(h) \/ HandlerFails(h)
         \/ SessionManagerCrash
  PROVE  NoneForgotten'
<1>1. HandlersOK /\ RestOK
  BY InboundParts
<1>2. ASSUME NEW h \in Handlers, Upsert(h)
      PROVE  NoneForgotten'
  <2>1. UNCHANGED << dedup, queue, worker, finished, lost >> /\ handler[h].pc = "idle"
    BY <1>2 DEF Upsert, resultVars
  <2>2. \A g \in Handlers, m \in dedup : Adding(g, m) => Adding(g, m)'
    <3>1. \A g \in Handlers \ {h} : handler'[g] = handler[g]
      BY <1>1, <1>2 DEF Upsert, HandlersOK
    <3> QED BY <2>1, <3>1 DEF Adding
  <2> QED BY <2>1, <2>2, HandsStill, NotForgotten
<1>3. ASSUME NEW h \in Handlers, SetDedupKey(h)
      PROVE  NoneForgotten'
  <2>1. UNCHANGED << queue, worker, finished, lost >> /\ handler[h].pc = "dedup"
    BY <1>3 DEF SetDedupKey, resultVars
  <2>2. PICK k \in Messages : k = Head(handler[h].batch) /\ dedup' = dedup \cup {k}
    BY <1>1, <1>3, <2>1, Heads DEF SetDedupKey
  <2>3. \A g \in Handlers, m \in dedup : Adding(g, m) => Adding(g, m)'
    <3>1. \A g \in Handlers \ {h} : handler'[g] = handler[g]
      BY <1>1, <1>3 DEF SetDedupKey, NextMessage, KeySet, HandlersOK
    <3> QED BY <2>1, <3>1 DEF Adding
  <2>4. \A m \in dedup : InHand(m)' \/ m \in finished' \cup lost'
    BY <2>1, <2>3, HandsStill DEF NoneForgotten
  <2>5. CASE k \in dedup
    BY <2>2, <2>4, <2>5 DEF NoneForgotten
  <2>6. CASE k \notin dedup
    <3>1. KeySet(h)
      BY <1>3, <2>2, <2>6 DEF SetDedupKey
    <3>2. handler'[h].pc = "add" /\ handler'[h].batch = handler[h].batch
      BY <1>1, <3>1 DEF KeySet, HandlersOK
    <3>3. Adding(h, k)'
      BY <2>2, <3>2 DEF Adding
    <3> QED BY <2>2, <2>4, <3>3 DEF NoneForgotten, InHand
  <2> QED BY <2>5, <2>6
<1>4. ASSUME NEW h \in Handlers, AddInbound(h)
      PROVE  NoneForgotten'
  <2>1. UNCHANGED << dedup, worker, finished, lost >> /\ handler[h].pc = "add"
    BY <1>4 DEF AddInbound, resultVars
  <2>2. PICK k \in Messages : k = Head(handler[h].batch)
    BY <1>1, <2>1, Heads
  <2>3. PICK job \in Job : job.msg = k /\ queue' = Append(queue, job)
    <3>1. [msg |-> k, stalls |-> 0] \in Job /\ [msg |-> k, stalls |-> 0].msg = k
      BY InboundBounds DEF Job
    <3> QED BY <1>4, <2>2, <3>1 DEF AddInbound
  <2>4. PICK n \in Nat : n = Len(queue)
    BY <1>1, LenProperties DEF RestOK
  <2>5. /\ Len(queue') = n + 1 /\ queue'[n + 1] = job
        /\ \A i \in 1..n : queue'[i] = queue[i]
    BY <1>1, <2>3, <2>4, Appending DEF RestOK
  <2>6. WaitsAt(n + 1, k)' /\ n + 1 \in 1..Len(queue')
    BY <2>3, <2>4, <2>5 DEF WaitsAt
  <2>7. ASSUME NEW m \in dedup, InHand(m)
        PROVE  InHand(m)'
    <3>1. CASE m = k
      BY <2>6, <3>1 DEF InHand
    <3>2. ASSUME NEW g \in Handlers, Adding(g, m), m # k
          PROVE  InHand(m)'
      <4>1. g # h
        BY <2>2, <3>2 DEF Adding
      <4>2. handler'[g] = handler[g]
        BY <1>1, <1>4, <4>1 DEF AddInbound, NextMessage, HandlersOK
      <4> QED BY <3>2, <4>2 DEF Adding, InHand
    <3>3. ASSUME NEW i \in 1..Len(queue), WaitsAt(i, m)
          PROVE  InHand(m)'
      <4>1. i \in 1..Len(queue') /\ queue'[i] = queue[i]
        BY <2>4, <2>5
      <4> QED BY <3>3, <4>1 DEF WaitsAt, InHand
    <3>4. CASE WorkedOn(m)
      BY <2>1, <3>4 DEF WorkedOn, Msg, InHand
    <3> QED BY <2>7, <3>1, <3>2, <3>3, <3>4 DEF InHand
  <2> QED BY <2>1, <2>7, NotForgotten
<1>5. ASSUME NEW hs \in SUBSET Handlers, DropBatch(hs),
             UNCHANGED << dedup, queue, worker, finished >>
      PROVE  NoneForgotten'
  <2>1. \A g \in Handlers, m \in dedup : Adding(g, m) => Adding(g, m)' \/ m \in lost'
    <3> SUFFICES ASSUME NEW g \in Handlers, NEW m \in dedup, Adding(g, m)
                 PROVE  Adding(g, m)' \/ m \in lost'
      OBVIOUS
    <3>1. CASE g \in hs
      <4>1. g \in {f \in hs : handler[f].pc = "add"} /\ m = Head(handler[g].batch)
        BY <3>1 DEF Adding
      <4> QED BY <1>5, <4>1 DEF DropBatch
    <3>2. CASE g \notin hs
      <4>1. handler'[g] = handler[g]
        BY <1>5, <3>2 DEF DropBatch
      <4> QED BY <4>1 DEF Adding
    <3> QED BY <3>1, <3>2
  <2>2. lost \subseteq lost'
    BY <1>5 DEF DropBatch
  <2> QED BY <1>5, <2>1, <2>2, HandsStill, NotForgotten
<1>6. ASSUME NEW h \in Handlers, HandlerFails(h)
      PROVE  NoneForgotten'
  BY <1>5, <1>6 DEF HandlerFails
<1>7. CASE SessionManagerCrash
  BY <1>5, <1>7 DEF SessionManagerCrash
<1> QED BY <1>2, <1>3, <1>4, <1>6, <1>7 DEF HandlerStep

\* What the worker takes it holds until process() returns or throws.
LEMMA WorkerForgetsNone ==
  ASSUME InboundTypeOK, NoneForgotten, TakeMessage \/ WorkerAction
  PROVE  NoneForgotten'
<1>1. WorkerOK /\ RestOK
  BY InboundParts
<1>2. CASE TakeMessage
  <2>1. UNCHANGED << dedup, handler, finished, lost >> /\ worker.pc = "idle" /\ queue # << >>
    BY <1>2 DEF TakeMessage, resultVars
  <2>2. PICK n \in Nat : n + 1 = Len(queue)
    <3>1. queue \in Seq(Job) /\ queue # << >>
      BY <1>1, <2>1 DEF RestOK
    <3>2. Len(queue) \in Nat /\ Len(queue) # 0
      BY <3>1, LenProperties, EmptySeq
    <3> QED BY <3>2
  <2>3. /\ Len(queue') = n /\ \A i \in 1..n : queue'[i] = queue[i + 1]
        /\ Head(queue) = queue[1]
    BY <1>1, <1>2, <2>1, <2>2, HeadTailProperties DEF RestOK, TakeMessage
  <2>4. worker'.pc # "idle" /\ Head(worker'.job) = queue[1]
    BY <1>2, <2>3 DEF TakeMessage, At
  <2>5. ASSUME NEW m \in dedup, NEW i \in 1..Len(queue), WaitsAt(i, m)
        PROVE  InHand(m)'
    <3>1. CASE i = 1
      BY <2>4, <2>5, <3>1 DEF WaitsAt, WorkedOn, Msg, InHand
    <3>2. CASE i # 1
      <4>1. PICK j \in 1..n : j + 1 = i
        <5>1. i - 1 \in 1..n /\ (i - 1) + 1 = i
          BY <2>2, <3>2
        <5> QED BY <5>1
      <4>2. queue'[j] = queue[i] /\ j \in 1..Len(queue')
        BY <2>3, <4>1
      <4> QED BY <2>5, <4>2 DEF WaitsAt, InHand
    <3> QED BY <3>1, <3>2
  <2>6. \A h \in Handlers, m \in dedup : Adding(h, m) => InHand(m)'
    BY <2>1 DEF Adding, InHand
  <2>7. \A m \in dedup : ~WorkedOn(m)
    BY <2>1 DEF WorkedOn
  <2>8. \A m \in dedup : InHand(m) => InHand(m)'
    BY <2>5, <2>6, <2>7 DEF InHand
  <2> QED BY <2>1, <2>8, NotForgotten
<1>3. CASE WorkerAction
  <2>1. UNCHANGED << dedup, handler, queue >>
    BY <1>3 DEF WorkerAction, FindSender, InsertSender, LogInbound, SaveKeyword, LogOptOut,
                MatchRules, SendReply, ProcessFails, UnchangedButWorker
  <2>2. \/ Finish \/ Throw
        \/ UNCHANGED << finished, lost >> /\ worker'.pc # "idle" /\ worker'.job = worker.job
    <3>1. CASE FindSender
      BY <3>1 DEF FindSender, At, resultVars
    <3>2. CASE InsertSender
      BY <3>2 DEF InsertSender, At
    <3>3. CASE LogInbound
      BY <3>3 DEF LogInbound, Step, At
    <3>4. CASE SaveKeyword
      BY <3>4 DEF SaveKeyword, Step, At, resultVars
    <3>5. CASE LogOptOut
      BY <3>5 DEF LogOptOut, Step, At, resultVars
    <3>6. CASE MatchRules
      BY <3>6 DEF MatchRules, Step, At
    <3>7. CASE SendReply \/ ProcessFails
      BY <3>7 DEF SendReply, ProcessFails
    <3> QED BY <1>3, <3>1, <3>2, <3>3, <3>4, <3>5, <3>6, <3>7 DEF WorkerAction
  <2>3. finished \subseteq finished' /\ lost \subseteq lost'
    BY <2>2 DEF Finish, Throw
  <2>4. \A m \in dedup : WorkedOn(m) => WorkedOn(m)' \/ m \in finished' \cup lost'
    BY <2>2 DEF WorkedOn, Msg, Finish, Throw
  <2>5. ASSUME NEW m \in dedup, InHand(m)
        PROVE  InHand(m)' \/ m \in finished' \cup lost'
    <3>1. (\E h \in Handlers : Adding(h, m)) => InHand(m)'
      BY <2>1 DEF Adding, InHand
    <3>2. (\E i \in 1..Len(queue) : WaitsAt(i, m)) => InHand(m)'
      BY <2>1 DEF WaitsAt, InHand
    <3> QED BY <2>4, <2>5, <3>1, <3>2 DEF InHand
  <2> QED BY <2>1, <2>3, <2>5, NotForgotten
<1> QED BY <1>2, <1>3

\* BullMQ finds the stalled job, until it gives it up as lost.
LEMMA BackendForgetsNone ==
  ASSUME InboundTypeOK, NoneForgotten, BackendCrash
  PROVE  NoneForgotten'
<1>1. WorkerOK /\ RestOK
  BY InboundParts
<1>2. UNCHANGED << dedup, handler, finished >>
  BY DEF BackendCrash
<1>3. \A h \in Handlers, m \in dedup : Adding(h, m) => InHand(m)'
  BY <1>2 DEF Adding, InHand
<1>4. CASE UNCHANGED queue /\ (\A m \in dedup : WorkedOn(m) => m \in lost') /\ lost \subseteq lost'
  <2>1. \A m \in dedup : (\E i \in 1..Len(queue) : WaitsAt(i, m)) => InHand(m)'
    BY <1>4 DEF WaitsAt, InHand
  <2>2. \A m \in dedup : InHand(m) => InHand(m)' \/ m \in finished' \cup lost'
    BY <1>3, <1>4, <2>1 DEF InHand
  <2> QED BY <1>2, <1>4, <2>2, NotForgotten
<1>5. CASE /\ worker.pc # "idle" /\ Head(worker.job).stalls < MaxStalls /\ UNCHANGED lost
           /\ queue' = <<[msg |-> Msg, stalls |-> Head(worker.job).stalls + 1]>> \o queue
  <2>1. Head(worker.job) \in Job /\ Msg \in Messages
    BY <1>1, <1>5, Working
  <2>2. PICK job \in Job : job.msg = Msg /\ queue' = <<job>> \o queue
    <3>1. Head(worker.job).stalls + 1 \in 0..MaxStalls
      BY <1>5, <2>1, InboundBounds DEF Job
    <3>2. [msg |-> Msg, stalls |-> Head(worker.job).stalls + 1] \in Job
      BY <2>1, <3>1 DEF Job
    <3> QED BY <1>5, <3>2
  <2>3. PICK n \in Nat : n = Len(queue)
    BY <1>1, LenProperties DEF RestOK
  <2>4. /\ Len(queue') = n + 1 /\ queue'[1] = job
        /\ \A i \in 1..n : queue'[i + 1] = queue[i]
    BY <1>1, <2>2, <2>3, Prepending DEF RestOK
  <2>5. \A m \in dedup : WorkedOn(m) => InHand(m)'
    <3>1. 1 \in 1..Len(queue')
      BY <2>3, <2>4
    <3> QED BY <2>2, <2>4, <3>1 DEF WorkedOn, WaitsAt, InHand
  <2>6. ASSUME NEW m \in dedup, NEW i \in 1..Len(queue), WaitsAt(i, m)
        PROVE  InHand(m)'
    <3>1. i + 1 \in 1..Len(queue') /\ queue'[i + 1] = queue[i]
      BY <2>3, <2>4
    <3> QED BY <2>6, <3>1 DEF WaitsAt, InHand
  <2>7. \A m \in dedup : InHand(m) => InHand(m)'
    BY <1>3, <2>5, <2>6 DEF InHand
  <2> QED BY <1>2, <1>5, <2>7, NotForgotten
<1>6. CASE worker.pc = "idle"
  <2>1. UNCHANGED << queue, lost >> /\ \A m \in dedup : ~WorkedOn(m)
    BY <1>6 DEF BackendCrash, WorkedOn
  <2> QED BY <1>4, <2>1
<1>7. CASE worker.pc # "idle" /\ Head(worker.job).stalls < MaxStalls
  BY <1>5, <1>7 DEF BackendCrash
<1>8. CASE worker.pc # "idle" /\ ~(Head(worker.job).stalls < MaxStalls)
  <2>1. UNCHANGED queue /\ lost' = lost \cup {Msg}
    BY <1>8 DEF BackendCrash
  <2> QED BY <1>4, <2>1 DEF WorkedOn
<1> QED BY <1>6, <1>7, <1>8

\* No message is forgotten: from SET NX on, a handler holds it, the queue, or the worker, until
\* process() has ended or its one attempt is lost; so whatever InboundSettles waits for, somebody
\* has in hand.
THEOREM NoMessageIsForgotten == InboundSpec => []NoneForgotten
<1>1. InboundInit => NoneForgotten
  BY DEF InboundInit, NoneForgotten
<1>2. InboundTypeOK /\ NoneForgotten /\ [InboundNext]_inboundVars => NoneForgotten'
  <2> SUFFICES ASSUME InboundTypeOK, NoneForgotten, [InboundNext]_inboundVars
               PROVE  NoneForgotten'
    OBVIOUS
  <2>1. CASE UNCHANGED << dedup, handler, queue, worker, finished, lost >>
    <3>1. \A h \in Handlers : \A m : Adding(h, m) => Adding(h, m)'
      BY <2>1 DEF Adding
    <3> QED BY <2>1, <3>1, HandsStill, NotForgotten
  <2>2. EditRules \/ UserStep \/ UNCHANGED inboundVars
          => UNCHANGED << dedup, handler, queue, worker, finished, lost >>
    BY DEF EditRules, UserStep, inboundVars, workVars, resultVars
  <2> QED
    BY <2>1, <2>2, HandlersForgetNone, WorkerForgetsNone, BackendForgetsNone
    DEF InboundNext, ProcessStep, WorkerAction
<1> QED BY <1>1, <1>2, InboundInvariance, PTL DEF InboundSpec
=============================================================================
