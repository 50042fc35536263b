------------------------------- MODULE Outbox -------------------------------
(***************************************************************************)
(* What a campaign promises to its owner and to its contacts, with nothing *)
(* said of rows, requests, jobs, attempts and crashes: one message is on   *)
(* its way at a time; it was admitted while the campaign was running and   *)
(* addressed while its contact had not opted out; it goes out when every   *)
(* earlier copy of it was lost, and never once it has been recorded.       *)
(***************************************************************************)
EXTENDS Naturals

CONSTANTS Messages, Contacts, NoContact

VARIABLES
  running,    \* the campaign sends
  optedOut,   \* for each contact
  recipient,  \* of each message
  admitted,   \* the message that the campaign has let pass, as a set of one or none
  addressed,  \* the one whose contact was asked too
  copies,     \* of each message, those that reached WhatsApp
  lost,       \* those nobody knows of
  unrecorded, \* the message that went out and is yet to be recorded
  recorded    \* the messages known to be sent

peopleVars == << running, optedOut, recipient >>
copyVars   == << copies, lost, unrecorded, recorded >>
outboxVars == << peopleVars, admitted, addressed, copyVars >>

OutboxInit ==
  /\ ~running
  /\ optedOut \in [Contacts -> BOOLEAN]
  /\ recipient = [m \in Messages |-> NoContact]
  /\ admitted = {} /\ addressed = {}
  /\ copies = [m \in Messages |-> 0] /\ lost = copies
  /\ unrecorded = {} /\ recorded = {}

\* Nothing is on its way, sent or to be sent.
Free == admitted = {} /\ unrecorded = {}

Admit(m) ==
  /\ running /\ Free /\ admitted' = {m}
  /\ UNCHANGED << peopleVars, addressed, copyVars >>

Address(m) ==
  /\ admitted = {m} /\ ~optedOut[recipient[m]] /\ addressed' = {m}
  /\ UNCHANGED << peopleVars, admitted, copyVars >>

\* The message goes out, its answer comes back or not.
Transmit(m) ==
  /\ addressed = {m}
  /\ m \notin recorded /\ copies[m] = lost[m]
  /\ copies' = [copies EXCEPT ![m] = copies[m] + 1]
  /\ \/ unrecorded' = {m} /\ UNCHANGED lost
     \/ lost' = [lost EXCEPT ![m] = lost[m] + 1] /\ UNCHANGED unrecorded
  /\ admitted' = {} /\ addressed' = {}
  /\ UNCHANGED << peopleVars, recorded >>

\* The message that went out is known to be sent.
Record ==
  /\ unrecorded # {} /\ unrecorded' = {}
  /\ recorded' = recorded \cup unrecorded
  /\ UNCHANGED << peopleVars, admitted, addressed, copies, lost >>

\* What is on its way is given up; one that went out is a copy lost.
GiveUp ==
  /\ admitted' = {} /\ addressed' = {} /\ unrecorded' = {}
  /\ lost' = [m \in Messages |-> IF m \in unrecorded THEN lost[m] + 1 ELSE lost[m]]
  /\ UNCHANGED << peopleVars, copies, recorded >>

\* The owner starts and stops the campaign, whatever is on its way.
StartOrStop ==
  /\ running' \in BOOLEAN
  /\ UNCHANGED << optedOut, recipient, admitted, addressed, copyVars >>

\* A contact opts out or in, whatever is on its way to it.
OptOutOrIn(c) ==
  /\ optedOut' = [optedOut EXCEPT ![c] = ~optedOut[c]]
  /\ UNCHANGED << running, recipient, admitted, addressed, copyVars >>

\* A message is written to a contact: one that was never on its way.
Write(m, c) ==
  /\ recipient[m] = NoContact /\ m \notin admitted /\ copies[m] = 0
  /\ recipient' = [recipient EXCEPT ![m] = c]
  /\ UNCHANGED << running, optedOut, admitted, addressed, copyVars >>

OutboxNext ==
  \/ \E m \in Messages :
       \/ Admit(m) \/ Address(m) \/ Transmit(m)
       \/ \E c \in Contacts : Write(m, c)
  \/ Record \/ GiveUp \/ StartOrStop
  \/ \E c \in Contacts : OptOutOrIn(c)

OutboxSpec == OutboxInit /\ [][OutboxNext]_outboxVars
=============================================================================
