-------------------------------- MODULE Live --------------------------------
(***************************************************************************)
(* How the page of a running campaign learns that it has completed.  The   *)
(* worker counts each message on the row and, with the last, saves         *)
(* COMPLETED and emits an event; the gateway passes it to the sockets that *)
(* are connected, and the page asks for the campaign and its messages      *)
(* again.  The messages are also asked for every 5 seconds while the page  *)
(* shows RUNNING; the campaign is not.  The progress events, whose         *)
(* counters the page prefers only when it has no messages, are left out.   *)
(***************************************************************************)
EXTENDS Integers

CONSTANTS
  Outgoing,   \* messages of the campaign
  MaxDrops,   \* bound: times the socket loses its connection
  MaxErrors   \* bound: queries that fail

ASSUME LiveBounds == Outgoing \in Nat \ {0} /\ MaxDrops \in Nat /\ MaxErrors \in Nat

VARIABLES
  campaignRow,  \* status and processed, sentCount + failedCount
  logged,       \* logs that are no longer PENDING
  counting,     \* incrementCampaignCounter
  socket,       \* of the browser: up or down
  dropped,      \* times it went down
  event,        \* campaign:completed on its way to the browser
  campaignPage, \* the campaign the page shows, and whether it is open
  messagesPage, \* the logs it shows as processed; -1 before it has any
  queries,      \* the two queries: idle, asked, or what was read
  errors,       \* queries that failed so far
  uninformed    \* history: the page was not told, or could not ask

liveVars == << campaignRow, logged, counting, socket, dropped, event, campaignPage,
               messagesPage, queries, errors, uninformed >>

NoCampaign == [status |-> "none", processed |-> -1]

LiveInit ==
  /\ campaignRow = [status |-> "RUNNING", processed |-> 0]
  /\ logged = 0
  /\ counting = [pc |-> "idle", row |-> NoCampaign]
  /\ socket = "up" /\ dropped = 0 /\ event = "none"
  /\ campaignPage = [open |-> FALSE, row |-> NoCampaign]
  /\ messagesPage = -1
  /\ queries = [campaign |-> [pc |-> "idle", row |-> NoCampaign],
                messages |-> [pc |-> "idle", read |-> -1]]
  /\ errors = 0
  /\ uninformed = FALSE

ServerOnly == UNCHANGED << socket, dropped, campaignPage, messagesPage, queries, errors >>
PageOnly   == UNCHANGED << campaignRow, logged, counting >>

-----------------------------------------------------------------------------
(* The worker. *)

\* updateMessageStatus saves the log first.
ProcessMessage ==
  /\ counting.pc = "idle" /\ logged < Outgoing
  /\ logged' = logged + 1
  /\ counting' = [pc |-> "count", row |-> counting.row]
  /\ UNCHANGED << campaignRow, event, uninformed >> /\ ServerOnly

CountProcessed ==
  /\ counting.pc = "count"
  /\ campaignRow' = [status |-> campaignRow.status, processed |-> campaignRow.processed + 1]
  /\ counting' = [pc |-> "read", row |-> counting.row]
  /\ UNCHANGED << logged, event, uninformed >> /\ ServerOnly

ReadProcessed ==
  /\ counting.pc = "read"
  /\ counting' = [pc  |-> IF campaignRow.processed >= Outgoing /\ campaignRow.status = "RUNNING"
                          THEN "complete" ELSE "idle",
                  row |-> campaignRow]
  /\ UNCHANGED << campaignRow, logged, event, uninformed >> /\ ServerOnly

\* server.emit: to the sockets there are, and only now.
EmitCompleted ==
  /\ event' = IF socket = "up" THEN "sent" ELSE "none"
  /\ uninformed' = (uninformed \/ (socket = "down" /\ campaignPage.open))

SaveStatus == campaignRow' = [status |-> "COMPLETED", processed |-> counting.row.processed]

\* Mutant: the event goes out before the save.
CompleteEmitsFirst ==
  \/ /\ counting.pc = "complete"
     /\ EmitCompleted
     /\ counting' = [pc |-> "emit", row |-> counting.row]
     /\ UNCHANGED << campaignRow, logged >> /\ ServerOnly
  \/ /\ counting.pc = "emit"
     /\ SaveStatus
     /\ counting' = [pc |-> "idle", row |-> counting.row]
     /\ UNCHANGED << logged, event, uninformed >> /\ ServerOnly

Complete ==
  \/ /\ counting.pc = "complete"
     /\ SaveStatus
     /\ counting' = [pc |-> "emit", row |-> counting.row]
     /\ UNCHANGED << logged, event, uninformed >> /\ ServerOnly
  \/ /\ counting.pc = "emit"
     /\ EmitCompleted
     /\ counting' = [pc |-> "idle", row |-> counting.row]
     /\ UNCHANGED << campaignRow, logged >> /\ ServerOnly

CountingStep == ProcessMessage \/ CountProcessed \/ ReadProcessed \/ Complete

-----------------------------------------------------------------------------
(* The socket, which connects again by itself and is told nothing of what it missed. *)

DropSocket ==
  /\ socket = "up" /\ dropped < MaxDrops
  /\ socket' = "down" /\ dropped' = dropped + 1
  /\ event' = "none"
  /\ uninformed' = (uninformed \/ (event = "sent" /\ campaignPage.open))
  /\ PageOnly /\ UNCHANGED << campaignPage, messagesPage, queries, errors >>

Reconnect ==
  /\ socket = "down" /\ socket' = "up"
  /\ PageOnly
  /\ UNCHANGED << dropped, event, campaignPage, messagesPage, queries, errors, uninformed >>

\* The queries, each at one of its steps and with what it has read.
CampaignQuery(pc, row)  == [pc |-> pc, row |-> row]
MessagesQuery(pc, read) == [pc |-> pc, read |-> read]
NoCampaignQuery == CampaignQuery("idle", NoCampaign)
NoMessagesQuery == MessagesQuery("idle", -1)
Queries(campaign, messages) == queries' = [campaign |-> campaign, messages |-> messages]

\* The handler invalidates both queries.  A query with data is asked again, also in
\* place of one under way; one that has none yet is left to finish.
Again(pc, data, none) == IF data = none /\ pc # "idle" THEN pc ELSE "asked"
AskCampaign(pc) == CampaignQuery(pc, queries.campaign.row)
AskMessages(pc) == MessagesQuery(pc, queries.messages.read)

HearCompleted ==
  /\ event = "sent" /\ event' = "none"
  /\ IF campaignPage.open
     THEN /\ Queries(AskCampaign(Again(queries.campaign.pc, campaignPage.row, NoCampaign)),
                     IF messagesPage = -1 /\ campaignPage.row = NoCampaign
                     THEN queries.messages
                     ELSE AskMessages(Again(queries.messages.pc, messagesPage, -1)))
          /\ uninformed' = (uninformed \/ (campaignPage.row = NoCampaign
                                           /\ queries.campaign.row.status = "RUNNING")
                                       \/ (messagesPage = -1 /\ queries.messages.pc = "read"))
     ELSE UNCHANGED << queries, uninformed >>
  /\ PageOnly /\ UNCHANGED << socket, dropped, campaignPage, messagesPage, errors >>

-----------------------------------------------------------------------------
(* The page. *)

OpenCampaign ==
  /\ ~campaignPage.open /\ campaignPage' = [open |-> TRUE, row |-> campaignPage.row]
  /\ Queries(AskCampaign("asked"), queries.messages)
  /\ PageOnly /\ UNCHANGED << socket, dropped, event, messagesPage, errors, uninformed >>

ReadCampaign ==
  /\ queries.campaign.pc = "asked"
  /\ Queries(CampaignQuery("read", campaignRow), queries.messages)
  /\ PageOnly
  /\ UNCHANGED << socket, dropped, event, campaignPage, messagesPage, errors, uninformed >>

\* The messages query is enabled by the campaign it is shown with.
ShowCampaign ==
  /\ queries.campaign.pc = "read"
  /\ campaignPage' = [open |-> campaignPage.open, row |-> queries.campaign.row]
  /\ Queries(NoCampaignQuery, IF messagesPage = -1 /\ queries.messages.pc = "idle"
                              THEN AskMessages("asked") ELSE queries.messages)
  /\ PageOnly /\ UNCHANGED << socket, dropped, event, messagesPage, errors, uninformed >>

PollLogs ==
  /\ campaignPage.row.status = "RUNNING" /\ queries.messages.pc = "idle"
  /\ Queries(queries.campaign, AskMessages("asked"))
  /\ PageOnly
  /\ UNCHANGED << socket, dropped, event, campaignPage, messagesPage, errors, uninformed >>

ReadLogs ==
  /\ queries.messages.pc = "asked"
  /\ Queries(queries.campaign, MessagesQuery("read", logged))
  /\ PageOnly
  /\ UNCHANGED << socket, dropped, event, campaignPage, messagesPage, errors, uninformed >>

ShowLogs ==
  /\ queries.messages.pc = "read"
  /\ messagesPage' = queries.messages.read
  /\ Queries(queries.campaign, NoMessagesQuery)
  /\ PageOnly /\ UNCHANGED << socket, dropped, event, campaignPage, errors, uninformed >>

\* A query fails with its retry: the page keeps what it has.
LiveQueryFails ==
  /\ errors < MaxErrors /\ errors' = errors + 1
  /\ \/ /\ queries.campaign.pc # "idle"
        /\ Queries(NoCampaignQuery, queries.messages)
     \/ /\ queries.messages.pc # "idle"
        /\ Queries(queries.campaign, NoMessagesQuery)
  /\ uninformed' = TRUE
  /\ PageOnly /\ UNCHANGED << socket, dropped, event, campaignPage, messagesPage >>

PageStep == ReadCampaign \/ ShowCampaign \/ ReadLogs \/ ShowLogs

LiveNext ==
  \/ CountingStep \/ PageStep
  \/ DropSocket \/ Reconnect \/ HearCompleted
  \/ OpenCampaign \/ PollLogs \/ LiveQueryFails

LiveFairness ==
  /\ WF_liveVars(CountingStep) /\ WF_liveVars(HearCompleted)
  /\ WF_liveVars(ReadCampaign) /\ WF_liveVars(ShowCampaign)
  /\ WF_liveVars(ReadLogs) /\ WF_liveVars(ShowLogs)

LiveSpec == LiveInit /\ [][LiveNext]_liveVars /\ LiveFairness
-----------------------------------------------------------------------------
(* Properties. *)

\* Every variable keeps its type.
LiveTypeOK ==
  /\ campaignRow.status \in {"RUNNING", "COMPLETED"} /\ campaignRow.processed \in 0..Outgoing
  /\ logged \in 0..Outgoing /\ messagesPage \in -1..Outgoing
  /\ counting.pc \in {"idle", "count", "read", "complete", "emit"}
  /\ socket \in {"up", "down"} /\ dropped \in 0..MaxDrops
  /\ event \in {"none", "sent"}
  /\ campaignPage.row.status \in {"none", "RUNNING", "COMPLETED"}
  /\ queries.campaign.pc \in {"idle", "asked", "read"}
  /\ queries.messages.pc \in {"idle", "asked", "read"}
  /\ errors \in 0..MaxErrors

\* A page that is open comes to show the completed campaign with the end of each of
\* its messages, unless the event found the socket down, a query failed, or the page
\* had just read the campaign for the first time and not yet the answer.
CompletedIsSeen ==
  campaignPage.open ~>
    \/ campaignPage.row.status = "COMPLETED" /\ messagesPage = Outgoing
    \/ uninformed
-----------------------------------------------------------------------------
(* What every reachable state satisfies. *)

\* A message that was logged is counted, or about to be.
CountFollows ==
  campaignRow.processed + (IF counting.pc = "count" THEN 1 ELSE 0) = logged

\* The row that completes is the row as it is, with every message; so the status it
\* saves overwrites no count.
CompletesTheRow ==
  /\ counting.pc = "complete" => counting.row = campaignRow
  /\ counting.pc = "complete" \/ campaignRow.status = "COMPLETED" =>
       campaignRow.processed = Outgoing

\* What a page has read of the campaign was once so, and once COMPLETED it stays.
ReadIsTrue(row) ==
  /\ row.status \in {"none", "RUNNING", "COMPLETED"}
  /\ row.status = "COMPLETED" => campaignRow.status = "COMPLETED" /\ row.processed = Outgoing

LiveInvariant ==
  /\ LiveTypeOK
  /\ CountFollows /\ CompletesTheRow
  /\ ReadIsTrue(queries.campaign.row) /\ ReadIsTrue(campaignPage.row)
  /\ queries.messages.read \in -1..logged /\ messagesPage \in -1..logged
=============================================================================
