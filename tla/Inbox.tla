------------------------------- MODULE Inbox --------------------------------
(***************************************************************************)
(* The inbox of one user: the conversations list, a thread read page by    *)
(* page, and a reply.  Each is several database queries, between which     *)
(* messages arrive.  Contacts are neither made nor removed here; the list  *)
(* and the thread, which only read, are read one at a time.                *)
(***************************************************************************)
EXTENDS Integers, Sequences, FiniteSets

CONSTANTS
  Correspondents,  \* contacts
  PageSize,        \* the limit of getThread
  MaxInbox,        \* bound: messages in the log
  MaxMs            \* bound: milliseconds that pass

ASSUME PageSizeAssumption == PageSize \in Nat \ {0}
ASSUME InboxBounds == MaxInbox \in Nat /\ MaxMs \in Nat /\ IsFiniteSet(Correspondents)

VARIABLES
  ms,        \* the time
  messages,  \* the log: in the order of createdAt, which is kept in microseconds
  reader,    \* a client that reads a thread to its beginning
  list,      \* a listConversations request
  reply      \* whom a sendMessage request is for, while the session is asked

inboxVars == << ms, messages, reader, list, reply >>

Message == [who : Correspondents, direction : {"INBOUND", "OUTBOUND"},
            status : {"DELIVERED", "SENT", "FAILED"}, ms : 0..MaxMs]

\* A conversation of the list, with the last message it shows.
Conversation == [who : Correspondents, last : 1..MaxInbox, unread : Nat]

IdleReader == [pc |-> "idle", who |-> {}, size |-> 0, cursors |-> {}, got |-> {}]
IdleList   == [pc |-> "idle", last |-> 0, todo |-> <<>>, data |-> {}]

InboxInit ==
  /\ ms = 0 /\ messages = <<>>
  /\ reader = IdleReader /\ list = IdleList /\ reply = {}

Of(who)    == {i \in DOMAIN messages : messages[i].who \in who}
Inbound(S) == {i \in S : messages[i].direction = "INBOUND"}

\* ORDER BY "createdAt" DESC with a limit.
Newest(S, n) == {i \in S : Cardinality({j \in S : j > i}) < n}
Latest(S)      == CHOOSE i \in S : \A j \in S : j <= i
First(S)     == CHOOSE i \in S : \A j \in S : i <= j

Save(who, direction, status) ==
  /\ Len(messages) < MaxInbox
  /\ messages' = Append(messages, [who |-> who, direction |-> direction,
                                   status |-> status, ms |-> ms])

-----------------------------------------------------------------------------

PassMs == ms < MaxMs /\ ms' = ms + 1 /\ UNCHANGED << messages, reader, list, reply >>

\* The inbound processor logs a message.
LogInbound(c) ==
  /\ Save(c, "INBOUND", "DELIVERED")
  /\ UNCHANGED << ms, reader, list, reply >>

-----------------------------------------------------------------------------
(* getThread. *)

OpenThread(c) ==
  /\ reader = IdleReader /\ list = IdleList
  /\ reader' = [pc |-> "reading", who |-> {c}, size |-> Len(messages), cursors |-> {}, got |-> {}]
  /\ UNCHANGED << ms, messages, list, reply >>

\* A cursor is the oldest message read so far; its createdAt has come through a Date,
\* which keeps milliseconds.
BeforeCursor ==
  {i \in Of(reader.who) : reader.cursors = {} \/ messages[i].ms < messages[First(reader.cursors)].ms}

\* The limit, and one more to see that there is more; asked of the client that goes on
\* for as long as there is.
ReadPage(found) ==
  LET data    == Newest(found, PageSize)
      hasMore == Cardinality(found) > PageSize IN
  /\ reader.pc = "reading"
  /\ reader' = [pc |-> IF hasMore THEN "reading" ELSE "done",
                who |-> reader.who, size |-> reader.size, got |-> reader.got \cup data,
                cursors |-> reader.cursors \cup (IF hasMore THEN {First(data)} ELSE {})]
  /\ UNCHANGED << ms, messages, list, reply >>

\* Mutant: the query has the limit itself.
GetThreadLimited == ReadPage(Newest(BeforeCursor, PageSize))

GetThread == ReadPage(Newest(BeforeCursor, PageSize + 1))

CloseThread ==
  /\ reader.pc = "done" /\ reader' = IdleReader
  /\ UNCHANGED << ms, messages, list, reply >>

-----------------------------------------------------------------------------
(* listConversations: the contacts by their last message; for each, the last message
   and then the count of those unread.  Nothing makes an inbound message READ. *)

Writers == {c \in Correspondents : Of({c}) # {}}

ListConversations ==
  /\ reader = IdleReader /\ list = IdleList
  /\ \E contacts \in [1..Cardinality(Writers) -> Writers] :
       /\ \A i, j \in DOMAIN contacts :
            i < j => Latest(Of({contacts[i]})) > Latest(Of({contacts[j]}))
       /\ list' = [pc |-> "last", last |-> 0, todo |-> contacts, data |-> {}]
  /\ UNCHANGED << ms, messages, reader, reply >>

FindLast ==
  /\ list.pc = "last" /\ list.todo # <<>>
  /\ list' = [pc |-> "unread", last |-> Latest(Of({Head(list.todo)})),
              todo |-> list.todo, data |-> list.data]
  /\ UNCHANGED << ms, messages, reader, reply >>

AddConversation(c, unread, last) ==
  /\ list.pc = "unread"
  /\ list' = [pc |-> "last", last |-> list.last, todo |-> Tail(list.todo),
              data |-> list.data \cup {[who |-> c, last |-> last, unread |-> Cardinality(unread)]}]
  /\ UNCHANGED << ms, messages, reader, reply >>

\* Mutant: the unread of all conversations were counted with the query of the first.
CountUnreadEarly ==
  LET c == Head(list.todo) IN
  AddConversation(c, Inbound({i \in Of({c}) : i <= list.last}), Latest(Of({c})))

CountUnread ==
  LET c == Head(list.todo) IN AddConversation(c, Inbound(Of({c})), list.last)

Listed ==
  /\ list.pc = "last" /\ list.todo = <<>> /\ list' = IdleList
  /\ UNCHANGED << ms, messages, reader, reply >>

-----------------------------------------------------------------------------
(* sendMessage: the session is asked to send, and the log gets what it answers. *)

FindCorrespondent(c) ==
  /\ reply = {} /\ reply' = {c}
  /\ UNCHANGED << ms, messages, reader, list >>

\* The session has sent, or refused.
SaveReply ==
  /\ \E c \in reply, status \in {"SENT", "FAILED"} : Save(c, "OUTBOUND", status)
  /\ reply' = {}
  /\ UNCHANGED << ms, reader, list >>

\* The answer is lost, the save fails or the process ends: there is no entry.
ReplyFails ==
  /\ reply # {} /\ reply' = {}
  /\ UNCHANGED << ms, messages, reader, list >>

SendMessage ==
  (\E c \in Correspondents : FindCorrespondent(c)) \/ SaveReply \/ ReplyFails

InboxNext ==
  \/ PassMs
  \/ \E c \in Correspondents : LogInbound(c) \/ OpenThread(c)
  \/ GetThread \/ CloseThread
  \/ ListConversations \/ FindLast \/ CountUnread \/ Listed
  \/ SendMessage

InboxSpec == InboxInit /\ [][InboxNext]_inboxVars
-----------------------------------------------------------------------------
(* Properties. *)

\* Every variable keeps its type.
InboxTypeOK ==
  /\ ms \in 0..MaxMs
  /\ messages \in Seq(Message) /\ Len(messages) <= MaxInbox
  /\ reader \in [pc : {"idle", "reading", "done"}, who : SUBSET Correspondents,
                 size : 0..MaxInbox, cursors : SUBSET (1..MaxInbox), got : SUBSET (1..MaxInbox)]
  /\ list \in [pc : {"idle", "last", "unread"}, last : 0..MaxInbox,
               todo : Seq(Correspondents), data : SUBSET Conversation]
  /\ reply \subseteq Correspondents

\* Of the millisecond of a cursor, and older than it.
PassedOver(i) == \E c \in reader.cursors : i < c /\ messages[i].ms = messages[c].ms

\* A client that reads on until there is no more has every message of the contact that
\* was there when it began, whatever arrives meanwhile, but for those of the
\* millisecond of a cursor.
ThreadWhole ==
  reader.pc = "done" =>
    \A i \in Of(reader.who) : i <= reader.size => i \in reader.got \/ PassedOver(i)

\* A conversation whose last message is the contact's is not listed as read, and no
\* inbound message up to the one it shows is left out of the count.
UnreadIncludesLast ==
  \A c \in list.data :
    c.unread >= Cardinality(Inbound({i \in Of({c.who}) : i <= c.last}))
-----------------------------------------------------------------------------
(* What every reachable state satisfies: what is read, and what is yet to be.  *)

\* The log is in the order of its milliseconds, none of which is yet to come.
InOrder ==
  \A i, j \in DOMAIN messages :
    messages[i].ms <= ms /\ (i <= j => messages[i].ms <= messages[j].ms)

\* A client has messages of the thread alone, and its next pages the rest of them.
ReaderFits ==
  /\ reader.cursors \subseteq Of(reader.who) /\ reader.got \subseteq Of(reader.who)
  /\ reader.size <= Len(messages)
PagesToCome ==
  reader.pc = "reading" =>
    \A i \in Of(reader.who) :
      i <= reader.size => i \in reader.got \/ PassedOver(i) \/ i \in BeforeCursor

\* The list is of contacts with messages, and shows messages of the log.
ListFits ==
  /\ \A k \in DOMAIN list.todo : Of({list.todo[k]}) # {}
  /\ list.pc = "unread" => list.todo # <<>> /\ list.last \in DOMAIN messages
  /\ \A c \in list.data : c.last \in DOMAIN messages

InboxInvariant ==
  InboxTypeOK /\ InOrder /\ ReaderFits /\ PagesToCome /\ ThreadWhole /\ ListFits /\ UnreadIncludesLast
=============================================================================
