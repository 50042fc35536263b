------------------------------ MODULE Contacts ------------------------------
(***************************************************************************)
(* Contacts and groups: ContactsController over ContactsService, with the  *)
(* rows of contacts and the membership of one group.                       *)
(*                                                                         *)
(* A save writes back every column of the copy that differs from the row,  *)
(* so that a copy gone stale undoes what others wrote meanwhile, opt-outs  *)
(* and deletions included; rows are found with their soft-deleted state.   *)
(***************************************************************************)
EXTENDS Integers, FiniteSets

CONSTANTS
  Phones,       \* E.164 numbers: the key of a contact, with its user
  National,     \* those of Bangladesh, the default country
  NoPhone,      \* what PhoneNormalizerService answers to an invalid number
  Users,        \* the HTTP requests that may be in flight
  Operations,   \* those they may make
  MaxRequests   \* bound: requests admitted

ASSUME NoPhoneAssumption == NoPhone \notin Phones
ASSUME NationalAssumption == National \subseteq Phones
ASSUME OperationsAssumption ==
  Operations \subseteq {"create", "import", "update", "unsubscribe", "remove",
                        "addContactsToGroup", "removeContactsFromGroup", "updateGroup",
                        "deleteGroup"}
ASSUME RequestsAssumption == MaxRequests \in Nat

VARIABLES
  contact,   \* the row of a phone
  group,     \* the row of the group and its members
  request,   \* the requests in flight, with the copies they hold
  requests,  \* those admitted so far
  asked,     \* history: what the last operation on a contact asked for
  raced,     \* history: contacts a save of a stale copy has hit
  grouped,   \* history: the members asked for
  groupRaced \* history: a stale copy of the group was saved

contactVars == << contact, group, request, requests, asked, raced, grouped, groupRaced >>

Row      == [state : {"none", "live", "deleted"}, optedOut : BOOLEAN]
Fresh    == [state |-> "live", optedOut |-> FALSE]
Absent   == [state |-> "none", optedOut |-> FALSE]
Group    == [exists : BOOLEAN, members : SUBSET Phones]

ContactRequest ==
  [pc : {"idle", "find", "save", "insert", "remove", "group", "members", "saveGroup",
         "removeGroup"},
   op : Operations \cup {"none"}, todo : SUBSET Phones,
   phone : Phones \cup {NoPhone},
   optedOut : SUBSET BOOLEAN,   \* the dto's optedOut: empty when it has none
   copy : Row, member : BOOLEAN,  \* the contact read, and whether with the group
   group : Group]

\* A request that holds nothing, a contact, or the group.
NoGroup == [exists |-> FALSE, members |-> {}]

Asking(op, pc) ==
  [pc |-> pc, op |-> op, todo |-> {}, phone |-> NoPhone, optedOut |-> {},
   copy |-> Absent, member |-> FALSE, group |-> NoGroup]

HoldingContact(op, pc, p, row, asks, member) ==
  [pc |-> pc, op |-> op, todo |-> {}, phone |-> p, optedOut |-> asks,
   copy |-> row, member |-> member, group |-> NoGroup]

HoldingGroup(op, pc, todo, members) ==
  [pc |-> pc, op |-> op, todo |-> todo, phone |-> NoPhone, optedOut |-> {},
   copy |-> Absent, member |-> FALSE, group |-> [exists |-> TRUE, members |-> members]]

IdleRequest == Asking("none", "idle")

ContactsInit ==
  /\ contact = [p \in Phones |-> Absent]
  /\ group = [exists |-> TRUE, members |-> {}]
  /\ request = [u \in Users |-> IdleRequest]
  /\ requests = 0
  /\ asked = contact
  /\ raced = {}
  /\ grouped = {}
  /\ groupRaced = FALSE

-----------------------------------------------------------------------------

\* The response; an import may have a next row, whatever became of this one.
Answer(u) ==
  \/ request' = [request EXCEPT ![u] = IdleRequest]
  \/ /\ request[u].op = "import"
     /\ request' = [request EXCEPT ![u] = Asking("import", "find")]

\* A number as users type it: +880171..., 0171..., 880171..., or no number at all.
RawPhone == [style : {"plus", "national", "digits", "junk"}, of : Phones]

\* Parsed as a number of the default country, then with a + before its digits.
Normalize(raw) ==
  IF raw.style = "plus" \/ (raw.style # "junk" /\ raw.of \in National)
     \/ raw.style = "digits"
  THEN raw.of ELSE NoPhone

\* A contact is named by a raw number or, when it has an id, by its phone.
NewContactRequest(u) ==
  /\ request[u].pc = "idle" /\ requests < MaxRequests
  /\ requests' = requests + 1
  /\ \E op \in Operations :
       request' = [request EXCEPT ![u] = Asking(op,
         IF op \in {"create", "import", "update", "unsubscribe", "remove"} THEN "find" ELSE "group")]
  /\ UNCHANGED << contact, group, asked, raced, grouped, groupRaced >>

\* What create and processCsvBatch do with a row whose number is invalid, and
\* findById with one that is not there: 409, a skipped row, 404.
FindContact(u) ==
  /\ request[u].pc = "find"
  /\ \/ /\ request[u].op \in {"create", "import"}
        /\ \E raw \in RawPhone :
             LET p == Normalize(raw) IN
             IF p = NoPhone THEN Answer(u)
             ELSE request' = [request EXCEPT ![u] = HoldingContact(request[u].op,
                    IF contact[p].state = "live" THEN "save" ELSE "insert",
                    p, contact[p], {}, FALSE)]
     \/ /\ request[u].op \in {"update", "unsubscribe", "remove"}
        /\ \E p \in Phones, asks \in {{}, {TRUE}, {FALSE}} :
             /\ request[u].op = "remove" => asks = {}
             /\ request[u].op = "unsubscribe" => asks = {TRUE}
             /\ request' = [request EXCEPT ![u] =
                  IF contact[p].state # "live" THEN IdleRequest
                  ELSE HoldingContact(request[u].op,
                         IF request[u].op = "remove" THEN "remove" ELSE "save",
                         p, contact[p], asks, p \in group.members)]
  /\ UNCHANGED << contact, group, requests, asked, raced, grouped, groupRaced >>

\* contactRepository.save of a copy, changed by what was asked for.
Edited(row, asks) ==
  [state |-> row.state,
   optedOut |-> IF asks = {} THEN row.optedOut ELSE CHOOSE b \in asks : TRUE]

SaveCopy(p, copy, asks) ==
  /\ contact' = [contact EXCEPT ![p] = Edited(copy, asks)]
  /\ asked' = [asked EXCEPT ![p] = Edited(asked[p], asks)]
  /\ raced' = IF copy = contact[p] THEN raced ELSE raced \cup {p}

\* Mutant: an upsert saves a new contact's columns over the row.
SaveContactAfresh(u) ==
  /\ request[u].pc = "save"
  /\ contact' = [contact EXCEPT ![request[u].phone] =
                   IF request[u].op \in {"create", "import"} THEN Fresh
                                                             ELSE request[u].copy]
  /\ Answer(u)
  /\ UNCHANGED << group, requests, asked, raced, grouped, groupRaced >>

\* findById reads the contact with its groups, and saving it saves those too: a
\* membership that came or went meanwhile is undone.
SaveMembership(u) ==
  LET p == request[u].phone IN
  IF request[u].op \notin {"update", "remove"} \/ (request[u].member <=> p \in group.members)
    THEN UNCHANGED << group, groupRaced >>
    ELSE /\ group.exists
         /\ group' = [exists |-> TRUE, members |->
              IF request[u].member THEN group.members \cup {p} ELSE group.members \ {p}]
         /\ groupRaced' = TRUE

\* create, importFromCsv and update of a contact that was there, and
\* unsubscribeContact of the public API.
SaveContact(u) ==
  /\ request[u].pc = "save"
  /\ SaveCopy(request[u].phone, request[u].copy, request[u].optedOut)
  /\ SaveMembership(u)
  /\ Answer(u)
  /\ UNCHANGED << requests, grouped >>

\* The unique key on user and phone refuses a second row, also when the first is
\* soft-deleted and findOne does not see it: 500, or a skipped row of the import.
Insert(p) == contact[p].state = "none" /\ contact' = [contact EXCEPT ![p] = Fresh]
             /\ asked' = [asked EXCEPT ![p] = Fresh]

InsertContact(u) ==
  /\ request[u].pc = "insert"
  /\ \/ Insert(request[u].phone)
     \/ contact[request[u].phone].state # "none" /\ UNCHANGED << contact, asked >>
  /\ Answer(u)
  /\ UNCHANGED << group, requests, raced, grouped, groupRaced >>

Deleted(row) == [state |-> "deleted", optedOut |-> row.optedOut]

\* softRemove writes deletedAt, and the groups read.
RemoveContact(u) ==
  /\ request[u].pc = "remove"
  /\ LET p == request[u].phone IN
       /\ contact' = [contact EXCEPT ![p] = Deleted(contact[p])]
       /\ asked' = [asked EXCEPT ![p] = Deleted(asked[p])]
  /\ SaveMembership(u)
  /\ Answer(u)
  /\ UNCHANGED << requests, raced, grouped >>

-----------------------------------------------------------------------------
(* Groups. *)

\* findGroupById with its contacts, the soft-deleted ones left out; 404.
FindGroup(u) ==
  /\ request[u].pc = "group"
  /\ LET live == {p \in group.members : contact[p].state = "live"} IN
     IF ~group.exists THEN Answer(u)
     ELSE request' = [request EXCEPT ![u] = HoldingGroup(request[u].op,
            IF request[u].op = "addContactsToGroup" THEN "members" ELSE "saveGroup",
            {}, live)]
  /\ UNCHANGED << contact, group, requests, asked, raced, grouped, groupRaced >>

\* addContactsToGroup looks up the contacts to add; none: 404.
FindMembers(u) ==
  /\ request[u].pc = "members"
  /\ \E ps \in SUBSET Phones \ {{}} :
       LET found == {p \in ps : contact[p].state = "live"} IN
       request' = [request EXCEPT ![u] =
         IF found = {} THEN IdleRequest
         ELSE HoldingGroup(request[u].op, "saveGroup", found, request[u].group.members)]
  /\ UNCHANGED << contact, group, requests, asked, raced, grouped, groupRaced >>

\* Mutant: contacts are added without those the group has.
RegroupAddsOnly(u, members, change) ==
  /\ group' = [exists |-> TRUE, members |-> members \ group.members]
  /\ grouped' = {p \in change : contact[p].state = "live"}
  /\ UNCHANGED groupRaced

\* groupRepository.save makes the members those of the copy, and inserts the
\* group again when it was deleted meanwhile; who was found live to be added may
\* have been removed meanwhile too.
Regroup(u, members, change) ==
  /\ group' = [exists |-> TRUE, members |-> members]
  /\ grouped' = {p \in change : contact[p].state = "live"}
  /\ groupRaced' = (groupRaced \/ ~group.exists
       \/ request[u].group.members # {p \in group.members : contact[p].state = "live"}
       \/ \E p \in request[u].todo : contact[p].state # "live")

SaveGroup(u) ==
  LET copy == request[u].group.members IN
  /\ request[u].pc = "saveGroup"
  /\ \/ /\ request[u].op = "addContactsToGroup"
        /\ Regroup(u, copy \cup request[u].todo, grouped \cup request[u].todo)
     \/ /\ request[u].op = "removeContactsFromGroup"
        /\ \E ps \in SUBSET Phones \ {{}} : Regroup(u, copy \ ps, grouped \ ps)
     \/ request[u].op = "updateGroup" /\ Regroup(u, copy, grouped)
     \/ request[u].op = "deleteGroup" /\ Regroup(u, {}, {})
  /\ IF request[u].op = "deleteGroup"
       THEN request' = [request EXCEPT ![u] = Asking("deleteGroup", "removeGroup")]
       ELSE Answer(u)
  /\ UNCHANGED << contact, requests, asked, raced >>

\* The members added since deleteGroup emptied the group go with it.
RemoveGroup(u) ==
  /\ request[u].pc = "removeGroup"
  /\ group' = [exists |-> FALSE, members |-> {}]
  /\ grouped' = {}
  /\ Answer(u)
  /\ UNCHANGED << contact, requests, asked, raced, groupRaced >>

\* A database error: 500, or a row of the import skipped.
ContactRequestFails(u) ==
  /\ request[u].pc # "idle" /\ Answer(u)
  /\ UNCHANGED << contact, group, requests, asked, raced, grouped, groupRaced >>

ContactStep(u) ==
  \/ NewContactRequest(u) \/ FindContact(u) \/ SaveContact(u) \/ InsertContact(u)
  \/ RemoveContact(u) \/ FindGroup(u) \/ FindMembers(u) \/ SaveGroup(u) \/ RemoveGroup(u)
  \/ ContactRequestFails(u)

ContactsNext == \E u \in Users : ContactStep(u)

ContactsSpec == ContactsInit /\ [][ContactsNext]_contactVars

-----------------------------------------------------------------------------
(* Properties. *)

\* Every variable keeps its type.
ContactsTypeOK ==
  /\ contact \in [Phones -> Row] /\ asked \in [Phones -> Row]
  /\ group \in Group /\ grouped \subseteq Phones /\ groupRaced \in BOOLEAN
  /\ request \in [Users -> ContactRequest]
  /\ requests \in 0..MaxRequests
  /\ raced \subseteq Phones
  /\ \A u \in Users : request[u].pc \in {"save", "insert", "remove"} => request[u].phone \in Phones

\* Whoever opts out stays out until asked back, and whoever is deleted stays
\* deleted, through upserts, imports and edits, in any spelling of the number:
\* only a save that raced with another of the same contact may undo it.
RowAsAsked == \A p \in Phones \ raced : contact[p] = asked[p]

\* The live members of the group are those the users asked for, unless two of
\* them changed the group, or the group and a contact, at once.
GroupAsAsked ==
  groupRaced \/ ~group.exists
    \/ {p \in group.members : contact[p].state = "live"}
         = {p \in grouped : contact[p].state = "live"}
=============================================================================
