--------------------------- MODULE ContactsProofs ---------------------------
(***************************************************************************)
(* Proofs about Contacts: an opt-out and a deletion stay and the group     *)
(* keeps the members asked for, for any numbers of phones and requests in  *)
(* flight.                                                                 *)
(***************************************************************************)
EXTENDS Contacts, TLAPS

-----------------------------------------------------------------------------
(* Contacts and the group. *)

\* The group has the members asked for, live or not: nothing but the cases of
\* groupRaced lets the two sets differ.
MembersAsAsked == groupRaced \/ ~group.exists \/ group.members = grouped

ContactsInvariant == ContactsTypeOK /\ RowAsAsked /\ MembersAsAsked

\* A request that is to write a contact names one.
RequestOK(r) == r \in ContactRequest /\ (r.pc \in {"save", "insert", "remove"} => r.phone \in Phones)

\* What a request holds, from one step to the next.
LEMMA Askings ==
  ASSUME NEW op \in Operations \cup {"none"},
         NEW pc \in {"idle", "find", "group", "removeGroup"}
  PROVE  RequestOK(Asking(op, pc))
  BY DEF RequestOK, Asking, ContactRequest, Row, Absent, NoGroup, Group

LEMMA HoldingContacts ==
  ASSUME NEW op \in Operations \cup {"none"}, NEW pc \in {"save", "insert", "remove"},
         NEW p \in Phones, NEW row \in Row, NEW asks \in SUBSET BOOLEAN, NEW member \in BOOLEAN
  PROVE  RequestOK(HoldingContact(op, pc, p, row, asks, member))
  BY DEF RequestOK, HoldingContact, ContactRequest, NoGroup, Group

LEMMA HoldingGroups ==
  ASSUME NEW op \in Operations \cup {"none"}, NEW pc \in {"members", "saveGroup"},
         NEW todo \in SUBSET Phones, NEW members \in SUBSET Phones
  PROVE  RequestOK(HoldingGroup(op, pc, todo, members))
  BY DEF RequestOK, HoldingGroup, ContactRequest, Row, Absent, Group

\* The type of the requests, kept when one of them moves on.
RequestsOK == request \in [Users -> ContactRequest] /\ \A u \in Users : RequestOK(request[u])

LEMMA RequestMoves ==
  ASSUME RequestsOK, NEW u \in Users, NEW r, RequestOK(r), request' = [request EXCEPT ![u] = r]
  PROVE  RequestsOK'
  BY DEF RequestsOK, RequestOK

LEMMA Answers ==
  ASSUME RequestsOK, NEW u \in Users, Answer(u)
  PROVE  RequestsOK'
<1>1. CASE request' = [request EXCEPT ![u] = IdleRequest]
  <2>1. RequestOK(Asking("none", "idle"))
    BY Askings
  <2> QED BY <1>1, <2>1, RequestMoves DEF IdleRequest
<1>2. CASE request[u].op = "import" /\ request' = [request EXCEPT ![u] = Asking("import", "find")]
  <2>1. "import" \in Operations \cup {"none"}
    BY <1>2 DEF RequestsOK, ContactRequest
  <2>2. RequestOK(Asking("import", "find"))
    BY <2>1, Askings
  <2> QED BY <1>2, <2>2, RequestMoves
<1> QED BY <1>1, <1>2 DEF Answer

\* The type of the rows.
RowsOK ==
  /\ contact \in [Phones -> Row] /\ asked \in [Phones -> Row]
  /\ group \in Group /\ grouped \subseteq Phones /\ groupRaced \in BOOLEAN
  /\ raced \subseteq Phones

LEMMA TypeParts == ContactsTypeOK <=> RowsOK /\ RequestsOK /\ requests \in 0..MaxRequests
  BY DEF ContactsTypeOK, RowsOK, RequestsOK, RequestOK

-----------------------------------------------------------------------------
(* Writes of a contact: RowAsAsked is inductive. *)

LEMMA CopiesSaved ==
  ASSUME RowsOK, RowAsAsked, NEW p \in Phones, NEW copy \in Row, NEW asks \in SUBSET BOOLEAN,
         SaveCopy(p, copy, asks)
  PROVE  /\ RowAsAsked'
         /\ contact' \in [Phones -> Row] /\ asked' \in [Phones -> Row] /\ raced' \subseteq Phones
<1>1. ASSUME NEW row \in Row
      PROVE  Edited(row, asks) \in Row
  <2>1. row.state \in {"none", "live", "deleted"} /\ row.optedOut \in BOOLEAN
    BY DEF Row
  <2>2. asks # {} => (CHOOSE b \in asks : TRUE) \in BOOLEAN
    OBVIOUS
  <2> QED BY <2>1, <2>2 DEF Edited, Row
<1>a. Edited(copy, asks) \in Row
  BY <1>1
<1>b. asked[p] \in Row /\ contact \in [Phones -> Row] /\ asked \in [Phones -> Row]
  BY DEF RowsOK
<1>c. Edited(asked[p], asks) \in Row
  BY <1>1, <1>b
<1>2. contact' \in [Phones -> Row] /\ asked' \in [Phones -> Row] /\ raced' \subseteq Phones
  BY <1>a, <1>b, <1>c DEF SaveCopy, RowsOK
<1>3. ASSUME NEW q \in Phones \ raced'
      PROVE  contact'[q] = asked'[q]
  <2>1. CASE q = p
    <3>1. copy = contact[p] /\ p \notin raced
      BY <1>3, <2>1 DEF SaveCopy
    <3>2. copy = asked[p]
      BY <3>1 DEF RowAsAsked
    <3> QED BY <2>1, <3>1, <3>2 DEF SaveCopy, RowsOK
  <2>2. CASE q # p
    BY <1>3, <2>2 DEF SaveCopy, RowsOK, RowAsAsked
  <2> QED BY <2>1, <2>2
<1> QED BY <1>2, <1>3 DEF RowAsAsked

LEMMA Inserted ==
  ASSUME RowsOK, RowAsAsked, NEW p \in Phones, Insert(p), UNCHANGED raced
  PROVE  RowAsAsked' /\ contact' \in [Phones -> Row] /\ asked' \in [Phones -> Row]
  BY DEF RowsOK, RowAsAsked, Insert, Row, Fresh

LEMMA Removed ==
  ASSUME RowsOK, RowAsAsked, NEW p \in Phones, UNCHANGED raced,
         contact' = [contact EXCEPT ![p] = Deleted(contact[p])],
         asked' = [asked EXCEPT ![p] = Deleted(asked[p])]
  PROVE  RowAsAsked' /\ contact' \in [Phones -> Row] /\ asked' \in [Phones -> Row]
<1>1. \A row \in Row : Deleted(row) \in Row
  BY DEF Deleted, Row
<1> QED BY <1>1 DEF RowsOK, RowAsAsked

\* A membership that is put back sets groupRaced.
LEMMA MembershipSaved ==
  ASSUME RowsOK, RequestsOK, MembersAsAsked, NEW u \in Users, request[u].phone \in Phones,
         SaveMembership(u), UNCHANGED grouped
  PROVE  MembersAsAsked' /\ group' \in Group /\ groupRaced' \in BOOLEAN
<1> DEFINE p == request[u].phone
<1>1. CASE UNCHANGED << group, groupRaced >>
  BY <1>1 DEF RowsOK, MembersAsAsked
<1>2. CASE /\ group' = [exists |-> TRUE, members |->
                IF request[u].member THEN group.members \cup {p} ELSE group.members \ {p}]
           /\ groupRaced' = TRUE
  <2>1. group.members \in SUBSET Phones /\ group.members \cup {p} \in SUBSET Phones
    BY DEF RowsOK, Group
  <2> QED BY <1>2, <2>1 DEF Group, MembersAsAsked
<1> QED BY <1>1, <1>2 DEF SaveMembership

\* A group saved from a copy that is not stale has the members asked for.
LEMMA Regrouped ==
  ASSUME RowsOK, MembersAsAsked, NEW u \in Users, NEW members \in SUBSET Phones,
         NEW change \in SUBSET Phones, Regroup(u, members, change),
         ~groupRaced' => members = {p \in change : contact[p].state = "live"}
  PROVE  MembersAsAsked' /\ group' \in Group /\ grouped' \subseteq Phones /\ groupRaced' \in BOOLEAN
  BY DEF RowsOK, MembersAsAsked, Regroup, Group

-----------------------------------------------------------------------------
(* The steps of the requests. *)

LEMMA ContactsHold ==
  ASSUME ContactsTypeOK, ContactsInvariant, RowsOK', RequestsOK', (requests \in 0..MaxRequests)',
         RowAsAsked', MembersAsAsked'
  PROVE  ContactsInvariant'
  BY DEF ContactsInvariant, ContactsTypeOK, RowsOK, RequestsOK, RequestOK

LEMMA FindingContacts ==
  ASSUME ContactsInvariant, NEW u \in Users, FindContact(u)
  PROVE  ContactsInvariant'
<1>1. RowsOK /\ RequestsOK /\ requests \in 0..MaxRequests /\ RowAsAsked /\ MembersAsAsked
  BY TypeParts DEF ContactsInvariant
<1>2. request[u].op \in Operations \cup {"none"} /\ contact \in [Phones -> Row]
  BY <1>1 DEF RequestsOK, RowsOK, ContactRequest
<1>3. UNCHANGED << contact, group, requests, asked, raced, grouped, groupRaced >>
  BY DEF FindContact
<1>4. RequestsOK'
  <2>1. ASSUME NEW raw \in RawPhone, NEW p, p = Normalize(raw), p # NoPhone,
               request' = [request EXCEPT ![u] = HoldingContact(request[u].op,
                    IF contact[p].state = "live" THEN "save" ELSE "insert",
                    p, contact[p], {}, FALSE)]
        PROVE  RequestsOK'
    <3>1. p \in Phones
      BY <2>1 DEF RawPhone, Normalize
    <3>2. RequestOK(HoldingContact(request[u].op,
                    IF contact[p].state = "live" THEN "save" ELSE "insert",
                    p, contact[p], {}, FALSE))
      BY <1>2, <3>1, HoldingContacts
    <3> QED BY <1>1, <2>1, <3>2, RequestMoves
  <2>2. ASSUME NEW p \in Phones, NEW asks \in {{}, {TRUE}, {FALSE}},
               contact[p].state = "live",
               request' = [request EXCEPT ![u] = HoldingContact(request[u].op,
                         IF request[u].op = "remove" THEN "remove" ELSE "save",
                         p, contact[p], asks, p \in group.members)]
        PROVE  RequestsOK'
    <3>1. PICK member \in BOOLEAN : member = (p \in group.members)
      <4>1. CASE p \in group.members
        <5>1. (p \in group.members) = TRUE
          BY <4>1
        <5> QED BY <5>1, Zenon
      <4>2. CASE p \notin group.members
        <5>1. (p \in group.members) = FALSE
          BY <4>2
        <5> QED BY <5>1, Zenon
      <4> QED BY <4>1, <4>2
    <3>2. RequestOK(HoldingContact(request[u].op,
                         IF request[u].op = "remove" THEN "remove" ELSE "save",
                         p, contact[p], asks, member))
      BY <1>2, HoldingContacts
    <3>3. request' = [request EXCEPT ![u] = HoldingContact(request[u].op,
                         IF request[u].op = "remove" THEN "remove" ELSE "save",
                         p, contact[p], asks, member)]
      BY <2>2, <3>1, Zenon
    <3> QED BY <1>1, <3>2, <3>3, RequestMoves
  <2>3. ASSUME request' = [request EXCEPT ![u] = IdleRequest]
        PROVE  RequestsOK'
    <3>1. Answer(u)
      BY <2>3 DEF Answer
    <3> QED BY <1>1, <3>1, Answers
  <2>4. ASSUME Answer(u)
        PROVE  RequestsOK'
    BY <1>1, <2>4, Answers
  <2>5. CASE request[u].op \in {"create", "import"} /\
             \E raw \in RawPhone :
               LET p == Normalize(raw) IN
               IF p = NoPhone THEN Answer(u)
               ELSE request' = [request EXCEPT ![u] = HoldingContact(request[u].op,
                    IF contact[p].state = "live" THEN "save" ELSE "insert",
                    p, contact[p], {}, FALSE)]
    BY <2>1, <2>4, <2>5
  <2>6. CASE request[u].op \in {"update", "unsubscribe", "remove"} /\
             \E p \in Phones, asks \in {{}, {TRUE}, {FALSE}} :
               /\ request[u].op = "remove" => asks = {}
               /\ request[u].op = "unsubscribe" => asks = {TRUE}
               /\ request' = [request EXCEPT ![u] =
                    IF contact[p].state # "live" THEN IdleRequest
                    ELSE HoldingContact(request[u].op,
                         IF request[u].op = "remove" THEN "remove" ELSE "save",
                         p, contact[p], asks, p \in group.members)]
    BY <2>2, <2>3, <2>6
  <2> QED BY <2>5, <2>6 DEF FindContact
<1> QED BY <1>1, <1>3, <1>4, ContactsHold DEF ContactsInvariant, RowsOK, RowAsAsked, MembersAsAsked

LEMMA SavingContacts ==
  ASSUME ContactsInvariant, NEW u \in Users,
         SaveContact(u) \/ InsertContact(u) \/ RemoveContact(u)
  PROVE  ContactsInvariant'
<1>1. RowsOK /\ RequestsOK /\ requests \in 0..MaxRequests /\ RowAsAsked /\ MembersAsAsked
  BY TypeParts DEF ContactsInvariant
<1>2. request[u].pc \in {"save", "insert", "remove"} /\ Answer(u) /\ UNCHANGED requests
  BY DEF SaveContact, InsertContact, RemoveContact
<1>3. /\ request[u].phone \in Phones /\ request[u].copy \in Row
      /\ request[u].optedOut \in SUBSET BOOLEAN
  BY <1>1, <1>2 DEF RequestsOK, RequestOK, ContactRequest
<1>4. RequestsOK'
  BY <1>1, <1>2, Answers
<1>5. CASE SaveContact(u)
  <2>1. /\ SaveCopy(request[u].phone, request[u].copy, request[u].optedOut)
        /\ SaveMembership(u) /\ UNCHANGED grouped
    BY <1>5 DEF SaveContact
  <2>2. /\ RowAsAsked'
        /\ contact' \in [Phones -> Row] /\ asked' \in [Phones -> Row] /\ raced' \subseteq Phones
    BY <1>1, <1>3, <2>1, CopiesSaved
  <2>3. MembersAsAsked' /\ group' \in Group /\ groupRaced' \in BOOLEAN
    BY <1>1, <1>3, <2>1, MembershipSaved
  <2>4. RowsOK'
    BY <1>1, <2>1, <2>2, <2>3 DEF RowsOK
  <2> QED BY <1>1, <1>2, <1>4, <2>2, <2>3, <2>4, ContactsHold DEF ContactsInvariant
<1>6. CASE InsertContact(u)
  <2>1. UNCHANGED << group, raced, grouped, groupRaced >>
    BY <1>6 DEF InsertContact
  <2>2. RowAsAsked' /\ contact' \in [Phones -> Row] /\ asked' \in [Phones -> Row]
    <3>1. CASE Insert(request[u].phone)
      BY <1>1, <1>3, <2>1, <3>1, Inserted
    <3>2. CASE UNCHANGED << contact, asked >>
      BY <1>1, <2>1, <3>2 DEF RowAsAsked, RowsOK
    <3> QED BY <1>6, <3>1, <3>2 DEF InsertContact
  <2>3. MembersAsAsked'
    BY <1>1, <2>1 DEF MembersAsAsked
  <2>4. RowsOK'
    BY <1>1, <2>1, <2>2 DEF RowsOK
  <2> QED BY <1>1, <1>2, <1>4, <2>2, <2>3, <2>4, ContactsHold DEF ContactsInvariant
<1>7. CASE RemoveContact(u)
  <2>1. SaveMembership(u) /\ UNCHANGED << raced, grouped >>
    BY <1>7 DEF RemoveContact
  <2>2. RowAsAsked' /\ contact' \in [Phones -> Row] /\ asked' \in [Phones -> Row]
    <3>1. PICK p \in Phones : p = request[u].phone
      BY <1>3
    <3>2. /\ contact' = [contact EXCEPT ![p] = Deleted(contact[p])]
          /\ asked' = [asked EXCEPT ![p] = Deleted(asked[p])]
      BY <1>7, <3>1 DEF RemoveContact
    <3> QED BY <1>1, <2>1, <3>2, Removed
  <2>3. MembersAsAsked' /\ group' \in Group /\ groupRaced' \in BOOLEAN
    BY <1>1, <1>3, <2>1, MembershipSaved
  <2>4. RowsOK'
    BY <1>1, <2>1, <2>2, <2>3 DEF RowsOK
  <2> QED BY <1>1, <1>2, <1>4, <2>2, <2>3, <2>4, ContactsHold DEF ContactsInvariant
<1> QED BY <1>5, <1>6, <1>7

LEMMA Grouping ==
  ASSUME ContactsInvariant, NEW u \in Users,
         FindGroup(u) \/ FindMembers(u) \/ SaveGroup(u) \/ RemoveGroup(u)
  PROVE  ContactsInvariant'
<1>1. RowsOK /\ RequestsOK /\ requests \in 0..MaxRequests /\ RowAsAsked /\ MembersAsAsked
  BY TypeParts DEF ContactsInvariant
<1>2. /\ request[u].op \in Operations \cup {"none"} /\ request[u].todo \in SUBSET Phones
      /\ request[u].group.members \in SUBSET Phones
  BY <1>1 DEF RequestsOK, ContactRequest, Group
<1>3. UNCHANGED << contact, requests, asked, raced >>
  BY DEF FindGroup, FindMembers, SaveGroup, RemoveGroup
<1>4. group.members \in SUBSET Phones /\ grouped \in SUBSET Phones /\ groupRaced \in BOOLEAN
  BY <1>1 DEF RowsOK, Group
<1>5. RowAsAsked'
  BY <1>1, <1>3 DEF RowAsAsked
<1>6. CASE FindGroup(u)
  <2>1. UNCHANGED << group, grouped, groupRaced >>
    BY <1>6 DEF FindGroup
  <2>2. RequestsOK'
    <3>1. CASE Answer(u)
      BY <1>1, <3>1, Answers
    <3>2. CASE request' = [request EXCEPT ![u] = HoldingGroup(request[u].op,
                 IF request[u].op = "addContactsToGroup" THEN "members" ELSE "saveGroup",
                 {}, {p \in group.members : contact[p].state = "live"})]
      <4>1. {p \in group.members : contact[p].state = "live"} \in SUBSET Phones
        BY <1>4
      <4>2. RequestOK(HoldingGroup(request[u].op,
                 IF request[u].op = "addContactsToGroup" THEN "members" ELSE "saveGroup",
                 {}, {p \in group.members : contact[p].state = "live"}))
        BY <1>2, <4>1, HoldingGroups
      <4> QED BY <1>1, <3>2, <4>2, RequestMoves
    <3> QED BY <1>6, <3>1, <3>2 DEF FindGroup
  <2>3. RowsOK' /\ MembersAsAsked'
    BY <1>1, <1>3, <2>1 DEF RowsOK, MembersAsAsked
  <2> QED BY <1>1, <1>3, <1>5, <2>2, <2>3, ContactsHold DEF ContactsInvariant
<1>7. CASE FindMembers(u)
  <2>1. UNCHANGED << group, grouped, groupRaced >>
    BY <1>7 DEF FindMembers
  <2>2. PICK ps \in SUBSET Phones :
          request' = [request EXCEPT ![u] =
             IF {p \in ps : contact[p].state = "live"} = {} THEN IdleRequest
             ELSE HoldingGroup(request[u].op, "saveGroup",
                    {p \in ps : contact[p].state = "live"}, request[u].group.members)]
    BY <1>7 DEF FindMembers
  <2>3. PICK found \in SUBSET Phones : found = {p \in ps : contact[p].state = "live"}
    OBVIOUS
  <2>4. RequestsOK'
    <3>1. CASE found = {}
      <4>1. Answer(u)
        BY <2>2, <2>3, <3>1 DEF Answer
      <4> QED BY <1>1, <4>1, Answers
    <3>2. CASE found # {}
      <4>1. RequestOK(HoldingGroup(request[u].op, "saveGroup", found, request[u].group.members))
        BY <1>2, HoldingGroups
      <4>2. request' = [request EXCEPT ![u] =
               HoldingGroup(request[u].op, "saveGroup", found, request[u].group.members)]
        BY <2>2, <2>3, <3>2
      <4> QED BY <1>1, <4>1, <4>2, RequestMoves
    <3> QED BY <3>1, <3>2
  <2>5. RowsOK' /\ MembersAsAsked'
    BY <1>1, <1>3, <2>1 DEF RowsOK, MembersAsAsked
  <2> QED BY <1>1, <1>3, <1>5, <2>4, <2>5, ContactsHold DEF ContactsInvariant
<1>8. CASE SaveGroup(u)
  <2> DEFINE copy == request[u].group.members
             todo == request[u].todo
             Live(ps) == {p \in ps : contact[p].state = "live"}
  <2>1. RequestsOK'
    <3>1. CASE Answer(u)
      BY <1>1, <3>1, Answers
    <3>2. CASE request[u].op = "deleteGroup"
               /\ request' = [request EXCEPT ![u] = Asking("deleteGroup", "removeGroup")]
      <4>1. "deleteGroup" \in Operations \cup {"none"}
        BY <1>2, <3>2
      <4>2. RequestOK(Asking("deleteGroup", "removeGroup"))
        BY <4>1, Askings
      <4> QED BY <1>1, <3>2, <4>2, RequestMoves
    <3> QED BY <1>8, <3>1, <3>2 DEF SaveGroup
  \* The members saved are those asked for, unless the save sets groupRaced: what
  \* is not stale are the live members, and so the live ones of those asked for.
  <2>2. ASSUME NEW members, NEW change, Regroup(u, members, change), ~groupRaced'
        PROVE  /\ copy = Live(group.members) /\ Live(todo) = todo
               /\ group.members = grouped
    BY <1>1, <2>2 DEF Regroup, MembersAsAsked
  <2>3. MembersAsAsked' /\ group' \in Group /\ grouped' \subseteq Phones /\ groupRaced' \in BOOLEAN
    <3>1. CASE Regroup(u, copy \cup todo, grouped \cup todo)
      <4>1. ~groupRaced' => copy \cup todo = Live(grouped \cup todo)
        BY <2>2, <3>1
      <4>2. copy \cup todo \in SUBSET Phones /\ grouped \cup todo \in SUBSET Phones
        BY <1>2, <1>4
      <4> QED BY <1>1, <3>1, <4>1, <4>2, Regrouped
    <3>2. ASSUME NEW ps \in SUBSET Phones, Regroup(u, copy \ ps, grouped \ ps)
          PROVE  /\ MembersAsAsked' /\ group' \in Group
                 /\ grouped' \subseteq Phones /\ groupRaced' \in BOOLEAN
      <4>1. ~groupRaced' => copy \ ps = Live(grouped \ ps)
        BY <2>2, <3>2
      <4>2. copy \ ps \in SUBSET Phones /\ grouped \ ps \in SUBSET Phones
        BY <1>2, <1>4
      <4> QED BY <1>1, <3>2, <4>1, <4>2, Regrouped
    <3>3. CASE Regroup(u, copy, grouped)
      <4>1. ~groupRaced' => copy = Live(grouped)
        BY <2>2, <3>3
      <4> QED BY <1>1, <1>2, <1>4, <3>3, <4>1, Regrouped
    <3>4. CASE Regroup(u, {}, {})
      BY <1>1, <3>4, Regrouped
    <3> QED BY <1>8, <3>1, <3>2, <3>3, <3>4 DEF SaveGroup
  <2>4. RowsOK'
    BY <1>1, <1>3, <2>3 DEF RowsOK
  <2> QED BY <1>1, <1>3, <1>5, <2>1, <2>3, <2>4, ContactsHold DEF ContactsInvariant
<1>9. CASE RemoveGroup(u)
  <2>1. RequestsOK'
    BY <1>1, <1>9, Answers DEF RemoveGroup
  <2>2. group' \in Group /\ grouped' \subseteq Phones /\ groupRaced' \in BOOLEAN /\ MembersAsAsked'
    BY <1>4, <1>9 DEF RemoveGroup, Group, MembersAsAsked
  <2>3. RowsOK'
    BY <1>1, <1>3, <2>2 DEF RowsOK
  <2> QED BY <1>1, <1>3, <1>5, <2>1, <2>2, <2>3, ContactsHold DEF ContactsInvariant
<1> QED BY <1>6, <1>7, <1>8, <1>9

\* The steps of the requests keep the rows as asked and the members as asked.
LEMMA ContactSteps ==
  ASSUME ContactsInvariant, ContactsNext
  PROVE  ContactsInvariant'
<1>1. PICK u \in Users : ContactStep(u)
  BY DEF ContactsNext
<1>2. RowsOK /\ RequestsOK /\ requests \in 0..MaxRequests /\ RowAsAsked /\ MembersAsAsked
  BY TypeParts DEF ContactsInvariant
<1>3. CASE NewContactRequest(u)
  <2>1. PICK op \in Operations : request' = [request EXCEPT ![u] = Asking(op,
         IF op \in {"create", "import", "update", "unsubscribe", "remove"} THEN "find" ELSE "group")]
    BY <1>3 DEF NewContactRequest
  <2>2. RequestOK(Asking(op,
         IF op \in {"create", "import", "update", "unsubscribe", "remove"} THEN "find" ELSE "group"))
    BY Askings
  <2>3. RequestsOK'
    BY <1>2, <2>1, <2>2, RequestMoves
  <2>4. UNCHANGED << contact, group, asked, raced, grouped, groupRaced >>
        /\ (requests \in 0..MaxRequests)'
    BY <1>2, <1>3, RequestsAssumption DEF NewContactRequest
  <2> QED BY <1>2, <2>3, <2>4, ContactsHold DEF ContactsInvariant, RowsOK, RowAsAsked, MembersAsAsked
<1>4. CASE ContactRequestFails(u)
  <2>1. RequestsOK'
    BY <1>2, <1>4, Answers DEF ContactRequestFails
  <2>2. UNCHANGED << contact, group, requests, asked, raced, grouped, groupRaced >>
    BY <1>4 DEF ContactRequestFails
  <2> QED BY <1>2, <2>1, <2>2, ContactsHold DEF ContactsInvariant, RowsOK, RowAsAsked, MembersAsAsked
<1> QED BY <1>1, <1>3, <1>4, FindingContacts, SavingContacts, Grouping DEF ContactStep

\* Nothing of it changes while others move.
LEMMA ContactsStill ==
  ASSUME ContactsInvariant, UNCHANGED contactVars
  PROVE  ContactsInvariant'
<1>1. RowsOK /\ RequestsOK /\ requests \in 0..MaxRequests /\ RowAsAsked /\ MembersAsAsked
  BY TypeParts DEF ContactsInvariant
<1>2. UNCHANGED << contact, group, request, requests, asked, raced, grouped, groupRaced >>
  BY DEF contactVars
<1>3. RowsOK' /\ RequestsOK' /\ (requests \in 0..MaxRequests)' /\ RowAsAsked' /\ MembersAsAsked'
  BY <1>1, <1>2 DEF RowsOK, RequestsOK, RequestOK, RowAsAsked, MembersAsAsked
<1> QED BY <1>1, <1>3, ContactsHold DEF ContactsInvariant

LEMMA ContactsStarts == ContactsInit => ContactsInvariant
<1> SUFFICES ASSUME ContactsInit
             PROVE  ContactsInvariant
  OBVIOUS
<1>1. RequestsOK
  <2>1. RequestOK(IdleRequest)
    BY Askings DEF IdleRequest
  <2>2. IdleRequest \in ContactRequest
    BY <2>1 DEF RequestOK
  <2> QED BY <2>1, <2>2 DEF ContactsInit, RequestsOK
<1>2. RowsOK /\ requests \in 0..MaxRequests
  <2>1. Absent \in Row /\ [exists |-> TRUE, members |-> {}] \in Group
    BY DEF Row, Absent, Group
  <2>2. contact \in [Phones -> Row] /\ asked \in [Phones -> Row]
    BY <2>1 DEF ContactsInit
  <2>3. group \in Group /\ grouped \subseteq Phones /\ raced \subseteq Phones
    BY <2>1 DEF ContactsInit
  <2>4. groupRaced \in BOOLEAN
    BY DEF ContactsInit
  <2>5. requests \in 0..MaxRequests
    BY RequestsAssumption DEF ContactsInit
  <2> QED BY <2>2, <2>3, <2>4, <2>5 DEF RowsOK
<1>3. RowAsAsked /\ MembersAsAsked
  BY DEF ContactsInit, RowAsAsked, MembersAsAsked
<1> QED BY <1>1, <1>2, <1>3, TypeParts DEF ContactsInvariant

-----------------------------------------------------------------------------
(* What follows. *)

\* The members of the group that are live are those asked for.
LEMMA MembersLive == MembersAsAsked => GroupAsAsked
  BY DEF MembersAsAsked, GroupAsAsked

\* The contacts on their own, as the users' requests change them: the rows and the
\* group are as asked, whatever requests SaveContact, SaveGroup and the others
\* interleave.
THEOREM ContactsAreAsAsked == ContactsSpec => [](ContactsTypeOK /\ RowAsAsked /\ GroupAsAsked)
<1>1. ContactsInit => ContactsInvariant
  BY ContactsStarts
<1>2. ContactsInvariant /\ [ContactsNext]_contactVars => ContactsInvariant'
  BY ContactSteps, ContactsStill
<1>3. ContactsInvariant => ContactsTypeOK /\ RowAsAsked /\ GroupAsAsked
  BY MembersLive DEF ContactsInvariant
<1> QED BY <1>1, <1>2, <1>3, PTL DEF ContactsSpec
=============================================================================
