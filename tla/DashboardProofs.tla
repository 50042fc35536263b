-------------------------- MODULE DashboardProofs --------------------------
(***************************************************************************)
(* Proofs about what the users of the dashboard keep, see and plan: the    *)
(* rows of the small services, signing in, the statistics, the inbox, the  *)
(* date automations, the A/B tests, recurring campaigns, the pages and     *)
(* their queries, the exports and the page of a running campaign, for      *)
(* every value of their constants.                                         *)
(***************************************************************************)
EXTENDS Rows, Tokens, Analytics, Inbox, Automations, AbTests, Recurrence, Pages,
        Exports, Live, FiniteSetTheorems, WellFoundedInduction, TLAPS

-----------------------------------------------------------------------------
(* API keys, team members, templates, automations, settings and preferences. *)

\* What the methods do with a row, table by table.
LEMMA OperationsOfTables ==
  /\ \A t \in Tables : \A op \in Called[t] :
       /\ Ops[t][op] \in {"idle", "insert", "save", "remove", "touch"}
       /\ op \in UNION {DOMAIN Ops[u] : u \in Tables}
       /\ t = "apiKeys" => op \in {"create", "revoke", "delete", "use"}
       /\ t # "apiKeys" => op # "revoke"
       /\ t = "apiKeys" /\ Ops[t][op] = "save" => op = "revoke"
  /\ Singletons \subseteq Tables /\ "apiKeys" \notin Singletons
BY DEF Ops, ApiKeyOps, Tables, Called, TeamOps, TemplateOps, AutomationOps, SettingsOps,
       NotificationOps, ApiKeyController, TeamsController, TemplatesController,
       DateAutomationController, SettingsController, NotificationsController, Singletons

\* Rows that are made, assigned to or deleted are rows.
LEMMA RowsMade ==
  /\ NoRow \in RowType /\ NoRow.state = "none"
  /\ \A col \in [Columns -> BOOLEAN] :
       NewRow(col) \in RowType /\ NewRow(col).state = "live" /\ NewRow(col).col = col
  /\ \A r \in RowType : /\ DeletedRow(r) \in RowType /\ DeletedRow(r).state = "deleted"
                         /\ ~Admitted(DeletedRow(r))
BY DEF NoRow, RowType, NewRow, DeletedRow, Admitted

\* A request takes its controller's operations.
LEMMA ClientsMade ==
  ASSUME NEW t \in Tables, NEW op \in Called[t], NEW k \in Keys, NEW r \in RowType,
         NEW pc \in {"idle", "find", "insert", "save", "remove", "touch"}
  PROVE  /\ ClientAt(pc, op, k, r) \in RowClient
         /\ ClientAt(pc, op, k, r).pc = pc /\ ClientAt(pc, op, k, r).op = op
         /\ ClientAt(pc, op, k, r).copy = r
BY OperationsOfTables DEF ClientAt, RowClient

\* Assigning columns leaves a live row, and a revocation one that is not admitted.
LEMMA AssignedRows ==
  ASSUME NEW r \in RowType, NEW op, NEW asks \in Asks(op)
  PROVE  /\ Assign(r, asks) \in RowType /\ Assign(r, asks).state = "live"
         /\ op = "revoke" => ~Admitted(Assign(r, asks))
<1> DEFINE col == [c \in Columns |-> IF asks[c] = {} THEN r.col[c] ELSE TRUE \in asks[c]]
<1>1. Assign(r, asks) = NewRow(col)
  BY DEF Assign
<1>2. col \in [Columns -> BOOLEAN]
  <2>1. \A c \in Columns : (IF asks[c] = {} THEN r.col[c] ELSE TRUE \in asks[c]) \in BOOLEAN
    <3>1. r.col \in [Columns -> BOOLEAN]
      BY DEF RowType
    <3> QED
      <4> TAKE c \in Columns
      <4>1. r.col[c] \in BOOLEAN
        BY <3>1
      <4>2. CASE asks[c] = {}
        BY <4>1, <4>2, Zenon
      <4>3. CASE asks[c] # {}
        <5>1. (TRUE \in asks[c]) \in BOOLEAN
          OBVIOUS
        <5> QED BY <4>3, <5>1, Zenon
      <4> QED BY <4>2, <4>3, Zenon
  <2> QED BY <2>1
<1>3. op = "revoke" => ~col["first"]
  <2> SUFFICES ASSUME op = "revoke" PROVE ~col["first"]
    OBVIOUS
  <2>1. asks = [first |-> {FALSE}, second |-> {}]
    BY DEF Asks
  <2>2. asks["first"] = {FALSE} /\ "first" \in Columns
    BY <2>1 DEF Columns
  <2>3. col["first"] = (IF asks["first"] = {} THEN r.col["first"] ELSE TRUE \in asks["first"])
    BY <2>2, Zenon
  <2>4. asks["first"] # {} /\ ~(TRUE \in asks["first"])
    BY <2>2
  <2>5. col["first"] = (TRUE \in asks["first"])
    BY <2>3, <2>4, Zenon
  <2> QED BY <2>4, <2>5, Zenon
<1> HIDE DEF col
<1>4. NewRow(col) \in RowType /\ NewRow(col).state = "live" /\ NewRow(col).col = col
  BY <1>2, RowsMade
<1> QED BY <1>1, <1>3, <1>4 DEF Admitted

\* An idle request.
LEMMA NoClientFits == RowBounds => NoClient \in RowClient /\ NoClient.pc = "idle" /\ NoKey \in Keys
<1> SUFFICES ASSUME RowBounds PROVE NoClient \in RowClient /\ NoClient.pc = "idle" /\ NoKey \in Keys
  OBVIOUS
<1>1. NoKey \in Keys
  BY DEF RowBounds, NoKey
<1>2. "update" \in Called["templates"] /\ "templates" \in Tables
  BY DEF Called, TemplatesController, Tables, Ops
<1>3. NoClient = ClientAt("idle", "update", NoKey, NoRow)
  BY DEF NoClient
<1> HIDE DEF NoClient
<1> QED BY <1>1, <1>2, <1>3, RowsMade, ClientsMade

\* A step that changes one request, but no row, keeps the invariant when the request
\* fits its table.
LEMMA ClientMoves ==
  ASSUME RowsInvariant, NEW c \in RowClients, NEW q \in RowClient,
         client' = [client EXCEPT ![c] = q], rowRequests' \in 0..MaxRowRequests,
         UNCHANGED << table, row, wanted, conflict, dead >>,
         q.pc # "idle" =>
           /\ q.op \in Called[table]
           /\ q.pc = "save" /\ table = "apiKeys" => q.op = "revoke"
           /\ q.pc = "save" /\ q.op = "invite" => q.copy = NoRow
  PROVE  RowsInvariant'
<1> USE DEF RowsInvariant
<1>1. client' \in [RowClients -> RowClient]
  BY DEF RowsTypeOK
<1>2. client'[c] = q /\ \A d \in RowClients : d # c => client'[d] = client[d]
  BY DEF RowsTypeOK
<1>3. RowsTypeOK'
  BY <1>1 DEF RowsTypeOK
<1>4. RequestsFit'
  BY <1>2 DEF RequestsFit
<1>5. DeadWereMade' /\ KeysStayDead' /\ RowsAsWanted'
  BY DEF DeadWereMade, KeysStayDead, RowsAsWanted
<1> QED BY <1>3, <1>4, <1>5

\* A step that ends a request, or moves it on, and writes the row of a key.
LEMMA RowWritten ==
  ASSUME RowsInvariant, NEW c \in RowClients, NEW q \in RowClient, NEW k \in Keys,
         NEW r \in RowType, NEW w \in RowType,
         client' = [client EXCEPT ![c] = q],
         row' = [row EXCEPT ![k] = r], wanted' = [wanted EXCEPT ![k] = w],
         UNCHANGED << table, rowRequests >>, conflict \subseteq conflict', dead \subseteq dead',
         conflict' \subseteq conflict \cup {k}, dead' \subseteq dead \cup {k},
         k \in dead' => table = "apiKeys" /\ r.state # "none" /\ ~Admitted(r),
         k \in conflict' \/ r = w,
         q.pc # "idle" =>
           /\ q.op \in Called[table]
           /\ q.pc = "save" /\ table = "apiKeys" => q.op = "revoke"
           /\ q.pc = "save" /\ q.op = "invite" => q.copy = NoRow
  PROVE  RowsInvariant'
<1> USE DEF RowsInvariant
<1>1. /\ client' \in [RowClients -> RowClient] /\ row' \in [Keys -> RowType]
      /\ wanted' \in [Keys -> RowType]
      /\ client'[c] = q /\ \A d \in RowClients : d # c => client'[d] = client[d]
      /\ row'[k] = r /\ \A j \in Keys : j # k => row'[j] = row[j]
      /\ wanted'[k] = w /\ \A j \in Keys : j # k => wanted'[j] = wanted[j]
  BY DEF RowsTypeOK
<1>2. conflict' \subseteq Keys /\ dead' \subseteq Keys /\ dead \subseteq Keys
  BY DEF RowsTypeOK
<1>3. RowsTypeOK'
  BY <1>1, <1>2 DEF RowsTypeOK
<1>4. RequestsFit'
  BY <1>1 DEF RequestsFit
<1>5. ASSUME NEW j \in dead'
      PROVE  table' = "apiKeys" /\ row'[j].state # "none" /\ ~Admitted(row'[j])
  <2>1. CASE j = k
    BY <1>1, <1>5, <2>1
  <2>2. CASE j # k
    <3>1. j \in dead /\ row'[j] = row[j]
      BY <1>1, <1>2, <1>5, <2>2
    <3> QED BY <3>1 DEF DeadWereMade, KeysStayDead
  <2> QED BY <2>1, <2>2
<1>6. DeadWereMade' /\ KeysStayDead'
  BY <1>5 DEF DeadWereMade, KeysStayDead
<1>7. RowsAsWanted'
  BY <1>1 DEF RowsAsWanted
<1> QED BY <1>3, <1>4, <1>6, <1>7

\* A save keeps the invariant: without a conflict, row and wish take the same columns.
LEMMA SaveRowKeeps ==
  ASSUME RowBounds, RowsInvariant, NEW c \in RowClients, SaveRow(c)
  PROVE  RowsInvariant'
<1> USE DEF RowsInvariant
<1> DEFINE k == client[c].key  copy == client[c].copy  op == client[c].op
<1>1. /\ client[c].pc = "save" /\ client' = [client EXCEPT ![c] = NoClient]
      /\ UNCHANGED << table, rowRequests >>
      /\ dead' = IF op = "revoke" THEN dead \cup {k} ELSE dead
      /\ conflict' = IF (IF op = "invite" THEN row[k].state = "live" ELSE copy # row[k])
                       THEN conflict \cup {k} ELSE conflict
  BY DEF SaveRow
<1>2. PICK asks \in Asks(op) :
        /\ row' = [row EXCEPT ![k] = Assign(copy, asks)]
        /\ wanted' = [wanted EXCEPT ![k] =
             IF op = "invite" THEN Assign(NoRow, asks) ELSE Assign(wanted[k], asks)]
  BY DEF SaveRow
<1>3. client[c] \in RowClient
  BY DEF RowsTypeOK
<1>4. k \in Keys /\ copy \in RowType
  BY <1>3 DEF RowClient
<1>5. /\ op \in Called[table] /\ (table = "apiKeys" => op = "revoke")
      /\ (op = "invite" => copy = NoRow)
  BY <1>1 DEF RequestsFit
<1>6. table \in Tables /\ row[k] \in RowType /\ wanted[k] \in RowType
  BY <1>4 DEF RowsTypeOK
<1> HIDE DEF k, copy, op
<1> DEFINE r == Assign(copy, asks)
           w == IF op = "invite" THEN Assign(NoRow, asks) ELSE Assign(wanted[k], asks)
<1>7. r \in RowType /\ r.state = "live" /\ (op = "revoke" => ~Admitted(r))
  BY <1>4, AssignedRows
<1>8. w \in RowType
  BY <1>6, AssignedRows, RowsMade
<1>9. k \in conflict' \/ r = w
  <2>1. CASE op = "invite"
    BY <1>5, <2>1
  <2>2. CASE op # "invite" /\ copy # row[k]
    BY <1>1, <2>2
  <2>3. CASE op # "invite" /\ copy = row[k] /\ k \notin conflict
    <3>1. row[k] = wanted[k]
      BY <1>4, <2>3 DEF RowsAsWanted
    <3> QED BY <2>3, <3>1
  <2>4. CASE k \in conflict
    BY <1>1, <2>4
  <2> QED BY <2>1, <2>2, <2>3, <2>4
<1>10. k \in dead' => table = "apiKeys" /\ op = "revoke"
  <2>1. k \in dead => table = "apiKeys"
    BY DEF DeadWereMade
  <2>2. op = "revoke" => table = "apiKeys"
    BY <1>5, <1>6, OperationsOfTables
  <2> QED BY <1>1, <1>5, <2>1, <2>2
<1>11. row' = [row EXCEPT ![k] = r] /\ wanted' = [wanted EXCEPT ![k] = w]
  BY <1>2
<1>12. /\ conflict \subseteq conflict' /\ dead \subseteq dead'
       /\ conflict' \subseteq conflict \cup {k} /\ dead' \subseteq dead \cup {k}
  BY <1>1
<1> HIDE DEF r, w
<1> QED BY <1>1, <1>4, <1>7, <1>8, <1>9, <1>10, <1>11, <1>12, NoClientFits, RowWritten

\* A removal leaves no key admitted, and row and wish deleted both.
LEMMA RemoveRowKeeps ==
  ASSUME RowBounds, RowsInvariant, NEW c \in RowClients, RemoveRow(c)
  PROVE  RowsInvariant'
<1> USE DEF RowsInvariant
<1> DEFINE k == client[c].key
<1>1. /\ client' = [client EXCEPT ![c] = NoClient]
      /\ row' = [row EXCEPT ![k] = DeletedRow(row[k])]
      /\ wanted' = [wanted EXCEPT ![k] = DeletedRow(wanted[k])]
      /\ dead' = IF table = "apiKeys" THEN dead \cup {k} ELSE dead
      /\ UNCHANGED << table, rowRequests, conflict >>
  BY DEF RemoveRow
<1>2. client[c] \in RowClient
  BY DEF RowsTypeOK
<1>3. k \in Keys
  BY <1>2 DEF RowClient
<1>4. row[k] \in RowType /\ wanted[k] \in RowType
  BY <1>3 DEF RowsTypeOK
<1> HIDE DEF k
<1> DEFINE r == DeletedRow(row[k])  w == DeletedRow(wanted[k])
<1>5. /\ r \in RowType /\ r.state = "deleted" /\ ~Admitted(r) /\ w \in RowType
  BY <1>4, RowsMade
<1>6. k \in conflict' \/ r = w
  BY <1>1, <1>3 DEF RowsAsWanted
<1>7. row' = [row EXCEPT ![k] = r] /\ wanted' = [wanted EXCEPT ![k] = w]
  BY <1>1
<1>8. k \in dead' => table = "apiKeys"
  BY <1>1 DEF DeadWereMade
<1>9. /\ conflict \subseteq conflict' /\ dead \subseteq dead'
      /\ conflict' \subseteq conflict \cup {k} /\ dead' \subseteq dead \cup {k}
  BY <1>1
<1> HIDE DEF r, w
<1> QED BY <1>1, <1>3, <1>5, <1>6, <1>7, <1>8, <1>9, NoClientFits, RowWritten, ZenonT(40)

\* An insert takes a key that no row had, so no dead one.
LEMMA InsertRowKeeps ==
  ASSUME RowBounds, RowsInvariant, NEW c \in RowClients, InsertRow(c)
  PROVE  RowsInvariant'
<1> USE DEF RowsInvariant
<1>1. PICK k \in Keys, col \in [Columns -> BOOLEAN] :
        /\ row[k].state = "none"
        /\ row' = [row EXCEPT ![k] = NewRow(col)]
        /\ wanted' = [wanted EXCEPT ![k] = NewRow(col)]
        /\ client' = [client EXCEPT ![c] =
             IF client[c].op = "update" THEN ClientAt("save", "update", k, NewRow(col))
             ELSE NoClient]
        /\ UNCHANGED << table, rowRequests, conflict, dead >>
        /\ client[c].pc = "insert"
  BY DEF InsertRow
<1>2. NewRow(col) \in RowType /\ NewRow(col).state = "live"
  BY RowsMade
<1>3. client[c].op \in Called[table] /\ table \in Tables
  BY <1>1 DEF RequestsFit, RowsTypeOK
<1> DEFINE r == NewRow(col)
           q == IF client[c].op = "update" THEN ClientAt("save", "update", k, NewRow(col))
                ELSE NoClient
<1>4. /\ q \in RowClient
      /\ q.pc # "idle" => q.op = "update" /\ client[c].op = "update"
  BY <1>2, <1>3, ClientsMade, NoClientFits
<1>5. q.pc # "idle" => q.op \in Called[table] /\ table # "apiKeys" /\ q.op # "invite"
  BY <1>3, <1>4, OperationsOfTables
<1>6. k \notin dead
  BY <1>1 DEF DeadWereMade
<1>7. /\ row' = [row EXCEPT ![k] = r] /\ wanted' = [wanted EXCEPT ![k] = r] /\ r \in RowType
      /\ client' = [client EXCEPT ![c] = q]
  BY <1>1, <1>2
<1>8. /\ conflict \subseteq conflict' /\ dead \subseteq dead' /\ k \notin dead'
      /\ conflict' \subseteq conflict \cup {k} /\ dead' \subseteq dead \cup {k}
      /\ UNCHANGED << table, rowRequests >>
  BY <1>1, <1>6
<1> HIDE DEF r, q
<1> QED BY <1>4, <1>5, <1>7, <1>8, RowWritten

\* The steps that write no row.
LEMMA RowsReadKeeps ==
  ASSUME RowBounds, RowsInvariant, NEW c \in RowClients,
         \/ RowRequest(c) \/ FindRow(c) \/ FindMember(c) \/ FindSingleton(c)
         \/ SettingsAreThere(c) \/ TouchKey(c) \/ RowRequestFails(c)
  PROVE  RowsInvariant'
<1> USE DEF RowsInvariant
<1>1. /\ UNCHANGED << table, row, wanted, conflict, dead >>
      /\ rowRequests' \in 0..MaxRowRequests /\ table \in Tables
  <2>1. rowRequests \in 0..MaxRowRequests /\ table \in Tables
    BY DEF RowsTypeOK
  <2>2. CASE RowRequest(c)
    BY <2>1, <2>2 DEF RowRequest, RowBounds
  <2>3. CASE ~RowRequest(c)
    BY <2>1, <2>3 DEF FindRow, FindMember, FindSingleton, SettingsAreThere, TouchKey,
                      RowRequestFails
  <2> QED BY <2>2, <2>3
<1>2. ASSUME client' = [client EXCEPT ![c] = NoClient] PROVE RowsInvariant'
  BY <1>1, <1>2, NoClientFits, ClientMoves
<1>3. ASSUME NEW pc \in {"find", "insert", "save", "remove", "touch"}, NEW op \in Called[table],
             NEW k \in Keys, NEW r \in RowType,
             client' = [client EXCEPT ![c] = ClientAt(pc, op, k, r)],
             pc = "save" /\ table = "apiKeys" => op = "revoke",
             pc = "save" /\ op = "invite" => r = NoRow
      PROVE  RowsInvariant'
  <2> DEFINE q == ClientAt(pc, op, k, r)
  <2>1. q \in RowClient /\ q.pc = pc /\ q.op = op /\ q.copy = r
    BY <1>1, ClientsMade
  <2>2. client' = [client EXCEPT ![c] = q]
    BY <1>3
  <2> HIDE DEF q
  <2> QED BY <1>1, <1>3, <2>1, <2>2, ClientMoves
<1>4. client[c].pc # "idle" => client[c].op \in Called[table]
  BY DEF RequestsFit
<1>5. ASSUME NEW k \in Keys, Found(c, k), client[c].pc # "idle", client[c].op # "invite"
      PROVE  RowsInvariant'
  <2> DEFINE pc == Ops[table][client[c].op]  op == client[c].op
  <2>1. client' = [client EXCEPT ![c] = ClientAt(pc, op, k, row[k])]
    BY <1>5 DEF Found
  <2>2. /\ op \in Called[table] /\ row[k] \in RowType /\ op # "invite"
        /\ pc \in {"idle", "insert", "save", "remove", "touch"}
        /\ pc = "save" /\ table = "apiKeys" => op = "revoke"
    BY <1>1, <1>4, <1>5, OperationsOfTables DEF RowsTypeOK
  <2> HIDE DEF pc, op
  <2>3. CASE pc = "idle"
    <3> DEFINE q == ClientAt(pc, op, k, row[k])
    <3>1. q \in RowClient /\ q.pc = "idle"
      BY <1>1, <2>2, <2>3, ClientsMade
    <3>2. client' = [client EXCEPT ![c] = q]
      BY <2>1
    <3> HIDE DEF q
    <3> QED BY <1>1, <3>1, <3>2, ClientMoves
  <2>4. CASE pc # "idle"
    BY <1>3, <2>1, <2>2, <2>4
  <2> QED BY <2>3, <2>4
<1>6. CASE RowRequest(c)
  <2>1. PICK op \in Called[table] : client' = [client EXCEPT ![c] =
          ClientAt(IF op = "create" THEN "insert" ELSE "find", op, NoKey, NoRow)]
    BY <1>6 DEF RowRequest
  <2>2. CASE op = "create"
    BY <1>3, <2>1, <2>2, NoClientFits, RowsMade
  <2>3. CASE op # "create"
    BY <1>3, <2>1, <2>3, NoClientFits, RowsMade
  <2> QED BY <2>2, <2>3
<1>7. CASE FindRow(c)
  <2>1. PICK k \in Keys : Found(c, k) \/ client' = [client EXCEPT ![c] = NoClient]
    BY <1>7 DEF FindRow
  <2>2. client[c].pc # "idle" /\ client[c].op # "invite"
    BY <1>7 DEF FindRow
  <2> QED BY <1>2, <1>5, <2>1, <2>2
<1>8. CASE FindMember(c)
  <2>1. client[c].pc = "find" /\ client[c].op = "invite"
    BY <1>8 DEF FindMember
  <2>2. PICK k \in Keys : \/ client' = [client EXCEPT ![c] = NoClient]
                         \/ client' = [client EXCEPT ![c] = ClientAt("save", "invite", k, NoRow)]
    BY <1>8 DEF FindMember
  <2>3. "invite" \in Called[table] /\ table # "apiKeys"
    BY <1>1, <1>4, <2>1, OperationsOfTables
  <2> QED BY <1>2, <1>3, <2>2, <2>3, RowsMade
<1>9. CASE FindSingleton(c)
  <2>1. client[c].pc = "find" /\ table \in Singletons
    BY <1>9 DEF FindSingleton
  <2>2. client[c].op \in Called[table] /\ client[c].op # "invite"
    BY <1>4, <2>1 DEF Singletons, Called, SettingsController, NotificationsController
  <2>3. \/ \E k \in Keys : Found(c, k)
        \/ client' = [client EXCEPT ![c] = ClientAt("insert", client[c].op, NoKey, NoRow)]
    BY <1>9 DEF FindSingleton
  <2> QED BY <1>3, <1>5, <2>1, <2>2, <2>3, NoClientFits, RowsMade
<1>10. CASE SettingsAreThere(c)
  <2>1. client[c].pc = "insert" /\ table = "settings" /\ \E k \in Keys : Found(c, k)
    BY <1>10 DEF SettingsAreThere
  <2>2. client[c].op # "invite"
    BY <1>4, <2>1 DEF Called, SettingsController
  <2> QED BY <1>5, <2>1, <2>2
<1>11. CASE TouchKey(c) \/ RowRequestFails(c)
  BY <1>2, <1>11 DEF TouchKey, RowRequestFails
<1> QED BY <1>6, <1>7, <1>8, <1>9, <1>10, <1>11

\* The initial states of a table satisfy the invariant.
LEMMA RowsStart == RowBounds /\ RowsInit => RowsInvariant
<1> SUFFICES ASSUME RowBounds, RowsInit PROVE RowsInvariant
  OBVIOUS
<1>1. row \in [Keys -> RowType] /\ client \in [RowClients -> RowClient]
  BY RowsMade, NoClientFits DEF RowsInit
<1>2. RowsTypeOK
  BY <1>1 DEF RowsTypeOK, RowsInit, RowBounds
<1>3. RequestsFit
  BY NoClientFits DEF RequestsFit, RowsInit
<1>4. DeadWereMade /\ KeysStayDead /\ RowsAsWanted
  BY DEF DeadWereMade, KeysStayDead, RowsAsWanted, RowsInit
<1> QED BY <1>2, <1>3, <1>4 DEF RowsInvariant

\* Every reachable state of the row services satisfies the invariant, whatever the
\* requests in flight have read.
THEOREM RowsInvariance == RowsSpec => []RowsInvariant
<1>1. RowsInit => RowsInvariant
  BY RowsStart, RowBounds
<1>2. RowsInvariant /\ [RowsNext]_rowVars => RowsInvariant'
  <2> SUFFICES ASSUME RowsInvariant, [RowsNext]_rowVars PROVE RowsInvariant'
    OBVIOUS
  <2>1. ASSUME RowsNext PROVE RowsInvariant'
    BY <2>1, RowBounds, RowsReadKeeps, InsertRowKeeps, SaveRowKeeps, RemoveRowKeeps DEF RowsNext
  <2>2. ASSUME UNCHANGED rowVars PROVE RowsInvariant'
    BY <2>2 DEF rowVars, RowsInvariant, RowsTypeOK, RequestsFit, DeadWereMade, KeysStayDead,
                RowsAsWanted
  <2> QED BY <2>1, <2>2
<1> QED BY <1>1, <1>2, PTL DEF RowsSpec

\* The variables of the row services keep their types.
THEOREM RowsTypes == RowsSpec => []RowsTypeOK
<1>1. RowsInvariant => RowsTypeOK
  BY DEF RowsInvariant
<1> QED BY <1>1, RowsInvariance, PTL

\* A revoked or deleted API key is never admitted again.
THEOREM DeadKeysStayDead == RowsSpec => []KeysStayDead
<1>1. RowsInvariant => KeysStayDead
  BY DEF RowsInvariant
<1> QED BY <1>1, RowsInvariance, PTL

\* Without a conflict a row is what the requests on it asked, column by column.
THEOREM RowsAreAsWanted == RowsSpec => []RowsAsWanted
<1>1. RowsInvariant => RowsAsWanted
  BY DEF RowsInvariant
<1> QED BY <1>1, RowsInvariance, PTL

-----------------------------------------------------------------------------
(* Signing in. *)

\* Where a call is: refreshing, or not rotating the token.
CallSteps == {"idle", "sent", "waiting", "check", "store", "answer", "false",
              "login", "loginStore", "loginAnswer"}
RefreshSteps == {"check", "store", "answer", "false"}
QuietSteps   == {"idle", "sent", "waiting", "false"}

\* Calls and tokens that are made have their types.
LEMMA CallsMade ==
  /\ \A pc \in CallSteps, t, n \in Tokens_ :
       /\ CallAt(pc, t, n) \in ApiCall
       /\ CallAt(pc, t, n).pc = pc /\ CallAt(pc, t, n).token = t /\ CallAt(pc, t, n).new = n
  /\ \A c \in ApiCall : c.pc \in CallSteps /\ c.token \in Tokens_ /\ c.new \in Tokens_
  /\ \A t \in Tokens_ : Tokens(t) \in Storage /\ Tokens(t).refresh = t
BY DEF CallAt, ApiCall, CallSteps, Tokens, Storage

\* The tokens there are.
LEMMA TokensThere ==
  ASSUME TokenBounds, TokensTypeOK
  PROVE  /\ NoToken \in Tokens_ /\ clock \in Tokens_
         /\ storage.access \in Tokens_ /\ storage.refresh \in Tokens_
         /\ user.refreshToken \in Tokens_ /\ user.exists \in BOOLEAN
         /\ \A r \in ApiCalls : /\ call[r] \in ApiCall /\ call[r].pc \in CallSteps
                                /\ call[r].token \in Tokens_ /\ call[r].new \in Tokens_
                                /\ promise[Tab[r]] \in SUBSET ApiCalls
<1>1. NoToken \in Tokens_ /\ clock \in Tokens_
  BY DEF TokenBounds, TokensTypeOK, NoToken, Tokens_
<1>2. user.exists \in BOOLEAN /\ user.refreshToken \in Tokens_
  BY DEF TokensTypeOK, User
<1>3. storage.access \in Tokens_ /\ storage.refresh \in Tokens_
  BY DEF TokensTypeOK, Storage
<1>4. \A r \in ApiCalls : call[r] \in ApiCall /\ promise[Tab[r]] \in SUBSET ApiCalls
  BY DEF TokensTypeOK, Tabs
<1> QED BY <1>1, <1>2, <1>3, <1>4, CallsMade

\* A step that changes one call: what it has to say of the others.
LEMMA CallChanges ==
  ASSUME TokensInvariant, NEW r \in ApiCalls, NEW q \in ApiCall,
         call' = [call EXCEPT ![r] = q], clock' = clock,
         user' \in User, storage' \in Storage, promise' \in [Tabs -> SUBSET ApiCalls],
         kicked' \in BOOLEAN, troubled' \in BOOLEAN,
         q.pc \in RefreshSteps => r \in promise'[Tab[r]],
         \A s \in ApiCalls : s # r /\ s \in promise[Tab[s]] => s \in promise'[Tab[s]]
  PROVE  /\ TokensTypeOK' /\ RefreshIsPromised'
         /\ call'[r] = q /\ \A s \in ApiCalls : s # r => call'[s] = call[s]
         /\ \A s \in ApiCalls : s # r => (s \in Rotating' <=> s \in Rotating)
         /\ r \in Rotating' <=> q.pc \notin QuietSteps
<1> USE DEF TokensInvariant
<1>1. /\ call' \in [ApiCalls -> ApiCall]
      /\ call'[r] = q /\ \A s \in ApiCalls : s # r => call'[s] = call[s]
  BY DEF TokensTypeOK
<1>2. TokensTypeOK'
  BY <1>1 DEF TokensTypeOK
<1>3. RefreshIsPromised'
  BY <1>1 DEF RefreshIsPromised, RefreshSteps
<1>4. /\ \A s \in ApiCalls : s # r => (s \in Rotating' <=> s \in Rotating)
      /\ r \in Rotating' <=> q.pc \notin QuietSteps
  BY <1>1 DEF Rotating, QuietSteps
<1> QED BY <1>1, <1>2, <1>3, <1>4

\* Requests, and the steps outside of them, change nothing that a refresh depends on.
LEMMA TokensQuietKeeps ==
  ASSUME TokenBounds, TokensInvariant, Tick \/ SignOut \/ Register \/ OtherDevice
  PROVE  TokensInvariant'
<1> USE DEF TokensInvariant
<1>1. /\ call' = call /\ promise' = promise /\ kicked' = kicked
      /\ Rotating' = Rotating
  BY DEF Tick, SignOut, Register, OtherDevice, Rotating
<1>2. RefreshIsPromised'
  BY <1>1 DEF RefreshIsPromised
<1>3. CASE Tick
  <2>1. clock' \in 1..MaxClock
    BY <1>3 DEF Tick, TokensTypeOK, TokenBounds
  <2>2. TokensTypeOK'
    BY <1>1, <1>3, <2>1 DEF TokensTypeOK, Tick
  <2>3. RotationIsOrderly'
    BY <1>1, <1>3 DEF RotationIsOrderly, Tick
  <2> QED BY <1>2, <2>2, <2>3
<1>4. CASE SignOut
  <2>1. storage' \in Storage /\ storage'.refresh = NoToken
    BY <1>4, CallsMade, TokensThere DEF SignOut
  <2>2. TokensTypeOK'
    BY <1>1, <1>4, <2>1 DEF TokensTypeOK, SignOut
  <2>3. RotationIsOrderly'
    BY <1>1, <1>4, <2>1 DEF RotationIsOrderly, SignOut
  <2> QED BY <1>2, <2>2, <2>3
<1>5. CASE Register
  <2>1. user' \in User /\ user'.refreshToken = user.refreshToken
    BY <1>5, TokensThere DEF Register, User
  <2>2. TokensTypeOK'
    BY <1>1, <1>5, <2>1 DEF TokensTypeOK, Register
  <2>3. RotationIsOrderly'
    BY <1>1, <1>5, <2>1 DEF RotationIsOrderly, Register
  <2> QED BY <1>2, <2>2, <2>3
<1>6. CASE OtherDevice
  <2>1. user' \in User /\ troubled' = TRUE
    BY <1>6, TokensThere DEF OtherDevice, StoreToken, User
  <2>2. TokensTypeOK'
    BY <1>1, <1>6, <2>1 DEF TokensTypeOK, OtherDevice
  <2>3. RotationIsOrderly'
    BY <2>1 DEF RotationIsOrderly
  <2> QED BY <1>2, <2>2, <2>3
<1> QED BY <1>3, <1>4, <1>5, <1>6

\* The steps of a call before and after it rotates the token.
LEMMA CallKeeps ==
  ASSUME TokenBounds, TokensInvariant, NEW r \in ApiCalls,
         Request(r) \/ Answered(r) \/ Unauthorized(r) \/ FetchFails(r)
  PROVE  TokensInvariant'
<1> USE DEF TokensInvariant
<1>1. /\ clock' = clock /\ user' = user /\ storage' = storage /\ kicked' = kicked
      /\ user' \in User /\ storage' \in Storage /\ kicked' \in BOOLEAN
  BY DEF Request, Answered, Unauthorized, FetchFails, TokensTypeOK
<1>2. ASSUME NEW pc \in {"idle", "sent", "waiting"}, NEW t \in Tokens_, NEW n \in Tokens_,
             call' = [call EXCEPT ![r] = CallAt(pc, t, n)], UNCHANGED << promise, troubled >>,
             call[r].pc \in {"idle", "sent"}
      PROVE  TokensInvariant'
  <2> DEFINE q == CallAt(pc, t, n)
  <2>1. q \in ApiCall /\ q.pc = pc
    BY CallsMade DEF CallSteps
  <2>2. call' = [call EXCEPT ![r] = q]
    BY <1>2
  <2> HIDE DEF q
  <2>3. q.pc \notin RefreshSteps /\ q.pc \in QuietSteps
    BY <2>1 DEF RefreshSteps, QuietSteps
  <2>4. promise' \in [Tabs -> SUBSET ApiCalls] /\ troubled' \in BOOLEAN
    BY <1>2 DEF TokensTypeOK
  <2>5. /\ TokensTypeOK' /\ RefreshIsPromised'
        /\ call'[r] = q /\ \A s \in ApiCalls : s # r => call'[s] = call[s]
        /\ \A s \in ApiCalls : s # r => (s \in Rotating' <=> s \in Rotating)
        /\ r \notin Rotating'
    BY <1>1, <1>2, <2>1, <2>2, <2>3, <2>4, CallChanges
  <2>6. Rotating' \subseteq Rotating /\ Rotating' \subseteq ApiCalls
    BY <2>5 DEF Rotating
  <2>7. q.pc # "check" /\ q.pc \notin AnswerSteps /\ call[r].pc \notin AnswerSteps
    BY <1>2, <2>1 DEF AnswerSteps
  <2>8. RotationIsOrderly'
    BY <1>1, <1>2, <2>5, <2>6, <2>7 DEF RotationIsOrderly
  <2> QED BY <2>5, <2>8
<1>3. /\ storage.access \in Tokens_ /\ storage.refresh \in Tokens_ /\ NoToken \in Tokens_
      /\ call[r].token \in Tokens_ /\ call[r].new \in Tokens_
      /\ promise[Tab[r]] \in SUBSET ApiCalls
  BY TokensThere
<1>4. CASE Request(r)
  BY <1>2, <1>3, <1>4 DEF Request
<1>5. CASE Answered(r)
  BY <1>2, <1>3, <1>5 DEF Answered, IdleCall
<1>6. ASSUME call[r].pc = "sent", promise[Tab[r]] = {}, StartRefresh(r)
      PROVE  TokensInvariant'
  <2> DEFINE pc == IF storage.refresh = NoToken THEN "false" ELSE "check"
             q == CallAt(pc, storage.refresh, NoToken)
  <2>1. /\ call' = [call EXCEPT ![r] = q]
        /\ promise' = [promise EXCEPT ![Tab[r]] = promise[Tab[r]] \cup {r}]
        /\ troubled' = (troubled \/ {s \in Rotating : Tab[s] # Tab[r] \/ call[s].pc \in LoginSteps} # {})
    BY <1>6 DEF StartRefresh
  <2>2. pc \in {"false", "check"} /\ (pc = "check" => storage.refresh # NoToken)
    OBVIOUS
  <2> HIDE DEF pc
  <2>3. q \in ApiCall /\ q.pc = pc /\ q.token = storage.refresh
    BY <1>3, <2>2, CallsMade, SMTT(30) DEF CallSteps
  <2> HIDE DEF q
  <2>4. troubled' \in BOOLEAN
    BY <2>1
  <2>5. Tab[r] \in Tabs
    BY DEF Tabs
  <2>6. promise' \in [Tabs -> SUBSET ApiCalls] /\ r \in promise'[Tab[r]]
    BY <1>3, <2>1, <2>5 DEF TokensTypeOK
  <2>7. \A s \in ApiCalls : s # r /\ s \in promise[Tab[s]] => s \in promise'[Tab[s]]
    BY <2>1, <2>5 DEF TokensTypeOK, Tabs
  <2>8. /\ TokensTypeOK' /\ RefreshIsPromised'
        /\ call'[r] = q /\ \A s \in ApiCalls : s # r => call'[s] = call[s]
        /\ \A s \in ApiCalls : s # r => (s \in Rotating' <=> s \in Rotating)
    BY <1>1, <2>1, <2>3, <2>4, <2>6, <2>7, CallChanges
  <2>9. ASSUME ~troubled' PROVE ~troubled /\ Rotating = {}
    <3>1. ~troubled /\ {s \in Rotating : Tab[s] # Tab[r] \/ call[s].pc \in LoginSteps} = {}
      BY <2>1, <2>9
    <3>2. ASSUME NEW s \in Rotating PROVE FALSE
      <4>1. s \in ApiCalls /\ call[s].pc \notin QuietSteps /\ call[s].pc \in CallSteps
        BY <3>2, TokensThere DEF Rotating, QuietSteps
      <4>2. Tab[s] = Tab[r] /\ call[s].pc \notin LoginSteps
        BY <3>1, <3>2
      <4>3. call[s].pc \in RefreshSteps
        BY <4>1, <4>2 DEF CallSteps, QuietSteps, LoginSteps, RefreshSteps
      <4> QED BY <1>6, <4>1, <4>2, <4>3 DEF RefreshIsPromised, RefreshSteps
    <3> QED BY <3>1, <3>2
  <2>10. ASSUME ~troubled' PROVE \A s \in ApiCalls : call[s].pc \in QuietSteps
    BY <2>9, <2>10 DEF Rotating, QuietSteps
  <2>11. RotationIsOrderly'
    <3> SUFFICES ASSUME ~troubled' PROVE RotationIsOrderly'
      BY DEF RotationIsOrderly
    <3>1. ~troubled /\ Rotating = {} /\ ~kicked /\ \A s \in ApiCalls : call[s].pc \in QuietSteps
      BY <2>9, <2>10 DEF RotationIsOrderly
    <3>2. storage.refresh \in {NoToken, user.refreshToken}
      BY <3>1 DEF RotationIsOrderly, QuietSteps, AnswerSteps
    <3>3. \A s \in Rotating' : s = r
      BY <2>8, <3>1 DEF Rotating
    <3>4. ASSUME NEW s \in ApiCalls
          PROVE  /\ call'[s].pc = "check" => call'[s].token = user.refreshToken
                 /\ call'[s].pc \notin AnswerSteps
      <4>1. CASE s = r
        BY <2>2, <2>3, <2>8, <3>2, <4>1 DEF AnswerSteps
      <4>2. CASE s # r
        BY <2>8, <3>1, <4>2 DEF QuietSteps, AnswerSteps
      <4> QED BY <4>1, <4>2
    <3> QED BY <1>1, <3>1, <3>2, <3>3, <3>4 DEF RotationIsOrderly
  <2> QED BY <2>8, <2>11
<1>7. CASE Unauthorized(r)
  <2>1. call[r].pc = "sent"
    BY <1>7 DEF Unauthorized
  <2>2. \/ promise[Tab[r]] = {} /\ StartRefresh(r)
        \/ /\ call' = [call EXCEPT ![r] = CallAt("waiting", call[r].token, call[r].new)]
           /\ UNCHANGED << promise, troubled >>
        \/ /\ call' = [call EXCEPT ![r] = CallAt("idle", NoToken, NoToken)]
           /\ UNCHANGED << promise, troubled >>
    BY <1>7 DEF Unauthorized, Step_, IdleCall
  <2> QED BY <1>2, <1>3, <1>6, <2>1, <2>2
<1>8. CASE FetchFails(r)
  <2> DEFINE pc == IF call[r].pc \in {"check", "answer"} THEN "false" ELSE "idle"
             q == CallAt(pc, NoToken, NoToken)
  <2>1. call' = [call EXCEPT ![r] = q] /\ troubled' = TRUE /\ promise' = promise
    BY <1>8 DEF FetchFails
  <2>2. pc \in {"false", "idle"} /\ (pc = "false" => call[r].pc \in RefreshSteps)
    BY DEF RefreshSteps
  <2> HIDE DEF pc
  <2>3. q \in ApiCall /\ q.pc = pc
    BY <1>3, <2>2, CallsMade DEF CallSteps
  <2> HIDE DEF q
  <2>4. q.pc \in RefreshSteps => r \in promise'[Tab[r]]
    BY <2>1, <2>2, <2>3 DEF RefreshIsPromised, RefreshSteps
  <2>5. promise' \in [Tabs -> SUBSET ApiCalls] /\ troubled' \in BOOLEAN
    BY <2>1 DEF TokensTypeOK
  <2>6. TokensTypeOK' /\ RefreshIsPromised'
    BY <1>1, <2>1, <2>3, <2>4, <2>5, CallChanges
  <2>7. RotationIsOrderly'
    BY <2>1 DEF RotationIsOrderly
  <2> QED BY <2>6, <2>7
<1> QED BY <1>4, <1>5, <1>7, <1>8

\* When nothing explains a refusal, a call that rotates is alone.
LEMMA AloneWhenOrderly ==
  ASSUME TokensInvariant, ~troubled, NEW r \in ApiCalls, call[r].pc \notin QuietSteps
  PROVE  \A s \in ApiCalls : s # r => s \notin Rotating /\ call[s].pc \in QuietSteps
BY DEF TokensInvariant, RotationIsOrderly, Rotating, QuietSteps

\* The steps by which a call rotates the token.
LEMMA RotationKeeps ==
  ASSUME TokenBounds, TokensInvariant, NEW r \in ApiCalls,
         CheckRefresh(r) \/ StoreTokenHash(r) \/ Login(r) \/ LoginChecked(r) \/ LoggedIn(r)
  PROVE  TokensInvariant'
<1> USE DEF TokensInvariant
<1>1. /\ clock' = clock /\ promise' = promise
      /\ promise' \in [Tabs -> SUBSET ApiCalls] /\ troubled' \in BOOLEAN
  BY DEF CheckRefresh, StoreTokenHash, Login, LoginChecked, LoggedIn, TokensTypeOK
<1>2. /\ NoToken \in Tokens_ /\ clock \in Tokens_ /\ call[r].token \in Tokens_
      /\ call[r].new \in Tokens_ /\ call[r].pc \in CallSteps /\ user.exists \in BOOLEAN
      /\ call[r] \in ApiCall
  BY TokensThere
<1>3. user \in User /\ storage \in Storage /\ kicked \in BOOLEAN
  BY DEF TokensTypeOK
<1>4. ASSUME NEW t \in Tokens_, StoreToken(t) PROVE user' \in User /\ user'.refreshToken = t
  BY <1>2, <1>4 DEF StoreToken, User
<1>5. ASSUME NEW pc \in CallSteps, NEW t \in Tokens_, NEW n \in Tokens_,
             call' = [call EXCEPT ![r] = CallAt(pc, t, n)],
             user' \in User, storage' \in Storage, kicked' \in BOOLEAN,
             pc \in RefreshSteps => call[r].pc \in RefreshSteps
      PROVE  /\ TokensTypeOK' /\ RefreshIsPromised'
             /\ call'[r].pc = pc /\ call'[r].token = t /\ call'[r].new = n
             /\ \A s \in ApiCalls : s # r => call'[s] = call[s]
             /\ \A s \in ApiCalls : s # r => (s \in Rotating' <=> s \in Rotating)
             /\ r \in Rotating' <=> pc \notin QuietSteps
  <2> DEFINE q == CallAt(pc, t, n)
  <2>1. q \in ApiCall /\ q.pc = pc /\ q.token = t /\ q.new = n /\ call' = [call EXCEPT ![r] = q]
    BY <1>5, CallsMade
  <2> HIDE DEF q
  <2>2. q.pc \in RefreshSteps => r \in promise'[Tab[r]]
    BY <1>1, <1>5, <2>1 DEF RefreshIsPromised, RefreshSteps
  <2> QED BY <1>1, <1>5, <2>1, <2>2, CallChanges
<1>6. Rotating \subseteq ApiCalls /\ Rotating' \subseteq ApiCalls
  BY DEF Rotating
<1>7. CASE CheckRefresh(r)
  <2>1. call[r].pc = "check" /\ troubled' = troubled /\ storage' = storage
    BY <1>7 DEF CheckRefresh
  <2>2. CASE user.refreshToken = call[r].token
    <3>1. call' = [call EXCEPT ![r] = CallAt("store", call[r].token, clock)]
          /\ user' = user /\ kicked' = kicked
      BY <1>7, <2>2 DEF CheckRefresh
    <3>2. /\ TokensTypeOK' /\ RefreshIsPromised' /\ call'[r].pc = "store"
          /\ \A s \in ApiCalls : s # r => call'[s] = call[s]
          /\ \A s \in ApiCalls : s # r => (s \in Rotating' <=> s \in Rotating)
      BY <1>2, <1>3, <1>5, <2>1, <3>1 DEF CallSteps, RefreshSteps
    <3>3. r \in Rotating
      BY <2>1 DEF Rotating
    <3>4. RotationIsOrderly'
      BY <1>6, <2>1, <3>1, <3>2, <3>3 DEF RotationIsOrderly, AnswerSteps
    <3> QED BY <3>2, <3>4
  <2>3. CASE user.refreshToken # call[r].token
    <3>1. /\ call' = [call EXCEPT ![r] = CallAt("false", call[r].token, call[r].new)]
          /\ StoreToken(NoToken) /\ kicked' = TRUE
      BY <1>7, <2>3 DEF CheckRefresh, Step_
    <3>2. user' \in User
      BY <1>2, <1>4, <3>1
    <3>3. TokensTypeOK' /\ RefreshIsPromised'
      BY <1>2, <1>3, <1>5, <2>1, <3>1, <3>2 DEF CallSteps, RefreshSteps
    <3>4. troubled'
      BY <2>1, <2>3 DEF RotationIsOrderly
    <3>5. RotationIsOrderly'
      BY <3>4 DEF RotationIsOrderly
    <3> QED BY <3>3, <3>5
  <2> QED BY <2>2, <2>3
<1>8. CASE StoreTokenHash(r)
  <2> DEFINE pc == IF call[r].pc = "store" THEN "answer" ELSE "loginAnswer"
  <2>1. /\ call[r].pc \in {"store", "loginStore"} /\ StoreToken(call[r].new)
        /\ call' = [call EXCEPT ![r] = CallAt(pc, call[r].token, call[r].new)]
        /\ UNCHANGED << storage, kicked, troubled >>
    BY <1>8 DEF StoreTokenHash, Step_
  <2>2. /\ pc \in AnswerSteps /\ pc \in CallSteps
        /\ pc \in RefreshSteps => call[r].pc \in RefreshSteps
    BY <2>1 DEF AnswerSteps, CallSteps, RefreshSteps
  <2> HIDE DEF pc
  <2>3. user' \in User /\ user'.refreshToken = call[r].new
    BY <1>2, <1>4, <2>1
  <2>4. /\ TokensTypeOK' /\ RefreshIsPromised' /\ call'[r].pc = pc /\ call'[r].new = call[r].new
        /\ \A s \in ApiCalls : s # r => call'[s] = call[s]
        /\ \A s \in ApiCalls : s # r => (s \in Rotating' <=> s \in Rotating)
    BY <1>2, <1>3, <1>5, <2>1, <2>2, <2>3
  <2>5. call[r].pc \notin QuietSteps
    BY <2>1 DEF QuietSteps
  <2>6. RotationIsOrderly'
    <3> SUFFICES ASSUME ~troubled' PROVE RotationIsOrderly'
      BY DEF RotationIsOrderly
    <3>1. ~troubled /\ ~kicked'
      BY <2>1 DEF RotationIsOrderly
    <3>2. \A s \in ApiCalls : s # r => s \notin Rotating /\ call[s].pc \in QuietSteps
      BY <2>5, <3>1, AloneWhenOrderly
    <3>3. \A s \in ApiCalls : s # r => call'[s].pc \notin AnswerSteps /\ call'[s].pc # "check"
      BY <2>4, <3>2 DEF QuietSteps, AnswerSteps
    <3>4. call'[r].pc \in AnswerSteps /\ call'[r].pc # "check" /\ call'[r].new = user'.refreshToken
      BY <2>2, <2>3, <2>4 DEF AnswerSteps
    <3>5. \A s \in Rotating' : s = r
      BY <1>6, <2>4, <3>2
    <3> QED BY <3>1, <3>3, <3>4, <3>5 DEF RotationIsOrderly
  <2> QED BY <2>4, <2>6
<1>9. CASE Login(r)
  <2>1. /\ call[r].pc = "idle" /\ call' = [call EXCEPT ![r] = CallAt("login", NoToken, NoToken)]
        /\ troubled' = (troubled \/ Rotating # {}) /\ UNCHANGED << user, storage, kicked >>
    BY <1>9 DEF Login
  <2>2. /\ TokensTypeOK' /\ RefreshIsPromised' /\ call'[r].pc = "login"
        /\ \A s \in ApiCalls : s # r => call'[s] = call[s]
        /\ \A s \in ApiCalls : s # r => (s \in Rotating' <=> s \in Rotating)
    BY <1>2, <1>3, <1>5, <2>1 DEF CallSteps, RefreshSteps
  <2>3. RotationIsOrderly'
    <3> SUFFICES ASSUME ~troubled' PROVE RotationIsOrderly'
      BY DEF RotationIsOrderly
    <3>1. ~troubled /\ Rotating = {} /\ ~kicked'
      BY <2>1 DEF RotationIsOrderly
    <3>2. \A s \in ApiCalls : call[s].pc \notin AnswerSteps /\ call[s].pc # "check"
      BY <3>1 DEF Rotating, AnswerSteps
    <3>3. storage.refresh \in {NoToken, user.refreshToken}
      BY <3>1, <3>2 DEF RotationIsOrderly
    <3>4. \A s \in ApiCalls : call'[s].pc \notin AnswerSteps /\ call'[s].pc # "check"
      BY <2>2, <3>2 DEF AnswerSteps
    <3>5. \A s \in Rotating' : s = r
      BY <1>6, <2>2, <3>1
    <3> QED BY <2>1, <3>1, <3>3, <3>4, <3>5 DEF RotationIsOrderly
  <2> QED BY <2>2, <2>3
<1>10. CASE LoginChecked(r)
  <2>1. /\ call[r].pc = "login" /\ UNCHANGED << user, storage, kicked, troubled >>
        /\ call' = [call EXCEPT ![r] = CallAt("loginStore", call[r].token, clock)]
    BY <1>10 DEF LoginChecked
  <2>2. /\ TokensTypeOK' /\ RefreshIsPromised' /\ call'[r].pc = "loginStore"
        /\ \A s \in ApiCalls : s # r => call'[s] = call[s]
        /\ \A s \in ApiCalls : s # r => (s \in Rotating' <=> s \in Rotating)
    BY <1>2, <1>3, <1>5, <2>1 DEF CallSteps, RefreshSteps
  <2>3. r \in Rotating
    BY <2>1 DEF Rotating
  <2>4. RotationIsOrderly'
    BY <1>6, <2>1, <2>2, <2>3 DEF RotationIsOrderly, AnswerSteps
  <2> QED BY <2>2, <2>4
<1>11. CASE LoggedIn(r)
  <2>1. /\ call[r].pc = "loginAnswer" /\ call' = [call EXCEPT ![r] = CallAt("idle", NoToken, NoToken)]
        /\ storage' = Tokens(call[r].new) /\ UNCHANGED << user, kicked, troubled >>
    BY <1>11 DEF LoggedIn, IdleCall
  <2>2. storage' \in Storage /\ storage'.refresh = call[r].new
    BY <1>2, <2>1, CallsMade
  <2>3. /\ TokensTypeOK' /\ RefreshIsPromised' /\ call'[r].pc = "idle"
        /\ \A s \in ApiCalls : s # r => call'[s] = call[s]
        /\ \A s \in ApiCalls : s # r => (s \in Rotating' <=> s \in Rotating)
        /\ r \notin Rotating'
    BY <1>2, <1>3, <1>5, <2>1, <2>2 DEF CallSteps, RefreshSteps, QuietSteps
  <2>4. call[r].pc \notin QuietSteps
    BY <2>1 DEF QuietSteps
  <2>5. RotationIsOrderly'
    <3> SUFFICES ASSUME ~troubled' PROVE RotationIsOrderly'
      BY DEF RotationIsOrderly
    <3>1. ~troubled /\ ~kicked' /\ storage'.refresh = user'.refreshToken
      BY <2>1, <2>2 DEF RotationIsOrderly, AnswerSteps
    <3>2. \A s \in ApiCalls : s # r => s \notin Rotating /\ call[s].pc \in QuietSteps
      BY <2>4, <3>1, AloneWhenOrderly
    <3>3. \A s \in ApiCalls : call'[s].pc \notin AnswerSteps /\ call'[s].pc # "check"
      BY <2>3, <3>2 DEF QuietSteps, AnswerSteps
    <3>4. Rotating' = {}
      BY <1>6, <2>3, <3>2
    <3> QED BY <3>1, <3>3, <3>4 DEF RotationIsOrderly
  <2> QED BY <2>3, <2>5
<1> QED BY <1>7, <1>8, <1>9, <1>10, <1>11

\* The end of a refresh, for every call of the tab that waited for it.
LEMMA RefreshEndKeeps ==
  ASSUME TokenBounds, TokensInvariant, NEW r \in ApiCalls, Refreshed(r) \/ NotRefreshed(r)
  PROVE  TokensInvariant'
<1> USE DEF TokensInvariant
<1>1. /\ UNCHANGED << clock, user, kicked, troubled >>
      /\ promise' = [promise EXCEPT ![Tab[r]] = promise[Tab[r]] \ {r}]
      /\ call[r].pc \in {"answer", "false"}
  BY DEF Refreshed, NotRefreshed
<1>2. PICK t \in Tokens_ :
        /\ storage' = Tokens(t)
        /\ call[r].pc = "answer" => t = call[r].new
        /\ call[r].pc = "false" => t = NoToken
        /\ \/ call' = [s \in ApiCalls |-> IF s \in Awaiting(r)
                          THEN CallAt("sent", t, NoToken) ELSE call[s]]
           \/ call' = [s \in ApiCalls |-> IF s \in Awaiting(r)
                          THEN CallAt("idle", NoToken, NoToken) ELSE call[s]]
  BY TokensThere DEF Refreshed, NotRefreshed, IdleCall
<1>3. storage' \in Storage /\ storage'.refresh = t
  BY <1>2, CallsMade
<1>4. CallAt("sent", t, NoToken) \in ApiCall /\ CallAt("sent", t, NoToken).pc = "sent"
      /\ CallAt("idle", NoToken, NoToken) \in ApiCall /\ CallAt("idle", NoToken, NoToken).pc = "idle"
  BY TokensThere, CallsMade DEF CallSteps
<1>5. /\ call' \in [ApiCalls -> ApiCall]
      /\ \A s \in ApiCalls : s \in Awaiting(r) => call'[s].pc \in {"sent", "idle"}
      /\ \A s \in ApiCalls : s \notin Awaiting(r) => call'[s] = call[s]
  BY <1>2, <1>4 DEF TokensTypeOK
<1>6. Tab[r] \in Tabs
  BY DEF Tabs
<1>7. /\ promise' \in [Tabs -> SUBSET ApiCalls]
      /\ \A s \in ApiCalls : s # r /\ s \in promise[Tab[s]] => s \in promise'[Tab[s]]
  BY <1>1, <1>6 DEF TokensTypeOK, Tabs
<1>8. TokensTypeOK'
  BY <1>1, <1>3, <1>5, <1>7 DEF TokensTypeOK
<1>9. r \in Awaiting(r)
  BY DEF Awaiting
<1>10. RefreshIsPromised'
  <2> SUFFICES ASSUME NEW s \in ApiCalls, call'[s].pc \in {"check", "store", "answer", "false"}
               PROVE  s \in promise'[Tab[s]]
    BY DEF RefreshIsPromised
  <2>1. s \notin Awaiting(r) /\ s # r /\ call'[s] = call[s]
    BY <1>5, <1>9
  <2> QED BY <1>7, <2>1 DEF RefreshIsPromised
<1>11. Rotating' \subseteq Rotating /\ Rotating \subseteq ApiCalls
  BY <1>5 DEF Rotating
<1>12. RotationIsOrderly'
  <2> SUFFICES ASSUME ~troubled' PROVE RotationIsOrderly'
    BY DEF RotationIsOrderly
  <2>1. ~troubled /\ ~kicked' /\ \A s, u \in Rotating' : s = u
    BY <1>1, <1>11 DEF RotationIsOrderly
  <2>2. \A s \in ApiCalls : call'[s] = call[s] \/ (call'[s].pc # "check" /\ call'[s].pc \notin AnswerSteps)
    BY <1>5 DEF AnswerSteps
  <2>3. \A s \in ApiCalls :
          /\ call'[s].pc = "check" => call'[s].token = user'.refreshToken
          /\ call'[s].pc \in AnswerSteps => call'[s].new = user'.refreshToken
    BY <1>1, <2>1, <2>2 DEF RotationIsOrderly
  <2>4. t \in {NoToken, user'.refreshToken}
    BY <1>1, <1>2, <2>1 DEF RotationIsOrderly, AnswerSteps
  <2> QED BY <1>3, <2>1, <2>3, <2>4 DEF RotationIsOrderly
<1> QED BY <1>8, <1>10, <1>12

\* The initial states satisfy the invariant.
LEMMA TokensStart == TokenBounds /\ TokensInit => TokensInvariant
<1> SUFFICES ASSUME TokenBounds, TokensInit PROVE TokensInvariant
  OBVIOUS
<1>1. NoToken \in Tokens_ /\ 1 \in 1..MaxClock
  BY DEF TokenBounds, NoToken, Tokens_
<1>2. IdleCall \in ApiCall /\ IdleCall.pc = "idle" /\ Tokens(NoToken) \in Storage
      /\ Tokens(NoToken).refresh = NoToken
  BY <1>1, CallsMade DEF IdleCall, CallSteps
<1>3. user \in User
  BY <1>1 DEF TokensInit, User
<1>4. TokensTypeOK
  BY <1>1, <1>2, <1>3 DEF TokensTypeOK, TokensInit
<1>5. \A r \in ApiCalls : call[r].pc = "idle"
  BY <1>2 DEF TokensInit
<1>6. Rotating = {}
  BY <1>5 DEF Rotating
<1>7. RefreshIsPromised /\ RotationIsOrderly
  BY <1>2, <1>5, <1>6 DEF RefreshIsPromised, RotationIsOrderly, AnswerSteps, TokensInit
<1> QED BY <1>4, <1>7 DEF TokensInvariant

\* Every reachable state of signing in satisfies the invariant.
THEOREM TokensInvariance == TokensSpec => []TokensInvariant
<1>1. TokensInit => TokensInvariant
  BY TokensStart, TokenBounds
<1>2. TokensInvariant /\ [TokensNext]_tokenVars => TokensInvariant'
  <2> SUFFICES ASSUME TokensInvariant, [TokensNext]_tokenVars PROVE TokensInvariant'
    OBVIOUS
  <2>1. ASSUME TokensNext PROVE TokensInvariant'
    BY <2>1, TokenBounds, TokensQuietKeeps, CallKeeps, RotationKeeps, RefreshEndKeeps
    DEF TokensNext, AuthController
  <2>2. ASSUME UNCHANGED tokenVars PROVE TokensInvariant'
    BY <2>2 DEF tokenVars, TokensInvariant, TokensTypeOK, RefreshIsPromised, RotationIsOrderly, Rotating
  <2> QED BY <2>1, <2>2
<1> QED BY <1>1, <1>2, PTL DEF TokensSpec

\* The variables of signing in keep their types.
THEOREM TokenTypes == TokensSpec => []TokensTypeOK
<1>1. TokensInvariant => TokensTypeOK
  BY DEF TokensInvariant
<1> QED BY <1>1, TokensInvariance, PTL

\* A refresh is refused as a reuse only when two tabs or devices rotated the token at
\* once, or an answer was lost: the calls of one tab do not do that to each other.
THEOREM ReuseIsExplained == TokensSpec => []ReuseExplained
<1>1. TokensInvariant => ReuseExplained
  BY DEF TokensInvariant, RotationIsOrderly, ReuseExplained
<1> QED BY <1>1, TokensInvariance, PTL

-----------------------------------------------------------------------------
(* Analytics. *)

\* A log is of a contact and of one of the starts; there are finitely many.
LEMMA LogsAreFinite ==
  /\ IsFiniteSet(Logs)
  /\ \A l \in Logs : l[2] \in 1..MaxStarts
<1>1. IsFiniteSet(1..MaxStarts)
  BY AnalyticsBounds, FS_Interval
<1>2. IsFiniteSet(Logs)
  BY <1>1, AnalyticsBounds, FS_Product DEF Logs
<1>3. \A l \in Logs : l[2] \in 1..MaxStarts
  BY DEF Logs
<1> QED BY <1>2, <1>3

\* So are the logs of each count, and one more of them is one more.
LEMMA OneMoreLog ==
  ASSUME NEW S \in SUBSET Logs
  PROVE  /\ Cardinality(S) \in Nat
         /\ \A l \in Logs \ S : Cardinality(S \cup {l}) = Cardinality(S) + 1
<1>1. IsFiniteSet(S)
  BY LogsAreFinite, FS_Subset
<1>2. Cardinality(S) \in Nat
  BY <1>1, FS_CardinalityType
<1>3. ASSUME NEW l \in Logs \ S PROVE Cardinality(S \cup {l}) = Cardinality(S) + 1
  <2>1. Cardinality(S \cup {l}) = IF l \in S THEN Cardinality(S) ELSE Cardinality(S) + 1
    BY <1>1, FS_AddElement
  <2> QED BY <2>1, <1>3
<1> QED BY <1>2, <1>3

\* Counts are no missing row.
LEMMA CountsAreARow == NoCounts \in Counts /\ \A c \in Counts : c # NoStats
BY DEF NoCounts, Counts, NoStats

\* What becomes of a count when one more log is added to it.
LEMMA PlusOne ==
  ASSUME NEW c \in Counts, NEW s \in {"SENT", "FAILED"}
  PROVE  /\ Plus(c, s) \in Counts
         /\ s = "SENT" => Plus(c, s).sent = c.sent + 1 /\ Plus(c, s).failed = c.failed
         /\ s = "FAILED" => Plus(c, s).sent = c.sent /\ Plus(c, s).failed = c.failed + 1
BY DEF Plus, Counts

\* With no update on its way, every settled log is in both counts.
LEMMA NothingInFlight ==
  ASSUME AnalyticsTypeOK, ~InFlight
  PROVE  \A s \in {"SENT", "FAILED"} : AddedAs(s) = With(s) /\ CountedAs(s) = With(s)
BY DEF AddedAs, CountedAs, With, InFlight

\* The initial state satisfies the invariant: no log is settled.
LEMMA AnalyticsStart == AnalyticsInit => AnalyticsInvariant
<1> SUFFICES ASSUME AnalyticsInit PROVE AnalyticsInvariant
  OBVIOUS
<1> USE DEF AnalyticsInit
<1>1. AnalyticsTypeOK
  <2>1. counters \in Counts /\ stats \in CampaignStats
    BY DEF CampaignStats, Counts, NoCounts
  <2>2. backfill \in [pc : {"idle", "upsert"}, row : Counts]
    BY DEF Counts, NoCounts
  <2>3. starts \in 0..MaxStarts /\ backfills \in 0..MaxBackfills
    BY AnalyticsBounds
  <2>4. log \in [Logs -> {"none", "PENDING", "SENT", "FAILED"}]
    OBVIOUS
  <2>5. update \in [Logs -> {"idle", "count", "increment"}]
    OBVIOUS
  <2>6. state = "DRAFT" /\ starter = "idle" /\ cancelled \subseteq Logs /\ miscounted \in BOOLEAN
    OBVIOUS
  <2> QED BY <2>1, <2>2, <2>3, <2>4, <2>5, <2>6 DEF AnalyticsTypeOK
<1>2. LogsFit /\ CancelledRest
  BY DEF LogsFit, CancelledRest
<1>3. \A s \in {"SENT", "FAILED"} : CountedAs(s) = {} /\ AddedAs(s) = {}
  BY DEF CountedAs, AddedAs
<1>4. Cardinality({}) = 0
  BY FS_EmptySet
<1>5. CountersTrue
  BY <1>3, <1>4 DEF CountersTrue, NoCounts
<1>6. Tallies(NoCounts)
  BY <1>3, <1>4 DEF Tallies, NoCounts
<1>7. StatsTrue
  BY <1>6 DEF StatsTrue
<1> QED BY <1>1, <1>2, <1>5, <1>7 DEF AnalyticsInvariant

\* A step that settles, counts and adds nothing leaves the counts true.
LEMMA CountsStay ==
  ASSUME CountersTrue, StatsTrue,
         UNCHANGED << counters, stats, backfill, cancelled, miscounted, update >>,
         \A s \in {"SENT", "FAILED"}, l \in Logs : (log'[l] = s) <=> (log[l] = s)
  PROVE  CountersTrue' /\ StatsTrue'
<1>1. \A s \in {"SENT", "FAILED"} : CountedAs(s)' = CountedAs(s) /\ AddedAs(s)' = AddedAs(s)
  BY DEF CountedAs, AddedAs
<1>2. InFlight' = InFlight
  BY DEF InFlight
<1>3. CountersTrue'
  BY <1>1 DEF CountersTrue
<1>4. Tallies(NoCounts)' = Tallies(NoCounts) /\ Tallies(stats)' = Tallies(stats)
      /\ Tallies(backfill.row)' = Tallies(backfill.row)
  BY <1>1 DEF Tallies, NoCounts
<1>5. StatsTrue'
  BY <1>2, <1>4 DEF StatsTrue
<1> QED BY <1>3, <1>5

\* The steps of the campaign but for cancel, and the first of the listener.
LEMMA StartsKeep ==
  ASSUME AnalyticsInvariant, SaveLogs \/ Start \/ Pause \/ FindStats
  PROVE  AnalyticsInvariant'
<1> USE AnalyticsBounds DEF AnalyticsInvariant
<1>1. ASSUME SaveLogs PROVE AnalyticsInvariant'
  <2> USE <1>1 DEF SaveLogs
  <2>0. \A l \in Logs : l[2] = starts + 1 => log[l] = "none"
    BY LogsAreFinite DEF LogsFit, AnalyticsTypeOK
  <2>1. AnalyticsTypeOK'
    BY DEF AnalyticsTypeOK
  <2>2. LogsFit'
    BY <2>0, LogsAreFinite DEF LogsFit, AnalyticsTypeOK
  <2>3. CancelledRest'
    BY DEF CancelledRest
  <2>4. CountersTrue' /\ StatsTrue'
    BY <2>0, CountsStay
  <2> QED BY <2>1, <2>2, <2>3, <2>4
<1>2. ASSUME Start \/ Pause \/ FindStats PROVE AnalyticsInvariant'
  <2>1. UNCHANGED << starts, log, counters, stats, update, backfill, backfills, cancelled, miscounted >>
    BY <1>2 DEF Start, Pause, FindStats
  <2>2. AnalyticsTypeOK'
    BY <1>2, <2>1 DEF Start, Pause, FindStats, AnalyticsTypeOK
  <2>3. LogsFit'
    BY <2>1 DEF LogsFit
  <2>4. CancelledRest'
    BY <1>2, <2>1 DEF CancelledRest, Start, Pause, FindStats
  <2>5. CountersTrue' /\ StatsTrue'
    BY <2>1, CountsStay
  <2> QED BY <2>2, <2>3, <2>4, <2>5
<1> QED BY <1>1, <1>2

\* cancel fails the pending logs: it adds them to what is counted only as cancelled.
LEMMA CancelKeeps == AnalyticsInvariant /\ Cancel => AnalyticsInvariant'
<1> SUFFICES ASSUME AnalyticsInvariant, Cancel PROVE AnalyticsInvariant'
  OBVIOUS
<1> USE DEF AnalyticsInvariant, Cancel
<1>1. AnalyticsTypeOK' /\ LogsFit'
  BY LogsAreFinite DEF AnalyticsTypeOK, LogsFit, With
<1>2. \A l \in Logs : log[l] = "PENDING" => update[l] = "idle"
  BY DEF LogsFit
<1>3. cancelled = {}
  BY DEF CancelledRest
<1>4. CancelledRest'
  BY <1>2 DEF CancelledRest, With
<1>5. /\ CountedAs("SENT")' = CountedAs("SENT")
      /\ CountedAs("FAILED")' \ cancelled' = CountedAs("FAILED") \ cancelled
      /\ AddedAs("SENT")' = AddedAs("SENT")
      /\ AddedAs("FAILED")' \ cancelled' = AddedAs("FAILED")
      /\ AddedAs("FAILED") \ cancelled = AddedAs("FAILED")
  BY <1>3 DEF CountedAs, AddedAs, With
<1>6. InFlight' = InFlight
  BY DEF InFlight
<1>7. CountersTrue'
  BY <1>5 DEF CountersTrue
<1>8. /\ Tallies(NoCounts) => Tallies(NoCounts)'
      /\ Tallies(stats) => Tallies(stats)'
      /\ Tallies(backfill.row) => Tallies(backfill.row)'
  BY <1>5 DEF Tallies, NoCounts
<1>9. StatsTrue'
  BY <1>6, <1>8 DEF StatsTrue
<1> QED BY <1>1, <1>4, <1>7, <1>9

\* updateMessageStatus: a log is settled, and nothing counts it yet.
LEMMA SetStatusKeeps ==
  ASSUME AnalyticsInvariant, NEW m \in Logs, SetStatus(m)
  PROVE  AnalyticsInvariant'
<1> USE DEF AnalyticsInvariant, SetStatus
<1>1. PICK s \in {"SENT", "FAILED"} : log' = [log EXCEPT ![m] = s]
  OBVIOUS
<1>2. AnalyticsTypeOK'
  BY <1>1 DEF AnalyticsTypeOK
<1>3. /\ log'[m] = s /\ update'[m] = "count"
      /\ \A l \in Logs \ {m} : log'[l] = log[l] /\ update'[l] = update[l]
  BY <1>1 DEF AnalyticsTypeOK
<1>4. LogsFit'
  BY <1>3 DEF LogsFit
<1>5. CancelledRest'
  BY <1>3 DEF CancelledRest
<1>6. \A r \in {"SENT", "FAILED"} : CountedAs(r)' = CountedAs(r) /\ AddedAs(r)' = AddedAs(r)
  BY <1>3 DEF CountedAs, AddedAs
<1>7. CountersTrue'
  BY <1>6 DEF CountersTrue
<1>8. ASSUME ~miscounted' PROVE ~miscounted /\ backfill.pc = "idle"
  BY <1>8 DEF AnalyticsTypeOK
<1>9. Tallies(NoCounts)' = Tallies(NoCounts) /\ Tallies(stats)' = Tallies(stats)
  BY <1>6 DEF Tallies, NoCounts
<1>10. StatsTrue'
  BY <1>8, <1>9 DEF StatsTrue
<1> QED BY <1>2, <1>4, <1>5, <1>7, <1>10

\* A step of one update leaves the others and the logs.
LEMMA UpdateMoves ==
  ASSUME AnalyticsTypeOK, NEW m \in Logs, NEW pc \in {"idle", "count", "increment"},
         update' = [update EXCEPT ![m] = pc]
  PROVE  /\ update' \in [Logs -> {"idle", "count", "increment"}]
         /\ update'[m] = pc
         /\ \A l \in Logs \ {m} : update'[l] = update[l]
BY DEF AnalyticsTypeOK

\* The counter of the campaign gets the log whose turn it is, once.
LEMMA CountMessageKeeps ==
  ASSUME AnalyticsInvariant, NEW m \in Logs, CountMessage(m)
  PROVE  AnalyticsInvariant'
<1> USE DEF AnalyticsInvariant, CountMessage
<1>1. /\ update' \in [Logs -> {"idle", "count", "increment"}]
      /\ update'[m] = "increment"
      /\ \A l \in Logs \ {m} : update'[l] = update[l]
  BY UpdateMoves
<1>2. log[m] \in {"SENT", "FAILED"} /\ m \notin cancelled
  BY DEF LogsFit, CancelledRest
<1>3. counters \in Counts /\ counters' = Plus(counters, log[m])
  BY DEF AnalyticsTypeOK
<1>4. counters' \in Counts
  BY <1>2, <1>3, PlusOne
<1>5. AnalyticsTypeOK'
  BY <1>1, <1>4 DEF AnalyticsTypeOK
<1>6. LogsFit' /\ CancelledRest'
  BY <1>1, <1>2 DEF LogsFit, CancelledRest
<1>7. /\ CountedAs(log[m])' = CountedAs(log[m]) \cup {m} /\ m \notin CountedAs(log[m])
      /\ \A s \in {"SENT", "FAILED"} : s # log[m] => CountedAs(s)' = CountedAs(s)
      /\ \A s \in {"SENT", "FAILED"} : AddedAs(s)' = AddedAs(s)
  BY <1>1 DEF CountedAs, AddedAs
<1>8. CountersTrue'
  <2>1. CASE log[m] = "SENT"
    <3>1. CountedAs("SENT")' = CountedAs("SENT") \cup {m} /\ CountedAs("FAILED")' = CountedAs("FAILED")
      BY <1>7, <2>1
    <3>2. CountedAs("SENT") \in SUBSET Logs /\ m \in Logs \ CountedAs("SENT")
      BY <1>7, <2>1 DEF CountedAs
    <3>3. Cardinality(CountedAs("SENT") \cup {m}) = Cardinality(CountedAs("SENT")) + 1
      BY <3>2, OneMoreLog
    <3>4. counters'.sent = counters.sent + 1 /\ counters'.failed = counters.failed
      BY <1>3, <2>1, PlusOne
    <3> QED BY <3>1, <3>3, <3>4 DEF CountersTrue
  <2>2. CASE log[m] = "FAILED"
    <3>1. /\ CountedAs("SENT")' = CountedAs("SENT")
          /\ CountedAs("FAILED")' \ cancelled' = (CountedAs("FAILED") \ cancelled) \cup {m}
      BY <1>2, <1>7, <2>2
    <3>2. CountedAs("FAILED") \ cancelled \in SUBSET Logs /\ m \in Logs \ (CountedAs("FAILED") \ cancelled)
      BY <1>7, <2>2 DEF CountedAs
    <3>3. Cardinality((CountedAs("FAILED") \ cancelled) \cup {m})
            = Cardinality(CountedAs("FAILED") \ cancelled) + 1
      BY <3>2, OneMoreLog
    <3>4. counters'.sent = counters.sent /\ counters'.failed = counters.failed + 1
      BY <1>3, <2>2, PlusOne
    <3> QED BY <3>1, <3>3, <3>4 DEF CountersTrue
  <2> QED BY <1>2, <2>1, <2>2
<1>9. InFlight /\ InFlight'
  BY <1>1 DEF InFlight
<1>10. Tallies(NoCounts)' = Tallies(NoCounts) /\ Tallies(stats)' = Tallies(stats)
  BY <1>7 DEF Tallies, NoCounts
<1>11. StatsTrue'
  BY <1>9, <1>10 DEF StatsTrue
<1> QED BY <1>5, <1>6, <1>8, <1>11

\* The row of the statistics gets it, or what it shows is known to be wrong.
LEMMA IncrementStatKeeps ==
  ASSUME AnalyticsInvariant, NEW m \in Logs, IncrementStat(m)
  PROVE  AnalyticsInvariant'
<1> USE DEF AnalyticsInvariant, IncrementStat
<1>1. /\ update' \in [Logs -> {"idle", "count", "increment"}]
      /\ update'[m] = "idle"
      /\ \A l \in Logs \ {m} : update'[l] = update[l]
  BY UpdateMoves
<1>2. log[m] \in {"SENT", "FAILED"} /\ m \notin cancelled
  BY DEF LogsFit, CancelledRest
<1>3. stats # NoStats => stats \in Counts
  BY DEF AnalyticsTypeOK, CampaignStats
<1>4. stats' \in CampaignStats
  BY <1>2, <1>3, PlusOne DEF CampaignStats, AnalyticsTypeOK
<1>5. AnalyticsTypeOK'
  BY <1>1, <1>4 DEF AnalyticsTypeOK
<1>6. LogsFit' /\ CancelledRest'
  BY <1>1, <1>2 DEF LogsFit, CancelledRest
<1>7. /\ AddedAs(log[m])' = AddedAs(log[m]) \cup {m} /\ m \notin AddedAs(log[m])
      /\ \A s \in {"SENT", "FAILED"} : s # log[m] => AddedAs(s)' = AddedAs(s)
      /\ \A s \in {"SENT", "FAILED"} : CountedAs(s)' = CountedAs(s)
  BY <1>1 DEF CountedAs, AddedAs
<1>8. CountersTrue'
  BY <1>7 DEF CountersTrue
<1>9. ASSUME ~miscounted'
      PROVE  ~miscounted /\ backfill'.pc = "idle" /\ stats # NoStats
  BY <1>9 DEF AnalyticsTypeOK
<1>10. ASSUME stats # NoStats, Tallies(stats)
       PROVE  stats' # NoStats /\ Tallies(stats)'
  <2> USE <1>10
  <2>0. stats \in Counts /\ stats' = Plus(stats, log[m])
    BY <1>3
  <2>1. CASE log[m] = "SENT"
    <3>1. AddedAs("SENT")' = AddedAs("SENT") \cup {m} /\ AddedAs("FAILED")' = AddedAs("FAILED")
      BY <1>7, <2>1
    <3>2. AddedAs("SENT") \in SUBSET Logs /\ m \in Logs \ AddedAs("SENT")
      BY <1>7, <2>1 DEF AddedAs
    <3>3. Cardinality(AddedAs("SENT") \cup {m}) = Cardinality(AddedAs("SENT")) + 1
      BY <3>2, OneMoreLog
    <3>4. stats'.sent = stats.sent + 1 /\ stats'.failed = stats.failed
      BY <2>0, <2>1, PlusOne
    <3>5. stats' # NoStats
      BY <2>0, <2>1, PlusOne, CountsAreARow
    <3> QED BY <3>1, <3>3, <3>4, <3>5 DEF Tallies
  <2>2. CASE log[m] = "FAILED"
    <3>1. /\ AddedAs("SENT")' = AddedAs("SENT")
          /\ AddedAs("FAILED")' = AddedAs("FAILED") \cup {m}
          /\ AddedAs("FAILED")' \ cancelled' = (AddedAs("FAILED") \ cancelled) \cup {m}
      BY <1>2, <1>7, <2>2
    <3>2. /\ AddedAs("FAILED") \in SUBSET Logs /\ m \in Logs \ AddedAs("FAILED")
          /\ AddedAs("FAILED") \ cancelled \in SUBSET Logs /\ m \in Logs \ (AddedAs("FAILED") \ cancelled)
      BY <1>7, <2>2 DEF AddedAs
    <3>3. /\ Cardinality(AddedAs("FAILED") \cup {m}) = Cardinality(AddedAs("FAILED")) + 1
          /\ Cardinality((AddedAs("FAILED") \ cancelled) \cup {m})
               = Cardinality(AddedAs("FAILED") \ cancelled) + 1
      BY <3>2, OneMoreLog
    <3>4. stats'.sent = stats.sent /\ stats'.failed = stats.failed + 1
      BY <2>0, <2>2, PlusOne
    <3>5. stats' # NoStats
      BY <2>0, <2>2, PlusOne, CountsAreARow
    <3> QED BY <3>1, <3>3, <3>4, <3>5 DEF Tallies
  <2> QED BY <1>2, <2>1, <2>2
<1>11. StatsTrue'
  BY <1>9, <1>10 DEF StatsTrue
<1> QED BY <1>5, <1>6, <1>8, <1>11

\* The row is made with nothing in it, when none is there; a backfill reads what
\* the logs show when no update is on its way, and writes it.
LEMMA StatsRowKeeps ==
  ASSUME AnalyticsInvariant, EnsureStats \/ Aggregate \/ UpsertStats
  PROVE  AnalyticsInvariant'
<1> USE DEF AnalyticsInvariant
<1>1. UNCHANGED << state, starts, log, counters, update, cancelled >>
  BY DEF EnsureStats, Aggregate, UpsertStats
<1>2. LogsFit'
  BY <1>1 DEF LogsFit
<1>3. CancelledRest'
  BY <1>1 DEF CancelledRest, EnsureStats, Aggregate, UpsertStats
<1>4. \A s \in {"SENT", "FAILED"} : CountedAs(s)' = CountedAs(s) /\ AddedAs(s)' = AddedAs(s)
  BY <1>1 DEF CountedAs, AddedAs
<1>5. CountersTrue'
  BY <1>1, <1>4 DEF CountersTrue
<1>6. InFlight' = InFlight
  BY <1>1 DEF InFlight
<1>7. AnalyticsTypeOK' /\ StatsTrue'
  <2>1. CASE EnsureStats
    <3> USE <2>1 DEF EnsureStats
    <3>1. AnalyticsTypeOK'
      BY CountsAreARow DEF AnalyticsTypeOK, CampaignStats
    <3>2. /\ stats' # NoStats
          /\ (stats = NoStats => Tallies(NoCounts)) /\ (stats # NoStats => Tallies(stats)) => Tallies(stats)'
      BY <1>4, CountsAreARow DEF Tallies
    <3>3. Tallies(backfill.row)' = Tallies(backfill.row)
      BY <1>4 DEF Tallies
    <3> QED BY <1>6, <3>1, <3>2, <3>3 DEF StatsTrue
  <2>2. CASE Aggregate
    <3> USE <2>2 DEF Aggregate
    <3>1. \A s \in {"SENT", "FAILED"} : Cardinality(With(s)) \in Nat
      BY OneMoreLog DEF With
    <3>2. backfill' \in [pc : {"idle", "upsert"}, row : Counts]
      BY <3>1 DEF Counts
    <3>3. AnalyticsTypeOK'
      BY <3>2, AnalyticsBounds DEF AnalyticsTypeOK, InFlight
    <3>4. ASSUME ~miscounted' PROVE ~miscounted /\ ~InFlight /\ ~InFlight'
      BY <1>6, <3>4 DEF AnalyticsTypeOK
    <3>5. ASSUME ~InFlight PROVE Tallies(backfill.row)'
      BY <1>4, <3>5, NothingInFlight DEF Tallies
    <3>6. Tallies(NoCounts)' = Tallies(NoCounts) /\ Tallies(stats)' = Tallies(stats)
      BY <1>4 DEF Tallies, NoCounts
    <3> QED BY <3>3, <3>4, <3>5, <3>6 DEF StatsTrue
  <2>3. CASE UpsertStats
    <3> USE <2>3 DEF UpsertStats
    <3>1. backfill.row \in Counts /\ backfill' \in [pc : {"idle", "upsert"}, row : Counts]
      BY DEF AnalyticsTypeOK
    <3>2. AnalyticsTypeOK'
      BY <3>1 DEF AnalyticsTypeOK, CampaignStats
    <3>3. stats' # NoStats
      BY <3>1, CountsAreARow
    <3>4. Tallies(backfill.row) => Tallies(stats)'
      BY <1>4 DEF Tallies
    <3>5. backfill'.pc = "idle"
      OBVIOUS
    <3> QED BY <3>2, <3>3, <3>4, <3>5 DEF StatsTrue
  <2> QED BY <2>1, <2>2, <2>3
<1> QED BY <1>2, <1>3, <1>5, <1>7

\* Every step keeps the invariant.
LEMMA AnalyticsInductive ==
  AnalyticsInvariant /\ [AnalyticsNext]_analyticsVars => AnalyticsInvariant'
<1> SUFFICES ASSUME AnalyticsInvariant, [AnalyticsNext]_analyticsVars
             PROVE  AnalyticsInvariant'
  OBVIOUS
<1>1. CASE SaveLogs \/ Start \/ Pause \/ FindStats
  BY <1>1, StartsKeep
<1>2. CASE Cancel
  BY <1>2, CancelKeeps
<1>3. ASSUME NEW l \in Logs, MessageStep(l) PROVE AnalyticsInvariant'
  BY <1>3, SetStatusKeeps, CountMessageKeeps, IncrementStatKeeps DEF MessageStep
<1>4. CASE EnsureStats \/ Aggregate \/ UpsertStats
  BY <1>4, StatsRowKeeps
<1>5. CASE UNCHANGED analyticsVars
  BY <1>5 DEF AnalyticsInvariant, AnalyticsTypeOK, LogsFit, CancelledRest, CountersTrue,
              StatsTrue, Tallies, CountedAs, AddedAs, InFlight, analyticsVars
<1> QED BY <1>1, <1>2, <1>3, <1>4, <1>5 DEF AnalyticsNext

\* Logs, counters and the statistics agree as the invariant says, in every state.
THEOREM AnalyticsInvariance == AnalyticsSpec => []AnalyticsInvariant
BY AnalyticsStart, AnalyticsInductive, PTL DEF AnalyticsSpec

\* Every variable of the statistics keeps its type.
THEOREM AnalyticsTypes == AnalyticsSpec => []AnalyticsTypeOK
<1>1. AnalyticsInvariant => AnalyticsTypeOK
  BY DEF AnalyticsInvariant
<1> QED BY <1>1, AnalyticsInvariance, PTL

\* What a campaign shows, once the updates have come through, is what its logs say.
THEOREM StatsAreExact == AnalyticsSpec => []StatsExact
<1>1. AnalyticsInvariant => StatsExact
  <2> SUFFICES ASSUME AnalyticsInvariant, ~InFlight, backfill.pc = "idle", ~miscounted
               PROVE  /\ Shown.sent = Cardinality(With("SENT"))
                      /\ Shown.failed \in {Cardinality(With("FAILED")),
                                           Cardinality(With("FAILED") \ cancelled)}
    BY DEF StatsExact
  <2>1. \A s \in {"SENT", "FAILED"} : AddedAs(s) = With(s) /\ CountedAs(s) = With(s)
    BY NothingInFlight DEF AnalyticsInvariant
  <2>2. CASE stats = NoStats
    BY <2>1, <2>2 DEF Shown, AnalyticsInvariant, CountersTrue
  <2>3. CASE stats # NoStats
    BY <2>1, <2>3 DEF Shown, AnalyticsInvariant, StatsTrue, Tallies
  <2> QED BY <2>2, <2>3
<1> QED BY <1>1, AnalyticsInvariance, PTL

-----------------------------------------------------------------------------
(* Sets of numbers. *)

\* Which of two numbers is the earlier.
Earlier == {p \in Nat \X Nat : p[1] < p[2]}

\* There is no sequence of ever earlier numbers.
LEMMA EarlierEnds == IsWellFoundedOn(Earlier, Nat)
<1>1. OpToRel(<, Nat) = Earlier
  BY DEF OpToRel, Earlier
<1> QED BY <1>1, NatLessThanWellFounded

\* A set of numbers that has one has a least one,
LEMMA LeastOf ==
  ASSUME NEW S \in SUBSET Nat, S # {}
  PROVE  \E m \in S : \A k \in S : m <= k
<1>1. \E m \in S : \A k \in S : ~(<< k, m >> \in Earlier)
  BY EarlierEnds, WFMin
<1>2. \A k, m \in S : k < m => << k, m >> \in Earlier
  BY DEF Earlier
<1>3. \A k, m \in S : k < m \/ m <= k
  OBVIOUS
<1> QED BY <1>1, <1>2, <1>3

\* and, when it has a bound, a greatest one.
LEMMA GreatestOf ==
  ASSUME NEW n \in Nat, NEW S \in SUBSET (1..n), S # {}
  PROVE  \E m \in S : \A k \in S : k <= m
<1> DEFINE T == {i \in 0..n : n - i \in S}
<1>1. T \in SUBSET Nat /\ T # {}
  <2>1. PICK s \in S : TRUE
    OBVIOUS
  <2>2. n - s \in 0..n /\ n - (n - s) = s
    OBVIOUS
  <2>3. n - s \in T
    BY <2>1, <2>2
  <2>4. T \in SUBSET Nat
    OBVIOUS
  <2> QED BY <2>3, <2>4
<1>2. PICK t \in T : \A u \in T : t <= u
  BY <1>1, LeastOf
<1>3. ASSUME NEW k \in S PROVE k <= n - t
  <2>1. n - k \in 0..n /\ n - (n - k) = k
    OBVIOUS
  <2>2. n - k \in T
    BY <2>1
  <2> QED BY <1>2, <2>2
<1> QED BY <1>2, <1>3

-----------------------------------------------------------------------------
(* Inbox. *)

\* Rows of the log are finitely many.
LEMMA RowsAreFinite ==
  ASSUME NEW n \in Nat, NEW S \in SUBSET (1..n)
  PROVE  /\ IsFiniteSet(S) /\ Cardinality(S) \in Nat
         /\ \A T \in SUBSET S :
              /\ Cardinality(T) \in Nat /\ Cardinality(T) <= Cardinality(S)
              /\ \A i \in S : Cardinality(T \ {i}) < Cardinality(S) \/ i \notin T
              /\ \A i \in S \ T : Cardinality(T) < Cardinality(S)
<1>1. IsFiniteSet(S)
  <2>1. IsFiniteSet(1..n)
    BY FS_Interval
  <2> QED BY <2>1, FS_Subset
<1>2. Cardinality(S) \in Nat
  BY <1>1, FS_CardinalityType
<1>3. ASSUME NEW T \in SUBSET S PROVE Cardinality(T) \in Nat /\ Cardinality(T) <= Cardinality(S)
  BY <1>1, FS_Subset, FS_CardinalityType
<1>4. ASSUME NEW T \in SUBSET S, NEW i \in S \ T PROVE Cardinality(T) < Cardinality(S)
  <2>1. Cardinality(S \ {i}) = Cardinality(S) - 1
    BY <1>1, FS_RemoveElement
  <2>2. T \in SUBSET (S \ {i}) /\ IsFiniteSet(S \ {i})
    BY <1>1, FS_RemoveElement
  <2>3. Cardinality(T) <= Cardinality(S \ {i}) /\ Cardinality(T) \in Nat
    BY <2>2, FS_Subset, FS_CardinalityType
  <2> QED BY <1>2, <2>1, <2>3
<1>5. ASSUME NEW T \in SUBSET S, NEW i \in S PROVE Cardinality(T \ {i}) < Cardinality(S)
  <2>1. T \ {i} \in SUBSET S /\ i \in S \ (T \ {i})
    OBVIOUS
  <2> QED BY <1>4, <2>1
<1> QED BY <1>1, <1>2, <1>3, <1>4, <1>5

\* The first of a set of rows is one of them, and none is before it.
LEMMA FirstIs ==
  ASSUME NEW n \in Nat, NEW S \in SUBSET (1..n), S # {}
  PROVE  First(S) \in S /\ \A j \in S : First(S) <= j
<1>1. S \in SUBSET Nat
  OBVIOUS
<1>2. \E m \in S : \A k \in S : m <= k
  BY <1>1, LeastOf
<1> QED BY <1>2 DEF First

\* Nor is one after the last.
LEMMA LatestIs ==
  ASSUME NEW n \in Nat, NEW S \in SUBSET (1..n), S # {}
  PROVE  Latest(S) \in S /\ \A j \in S : j <= Latest(S)
<1>1. \E m \in S : \A k \in S : k <= m
  BY GreatestOf
<1> QED BY <1>1 DEF Latest

\* A query with a limit gives rows after which it leaves out none, as many as the
\* limit if there are.
LEMMA NewestOf ==
  ASSUME NEW n \in Nat, NEW S \in SUBSET (1..n), NEW k \in Nat
  PROVE  /\ Newest(S, k) \subseteq S
         /\ \A i \in Newest(S, k), j \in S : i <= j => j \in Newest(S, k)
         /\ Cardinality(S) <= k => Newest(S, k) = S
         /\ Cardinality(Newest(S, k + 1)) <= k => Newest(S, k + 1) = S
         /\ S # {} /\ k # 0 => Newest(S, k) # {}
<1> DEFINE After(i) == {j \in S : j > i}
<1> \A i \in S : i \in Nat
  OBVIOUS
<1>0. \A i \in S : After(i) \in SUBSET S /\ i \in S \ After(i)
  OBVIOUS
<1>1. /\ Cardinality(S) \in Nat
      /\ \A i \in S : Cardinality(After(i)) \in Nat /\ Cardinality(After(i)) < Cardinality(S)
  BY <1>0, RowsAreFinite
<1>2. \A i \in S : i \in Newest(S, k) <=> Cardinality(After(i)) < k
  BY DEF Newest
<1>3. Newest(S, k) \subseteq S
  BY DEF Newest
<1>4. ASSUME NEW i \in Newest(S, k), NEW j \in S, i <= j PROVE j \in Newest(S, k)
  <2>0. i \in S /\ j \in S
    BY <1>3, <1>4
  <2>1. After(i) \in SUBSET (1..n) /\ After(j) \in SUBSET After(i)
    <3>1. \A h \in S : h > j => h > i
      BY <1>4, <2>0
    <3> QED BY <3>1
  <2>2. Cardinality(After(j)) <= Cardinality(After(i))
    BY <2>1, RowsAreFinite
  <2> QED BY <1>1, <1>2, <2>0, <2>2, <1>4
<1>5. ASSUME Cardinality(S) <= k PROVE Newest(S, k) = S
  <2>1. \A i \in S : Cardinality(After(i)) < k
    BY <1>1, <1>5
  <2> QED BY <1>2, <1>3, <2>1
<1>6. ASSUME Cardinality(Newest(S, k + 1)) <= k PROVE Newest(S, k + 1) = S
  <2> DEFINE N == Newest(S, k + 1)
  <2>1. N \subseteq S /\ \A i \in S : i \in N <=> Cardinality(After(i)) < k + 1
    BY DEF Newest
  <2>2. SUFFICES ASSUME S \ N # {} PROVE FALSE
    BY <2>1
  <2>3. PICK m \in S \ N : \A i \in S \ N : i <= m
    <3>1. S \ N \in SUBSET (1..n)
      OBVIOUS
    <3> QED BY <2>2, <3>1, GreatestOf
  <2>4. After(m) \in SUBSET N /\ N \in SUBSET (1..n)
    <3>1. \A i \in S : i > m => i \in N
      BY <2>3
    <3> QED BY <2>1, <3>1
  <2> HIDE DEF N
  <2>5. Cardinality(After(m)) <= Cardinality(N) /\ Cardinality(N) \in Nat
    BY <2>4, RowsAreFinite
  <2>6. Cardinality(N) <= k
    BY <1>6 DEF N
  <2>7. Cardinality(After(m)) < k + 1
    BY <1>1, <2>3, <2>5, <2>6
  <2> QED BY <2>1, <2>3, <2>7
<1>7. ASSUME S # {}, k # 0 PROVE Newest(S, k) # {}
  <2>1. PICK m \in S : \A i \in S : i <= m
    BY <1>7, GreatestOf
  <2>2. After(m) = {}
    <3>1. \A i \in S : ~(i > m)
      BY <2>1
    <3> QED BY <3>1
  <2>3. Cardinality(After(m)) < k
    BY <1>7, <2>2, FS_EmptySet
  <2> QED BY <1>2, <2>3
<1> QED BY <1>3, <1>4, <1>5, <1>6, <1>7

\* The rows of a contact are rows of the log.
LEMMA RowsOfLog ==
  ASSUME InboxTypeOK
  PROVE  /\ Len(messages) \in Nat /\ DOMAIN messages = 1..Len(messages)
         /\ \A i \in DOMAIN messages : messages[i] \in Message /\ messages[i].ms \in Nat
         /\ \A who : Of(who) \in SUBSET (1..Len(messages))
         /\ BeforeCursor \in SUBSET Of(reader.who)
<1>1. Len(messages) \in Nat /\ DOMAIN messages = 1..Len(messages)
      /\ \A i \in DOMAIN messages : messages[i] \in Message
  BY DEF InboxTypeOK
<1>2. \A i \in DOMAIN messages : messages[i].ms \in Nat
  BY <1>1, InboxBounds DEF Message
<1> QED BY <1>1, <1>2 DEF Of, BeforeCursor

\* A row that is logged leaves those that are there.
LEMMA LogGrows ==
  ASSUME InboxTypeOK, NEW c \in Correspondents, NEW direction \in {"INBOUND", "OUTBOUND"},
         NEW status \in {"DELIVERED", "SENT", "FAILED"}, Save(c, direction, status)
  PROVE  /\ messages' \in Seq(Message) /\ Len(messages') = Len(messages) + 1
         /\ Len(messages') <= MaxInbox /\ messages'[Len(messages')].ms = ms
         /\ DOMAIN messages' = 1..(Len(messages) + 1)
         /\ \A i \in DOMAIN messages : messages'[i] = messages[i]
<1>1. [who |-> c, direction |-> direction, status |-> status, ms |-> ms] \in Message
  BY DEF Message, InboxTypeOK
<1> QED BY <1>1, InboxBounds DEF Save, InboxTypeOK

\* What there was of a contact is there still, and nothing was put before it.
LEMMA OfGrows ==
  ASSUME InboxTypeOK, Len(messages') = Len(messages) + 1, DOMAIN messages' = 1..(Len(messages) + 1),
         \A i \in DOMAIN messages : messages'[i] = messages[i], NEW who
  PROVE  /\ Of(who) \subseteq Of(who)'
         /\ \A i \in Of(who)' : i <= Len(messages) => i \in Of(who)
BY RowsOfLog DEF Of

\* A message that is logged is behind what a client reads and what a list shows.
LEMMA SaveKeeps ==
  ASSUME InboxInvariant, NEW c \in Correspondents, NEW direction \in {"INBOUND", "OUTBOUND"},
         NEW status \in {"DELIVERED", "SENT", "FAILED"}, Save(c, direction, status),
         UNCHANGED << ms, reader, list >>, reply' \subseteq Correspondents
  PROVE  InboxInvariant'
<1> USE DEF InboxInvariant
<1>1. /\ messages' \in Seq(Message) /\ Len(messages') = Len(messages) + 1
      /\ Len(messages') <= MaxInbox /\ messages'[Len(messages')].ms = ms
      /\ DOMAIN messages' = 1..(Len(messages) + 1)
      /\ \A i \in DOMAIN messages : messages'[i] = messages[i]
  BY LogGrows
<1>2. /\ Len(messages) \in Nat /\ DOMAIN messages = 1..Len(messages)
      /\ \A who : Of(who) \in SUBSET (1..Len(messages))
      /\ \A i \in DOMAIN messages : messages[i].ms \in Nat
  BY RowsOfLog
<1>3. \A who : /\ Of(who) \subseteq Of(who)'
               /\ \A i \in Of(who)' : i <= Len(messages) => i \in Of(who)
  BY <1>1, OfGrows
<1>4. InboxTypeOK'
  BY <1>1 DEF InboxTypeOK
<1>5. InOrder'
  <2>0. ms \in Nat
    BY InboxBounds DEF InboxTypeOK
  <2>1. \A i \in DOMAIN messages' : messages'[i].ms <= ms /\ messages'[i].ms \in Nat
    BY <1>1, <1>2, <2>0 DEF InOrder
  <2>2. \A i, j \in DOMAIN messages' : i <= j => messages'[i].ms <= messages'[j].ms
    BY <1>1, <1>2, <2>0, <2>1 DEF InOrder
  <2> QED BY <2>1, <2>2 DEF InOrder
<1>6. ReaderFits'
  BY <1>1, <1>2, <1>3 DEF ReaderFits, InboxTypeOK
<1>7. \A i \in Of(reader.who)' :
        i <= reader.size => /\ i \in Of(reader.who)
                            /\ PassedOver(i) => PassedOver(i)'
  <2> SUFFICES ASSUME NEW i \in Of(reader.who)', i <= reader.size
               PROVE  i \in Of(reader.who) /\ (PassedOver(i) => PassedOver(i)')
    OBVIOUS
  <2>1. i \in Nat /\ reader.size \in Nat
    BY <1>1, InboxBounds DEF Of, InboxTypeOK
  <2>2. i \in Of(reader.who) /\ i \in DOMAIN messages
    BY <1>2, <1>3, <2>1 DEF ReaderFits
  <2>3. \A k \in reader.cursors : messages'[k] = messages[k]
    BY <1>1, <1>2 DEF ReaderFits
  <2> QED BY <1>1, <2>2, <2>3 DEF PassedOver
<1>8. \A i \in Of(reader.who) : i \in BeforeCursor => i \in BeforeCursor'
  <2>1. reader.cursors # {} => First(reader.cursors) \in reader.cursors
    BY <1>2, FirstIs DEF ReaderFits
  <2>2. reader.cursors # {} => First(reader.cursors) \in DOMAIN messages
    BY <1>2, <2>1 DEF ReaderFits
  <2> QED BY <1>1, <1>2, <1>3, <2>2 DEF BeforeCursor
<1>9. PagesToCome' /\ ThreadWhole'
  BY <1>7, <1>8 DEF PagesToCome, ThreadWhole
<1>10. ListFits'
  <2>1. \A k \in DOMAIN list.todo : Of({list.todo[k]}) # {}
    BY DEF ListFits
  <2>2. DOMAIN messages \subseteq DOMAIN messages'
    BY <1>1, <1>2
  <2>3. list.pc = "unread" => list.todo # <<>> /\ list.last \in DOMAIN messages'
    BY <2>2 DEF ListFits
  <2>4. \A e \in list.data : e.last \in DOMAIN messages'
    BY <2>2 DEF ListFits
  <2>5. (\A k \in DOMAIN list.todo : Of({list.todo[k]}) # {})'
    BY <2>1, <1>3
  <2> QED BY <2>3, <2>4, <2>5 DEF ListFits
<1>11. UnreadIncludesLast'
  <2> SUFFICES ASSUME NEW e \in list.data
               PROVE  e.unread >= Cardinality(Inbound({i \in Of({e.who}) : i <= e.last}))'
    BY DEF UnreadIncludesLast
  <2>1. e.last \in 1..Len(messages)
    BY <1>2 DEF ListFits
  <2>2. Inbound({i \in Of({e.who}) : i <= e.last})' = Inbound({i \in Of({e.who}) : i <= e.last})
    BY <1>1, <1>2, <1>3, <2>1 DEF Inbound, Of
  <2> QED BY <2>2 DEF UnreadIncludesLast
<1> QED BY <1>4, <1>5, <1>6, <1>9, <1>10, <1>11

\* With the log as it is, what is known of the log stays.
LEMMA LogStays ==
  ASSUME InboxInvariant, UNCHANGED << messages, list >>, ms' \in Nat, ms <= ms'
  PROVE  InOrder' /\ ListFits' /\ UnreadIncludesLast'
<1>1. InOrder'
  <2>1. ms \in Nat /\ \A i \in DOMAIN messages : messages[i].ms \in Nat /\ messages[i].ms <= ms
    BY RowsOfLog, InboxBounds DEF InboxInvariant, InOrder, InboxTypeOK
  <2> QED BY <2>1 DEF InboxInvariant, InOrder
<1>2. ListFits' /\ UnreadIncludesLast'
  BY DEF InboxInvariant, ListFits, UnreadIncludesLast, Of, Inbound
<1> QED BY <1>1, <1>2

\* Time passes, a reply is asked of the session or fails.
LEMMA InboxQuietKeeps ==
  ASSUME InboxInvariant,
         PassMs \/ (\E c \in Correspondents : FindCorrespondent(c)) \/ ReplyFails
  PROVE  InboxInvariant'
<1> USE DEF InboxInvariant
<1>1. UNCHANGED << messages, reader, list >>
  BY DEF PassMs, FindCorrespondent, ReplyFails
<1>2. ms' \in 0..MaxMs /\ ms <= ms' /\ ms' \in Nat /\ reply' \subseteq Correspondents
  BY InboxBounds DEF PassMs, FindCorrespondent, ReplyFails, InboxTypeOK
<1>3. InboxTypeOK'
  BY <1>1, <1>2 DEF InboxTypeOK
<1>4. InOrder' /\ ListFits' /\ UnreadIncludesLast'
  BY <1>1, <1>2, LogStays
<1>5. ReaderFits' /\ PagesToCome' /\ ThreadWhole'
  BY <1>1 DEF ReaderFits, PagesToCome, ThreadWhole, PassedOver, BeforeCursor, Of
<1> QED BY <1>3, <1>4, <1>5

\* A thread is opened, with all of it to come, and closed.
LEMMA OpenKeeps ==
  ASSUME InboxInvariant, (\E c \in Correspondents : OpenThread(c)) \/ CloseThread
  PROVE  InboxInvariant'
<1> USE DEF InboxInvariant
<1>1. UNCHANGED << ms, messages, list, reply >> /\ ms \in Nat
  BY InboxBounds DEF OpenThread, CloseThread, InboxTypeOK
<1>2. /\ reader'.pc \in {"idle", "reading"} /\ reader'.cursors = {} /\ reader'.got = {}
      /\ reader'.size \in 0..MaxInbox /\ reader'.size <= Len(messages)
      /\ reader' \in [pc : {"idle", "reading", "done"}, who : SUBSET Correspondents,
                      size : 0..MaxInbox, cursors : SUBSET (1..MaxInbox), got : SUBSET (1..MaxInbox)]
  <2>1. Len(messages) \in 0..MaxInbox /\ 0 \in 0..MaxInbox /\ 0 <= Len(messages)
    BY RowsOfLog, InboxBounds DEF InboxTypeOK
  <2>2. CASE CloseThread
    BY <2>1, <2>2 DEF CloseThread, IdleReader
  <2>3. ASSUME NEW c \in Correspondents, OpenThread(c)
        PROVE  reader' = [pc |-> "reading", who |-> {c}, size |-> Len(messages), cursors |-> {}, got |-> {}]
    BY <2>3 DEF OpenThread
  <2> QED BY <2>1, <2>2, <2>3
<1>3. InboxTypeOK'
  BY <1>1, <1>2 DEF InboxTypeOK
<1>4. InOrder' /\ ListFits' /\ UnreadIncludesLast'
  BY <1>1, LogStays
<1>5. ReaderFits' /\ ThreadWhole'
  BY <1>1, <1>2 DEF ReaderFits, ThreadWhole
<1>6. PagesToCome'
  BY <1>1, <1>2 DEF PagesToCome, BeforeCursor
<1> QED BY <1>3, <1>4, <1>5, <1>6

\* A page is the messages before the cursor, or those of them from the next cursor on.
LEMMA GetThreadKeeps == InboxInvariant /\ GetThread => InboxInvariant'
<1> SUFFICES ASSUME InboxInvariant, GetThread PROVE InboxInvariant'
  OBVIOUS
<1> USE DEF InboxInvariant
<1> DEFINE n       == Len(messages)
           found   == Newest(BeforeCursor, PageSize + 1)
           data    == Newest(found, PageSize)
           hasMore == Cardinality(found) > PageSize
<1>1. /\ n \in Nat /\ n <= MaxInbox /\ DOMAIN messages = 1..n
      /\ \A i \in 1..n : messages[i].ms \in Nat
      /\ Of(reader.who) \in SUBSET (1..n) /\ BeforeCursor \in SUBSET Of(reader.who)
      /\ PageSize \in Nat /\ PageSize + 1 \in Nat /\ PageSize # 0
  BY RowsOfLog, PageSizeAssumption DEF InboxTypeOK
<1>2. /\ reader.pc = "reading"
      /\ reader' = [pc |-> IF hasMore THEN "reading" ELSE "done",
                    who |-> reader.who, size |-> reader.size, got |-> reader.got \cup data,
                    cursors |-> reader.cursors \cup (IF hasMore THEN {First(data)} ELSE {})]
      /\ UNCHANGED << ms, messages, list, reply >>
  BY DEF GetThread, ReadPage
<1>3. /\ found \subseteq BeforeCursor
      /\ \A i \in found, j \in BeforeCursor : i <= j => j \in found
      /\ Cardinality(found) <= PageSize => found = BeforeCursor
  <2>1. BeforeCursor \in SUBSET (1..n)
    BY <1>1
  <2> QED BY <1>1, <2>1, NewestOf
<1>4. found \in SUBSET (1..n)
  BY <1>1, <1>3
<1> HIDE DEF found
<1>5. /\ data \subseteq found
      /\ \A i \in data, j \in found : i <= j => j \in data
      /\ Cardinality(found) <= PageSize => data = found
      /\ found # {} => data # {}
  BY <1>1, <1>4, NewestOf
<1>6. data \in SUBSET (1..n)
  BY <1>4, <1>5
<1>7. hasMore => data # {}
  <2>1. Cardinality({}) = 0
    BY FS_EmptySet
  <2>2. hasMore => found # {}
    BY <2>1, PageSizeAssumption
  <2> QED BY <1>5, <2>2
<1>8. Cardinality(found) \in Nat
  BY <1>1, <1>4, RowsAreFinite
<1> HIDE DEF data
<1> DEFINE f == First(data)
<1>9. hasMore => f \in data /\ \A j \in data : f <= j
  BY <1>1, <1>6, <1>7, FirstIs
<1> HIDE DEF f
<1>10. hasMore \/ data = BeforeCursor
  BY <1>1, <1>3, <1>5, <1>8
<1> HIDE DEF hasMore, n
<1>11. /\ reader'.who = reader.who /\ reader'.size = reader.size
       /\ reader'.got = reader.got \cup data
       /\ hasMore  => reader'.pc = "reading" /\ reader'.cursors = reader.cursors \cup {f}
       /\ ~hasMore => reader'.pc = "done" /\ reader'.cursors = reader.cursors
  BY <1>2 DEF f
<1>12. InboxTypeOK'
  <2>1. data \in SUBSET (1..MaxInbox)
    BY <1>1, <1>6, InboxBounds
  <2>2. (IF hasMore THEN {First(data)} ELSE {}) \in SUBSET (1..MaxInbox)
    BY <1>9, <2>1 DEF f
  <2>3. reader' \in [pc : {"idle", "reading", "done"}, who : SUBSET Correspondents,
                     size : 0..MaxInbox, cursors : SUBSET (1..MaxInbox), got : SUBSET (1..MaxInbox)]
    BY <1>2, <2>1, <2>2 DEF InboxTypeOK
  <2> QED BY <1>2, <2>3 DEF InboxTypeOK
<1>13. InOrder' /\ ListFits' /\ UnreadIncludesLast'
  <2>1. ms \in Nat
    BY InboxBounds DEF InboxTypeOK
  <2> QED BY <1>2, <2>1, LogStays
<1>14. Of(reader.who)' = Of(reader.who)
  BY <1>2, <1>11 DEF Of
<1>15. ReaderFits'
  <2>1. data \subseteq Of(reader.who)
    BY <1>1, <1>3, <1>5
  <2>2. reader'.got \subseteq Of(reader.who) /\ reader'.cursors \subseteq Of(reader.who)
    BY <1>9, <1>11, <2>1 DEF ReaderFits
  <2> QED BY <1>2, <1>11, <1>14, <2>2 DEF ReaderFits
<1>16. \A i : PassedOver(i) => PassedOver(i)'
  BY <1>2, <1>11 DEF PassedOver
<1>17. CASE ~hasMore
  <2>1. ThreadWhole'
    BY <1>2, <1>10, <1>11, <1>14, <1>16, <1>17 DEF ThreadWhole, PagesToCome
  <2>2. PagesToCome'
    BY <1>11, <1>17 DEF PagesToCome
  <2> QED BY <1>12, <1>13, <1>15, <2>1, <2>2
<1>18. CASE hasMore
  <2>1. f \in BeforeCursor /\ f \in found /\ f \in data /\ f \in 1..n
    BY <1>3, <1>5, <1>6, <1>9, <1>18
  <2>2. First(reader.cursors)' = f
    <3>1. /\ reader'.cursors \in SUBSET (1..n) /\ reader'.cursors # {}
          /\ reader'.cursors = reader.cursors \cup {f}
      BY <1>1, <1>11, <1>14, <1>15, <1>18 DEF ReaderFits
    <3>2. First(reader'.cursors) \in reader'.cursors /\ \A j \in reader'.cursors : First(reader'.cursors) <= j
      BY <1>1, <3>1, FirstIs
    <3>3. \A j \in reader.cursors : f < j
      <4> SUFFICES ASSUME NEW j \in reader.cursors PROVE f < j
        OBVIOUS
      <4>0. reader.cursors \in SUBSET (1..n) /\ reader.cursors # {}
        BY <1>1 DEF ReaderFits
      <4>1. First(reader.cursors) \in reader.cursors /\ First(reader.cursors) <= j
        BY <1>1, <4>0, FirstIs
      <4>2. messages[f].ms < messages[First(reader.cursors)].ms
        BY <2>1, <4>0 DEF BeforeCursor
      <4>3. First(reader.cursors) \in 1..n /\ j \in 1..n
        BY <4>0, <4>1
      <4>4. f < First(reader.cursors)
        BY <1>1, <2>1, <4>2, <4>3 DEF InOrder
      <4> QED BY <1>1, <2>1, <4>1, <4>3, <4>4
    <3>4. First(reader'.cursors) \in 1..n
      BY <3>1, <3>2
    <3>5. First(reader'.cursors) <= f /\ f \in Nat /\ First(reader'.cursors) \in Nat
      BY <2>1, <3>1, <3>2, <3>4
    <3>6. First(reader'.cursors) = f
      BY <3>1, <3>2, <3>3, <3>5
    <3> QED BY <3>6 DEF First
  <2>3. ASSUME NEW i \in Of(reader.who), i \in BeforeCursor, i \notin data
        PROVE  PassedOver(i)' \/ i \in BeforeCursor'
    <3>1. i < f
      <4>1. i \in Nat /\ f \in Nat
        BY <1>1, <2>1
      <4>2. SUFFICES ASSUME f <= i PROVE FALSE
        BY <4>1
      <4>3. i \in found
        BY <1>3, <2>1, <2>3, <4>2
      <4> QED BY <1>5, <2>1, <2>3, <4>2, <4>3
    <3>2. i \in 1..n /\ messages[i].ms \in Nat /\ messages[f].ms \in Nat /\ messages[i].ms <= messages[f].ms
      BY <1>1, <2>1, <3>1 DEF InOrder
    <3>3. CASE messages[i].ms = messages[f].ms
      BY <1>2, <1>11, <1>18, <3>1, <3>3 DEF PassedOver
    <3>4. CASE messages[i].ms < messages[f].ms
      BY <1>2, <1>14, <2>2, <3>4 DEF BeforeCursor
    <3> QED BY <3>2, <3>3, <3>4
  <2>4. PagesToCome'
    BY <1>2, <1>11, <1>14, <1>16, <2>3 DEF PagesToCome
  <2>5. ThreadWhole'
    BY <1>11, <1>18 DEF ThreadWhole
  <2> QED BY <1>12, <1>13, <1>15, <2>4, <2>5
<1> QED BY <1>17, <1>18

\* A step of the list leaves the log and the reader.
LEMMA ListStepKeeps ==
  ASSUME InboxInvariant, UNCHANGED << ms, messages, reader, reply >>,
         list' \in [pc : {"idle", "last", "unread"}, last : 0..MaxInbox,
                    todo : Seq(Correspondents), data : SUBSET Conversation],
         ListFits', UnreadIncludesLast'
  PROVE  InboxInvariant'
<1> USE DEF InboxInvariant
<1>1. InboxTypeOK' /\ InOrder'
  BY DEF InboxTypeOK, InOrder
<1>2. ReaderFits' /\ PagesToCome' /\ ThreadWhole'
  BY DEF ReaderFits, PagesToCome, ThreadWhole, PassedOver, BeforeCursor, Of
<1> QED BY <1>1, <1>2

\* The list begins with the contacts that have messages, and ends.
LEMMA ListConversationsKeeps ==
  ASSUME InboxInvariant, ListConversations \/ Listed
  PROVE  InboxInvariant'
<1> USE DEF InboxInvariant
<1>1. UNCHANGED << ms, messages, reader, reply >>
  BY DEF ListConversations, Listed
<1>2. CASE Listed
  <2>1. list' = IdleList
    BY <1>2 DEF Listed
  <2>2. list' \in [pc : {"idle", "last", "unread"}, last : 0..MaxInbox,
                   todo : Seq(Correspondents), data : SUBSET Conversation]
    BY <2>1, InboxBounds DEF IdleList
  <2>3. ListFits' /\ UnreadIncludesLast'
    BY <2>1 DEF IdleList, ListFits, UnreadIncludesLast
  <2> QED BY <1>1, <2>2, <2>3, ListStepKeeps
<1>3. CASE ListConversations
  <2>1. PICK contacts \in [1..Cardinality(Writers) -> Writers] :
          list' = [pc |-> "last", last |-> 0, todo |-> contacts, data |-> {}]
    BY <1>3 DEF ListConversations
  <2>2. Writers \in SUBSET Correspondents /\ \A c \in Writers : Of({c}) # {}
    BY DEF Writers
  <2>3. Cardinality(Writers) \in Nat
    BY <2>2, InboxBounds, FS_Subset, FS_CardinalityType
  <2>4. contacts \in Seq(Correspondents) /\ \A k \in DOMAIN contacts : Of({contacts[k]}) # {}
    BY <2>2, <2>3
  <2>5. list' \in [pc : {"idle", "last", "unread"}, last : 0..MaxInbox,
                   todo : Seq(Correspondents), data : SUBSET Conversation]
    BY <2>1, <2>4, InboxBounds
  <2>6. (\A k \in DOMAIN list.todo : Of({list.todo[k]}) # {})'
    BY <1>1, <2>1, <2>4 DEF Of
  <2>7. ListFits' /\ UnreadIncludesLast'
    BY <2>1, <2>6 DEF ListFits, UnreadIncludesLast
  <2> QED BY <1>1, <2>5, <2>7, ListStepKeeps
<1> QED BY <1>2, <1>3

\* The last message of the next contact is found: it has one.
LEMMA FindLastKeeps == InboxInvariant /\ FindLast => InboxInvariant'
<1> SUFFICES ASSUME InboxInvariant, FindLast PROVE InboxInvariant'
  OBVIOUS
<1> USE DEF InboxInvariant
<1> DEFINE c == Head(list.todo)
<1>1. /\ list.todo # <<>> /\ UNCHANGED << ms, messages, reader, reply >>
      /\ list' = [pc |-> "unread", last |-> Latest(Of({c})), todo |-> list.todo, data |-> list.data]
  BY DEF FindLast
<1>2. c = list.todo[1] /\ 1 \in DOMAIN list.todo
  BY <1>1 DEF InboxTypeOK
<1>3. Latest(Of({c})) \in 1..Len(messages)
  <2>1. Of({c}) # {} /\ Of({c}) \in SUBSET (1..Len(messages)) /\ Len(messages) \in Nat
    BY <1>2, RowsOfLog DEF ListFits
  <2>2. Latest(Of({c})) \in Of({c})
    BY <2>1, LatestIs
  <2> QED BY <2>1, <2>2
<1>4. list' \in [pc : {"idle", "last", "unread"}, last : 0..MaxInbox,
                 todo : Seq(Correspondents), data : SUBSET Conversation]
  <2>1. Latest(Of({c})) \in 0..MaxInbox
    BY <1>3, RowsOfLog, InboxBounds DEF InboxTypeOK
  <2> QED BY <1>1, <2>1 DEF InboxTypeOK
<1>5. (\A k \in DOMAIN list.todo : Of({list.todo[k]}) # {})'
  BY <1>1 DEF ListFits, Of
<1>6. ListFits'
  BY <1>1, <1>3, <1>5, RowsOfLog DEF ListFits
<1>7. UnreadIncludesLast'
  BY <1>1 DEF UnreadIncludesLast, Of, Inbound
<1> QED BY <1>1, <1>4, <1>6, <1>7, ListStepKeeps

\* It is put on the list with the unread messages there are by now.
LEMMA CountUnreadKeeps == InboxInvariant /\ CountUnread => InboxInvariant'
<1> SUFFICES ASSUME InboxInvariant, CountUnread PROVE InboxInvariant'
  OBVIOUS
<1> USE DEF InboxInvariant
<1> DEFINE c == Head(list.todo)
           e == [who |-> c, last |-> list.last, unread |-> Cardinality(Inbound(Of({c})))]
<1>1. /\ list.pc = "unread" /\ UNCHANGED << ms, messages, reader, reply >>
      /\ list' = [pc |-> "last", last |-> list.last, todo |-> Tail(list.todo), data |-> list.data \cup {e}]
  BY DEF CountUnread, AddConversation
<1>2. list.todo \in Seq(Correspondents) /\ list.todo # <<>> /\ list.last \in DOMAIN messages
  BY <1>1 DEF InboxTypeOK, ListFits
<1>3. /\ c \in Correspondents /\ Tail(list.todo) \in Seq(Correspondents)
      /\ \A k \in DOMAIN Tail(list.todo) : k + 1 \in DOMAIN list.todo /\ Tail(list.todo)[k] = list.todo[k + 1]
  BY <1>2
<1>4. /\ Len(messages) \in Nat /\ DOMAIN messages = 1..Len(messages)
      /\ Inbound(Of({c})) \in SUBSET (1..Len(messages))
      /\ Inbound({i \in Of({c}) : i <= list.last}) \in SUBSET Inbound(Of({c}))
  BY RowsOfLog DEF Inbound
<1>5. /\ Cardinality(Inbound(Of({c}))) \in Nat
      /\ Cardinality(Inbound({i \in Of({c}) : i <= list.last})) \in Nat
      /\ Cardinality(Inbound({i \in Of({c}) : i <= list.last})) <= Cardinality(Inbound(Of({c})))
  BY <1>4, RowsAreFinite
<1>6. list' \in [pc : {"idle", "last", "unread"}, last : 0..MaxInbox,
                 todo : Seq(Correspondents), data : SUBSET Conversation]
  <2>1. list.last \in 1..MaxInbox
    BY <1>2, <1>4, InboxBounds DEF InboxTypeOK
  <2>2. e \in Conversation
    BY <1>3, <1>5, <2>1 DEF Conversation
  <2> HIDE DEF e
  <2> QED BY <1>1, <1>3, <2>2 DEF InboxTypeOK
<1>7. e.who = c /\ e.last = list.last /\ e.unread = Cardinality(Inbound(Of({c})))
  OBVIOUS
<1> HIDE DEF e
<1>8. list'.todo = Tail(list.todo) /\ list'.data = list.data \cup {e} /\ list'.pc = "last"
  BY <1>1
<1>9. (\A k \in DOMAIN list.todo : Of({list.todo[k]}) # {})'
  <2>1. \A k \in DOMAIN Tail(list.todo) : Of({Tail(list.todo)[k]}) # {}
    BY <1>3 DEF ListFits
  <2>2. \A who : Of(who)' = Of(who)
    BY <1>1 DEF Of
  <2> QED BY <1>8, <2>1, <2>2
<1>10. ListFits'
  <2>1. \A d \in list'.data : d.last \in DOMAIN messages
    BY <1>2, <1>7, <1>8 DEF ListFits
  <2> QED BY <1>1, <1>8, <1>9, <2>1 DEF ListFits
<1>11. UnreadIncludesLast'
  <2>1. \A d \in list'.data : d.unread >= Cardinality(Inbound({i \in Of({d.who}) : i <= d.last}))
    <3>1. e.unread >= Cardinality(Inbound({i \in Of({e.who}) : i <= e.last}))
      BY <1>5, <1>7
    <3> QED BY <1>8, <3>1 DEF UnreadIncludesLast
  <2>2. \A S : Inbound(S)' = Inbound(S)
    BY <1>1 DEF Inbound
  <2>3. \A who : Of(who)' = Of(who)
    BY <1>1 DEF Of
  <2> QED BY <1>8, <2>1, <2>2, <2>3 DEF UnreadIncludesLast
<1> QED BY <1>1, <1>6, <1>10, <1>11, ListStepKeeps

\* The initial state satisfies the invariant.
LEMMA InboxStart == InboxInit => InboxInvariant
<1> SUFFICES ASSUME InboxInit PROVE InboxInvariant
  OBVIOUS
<1> USE DEF InboxInit
<1>1. InboxTypeOK
  BY InboxBounds DEF InboxTypeOK, IdleReader, IdleList
<1>2. InOrder /\ ReaderFits /\ PagesToCome /\ ThreadWhole
  BY DEF InOrder, ReaderFits, PagesToCome, ThreadWhole, IdleReader
<1>3. ListFits /\ UnreadIncludesLast
  BY DEF ListFits, UnreadIncludesLast, IdleList
<1> QED BY <1>1, <1>2, <1>3 DEF InboxInvariant

\* Every step keeps the invariant.
LEMMA InboxInductive == InboxInvariant /\ [InboxNext]_inboxVars => InboxInvariant'
<1> SUFFICES ASSUME InboxInvariant, [InboxNext]_inboxVars PROVE InboxInvariant'
  OBVIOUS
<1>1. CASE PassMs \/ (\E c \in Correspondents : FindCorrespondent(c)) \/ ReplyFails
  BY <1>1, InboxQuietKeeps
<1>2. ASSUME NEW c \in Correspondents, LogInbound(c) PROVE InboxInvariant'
  BY <1>2, SaveKeeps DEF LogInbound, InboxInvariant, InboxTypeOK
<1>3. CASE SaveReply
  <2>1. PICK c \in reply, status \in {"SENT", "FAILED"} : Save(c, "OUTBOUND", status)
    BY <1>3 DEF SaveReply
  <2>2. c \in Correspondents
    BY DEF InboxInvariant, InboxTypeOK
  <2>3. reply' = {} /\ UNCHANGED << ms, reader, list >>
    BY <1>3 DEF SaveReply
  <2> QED BY <2>1, <2>2, <2>3, SaveKeeps
<1>4. CASE (\E c \in Correspondents : OpenThread(c)) \/ CloseThread
  BY <1>4, OpenKeeps
<1>5. CASE GetThread
  BY <1>5, GetThreadKeeps
<1>6. CASE ListConversations \/ Listed
  BY <1>6, ListConversationsKeeps
<1>7. CASE FindLast
  BY <1>7, FindLastKeeps
<1>8. CASE CountUnread
  BY <1>8, CountUnreadKeeps
<1>9. CASE UNCHANGED inboxVars
  <2>1. list \in [pc : {"idle", "last", "unread"}, last : 0..MaxInbox,
                  todo : Seq(Correspondents), data : SUBSET Conversation]
    BY DEF InboxInvariant, InboxTypeOK
  <2>2. UNCHANGED << ms, messages, reader, reply >> /\ UNCHANGED list
    BY <1>9 DEF inboxVars
  <2>3. ListFits' /\ UnreadIncludesLast'
    BY <2>2 DEF InboxInvariant, ListFits, UnreadIncludesLast, Of, Inbound
  <2> QED BY <2>1, <2>2, <2>3, ListStepKeeps
<1> QED BY <1>1, <1>2, <1>3, <1>4, <1>5, <1>6, <1>7, <1>8, <1>9 DEF InboxNext, SendMessage

\* The log, the reader and the list agree as the invariant says, in every state.
THEOREM InboxInvariance == InboxSpec => []InboxInvariant
BY InboxStart, InboxInductive, PTL DEF InboxSpec

\* Every variable of the inbox keeps its type.
THEOREM InboxTypes == InboxSpec => []InboxTypeOK
<1>1. InboxInvariant => InboxTypeOK
  BY DEF InboxInvariant
<1> QED BY <1>1, InboxInvariance, PTL

\* A thread read to its beginning has every message but for those of the millisecond
\* of a cursor, whatever arrives while it is read.
THEOREM ThreadsAreWhole == InboxSpec => []ThreadWhole
<1>1. InboxInvariant => ThreadWhole
  BY DEF InboxInvariant
<1> QED BY <1>1, InboxInvariance, PTL

\* A conversation is listed with every unread message up to the one it shows.
THEOREM UnreadIsCounted == InboxSpec => []UnreadIncludesLast
<1>1. InboxInvariant => UnreadIncludesLast
  BY DEF InboxInvariant
<1> QED BY <1>1, InboxInvariance, PTL

-----------------------------------------------------------------------------
(* Date automations. *)

\* A month has 28 days at least and 31 at most, and the most of them in leap years.
LEMMA MonthsHaveDays ==
  ASSUME NEW y \in Nat, NEW m \in 1..12
  PROVE  /\ MonthLength(y, m) \in 28..31
         /\ m # 2 => MonthLength(y, m) = MonthLength(2000, m)
         /\ MonthLength(y, 2) = IF IsLeapYear(y) THEN 29 ELSE 28
         /\ MonthLength(2000, 2) = 29
<1>1. IsLeapYear(2000)
  BY DEF IsLeapYear
<1> QED BY <1>1 DEF MonthLength

\* Month and day of a key are its own.
LEMMA KeysOfDays ==
  ASSUME NEW m \in 1..12, NEW d \in 1..31, NEW k \in 1..12, NEW e \in 1..31,
         31 * m + d = 31 * k + e
  PROVE  m = k /\ d = e
OBVIOUS

\* The day after a day of the calendar is one: the next of the year, with no day
\* between the two, or the first of the next year.
LEMMA NextDayIs ==
  ASSUME NEW dt, IsDay(dt)
  PROVE  /\ IsDay(NextDay(dt))
         /\ \/ /\ NextDay(dt).y = dt.y
               /\ 31 * dt.m + dt.d < 31 * NextDay(dt).m + NextDay(dt).d
               /\ \A m \in 1..12, d \in 1..31 :
                    /\ d <= MonthLength(dt.y, m)
                    /\ 31 * m + d <= 31 * NextDay(dt).m + NextDay(dt).d
                    /\ ~(31 * m + d <= 31 * dt.m + dt.d)
                    => m = NextDay(dt).m /\ d = NextDay(dt).d
            \/ NextDay(dt).y = dt.y + 1 /\ NextDay(dt).m = 1 /\ NextDay(dt).d = 1
<1> DEFINE w == (dt.w + 1) % 7
<1>1. /\ dt.y \in Nat /\ dt.m \in 1..12 /\ dt.d \in 1..31 /\ dt.w \in 0..6
      /\ dt.d <= MonthLength(dt.y, dt.m) /\ w \in 0..6
  BY DEF IsDay, DateRecord
<1>2. \A m \in 1..12 : MonthLength(dt.y, m) \in 28..31
  BY <1>1, MonthsHaveDays
<1>3. \A m \in 1..12 : MonthLength(dt.y + 1, m) \in 28..31
  BY <1>1, MonthsHaveDays
<1> HIDE DEF w
<1>4. CASE dt.d < MonthLength(dt.y, dt.m)
  <2>1. NextDay(dt) = [y |-> dt.y, m |-> dt.m, d |-> dt.d + 1, w |-> w]
    BY <1>4 DEF NextDay, w
  <2>2. dt.d + 1 \in 1..31
    BY <1>1, <1>2, <1>4
  <2>3. IsDay(NextDay(dt))
    BY <1>1, <1>2, <1>4, <2>1, <2>2 DEF IsDay, DateRecord
  <2>4. ASSUME NEW m \in 1..12, NEW d \in 1..31,
               31 * m + d <= 31 * dt.m + (dt.d + 1), ~(31 * m + d <= 31 * dt.m + dt.d)
        PROVE  m = dt.m /\ d = dt.d + 1
    <3>1. \A i, j \in Int : i <= j + 1 /\ ~(i <= j) => i = j + 1
      OBVIOUS
    <3>2. 31 * m + d \in Int /\ 31 * dt.m + dt.d \in Int
          /\ 31 * dt.m + (dt.d + 1) = (31 * dt.m + dt.d) + 1
      BY <1>1
    <3>3. 31 * m + d = 31 * dt.m + (dt.d + 1)
      BY <2>4, <3>1, <3>2
    <3> QED BY <1>1, <2>2, <3>3, KeysOfDays
  <2>5. NextDay(dt).y = dt.y /\ NextDay(dt).m = dt.m /\ NextDay(dt).d = dt.d + 1
    BY <2>1
  <2>6. 31 * dt.m + dt.d < 31 * dt.m + (dt.d + 1)
    BY <1>1
  <2> QED BY <2>3, <2>4, <2>5, <2>6, Zenon
<1>5. CASE ~(dt.d < MonthLength(dt.y, dt.m)) /\ dt.m < 12
  <2>1. NextDay(dt) = [y |-> dt.y, m |-> dt.m + 1, d |-> 1, w |-> w]
    BY <1>5 DEF NextDay, w
  <2>2. dt.m + 1 \in 1..12 /\ dt.d = MonthLength(dt.y, dt.m)
    BY <1>1, <1>2, <1>5
  <2>3. IsDay(NextDay(dt))
    BY <1>1, <1>2, <2>1, <2>2 DEF IsDay, DateRecord
  <2>4. ASSUME NEW m \in 1..12, NEW d \in 1..31, d <= MonthLength(dt.y, m),
               31 * m + d <= 31 * (dt.m + 1) + 1, ~(31 * m + d <= 31 * dt.m + dt.d)
        PROVE  m = dt.m + 1 /\ d = 1
    <3>1. MonthLength(dt.y, m) \in 28..31 /\ MonthLength(dt.y, dt.m) \in 28..31
      BY <1>1, <1>2
    <3>2. m # dt.m
      BY <1>1, <2>2, <2>4
    <3> QED BY <1>1, <2>2, <2>4, <3>1, <3>2
  <2>5. NextDay(dt).y = dt.y /\ NextDay(dt).m = dt.m + 1 /\ NextDay(dt).d = 1
    BY <2>1
  <2>6. 31 * dt.m + dt.d < 31 * (dt.m + 1) + 1
    BY <1>1
  <2> QED BY <2>3, <2>4, <2>5, <2>6, Zenon
<1>6. CASE ~(dt.d < MonthLength(dt.y, dt.m)) /\ ~(dt.m < 12)
  <2>1. NextDay(dt) = [y |-> dt.y + 1, m |-> 1, d |-> 1, w |-> w]
    BY <1>6 DEF NextDay, w
  <2>2. IsDay(NextDay(dt))
    BY <1>1, <1>3, <2>1 DEF IsDay, DateRecord
  <2>3. NextDay(dt).y = dt.y + 1 /\ NextDay(dt).m = 1 /\ NextDay(dt).d = 1
    BY <2>1
  <2> QED BY <2>2, <2>3, Zenon
<1> QED BY <1>4, <1>5, <1>6, Zenon

\* A contact with a date has a day of every year, and matches it and no other day.
LEMMA MatchesOnTheDay ==
  ASSUME NEW p \in People, HasDate(p), NEW dt, IsDay(dt)
  PROVE  /\ Anniversary(p, dt.y) = << Anniversary(p, dt.y)[1], Anniversary(p, dt.y)[2] >>
         /\ Anniversary(p, dt.y)[1] \in 1..12 /\ Anniversary(p, dt.y)[2] \in 1..31
         /\ Anniversary(p, dt.y)[2] <= MonthLength(dt.y, Anniversary(p, dt.y)[1])
         /\ DateMatches(p, dt) <=> << dt.m, dt.d >> = Anniversary(p, dt.y)
<1>1. /\ dt.y \in Nat /\ dt.m \in 1..12 /\ dt.d \in 1..31
      /\ dt.d <= MonthLength(dt.y, dt.m)
  BY DEF IsDay, DateRecord
<1>2. PICK m \in 1..12, d \in 1..31 : DateField[p] = << m, d >> /\ d <= MonthLength(2000, m)
  BY DateFieldAssumption DEF HasDate
<1>3. /\ MonthLength(dt.y, m) \in 28..31
      /\ m # 2 => MonthLength(dt.y, m) = MonthLength(2000, m)
      /\ MonthLength(dt.y, 2) = IF IsLeapYear(dt.y) THEN 29 ELSE 28
      /\ MonthLength(2000, 2) = 29
  BY <1>1, MonthsHaveDays
<1>4. CASE d <= MonthLength(dt.y, m)
  <2>1. Anniversary(p, dt.y) = << m, d >>
    BY <1>2, <1>3, <1>4 DEF Anniversary
  <2>2. DateMatches(p, dt) <=> << dt.m, dt.d >> = << m, d >>
    BY <1>2, <1>3, <1>4 DEF DateMatches, HasDate
  <2> QED BY <1>4, <2>1, <2>2
<1>5. CASE ~(d <= MonthLength(dt.y, m))
  <2>1. m = 2 /\ d = 29 /\ ~IsLeapYear(dt.y) /\ MonthLength(dt.y, 2) = 28
    BY <1>2, <1>3, <1>5
  <2>2. Anniversary(p, dt.y) = << 2, 28 >>
    BY <1>2, <1>3, <1>5 DEF Anniversary
  <2>3. << dt.m, dt.d >> # << m, d >>
    BY <1>1, <2>1
  <2>4. DateMatches(p, dt) <=> << dt.m, dt.d >> = << 2, 28 >>
    BY <1>2, <2>1, <2>3 DEF DateMatches, HasDate
  <2> QED BY <2>1, <2>2, <2>4
<1> QED BY <1>4, <1>5

\* The initial state satisfies the invariant.
LEMMA AutomationsStart == AutomationsInit => AutomationsInvariant
BY DaysAssumption DEF AutomationsInit, AutomationsInvariant, AutomationsTypeOK, UndisturbedTakePart,
   GreetingsHaveCome, GreetedOnceAYear, IsDay, DateRecord

\* Midnight: the greetings of the year and those of the new day.
LEMMA DailyCheckKeeps == AutomationsInvariant /\ DailyCheck => AutomationsInvariant'
<1> SUFFICES ASSUME AutomationsInvariant, DailyCheck PROVE AutomationsInvariant'
  OBVIOUS
<1> USE DEF AutomationsInvariant
<1> DEFINE dt    == NextDay(today)
           matched == IF active THEN {p \in People \ optedOut : DateMatches(p, dt)} ELSE {}
           kept    == {g \in greetings : g.day.y = dt.y}
           on(m, d) == 31 * m + d
<1>1. PICK reached \in SUBSET matched :
        /\ greetings' = kept \cup {[to |-> p, day |-> dt] : p \in reached}
        /\ uncampaigned' = uncampaigned \cup reached
        /\ disturbed' = disturbed \cup (matched \ reached)
  BY DEF DailyCheck
<1>2. today' = dt /\ UNCHANGED << active, optedOut >>
  BY SMTT(30) DEF DailyCheck
<1>3. IsDay(today) /\ IsDay(dt)
  BY NextDayIs DEF AutomationsTypeOK
<1>4. /\ today.y \in Nat /\ today.m \in 1..12 /\ today.d \in 1..31
      /\ dt.y \in Nat /\ dt.m \in 1..12 /\ dt.d \in 1..31 /\ dt \in DateRecord
      /\ today = [y |-> today.y, m |-> today.m, d |-> today.d, w |-> today.w]
  BY <1>3 DEF IsDay, DateRecord
<1>5. matched \subseteq People \ optedOut /\ \A p \in matched : DateMatches(p, dt) /\ HasDate(p)
  BY DEF DateMatches, HasDate
<1>6. \A p \in (People \ optedOut) \ matched : active => ~DateMatches(p, dt)
  OBVIOUS
<1>7. /\ \A g \in kept : g \in greetings /\ g.day.y = dt.y /\ g.to \in People /\ IsDay(g.day) /\ g.day \in DateRecord
      /\ \A g \in greetings : g.day.y = today.y
      /\ \A g \in greetings : g.day.y = dt.y => g \in kept
  BY DEF AutomationsTypeOK
<1>8. \A g \in greetings' :
        \/ g \in kept
        \/ \E p \in reached : g = [to |-> p, day |-> dt] /\ g.to = p /\ g.day = dt
  BY <1>1
<1>9. \A p \in reached : \E g \in greetings' : g.to = p
  <2> TAKE p \in reached
  <2>1. [to |-> p, day |-> dt] \in greetings' /\ [to |-> p, day |-> dt].to = p
    BY <1>1
  <2> QED BY <2>1
<1>10. kept \subseteq greetings' /\ reached \subseteq matched
  BY <1>1
<1> HIDE DEF kept, matched, dt
<1>11. AutomationsTypeOK'
  <2>1. \A p \in reached : [to |-> p, day |-> dt] \in [to : People, day : DateRecord]
    BY <1>4, <1>5
  <2>2. kept \subseteq [to : People, day : DateRecord]
    BY <1>7 DEF AutomationsTypeOK
  <2>3. greetings' \subseteq [to : People, day : DateRecord]
    BY <1>1, <2>1, <2>2
  <2>4. \A g \in greetings' : IsDay(g.day) /\ g.day.y = dt.y
    BY <1>3, <1>7, <1>8
  <2> QED BY <1>1, <1>2, <1>3, <1>5, <2>3, <2>4 DEF AutomationsTypeOK
<1>12. UndisturbedTakePart'
  BY <1>1, <1>2, SMTT(30) DEF UndisturbedTakePart
<1>13. \/ /\ dt.y = today.y
          /\ on(today.m, today.d) < on(dt.m, dt.d)
          /\ \A m \in 1..12, d \in 1..31 :
               /\ d <= MonthLength(today.y, m)
               /\ on(m, d) <= on(dt.m, dt.d)
               /\ ~(on(m, d) <= on(today.m, today.d))
               => m = dt.m /\ d = dt.d
       \/ dt.y = today.y + 1 /\ dt.m = 1 /\ dt.d = 1
  BY <1>3, NextDayIs DEF dt
<1>14. \A g \in kept : /\ dt.y = today.y /\ HasDate(g.to)
                       /\ << g.day.m, g.day.d >> = Anniversary(g.to, dt.y)
                       /\ on(g.day.m, g.day.d) <= on(today.m, today.d)
                       /\ g.day.m \in 1..12 /\ g.day.d \in 1..31
  BY <1>7 DEF GreetingsHaveCome, GreetedOnceAYear, IsOver, IsDay, DateRecord
<1>15. \A p \in reached : HasDate(p) /\ << dt.m, dt.d >> = Anniversary(p, dt.y)
  BY <1>3, <1>5, <1>10, MatchesOnTheDay
<1>16. \A g \in kept : on(g.day.m, g.day.d) < on(dt.m, dt.d)
  <2> TAKE g \in kept
  <2>1. /\ dt.y = today.y /\ on(g.day.m, g.day.d) <= on(today.m, today.d)
        /\ g.day.m \in 1..12 /\ g.day.d \in 1..31
    BY <1>14
  <2>2. on(today.m, today.d) < on(dt.m, dt.d)
    <3>1. dt.y # today.y + 1
      BY <1>4, <2>1
    <3> QED
      BY <1>13, <3>1
  <2>3. /\ on(g.day.m, g.day.d) \in Int /\ on(today.m, today.d) \in Int
        /\ on(dt.m, dt.d) \in Int
    BY <1>4, <2>1
  <2> HIDE DEF on
  <2> QED BY <2>1, <2>2, <2>3
<1>17. GreetingsHaveCome'
  <2>1. \A g \in greetings' : HasDate(g.to) /\ on(g.day.m, g.day.d) <= on(dt.m, dt.d)
    <3>1. \A g \in kept : on(g.day.m, g.day.d) <= on(dt.m, dt.d)
      <4> TAKE g \in kept
      <4>1. on(g.day.m, g.day.d) < on(dt.m, dt.d) /\ g.day.m \in Int /\ g.day.d \in Int
        BY <1>14, <1>16
      <4>2. on(g.day.m, g.day.d) \in Int /\ on(dt.m, dt.d) \in Int
        BY <1>4, <4>1
      <4> HIDE DEF on
      <4> QED BY <4>1, <4>2
    <3> QED BY <1>4, <1>8, <1>14, <1>15, <3>1
  <2>2. ASSUME NEW g \in greetings' PROVE HasDate(g.to) /\ IsOver(<< g.day.m, g.day.d >>)'
    <3>1. g.day.m \in 1..12 /\ g.day.d \in 1..31
      BY <1>4, <1>8, <1>14
    <3> QED BY <1>2, <1>4, <2>1, <3>1 DEF IsOver
  <2> QED BY <2>2 DEF GreetingsHaveCome, HasDate
<1>18. \A g, h \in greetings' : g.to = h.to => g = h
  <2>1. \A g, h \in kept : g.to = h.to => g = h
    BY <1>7 DEF GreetedOnceAYear
  <2>2. ASSUME NEW g \in kept, NEW p \in reached, g.to = p PROVE FALSE
    <3>1. << g.day.m, g.day.d >> = << dt.m, dt.d >>
      BY <1>14, <1>15, <2>2
    <3>2. g.day.m = dt.m /\ g.day.d = dt.d
      BY <3>1
    <3>3. on(dt.m, dt.d) < on(dt.m, dt.d)
      BY <1>16, <3>2
    <3> QED BY <1>4, <3>3
  <2> QED BY <1>8, <2>1, <2>2
<1>19. \A g \in greetings' : << g.day.m, g.day.d >> = Anniversary(g.to, dt.y)
  BY <1>8, <1>14, <1>15
<1>20. ASSUME NEW p \in People \ disturbed', HasDate(p), dt.y > FirstDay.y,
              on(Anniversary(p, dt.y)[1], Anniversary(p, dt.y)[2]) <= on(dt.m, dt.d)
       PROVE  \E g \in greetings' : g.to = p
  <2>1. active /\ p \in People \ optedOut /\ p \in People \ disturbed
    BY <1>1, <1>20 DEF UndisturbedTakePart
  <2>2. CASE DateMatches(p, dt)
    <3>1. p \in matched
      BY <2>1, <2>2 DEF matched
    <3>2. p \in reached
      BY <1>1, <1>20, <3>1
    <3> QED BY <1>9, <3>2
  <2>3. CASE ~DateMatches(p, dt)
    <3> DEFINE a == Anniversary(p, dt.y)
    <3>1. /\ a = << a[1], a[2] >> /\ a[1] \in 1..12 /\ a[2] \in 1..31
          /\ a[2] <= MonthLength(dt.y, a[1]) /\ << dt.m, dt.d >> # a
      BY <1>3, <1>20, <2>3, MatchesOnTheDay
    <3> HIDE DEF a
    <3>2. ~(a[1] = dt.m /\ a[2] = dt.d)
      BY <3>1
    <3>3. on(a[1], a[2]) <= on(dt.m, dt.d)
      BY <1>20 DEF a
    <3>4. dt.y = today.y /\ on(a[1], a[2]) <= on(today.m, today.d)
      <4>1. CASE dt.y = today.y + 1 /\ dt.m = 1 /\ dt.d = 1
        BY <3>1, <3>2, <3>3, <4>1, SMTT(30)
      <4>2. CASE ~(dt.y = today.y + 1 /\ dt.m = 1 /\ dt.d = 1)
        <5>1. /\ dt.y = today.y
              /\ /\ a[2] <= MonthLength(today.y, a[1])
                 /\ on(a[1], a[2]) <= on(dt.m, dt.d)
                 /\ ~(on(a[1], a[2]) <= on(today.m, today.d))
                 => a[1] = dt.m /\ a[2] = dt.d
          <6> HIDE DEF on
          <6> QED BY <1>13, <3>1, <4>2
        <5> QED BY <3>1, <3>2, <3>3, <5>1
      <4> QED BY <4>1, <4>2
    <3>5. IsOver(Anniversary(p, today.y))
      BY <1>4, <3>1, <3>4 DEF IsOver, a
    <3>6. PICK g \in greetings : g.to = p
      BY <1>20, <2>1, <3>4, <3>5 DEF GreetedOnceAYear
    <3> QED BY <1>7, <1>10, <3>4, <3>6
  <2> QED BY <2>2, <2>3
<1>21. GreetedOnceAYear'
  <2>1. \A p, y : Anniversary(p, y)' = Anniversary(p, y)
    BY DEF Anniversary
  <2>2. \A p : HasDate(p)' <=> HasDate(p)
    BY DEF HasDate
  <2>3. \A p, y : IsOver(Anniversary(p, y))'
                    <=> on(dt.m, dt.d) >= on(Anniversary(p, y)[1], Anniversary(p, y)[2])
    BY <1>2, <2>1 DEF IsOver
  <2>4. \A p \in People : HasDate(p) =>
          /\ Anniversary(p, dt.y)[1] \in 1..12 /\ Anniversary(p, dt.y)[2] \in 1..31
    BY <1>3, MatchesOnTheDay
  <2>5. \A p \in People \ disturbed' :
          /\ HasDate(p)
          /\ on(dt.m, dt.d) >= on(Anniversary(p, dt.y)[1], Anniversary(p, dt.y)[2])
          /\ dt.y > FirstDay.y
          => \E g \in greetings' : g.to = p
    <3> TAKE p \in People \ disturbed'
    <3> HAVE /\ HasDate(p)
             /\ on(dt.m, dt.d) >= on(Anniversary(p, dt.y)[1], Anniversary(p, dt.y)[2])
             /\ dt.y > FirstDay.y
    <3>1. /\ on(dt.m, dt.d) \in Int
          /\ on(Anniversary(p, dt.y)[1], Anniversary(p, dt.y)[2]) \in Int
      BY <1>4, <2>4
    <3>2. on(Anniversary(p, dt.y)[1], Anniversary(p, dt.y)[2]) <= on(dt.m, dt.d)
      BY <3>1
    <3> QED BY <1>20, <3>2
  <2> HIDE DEF on
  <2> QED BY <1>2, <1>18, <1>19, <2>1, <2>2, <2>3, <2>5 DEF GreetedOnceAYear
<1> QED BY <1>11, <1>12, <1>17, <1>21

\* Of the others, a pause concerns everyone, an opt-out the contact.
LEMMA AutomationsQuietKeep ==
  ASSUME AutomationsInvariant,
         \/ ToggleAutomation
         \/ \E p \in People : OptOutPerson(p)
         \/ \E m \in ApiSends : SendSingleMessage(m)
         \/ \E m \in People \cup ApiSends : DropUncampaigned(m)
         \/ UNCHANGED automationVars
  PROVE  AutomationsInvariant'
<1> USE DEF AutomationsInvariant, ToggleAutomation, OptOutPerson, SendSingleMessage,
            DropUncampaigned, automationVars
<1>1. UNCHANGED << today, greetings >> /\ disturbed \subseteq disturbed'
  BY DEF AutomationsTypeOK
<1>2. AutomationsTypeOK'
  <2>1. /\ active' \in BOOLEAN /\ optedOut' \subseteq People /\ disturbed' \subseteq People
        /\ uncampaigned' \subseteq People \cup ApiSends
    BY DEF AutomationsTypeOK
  <2> QED BY <1>1, <2>1 DEF AutomationsTypeOK
<1>3. UndisturbedTakePart'
  BY DEF UndisturbedTakePart
<1>4. GreetingsHaveCome' /\ GreetedOnceAYear'
  BY <1>1 DEF GreetingsHaveCome, GreetedOnceAYear, HasDate, IsOver, Anniversary
<1> QED BY <1>2, <1>3, <1>4

\* Automations are as the invariant says in every state.
THEOREM AutomationsInvariance == AutomationsSpec => []AutomationsInvariant
<1>1. AutomationsInvariant /\ [AutomationsNext]_automationVars => AutomationsInvariant'
  BY DailyCheckKeeps, AutomationsQuietKeep DEF AutomationsNext
<1> QED BY <1>1, AutomationsStart, PTL DEF AutomationsSpec

\* Every variable of the automations keeps its type, and every day is of the calendar.
THEOREM AutomationsTypes == AutomationsSpec => []AutomationsTypeOK
<1>1. AutomationsInvariant => AutomationsTypeOK
  BY DEF AutomationsInvariant
<1> QED BY <1>1, AutomationsInvariance, PTL

\* Contacts are greeted once a year, on their day, those of a leap day on February 28
\* in the years that lack it: whatever the dates, for as many years as pass.
THEOREM GreetingsAreAnnual == AutomationsSpec => []GreetedOnceAYear
<1>1. AutomationsInvariant => GreetedOnceAYear
  BY DEF AutomationsInvariant
<1> QED BY <1>1, AutomationsInvariance, PTL

-----------------------------------------------------------------------------
(* A/B tests. *)

\* What the cells of a two-by-two table deviate by is the same but for the sign.
LEMMA CellsDeviateAlike ==
  ASSUME NEW a \in Int, NEW b \in Int, NEW c \in Int, NEW d \in Int
  PROVE  /\ a * ((a + c) + (b + d)) - (a + c) * (a + b) = a * d - b * c
         /\ c * ((a + c) + (b + d)) - (a + c) * (c + d) = -(a * d - b * c)
         /\ b * ((a + c) + (b + d)) - (b + d) * (a + b) = -(a * d - b * c)
         /\ d * ((a + c) + (b + d)) - (b + d) * (c + d) = a * d - b * c
OBVIOUS

\* The squares, each times the other row and the other column, add up to the square
\* of the total times one of them.
LEMMA DeviationsAddUp ==
  ASSUME NEW x \in Int, NEW m \in Int, NEW n \in Int, NEW p \in Int, NEW q \in Int, m + n = p + q
  PROVE  x * x * n * q + (-x) * (-x) * n * p + (-x) * (-x) * m * q + x * x * m * p
           = (m + n) * ((m + n) * (x * x))
OBVIOUS

\* What multiplies both sides is left out.
LEMMA CancelFactor ==
  ASSUME NEW x \in Int, NEW y \in Int, NEW n \in Int, n > 0, x * n > y * n
  PROVE  x > y
OBVIOUS

\* The numbers of a result.
LEMMA NumbersOfResults ==
  ASSUME NEW s \in Results, ReadWereDelivered(s)
  PROVE  \A v \in Variants :
           /\ s[v].delivered \in 0..MaxDelivered /\ s[v].read \in 0..MaxDelivered
           /\ s[v].delivered \in Nat /\ s[v].read \in Nat /\ NotRead(s, v) \in Nat
           /\ s[v].delivered = s[v].read + NotRead(s, v)
<1> TAKE v \in Variants
<1>1. s[v] \in AbResult
  BY DEF Results
<1>2. /\ s[v].delivered \in 0..MaxDelivered /\ s[v].read \in 0..MaxDelivered
      /\ s[v].delivered \in Nat /\ s[v].read \in Nat
  BY <1>1, AbBounds DEF AbResult
<1> QED BY <1>2 DEF ReadWereDelivered, NotRead

\* The test that the code makes of the sum of the deviations is the one of the
\* two-by-two formula, which the code does not use.
LEMMA SignificanceIsTheFormula ==
  ASSUME NEW s \in Results, ReadWereDelivered(s), IsSignificant(s),
         \A v \in Variants : s[v].delivered >= 1
  PROVE  LET x == s["A"].read * NotRead(s, "B") - s["B"].read * NotRead(s, "A")
         IN  x # 0 /\ 10000 * Total(s) * x * x > 38415 * Products(s)
<1> DEFINE a == s["A"].read
           b == s["B"].read
           c == NotRead(s, "A")
           d == NotRead(s, "B")
           x == a * d - b * c
           N == (a + c) + (b + d)
<1>1. /\ a \in Nat /\ b \in Nat /\ c \in Nat /\ d \in Nat
      /\ s["A"].delivered = a + c /\ s["B"].delivered = b + d
      /\ a + c >= 1 /\ b + d >= 1
  BY NumbersOfResults DEF Variants
<1>2. /\ Total(s) = N /\ Column(s, TRUE) = a + b /\ Column(s, FALSE) = c + d
      /\ Observed(s, "A", TRUE) = a /\ Observed(s, "A", FALSE) = c
      /\ Observed(s, "B", TRUE) = b /\ Observed(s, "B", FALSE) = d
      /\ OtherThan("A") = "B" /\ OtherThan("B") = "A"
  BY <1>1 DEF Total, Column, Observed, OtherThan
<1>3. Products(s) = (a + c) * (b + d) * (a + b) * (c + d)
  BY <1>1, <1>2 DEF Products
<1>4. /\ Deviation(s, "A", TRUE)  = (a * N - (a + c) * (a + b)) * (a * N - (a + c) * (a + b)) * (b + d) * (c + d)
      /\ Deviation(s, "A", FALSE) = (c * N - (a + c) * (c + d)) * (c * N - (a + c) * (c + d)) * (b + d) * (a + b)
      /\ Deviation(s, "B", TRUE)  = (b * N - (b + d) * (a + b)) * (b * N - (b + d) * (a + b)) * (a + c) * (c + d)
      /\ Deviation(s, "B", FALSE) = (d * N - (b + d) * (c + d)) * (d * N - (b + d) * (c + d)) * (a + c) * (a + b)
  BY <1>1, <1>2 DEF Deviation
<1>5. 10000 * Deviations(s) > 38415 * Products(s) * Total(s)
  BY DEF IsSignificant
<1> HIDE DEF a, b, c, d
<1>6. /\ a * N - (a + c) * (a + b) = x /\ c * N - (a + c) * (c + d) = -x
      /\ b * N - (b + d) * (a + b) = -x /\ d * N - (b + d) * (c + d) = x
  BY <1>1, CellsDeviateAlike
<1>7. x \in Int /\ -x \in Int /\ N \in Int /\ N > 0 /\ (a + c) + (b + d) = (a + b) + (c + d)
  BY <1>1
<1>8. Deviations(s) = N * (N * (x * x))
  <2>1. /\ Deviation(s, "A", TRUE)  = x * x * (b + d) * (c + d)
        /\ Deviation(s, "A", FALSE) = (-x) * (-x) * (b + d) * (a + b)
        /\ Deviation(s, "B", TRUE)  = (-x) * (-x) * (a + c) * (c + d)
        /\ Deviation(s, "B", FALSE) = x * x * (a + c) * (a + b)
    BY <1>4, <1>6
  <2> DEFINE m == a + c
             n == b + d
             p == a + b
             q == c + d
  <2>2. m \in Int /\ n \in Int /\ p \in Int /\ q \in Int /\ N = m + n /\ m + n = p + q
    BY <1>1
  <2>3. /\ Deviation(s, "A", TRUE)  = x * x * n * q
        /\ Deviation(s, "A", FALSE) = (-x) * (-x) * n * p
        /\ Deviation(s, "B", TRUE)  = (-x) * (-x) * m * q
        /\ Deviation(s, "B", FALSE) = x * x * m * p
    BY <2>1
  <2> HIDE DEF x, m, n, p, q, N
  <2>4. x * x * n * q + (-x) * (-x) * n * p + (-x) * (-x) * m * q + x * x * m * p
          = (m + n) * ((m + n) * (x * x))
    BY <1>7, <2>2, DeviationsAddUp
  <2>5. Deviations(s) = x * x * n * q + (-x) * (-x) * n * p + (-x) * (-x) * m * q + x * x * m * p
    BY <2>3 DEF Deviations
  <2> QED BY <2>2, <2>4, <2>5
<1>9. Products(s) \in Nat
  <2>1. \A i, j \in Nat : i * j \in Nat
    OBVIOUS
  <2>2. a + c \in Nat /\ b + d \in Nat /\ a + b \in Nat /\ c + d \in Nat
    BY <1>1
  <2> QED BY <1>3, <2>1, <2>2
<1> HIDE DEF x, N
<1>10. 10000 * (N * (N * (x * x))) > 38415 * Products(s) * N
  <2>1. Deviations(s) = N * (N * (x * x)) /\ Total(s) = N
    BY <1>2, <1>8 DEF N
  <2> QED BY <1>5, <2>1
<1>11. 10000 * N * x * x > 38415 * Products(s)
  <2> DEFINE P == Products(s)
             l == 10000 * N * x * x
             r == 38415 * P
  <2>1. P \in Int /\ l \in Int /\ r \in Int
    BY <1>7, <1>9
  <2>2. l * N = 10000 * (N * (N * (x * x)))
    BY <1>7
  <2>3. l * N > r * N
    BY <1>10, <2>2
  <2> HIDE DEF l, r
  <2>4. l > r
    BY <1>7, <2>1, <2>3, CancelFactor
  <2> QED BY <2>4 DEF l, r
<1>12. x # 0
  <2>1. SUFFICES ASSUME x = 0 PROVE FALSE
    OBVIOUS
  <2>2. 10000 * N * 0 * 0 = 0
    BY <1>7
  <2>3. 0 > 38415 * Products(s)
    BY <1>11, <2>1, <2>2
  <2> QED BY <1>9, <2>3
<1>13. 10000 * Total(s) * x * x > 38415 * Products(s)
  BY <1>2, <1>11
<1> QED BY <1>12, <1>13 DEF x, a, b, c, d

\* Whom a completion names has the better rate, and the formula speaks for it.
LEMMA WinnerIsBetter ==
  ASSUME NEW s \in Results, ReadWereDelivered(s), ComputeSignificance(s) # "INCONCLUSIVE"
  PROVE  /\ ComputeSignificance(s) \in Variants
         /\ LET v == ComputeSignificance(s)
                w == OtherThan(v)
                cross == s[v].read * NotRead(s, w) - s[w].read * NotRead(s, v)
            IN /\ s[v].delivered >= MinDelivered /\ s[w].delivered >= MinDelivered
               /\ cross > 0
               /\ 10000 * Total(s) * cross * cross > 38415 * Products(s)
<1> DEFINE a == s["A"].read
           b == s["B"].read
           c == NotRead(s, "A")
           d == NotRead(s, "B")
           x == a * d - b * c
<1>1. /\ ComputeSignificance(s) = Better(s) /\ IsSignificant(s)
      /\ \A v \in Variants : ~(s[v].delivered < MinDelivered)
  BY DEF ComputeSignificance
<1>2. /\ a \in Nat /\ b \in Nat /\ c \in Nat /\ d \in Nat
      /\ s["A"].delivered = a + c /\ s["B"].delivered = b + d
  BY NumbersOfResults DEF Variants
<1>3. \A v \in Variants : s[v].delivered >= MinDelivered /\ s[v].delivered >= 1
  BY <1>1, AbBounds, NumbersOfResults
<1>4. x # 0 /\ 10000 * Total(s) * x * x > 38415 * Products(s)
  BY <1>1, <1>3, SignificanceIsTheFormula
<1>5. Better(s) = IF a * (b + d) > b * (a + c) THEN "A" ELSE "B"
  BY <1>2 DEF Better
<1>6. OtherThan("A") = "B" /\ OtherThan("B") = "A" /\ "A" \in Variants /\ "B" \in Variants
  BY DEF OtherThan, Variants
<1>7. CASE a * (b + d) > b * (a + c)
  <2>1. ComputeSignificance(s) = "A"
    BY <1>1, <1>5, <1>7
  <2>2. x > 0
    <3> HIDE DEF a, b, c, d
    <3> QED BY <1>2, <1>7
  <2> QED BY <1>3, <1>4, <1>6, <2>1, <2>2
<1>8. CASE ~(a * (b + d) > b * (a + c))
  <2> DEFINE y == b * c - a * d
  <2>1. ComputeSignificance(s) = "B"
    BY <1>1, <1>5, <1>8
  <2>2. y > 0 /\ y = -x /\ Total(s) \in Int
    <3>1. Total(s) \in Int
      BY <1>2 DEF Total
    <3> HIDE DEF a, b, c, d
    <3> QED BY <1>2, <1>4, <1>8, <3>1
  <2>3. 10000 * Total(s) * y * y = 10000 * Total(s) * x * x
    <3>1. x \in Int
      BY <1>2
    <3> HIDE DEF x, y
    <3> QED BY <2>2, <3>1
  <2>4. 10000 * Total(s) * y * y > 38415 * Products(s)
    BY <1>4, <2>3
  <2> QED BY <1>3, <1>6, <2>1, <2>2, <2>4
<1> QED BY <1>7, <1>8

\* The initial state satisfies the invariant.
LEMMA AbStart == AbInit => AbInvariant
<1> SUFFICES ASSUME AbInit PROVE AbInvariant
  OBVIOUS
<1>1. NoData \in Results /\ ReadWereDelivered(NoData)
  BY AbBounds DEF NoData, Results, AbResult, ReadWereDelivered
<1>2. AbTypeOK
  BY <1>1, AbBounds DEF AbInit, AbTypeOK, NoTest, AbTest, NoResults, AbStatus
<1>3. ResultsFit /\ NoTestNoWinner /\ WinnerEarned
  BY <1>1 DEF AbInit, ResultsFit, NoTestNoWinner, WinnerEarned, NoResults, NoTest, Variants
<1> QED BY <1>2, <1>3 DEF AbInvariant

\* The winner is the same, or there is none.
LEMMA WinnerStays ==
  ASSUME WinnerEarned, judged' = judged, abTest'.winner = abTest.winner \/ abTest'.winner = "none"
  PROVE  WinnerEarned'
<1>1. CASE abTest'.winner = "none"
  BY <1>1 DEF WinnerEarned, Variants
<1>2. CASE abTest'.winner = abTest.winner
  BY <1>2 DEF WinnerEarned, OtherThan, NotRead, Total, Products, Column, Observed
<1> QED BY <1>1, <1>2

\* The requests that create a test, and the deletion of the campaign.
LEMMA CreationKeeps ==
  ASSUME AbInvariant,
         \/ \E r \in AbRequests :
              CreateAbTest(r) \/ FindTest(r) \/ SaveTest(r) \/ SaveResults(r) \/ CreateFails(r)
         \/ RemoveCampaign
  PROVE  AbInvariant'
<1> USE DEF AbInvariant
<1>1. UNCHANGED << completion, completions, judged >>
  BY DEF CreateAbTest, FindTest, SaveTest, SaveResults, CreateFails, RemoveCampaign
<1>2. NoData \in Results /\ ReadWereDelivered(NoData) /\ NoTest \in AbTest
      /\ [exists |-> TRUE, status |-> "RUNNING", winner |-> "none"] \in AbTest
  BY AbBounds DEF NoData, Results, AbResult, ReadWereDelivered, NoTest, AbTest, AbStatus
<1>3. \/ abTest' = abTest \/ abTest' = NoTest
      \/ abTest' = [exists |-> TRUE, status |-> "RUNNING", winner |-> "none"]
  BY DEF CreateAbTest, FindTest, SaveTest, SaveResults, CreateFails, RemoveCampaign
<1>4. \/ abResult' = abResult \/ abResult' = NoResults
      \/ abResult' = [exist |-> TRUE, of |-> NoData]
  BY DEF CreateAbTest, FindTest, SaveTest, SaveResults, CreateFails, RemoveCampaign
<1>5. creation' \in [AbRequests -> {"idle", "existing", "save", "results"}] /\ campaignThere' \in BOOLEAN
  BY DEF CreateAbTest, FindTest, SaveTest, SaveResults, CreateFails, RemoveCampaign, AbTypeOK
<1>6. abTest' \in AbTest /\ NoTestNoWinner'
  <2>1. CASE abTest' = abTest
    BY <2>1 DEF AbTypeOK, NoTestNoWinner
  <2>2. CASE abTest' = NoTest
    BY <1>2, <2>2 DEF NoTestNoWinner, NoTest
  <2>3. CASE abTest' = [exists |-> TRUE, status |-> "RUNNING", winner |-> "none"]
    BY <1>2, <2>3 DEF NoTestNoWinner
  <2> QED BY <1>3, <2>1, <2>2, <2>3
<1>7. abResult' \in [exist : BOOLEAN, of : Results] /\ ReadWereDelivered(abResult'.of)
  <2>1. CASE abResult' = abResult
    BY <2>1 DEF AbTypeOK, ResultsFit
  <2>2. CASE abResult' = NoResults
    BY <1>2, <2>2 DEF NoResults
  <2>3. CASE abResult' = [exist |-> TRUE, of |-> NoData]
    BY <1>2, <2>3
  <2> QED BY <1>4, <2>1, <2>2, <2>3
<1>8. AbTypeOK'
  BY <1>1, <1>5, <1>6, <1>7 DEF AbTypeOK
<1>9. ResultsFit'
  BY <1>1, <1>7 DEF ResultsFit, ReadWereDelivered
<1>10. WinnerEarned'
  BY <1>1, <1>3, WinnerStays DEF NoTest
<1> QED BY <1>6, <1>8, <1>9, <1>10

\* A message is counted: as read only when it was delivered.
LEMMA IncrementKeeps ==
  ASSUME AbInvariant, NEW v \in Variants, NEW field \in {"delivered", "read"}, IncrementResult(v, field)
  PROVE  AbInvariant'
<1> USE DEF AbInvariant
<1> DEFINE counts == abResult.of[v]
           more   == Incremented(counts, field)
<1>1. UNCHANGED << campaignThere, abTest, creation, completion, completions, judged >>
  BY DEF IncrementResult
<1>2. /\ abResult' = [exist |-> TRUE, of |-> [abResult.of EXCEPT ![v] = more]]
      /\ IF field = "read" THEN counts.read < counts.delivered ELSE counts.delivered < MaxDelivered
  BY DEF IncrementResult
<1>3. abResult.of \in Results /\ ReadWereDelivered(abResult.of)
  BY DEF AbTypeOK, ResultsFit
<1>4. /\ counts.delivered \in 0..MaxDelivered /\ counts.read \in 0..MaxDelivered
      /\ counts.read <= counts.delivered
  BY <1>3, NumbersOfResults DEF ReadWereDelivered
<1>5. more \in AbResult /\ more.read <= more.delivered
  BY <1>2, <1>4, AbBounds DEF Incremented, AbResult
<1> HIDE DEF more
<1>6. /\ abResult' \in [exist : BOOLEAN, of : Results]
      /\ abResult'.of[v] = more /\ \A w \in Variants : w # v => abResult'.of[w] = abResult.of[w]
  BY <1>2, <1>3, <1>5 DEF Results
<1>7. AbTypeOK' /\ NoTestNoWinner'
  BY <1>1, <1>6 DEF AbTypeOK, NoTestNoWinner
<1>8. ResultsFit'
  BY <1>1, <1>3, <1>5, <1>6 DEF ResultsFit, ReadWereDelivered
<1> QED BY <1>1, <1>7, <1>8, WinnerStays

\* completeTest reads the results, and names the winner they have or leaves the one
\* there is.
LEMMA CompletionKeeps ==
  ASSUME AbInvariant, FindResults \/ CompleteTest
  PROVE  AbInvariant'
<1> USE DEF AbInvariant
<1>1. UNCHANGED << campaignThere, abResult, creation >>
  BY DEF FindResults, CompleteTest
<1>2. abResult.of \in Results /\ ReadWereDelivered(abResult.of)
      /\ completion.results \in Results /\ ReadWereDelivered(completion.results)
  BY DEF AbTypeOK, ResultsFit
<1>3. CASE FindResults
  <2>1. /\ completion' = [pc |-> "update", results |-> abResult.of] /\ UNCHANGED << abTest, judged >>
        /\ completions' \in 0..MaxCompletions
    BY <1>3, AbBounds DEF FindResults, AbTypeOK
  <2>2. AbTypeOK' /\ ResultsFit' /\ NoTestNoWinner'
    BY <1>1, <1>2, <2>1 DEF AbTypeOK, ResultsFit, NoTestNoWinner
  <2> QED BY <2>1, <2>2, WinnerStays
<1>4. CASE CompleteTest
  <2> DEFINE s == completion.results
             winner == ComputeSignificance(s)
  <2>1. /\ completion' = [pc |-> "idle", results |-> NoData] /\ completions' = completions
        /\ abTest' = IF ~abTest.exists THEN abTest
                     ELSE [exists |-> TRUE, status |-> "COMPLETED",
                           winner |-> IF winner = "INCONCLUSIVE" THEN abTest.winner ELSE winner]
        /\ judged' = IF winner = "INCONCLUSIVE" THEN judged ELSE {s}
    BY <1>4 DEF CompleteTest
  <2>2. NoData \in Results /\ ReadWereDelivered(NoData)
    BY AbBounds DEF NoData, Results, AbResult, ReadWereDelivered
  <2>3. abTest.winner \in Variants \cup {"none"}
    BY DEF AbTypeOK, AbTest
  <2>4. winner # "INCONCLUSIVE" => winner \in Variants
    BY <1>2, WinnerIsBetter
  <2> HIDE DEF winner
  <2>5. abTest' \in AbTest /\ (~abTest'.exists => abTest'.winner = "none")
    BY <2>1, <2>3, <2>4 DEF AbTypeOK, AbTest, AbStatus, NoTestNoWinner
  <2>6. judged' \subseteq Results /\ \A r \in judged' : ReadWereDelivered(r)
    BY <1>2, <2>1 DEF AbTypeOK, ResultsFit
  <2>7. AbTypeOK' /\ NoTestNoWinner'
    BY <1>1, <2>1, <2>2, <2>5, <2>6 DEF AbTypeOK, NoTestNoWinner
  <2>8. ResultsFit'
    BY <1>1, <1>2, <2>1, <2>2, <2>6 DEF ResultsFit, ReadWereDelivered
  <2>9. WinnerEarned'
    <3>1. CASE winner = "INCONCLUSIVE"
      BY <2>1, <3>1, WinnerStays
    <3>2. CASE winner # "INCONCLUSIVE" /\ ~abTest.exists
      BY <2>1, <3>2 DEF WinnerEarned, NoTestNoWinner, Variants
    <3>3. CASE winner # "INCONCLUSIVE" /\ abTest.exists
      <4>1. abTest'.winner = winner /\ s \in judged'
        BY <2>1, <3>3
      <4>2. LET v == winner
                w == OtherThan(v)
                cross == s[v].read * NotRead(s, w) - s[w].read * NotRead(s, v)
            IN /\ s[v].delivered >= MinDelivered /\ s[w].delivered >= MinDelivered
               /\ cross > 0
               /\ 10000 * Total(s) * cross * cross > 38415 * Products(s)
        BY <1>2, <3>3, WinnerIsBetter DEF winner
      <4> HIDE DEF s
      <4> QED BY <4>1, <4>2 DEF WinnerEarned
    <3> QED BY <3>1, <3>2, <3>3
  <2> QED BY <2>7, <2>8, <2>9
<1> QED BY <1>3, <1>4

\* The test is as the invariant says in every state.
THEOREM AbInvariance == AbSpec => []AbInvariant
<1>1. AbInvariant /\ [AbNext]_abVars => AbInvariant'
  <2> SUFFICES ASSUME AbInvariant, [AbNext]_abVars PROVE AbInvariant'
    OBVIOUS
  <2>1. CASE UNCHANGED abVars
    <3>1. AbTypeOK' /\ ResultsFit' /\ NoTestNoWinner'
      BY <2>1 DEF AbInvariant, AbTypeOK, ResultsFit, ReadWereDelivered, NoTestNoWinner, abVars
    <3> QED BY <2>1, <3>1, WinnerStays DEF AbInvariant, abVars
  <2>2. CASE AbNext
    BY <2>2, CreationKeeps, IncrementKeeps, CompletionKeeps DEF AbNext, AbTestService
  <2> QED BY <2>1, <2>2
<1> QED BY <1>1, AbStart, PTL DEF AbSpec

\* Every variable of the test keeps its type.
THEOREM AbTypes == AbSpec => []AbTypeOK
<1>1. AbInvariant => AbTypeOK
  BY DEF AbInvariant
<1> QED BY <1>1, AbInvariance, PTL

\* A test names a winner only on results that earn it, whatever the numbers.
THEOREM WinnersAreEarned == AbSpec => []WinnerEarned
<1>1. AbInvariant => WinnerEarned
  BY DEF AbInvariant
<1> QED BY <1>1, AbInvariance, PTL

-----------------------------------------------------------------------------
(* Dates: what setDate makes of a day of the calendar. *)

\* A set of numbers that has 0, and each number whose predecessor it has, has all.
LEMMA OneByOne ==
  ASSUME NEW n \in Nat, NEW T, 0 \in T, \A i \in 1..n : i - 1 \in T => i \in T
  PROVE  \A i \in 0..n : i \in T
<1> DEFINE S == {i \in 0..n : i \notin T}
<1>1. SUFFICES ASSUME S # {} PROVE FALSE
  OBVIOUS
<1>2. S \in SUBSET Nat
  OBVIOUS
<1>3. PICK m \in S : \A k \in S : m <= k
  BY <1>1, <1>2, LeastOf
<1>4. m \in 1..n /\ m - 1 \in 0..n /\ ~(m <= m - 1)
  BY <1>3
<1>5. m - 1 \in T
  BY <1>3, <1>4
<1> QED BY <1>3, <1>4, <1>5

\* A date has the days after it, however many,
LEMMA DaysFrom ==
  ASSUME NEW dt, NEW n \in Nat
  PROVE  \E f : f = [i \in 0..n |-> IF i = 0 THEN dt ELSE NextDay(f[i - 1])]
<1> DEFINE IsChain(f, m) == f = [i \in 0..m |-> IF i = 0 THEN dt ELSE NextDay(f[i - 1])]
           T == {m \in Nat : \E f : IsChain(f, m)}
<1>1. 0 \in T
  <2>1. IsChain([i \in 0..0 |-> dt], 0)
    OBVIOUS
  <2> QED BY <2>1
<1>2. ASSUME NEW m \in 1..n, m - 1 \in T PROVE m \in T
  <2>1. PICK f : IsChain(f, m - 1)
    BY <1>2
  <2> DEFINE g == [i \in 0..m |-> IF i = m THEN NextDay(f[m - 1]) ELSE f[i]]
  <2>2. \A i \in 0..(m - 1) : f[i] = IF i = 0 THEN dt ELSE NextDay(f[i - 1])
    BY <2>1
  <2>3. ASSUME NEW i \in 0..m PROVE g[i] = IF i = 0 THEN dt ELSE NextDay(g[i - 1])
    <3>1. CASE i = m
      <4>1. m # 0 /\ m - 1 \in 0..m /\ m - 1 # m
        OBVIOUS
      <4> QED BY <3>1, <4>1
    <3>2. CASE i # m
      <4>1. i \in 0..(m - 1) /\ (i # 0 => i - 1 \in 0..m /\ i - 1 # m)
        BY <3>2
      <4> QED BY <2>2, <3>2, <4>1
    <3> QED BY <3>1, <3>2
  <2>4. g = [i \in 0..m |-> g[i]]
    OBVIOUS
  <2> HIDE DEF g
  <2>5. IsChain(g, m)
    BY <2>3, <2>4
  <2>6. m \in Nat
    OBVIOUS
  <2> QED BY <2>5, <2>6
<1> HIDE DEF T
<1>3. n \in T
  BY <1>1, <1>2, OneByOne
<1> QED BY <1>3 DEF T

\* and AddDays follows them.
LEMMA AddDaysFollows ==
  ASSUME NEW dt, NEW n \in Nat
  PROVE  \E f : /\ f[0] = dt
                /\ \A i \in 1..n : f[i] = NextDay(f[i - 1])
                /\ AddDays(dt, n) = f[n]
<1> DEFINE After[i \in 0..n] == IF i = 0 THEN dt ELSE NextDay(After[i - 1])
<1>1. \E f : f = [i \in 0..n |-> IF i = 0 THEN dt ELSE NextDay(f[i - 1])]
  BY DaysFrom
<1>2. After = [i \in 0..n |-> IF i = 0 THEN dt ELSE NextDay(After[i - 1])]
  BY <1>1, Zenon
<1>3. AddDays(dt, n) = After[n]
  BY Zenon DEF AddDays
<1> HIDE DEF After
<1>4. \A i \in 0..n : After[i] = IF i = 0 THEN dt ELSE NextDay(After[i - 1])
  BY <1>2
<1>5. After[0] = dt
  BY <1>4
<1>6. \A i \in 1..n : After[i] = NextDay(After[i - 1])
  BY <1>4
<1> QED BY <1>3, <1>5, <1>6

\* The month after a month.
MonthAfter(y, m) == IF m < 12 THEN << y, m + 1 >> ELSE << y + 1, 1 >>

\* The day after a day is the next of its month or the first of the month after it.
LEMMA NextDayFields ==
  ASSUME NEW dt, IsDay(dt)
  PROVE  /\ NextDay(dt).w = (dt.w + 1) % 7
         /\ dt.d < MonthLength(dt.y, dt.m) =>
              NextDay(dt).y = dt.y /\ NextDay(dt).m = dt.m /\ NextDay(dt).d = dt.d + 1
         /\ ~(dt.d < MonthLength(dt.y, dt.m)) =>
              /\ << NextDay(dt).y, NextDay(dt).m >> = MonthAfter(dt.y, dt.m)
              /\ NextDay(dt).d = 1
BY DEF NextDay, MonthAfter

\* The days after a day are days of the calendar, and the weekdays take turns.
LEMMA AddDaysIs ==
  ASSUME NEW dt, IsDay(dt), NEW n \in Nat
  PROVE  IsDay(AddDays(dt, n)) /\ AddDays(dt, n).w = (dt.w + n) % 7
<1>1. PICK f : /\ f[0] = dt
               /\ \A i \in 1..n : f[i] = NextDay(f[i - 1])
               /\ AddDays(dt, n) = f[n]
  BY AddDaysFollows
<1> DEFINE T == {i \in 0..n : IsDay(f[i]) /\ f[i].w = (dt.w + i) % 7}
<1>2. dt.w \in 0..6
  BY DEF IsDay, DateRecord
<1>3. 0 \in T
  <2>1. dt.w = (dt.w + 0) % 7
    BY <1>2
  <2> QED BY <1>1, <2>1
<1>4. ASSUME NEW i \in 1..n, i - 1 \in T PROVE i \in T
  <2>1. IsDay(f[i - 1]) /\ f[i - 1].w = (dt.w + (i - 1)) % 7
    BY <1>4, SMTT(30)
  <2>2. IsDay(f[i]) /\ f[i].w = (f[i - 1].w + 1) % 7
    BY <1>1, <2>1, NextDayIs, NextDayFields
  <2>3. \A v, k \in Nat : (((v + k) % 7) + 1) % 7 = (v + (k + 1)) % 7
    OBVIOUS
  <2>4. dt.w \in Nat /\ i - 1 \in Nat /\ (i - 1) + 1 = i /\ i \in 0..n
    BY <1>2
  <2>5. (((dt.w + (i - 1)) % 7) + 1) % 7 = (dt.w + i) % 7
    BY <2>3, <2>4
  <2> QED BY <2>1, <2>2, <2>4, <2>5
<1> HIDE DEF T
<1>5. n \in T
  BY <1>3, <1>4, OneByOne
<1> QED BY <1>1, <1>5 DEF T

\* The day after.
LEMMA AddOneDay ==
  ASSUME NEW dt
  PROVE  AddDays(dt, 1) = NextDay(dt)
<1>1. PICK f : f[0] = dt /\ (\A i \in 1..1 : f[i] = NextDay(f[i - 1])) /\ AddDays(dt, 1) = f[1]
  BY AddDaysFollows
<1>2. 1 \in 1..1 /\ 1 - 1 = 0
  OBVIOUS
<1> QED BY <1>1, <1>2

\* As many days on as the month has is the same day of the month after or, when that
\* is too short, one of the first days of the month after it.
LEMMA AddMonthIs ==
  ASSUME NEW dt, IsDay(dt)
  PROVE  LET next   == MonthAfter(dt.y, dt.m)
             length == MonthLength(next[1], next[2])
         IN  << AddMonth(dt).y, AddMonth(dt).m >>
               = IF dt.d <= length THEN next ELSE MonthAfter(next[1], next[2])
<1> DEFINE n == MonthLength(dt.y, dt.m)
           y == MonthAfter(dt.y, dt.m)[1]
           m == MonthAfter(dt.y, dt.m)[2]
           last == MonthLength(y, m)
           y2 == MonthAfter(y, m)[1]
           m2 == MonthAfter(y, m)[2]
           length == MonthLength(y2, m2)
<1>1. /\ dt.y \in Nat /\ dt.m \in 1..12 /\ dt.d \in 1..31 /\ dt.d <= n
  BY DEF IsDay, DateRecord
<1>2. \A a \in Nat, b \in 1..12 :
        /\ MonthLength(a, b) \in 28..31
        /\ MonthAfter(a, b)[1] \in Nat /\ MonthAfter(a, b)[2] \in 1..12
        /\ MonthAfter(a, b) = << MonthAfter(a, b)[1], MonthAfter(a, b)[2] >>
  BY MonthsHaveDays DEF MonthAfter
<1>3. /\ n \in 28..31 /\ last \in 28..31 /\ length \in 28..31
      /\ y \in Nat /\ m \in 1..12 /\ y2 \in Nat /\ m2 \in 1..12
      /\ MonthAfter(dt.y, dt.m) = << y, m >> /\ MonthAfter(y, m) = << y2, m2 >>
  BY <1>1, <1>2
<1>4. PICK f : /\ f[0] = dt
               /\ \A i \in 1..n : f[i] = NextDay(f[i - 1])
               /\ AddDays(dt, n) = f[n]
  <2>1. n \in Nat
    BY <1>3
  <2> QED BY <2>1, AddDaysFollows
<1> DEFINE Right(i, k) ==
             /\ IsDay(f[i])
             /\ k <= n => f[i].y = dt.y /\ f[i].m = dt.m /\ f[i].d = k
             /\ n < k /\ k <= n + last => f[i].y = y /\ f[i].m = m /\ f[i].d = k - n
             /\ n + last < k => f[i].y = y2 /\ f[i].m = m2 /\ f[i].d = k - n - last
           T == {i \in 0..n : Right(i, dt.d + i)}
<1> HIDE DEF n, y, m, last, y2, m2, length
<1>5. 0 \in T
  <2>1. Right(0, dt.d)
    BY <1>1, <1>3, <1>4
  <2>2. 0 \in 0..n /\ dt.d + 0 = dt.d
    BY <1>1, <1>3
  <2> QED BY <2>1, <2>2
<1>6. ASSUME NEW i \in 1..n, i - 1 \in T PROVE i \in T
  <2>1. PICK k \in Nat : k = dt.d + (i - 1)
    BY <1>1, <1>3
  <2>2. PICK j : j = i - 1
    OBVIOUS
  <2>3. /\ f[i] = NextDay(f[j]) /\ i \in 0..n /\ dt.d + i = k + 1 /\ k < n + last + 28
    BY <1>1, <1>3, <1>4, <2>1, <2>2
  <2> HIDE DEF Right
  <2>4. Right(j, k)
    BY <1>6, <2>1, <2>2
  <2> USE DEF Right
  <2>5. IsDay(f[j]) /\ IsDay(f[i])
    BY <2>3, <2>4, NextDayIs
  <2>6. /\ f[j].d < MonthLength(f[j].y, f[j].m) =>
             f[i].y = f[j].y /\ f[i].m = f[j].m /\ f[i].d = f[j].d + 1
        /\ ~(f[j].d < MonthLength(f[j].y, f[j].m)) =>
             << f[i].y, f[i].m >> = MonthAfter(f[j].y, f[j].m) /\ f[i].d = 1
    BY <2>3, <2>5, NextDayFields
  <2>7. CASE k <= n
    <3>1. /\ MonthLength(f[j].y, f[j].m) = n /\ MonthAfter(f[j].y, f[j].m) = << y, m >>
          /\ f[j].y = dt.y /\ f[j].m = dt.m /\ f[j].d = k
      BY <1>3, <2>4, <2>7 DEF n
    <3> QED BY <1>3, <2>3, <2>5, <2>6, <2>7, <3>1
  <2>8. CASE n < k /\ k <= n + last
    <3>1. /\ MonthLength(f[j].y, f[j].m) = last /\ MonthAfter(f[j].y, f[j].m) = << y2, m2 >>
          /\ f[j].y = y /\ f[j].m = m /\ f[j].d = k - n
      BY <1>3, <2>4, <2>8 DEF last
    <3> QED BY <1>3, <2>3, <2>5, <2>6, <2>8, <3>1
  <2>9. CASE n + last < k
    <3>1. /\ MonthLength(f[j].y, f[j].m) = length
          /\ f[j].y = y2 /\ f[j].m = m2 /\ f[j].d = k - n - last
      BY <1>3, <2>4, <2>9 DEF length
    <3> QED BY <1>3, <2>3, <2>5, <2>6, <2>9, <3>1
  <2> QED BY <1>3, <2>7, <2>8, <2>9
<1> HIDE DEF T
<1>7. n \in T
  BY <1>3, <1>5, <1>6, OneByOne
<1>8. AddMonth(dt) = f[n]
  BY <1>4 DEF AddMonth, n
<1>9. << f[n].y, f[n].m >> = IF dt.d <= last THEN << y, m >> ELSE << y2, m2 >>
  BY <1>1, <1>3, <1>7 DEF T
<1> QED BY <1>3, <1>8, <1>9 DEF y, m, last, y2, m2

-----------------------------------------------------------------------------
(* Recurring campaigns. *)

\* The day of a month that SetDay makes is a day of the calendar.
LEMMA SetDayIs ==
  ASSUME NEW dt, IsDay(dt), NEW d \in 1..28
  PROVE  /\ IsDay(SetDay(dt, d))
         /\ SetDay(dt, d).y = dt.y /\ SetDay(dt, d).m = dt.m /\ SetDay(dt, d).d = d
<1>1. /\ dt.y \in Nat /\ dt.m \in 1..12 /\ dt.d \in 1..31 /\ dt.w \in 0..6
      /\ MonthLength(dt.y, dt.m) \in 28..31
  BY MonthsHaveDays DEF IsDay, DateRecord
<1>2. (dt.w + (d - dt.d) + 35) % 7 \in 0..6
  BY <1>1
<1> QED BY <1>1, <1>2 DEF SetDay, IsDay, DateRecord

\* What calculateNextDate gives for a day is a day that the rule allows next.
LEMMA NextDateFollows ==
  ASSUME rule \in Recurrence, NEW base, IsDay(base), NEW next \in CalculateNextDate(base)
  PROVE  IsDay(next) /\ Follows(base, next)
<1>1. /\ base.y \in Nat /\ base.m \in 1..12 /\ base.d \in 1..31 /\ base.w \in 0..6
      /\ rule.daysOfWeek \subseteq 0..6 /\ rule.dayOfMonth \in 1..28
      /\ rule.type \in {"daily", "weekly", "monthly"}
  BY DEF IsDay, DateRecord, Recurrence
<1>2. CASE rule.type = "daily"
  <2>1. next = AddDays(base, 1)
    BY <1>2 DEF CalculateNextDate
  <2> QED BY <1>2, <2>1, AddOneDay, NextDayIs DEF Follows
<1>3. CASE rule.type = "weekly"
  <2> DEFINE found == WeekMatches(base, rule.daysOfWeek)
  <2>1. CalculateNextDate(base) = {AddDays(base, i) : i \in {j \in found : \A k \in found : j <= k}}
    BY <1>3 DEF CalculateNextDate
  <2>2. PICK i \in found : next = AddDays(base, i) /\ \A k \in found : i <= k
    BY <2>1
  <2>3. i \in 1..7 /\ (base.w + i) % 7 \in rule.daysOfWeek
    BY <2>2 DEF WeekMatches
  <2>4. \A j \in 1..7 : IsDay(AddDays(base, j)) /\ AddDays(base, j).w = (base.w + j) % 7
    BY AddDaysIs
  <2>5. ASSUME NEW j \in 1..(i - 1) PROVE AddDays(base, j).w \notin rule.daysOfWeek
    <3>1. j \in 1..7 /\ ~(i <= j)
      BY <2>3
    <3>2. j \notin found
      BY <2>2, <3>1
    <3> QED BY <2>4, <3>1, <3>2 DEF WeekMatches
  <2>6. next.w \in rule.daysOfWeek /\ IsDay(next)
    BY <2>2, <2>3, <2>4
  <2> QED BY <1>3, <2>2, <2>3, <2>5, <2>6 DEF Follows
<1>4. CASE rule.type = "monthly"
  <2>1. next = SetDay(AddMonth(base), rule.dayOfMonth)
    BY <1>4 DEF CalculateNextDate
  <2>2. IsDay(AddMonth(base))
    <3>1. MonthLength(base.y, base.m) \in Nat
      BY <1>1, MonthsHaveDays
    <3> QED BY <3>1, AddDaysIs DEF AddMonth
  <2>3. /\ IsDay(next) /\ next.d = rule.dayOfMonth
        /\ next.y = AddMonth(base).y /\ next.m = AddMonth(base).m
    BY <1>1, <2>1, <2>2, SetDayIs
  <2> DEFINE y == IF base.m = 12 THEN base.y + 1 ELSE base.y
             m == (base.m % 12) + 1
             y2 == IF m = 12 THEN y + 1 ELSE y
             m2 == (m % 12) + 1
             length == MonthLength(y, m)
  <2>4. \A a \in Nat, b \in 1..12 :
          MonthAfter(a, b) = << IF b = 12 THEN a + 1 ELSE a, (b % 12) + 1 >>
    BY DEF MonthAfter
  <2>5. y \in Nat /\ m \in 1..12
    BY <1>1
  <2>6. MonthAfter(base.y, base.m) = << y, m >> /\ MonthAfter(y, m) = << y2, m2 >>
    BY <1>1, <2>4, <2>5
  <2>7. << next.y, next.m >> = IF base.d <= length THEN << y, m >> ELSE << y2, m2 >>
    BY <2>3, <2>6, AddMonthIs
  <2>8. /\ (y * 12 + m) - (base.y * 12 + base.m) = 1
        /\ (y2 * 12 + m2) - (base.y * 12 + base.m) = 2
    BY <1>1
  <2>9. (next.y * 12 + next.m) - (base.y * 12 + base.m) = IF base.d <= length THEN 1 ELSE 2
    <3> HIDE DEF y, m, y2, m2, length
    <3> QED BY <2>7, <2>8
  <2> QED BY <1>4, <2>3, <2>9 DEF Follows
<1> QED BY <1>1, <1>2, <1>3, <1>4

\* Time goes on: the key of a day is less than that of the day after it.
LEMMA DayKeys ==
  ASSUME NEW dt, IsDay(dt)
  PROVE  DateKey(dt) \in Nat /\ DateKey(dt) < DateKey(NextDay(dt))
<1>1. dt.y \in Nat /\ dt.m \in 1..12 /\ dt.d \in 1..31
  BY DEF IsDay, DateRecord
<1>2. \/ /\ NextDay(dt).y = dt.y /\ NextDay(dt).m = dt.m /\ NextDay(dt).d = dt.d + 1
      \/ /\ NextDay(dt).y = dt.y /\ NextDay(dt).m = dt.m + 1 /\ NextDay(dt).d = 1
      \/ /\ NextDay(dt).y = dt.y + 1 /\ NextDay(dt).m = 1 /\ NextDay(dt).d = 1
         /\ dt.m = 12
  <2>1. CASE dt.d < MonthLength(dt.y, dt.m)
    BY <2>1, NextDayFields
  <2>2. CASE ~(dt.d < MonthLength(dt.y, dt.m))
    <3>1. << NextDay(dt).y, NextDay(dt).m >> = MonthAfter(dt.y, dt.m) /\ NextDay(dt).d = 1
      BY <2>2, NextDayFields
    <3> QED BY <1>1, <3>1 DEF MonthAfter
  <2> QED BY <2>1, <2>2
<1>3. /\ DateKey(dt) = (dt.y * 12 + dt.m) * 31 + dt.d
      /\ DateKey(NextDay(dt)) = (NextDay(dt).y * 12 + NextDay(dt).m) * 31 + NextDay(dt).d
  BY DEF DateKey
<1>4. \A y \in Nat, m \in 1..12, d \in 1..31 :
        /\ (y * 12 + m) * 31 + d \in Nat
        /\ (y * 12 + m) * 31 + d < (y * 12 + m) * 31 + (d + 1)
        /\ (y * 12 + m) * 31 + d < (y * 12 + (m + 1)) * 31 + 1
        /\ m = 12 => (y * 12 + m) * 31 + d < ((y + 1) * 12 + 1) * 31 + 1
  OBVIOUS
<1> QED BY <1>1, <1>2, <1>3, <1>4, SMTT(30)

\* The rows and their moments.
LEMMA OccurrenceIs ==
  ASSUME RecurrenceTypeOK, NEW i \in Ids
  PROVE  /\ series[i] \in Occurrence
         /\ series[i] = [status |-> series[i].status, at |-> series[i].at, of |-> series[i].of]
         /\ series[i].at = Moment(series[i].at.date, series[i].at.half)
         /\ series[i].at.half \in {0, 1} /\ series[i].of \in {0} \cup Ids
         /\ series[i].status \in Statuses
         /\ MomentKey(series[i].at) \in Int /\ MomentKey(Now) \in Int
<1>1. series[i] \in Occurrence
  BY DEF RecurrenceTypeOK
<1>2. /\ series[i].at.date \in DateRecord \cup {NoDate} /\ series[i].at.half \in {0, 1}
      /\ day \in DateRecord /\ half \in {0, 1}
  BY <1>1 DEF Occurrence, RecurrenceTypeOK, IsDay
<1>3. \A dt \in DateRecord \cup {NoDate} : DateKey(dt) \in Int
  BY DEF DateKey, DateRecord, NoDate
<1>4. MomentKey(series[i].at) \in Int /\ MomentKey(Now) \in Int
  BY <1>2, <1>3 DEF MomentKey, Now, Moment
<1> QED BY <1>1, <1>4 DEF Occurrence, Moment

LEMMA InitRecurrence == RecurrenceInit => RecurrenceInvariant
<1> SUFFICES ASSUME RecurrenceInit PROVE RecurrenceInvariant
  OBVIOUS
<1>1. IsDay(day) /\ half \in {0, 1} /\ moments \in 0..MaxMoments /\ rule \in Rules /\ pending = {}
  BY OriginsAssumption, RecurrenceBounds DEF RecurrenceInit
<1>2. endDate = NoDate \/ IsDay(endDate)
  BY <1>1, AddDaysIs DEF RecurrenceInit
<1>3. /\ series = [i \in Ids |-> IF i = 1 THEN [status |-> "SCHEDULED", at |-> Now, of |-> 0]
                                         ELSE NoRecurring]
      /\ [status |-> "SCHEDULED", at |-> Now, of |-> 0] \in Occurrence
      /\ NoRecurring \in Occurrence
  BY <1>1 DEF RecurrenceInit, Occurrence, Statuses, Now, Moment, NoRecurring, IsDay
<1>4. \A i \in Ids : /\ series[i].of = 0
                     /\ \/ series[i].status = "SCHEDULED" /\ series[i].at.date = day
                        \/ series[i].status = "none"
  BY <1>3 DEF NoRecurring, Now, Moment
<1>5. RecurrenceTypeOK
  BY <1>1, <1>2, <1>3, <1>4 DEF RecurrenceTypeOK
<1>6. CompletedByNow /\ ClonesStand /\ OccurrencesFollowRule
  BY <1>1, <1>4 DEF CompletedByNow, ClonesStand, OccurrencesFollowRule, Clones
<1> QED BY <1>5, <1>6 DEF RecurrenceInvariant

LEMMA RecurrenceStep ==
  ASSUME RecurrenceInvariant, [RecurrenceNext]_recurrenceVars
  PROVE  RecurrenceInvariant'
<1>1. RecurrenceTypeOK /\ CompletedByNow /\ ClonesStand /\ OccurrencesFollowRule
  BY DEF RecurrenceInvariant
<1>2. /\ IsDay(day) /\ half \in {0, 1} /\ series \in [Ids -> Occurrence] /\ rule \in Recurrence
      /\ pending \subseteq Ids
  BY <1>1, RulesAssumption DEF RecurrenceTypeOK
<1>3. CASE PassHalfADay
  <2>1. /\ UNCHANGED << rule, endDate, series, pending >>
        /\ moments' \in 0..MaxMoments /\ half' \in {0, 1} /\ IsDay(day')
    <3>1. UNCHANGED << rule, endDate, series, pending >> /\ moments' \in 0..MaxMoments
      BY <1>1, <1>3, RecurrenceBounds DEF PassHalfADay, RecurrenceTypeOK
    <3>2. half' \in {0, 1} /\ (day' = day \/ day' = NextDay(day))
      BY <1>2, <1>3 DEF PassHalfADay
    <3>3. IsDay(day')
      BY <1>2, <3>2, NextDayIs
    <3> QED BY <3>1, <3>2, <3>3
  <2>2. /\ MomentKey(Now)' \in Int /\ MomentKey(Now) \in Int
        /\ MomentKey(Now) <= MomentKey(Now)'
    <3>1. MomentKey(Now) = 2 * DateKey(day) + half /\ MomentKey(Now)' = 2 * DateKey(day') + half'
      BY SMTT(30) DEF MomentKey, Now, Moment
    <3>2. CASE half = 1
      <4>1. half' = 0 /\ day' = NextDay(day)
        BY <1>3, <3>2 DEF PassHalfADay
      <4>2. DateKey(day) \in Nat /\ DateKey(day') \in Nat /\ DateKey(day) < DateKey(day')
        BY <1>2, <4>1, DayKeys, NextDayIs
      <4> QED BY <3>1, <3>2, <4>1, <4>2
    <3>3. CASE half = 0
      BY <1>2, <1>3, <3>1, <3>3, DayKeys DEF PassHalfADay
    <3> QED BY <1>2, <3>2, <3>3
  <2>3. \A i \in Ids : MomentKey(series[i].at) \in Int
    BY <1>1, OccurrenceIs
  <2>4. CompletedByNow'
    <3> SUFFICES ASSUME NEW i \in Ids, series[i].status = "COMPLETED"
                 PROVE  MomentKey(series[i].at) <= MomentKey(Now)'
      BY <2>1 DEF CompletedByNow, MomentKey
    <3> QED BY <1>1, <2>2, <2>3 DEF CompletedByNow
  <2>5. RecurrenceTypeOK'
    BY <1>1, <2>1 DEF RecurrenceTypeOK
  <2>6. ClonesStand'
    BY <1>1, <2>1 DEF ClonesStand
  <2>7. OccurrencesFollowRule'
    BY <1>1, <2>1, ZenonT(40) DEF OccurrencesFollowRule, Clones, Follows
  <2> QED BY <2>4, <2>5, <2>6, <2>7, Zenon DEF RecurrenceInvariant
<1>4. ASSUME NEW i \in Ids, CompleteOccurrence(i) PROVE RecurrenceInvariant'
  <2> DEFINE occ == [status |-> "COMPLETED", at |-> Now, of |-> series[i].of]
  <2>1. /\ UNCHANGED << day, half, moments, rule, endDate, pending >>
        /\ series[i].status = "SCHEDULED"
        /\ series' = [series EXCEPT ![i] = occ]
    BY <1>4 DEF CompleteOccurrence
  <2>2. occ \in Occurrence /\ occ.status = "COMPLETED" /\ occ.of = series[i].of
        /\ occ.at.date = day /\ MomentKey(occ.at) = MomentKey(Now)
    BY <1>1, <1>2, OccurrenceIs DEF Occurrence, Statuses, Now, Moment, IsDay
  <2> HIDE DEF occ
  <2>3. /\ series' \in [Ids -> Occurrence] /\ series'[i] = occ
        /\ \A n \in Ids : n # i => series'[n] = series[n]
    BY <1>2, <2>1, <2>2
  <2>4. \A n \in Ids : series'[n].of = series[n].of
    BY <2>2, <2>3
  <2>5. \A n \in Ids : series[n].of # 0 =>
          series[n].of \in Ids /\ series[series[n].of].status = "COMPLETED" /\ series[n].of # i
    BY <1>1, <2>1, OccurrenceIs DEF ClonesStand
  <2>6. RecurrenceTypeOK'
    BY <1>1, <1>2, <2>1, <2>2, <2>3 DEF RecurrenceTypeOK
  <2>7. CompletedByNow'
    <3>1. MomentKey(Now)' = MomentKey(Now)
      BY <2>1 DEF MomentKey, Now, Moment
    <3> SUFFICES ASSUME NEW n \in Ids, series'[n].status = "COMPLETED"
                 PROVE  MomentKey(series'[n].at) <= MomentKey(Now)
      BY <3>1 DEF CompletedByNow, MomentKey
    <3>2. CASE n = i
      <4>1. series'[n].at = occ.at /\ MomentKey(Now) \in Int
        BY <1>1, <2>3, <3>2, OccurrenceIs
      <4>2. MomentKey(series'[n].at) = MomentKey(Now)
        BY <2>2, <4>1
      <4> QED BY <4>1, <4>2
    <3>3. CASE n # i
      BY <1>1, <2>3, <3>3 DEF CompletedByNow
    <3> QED BY <3>2, <3>3
  <2>8. ClonesStand'
    BY <1>1, <2>1, <2>2, <2>3, <2>4, <2>5 DEF ClonesStand
  <2>9. OccurrencesFollowRule'
    <3> SUFFICES ASSUME NEW n \in Ids, series'[n].of # 0, series'[n].status \in {"DRAFT", "SCHEDULED"}
                 PROVE  /\ Follows(series'[series'[n].of].at.date, series'[n].at.date)
                        /\ series'[n].at.half = series'[series'[n].of].at.half
                        /\ endDate # NoDate => MomentKey(series'[series'[n].of].at) <= 2 * DateKey(endDate)
      BY <2>1, Zenon DEF OccurrencesFollowRule, Clones, Follows, MomentKey
    <3>1. n # i
      BY <2>2, <2>3
    <3>2. series'[n] = series[n] /\ series[n].of # 0 /\ series'[series'[n].of] = series[series[n].of]
      BY <2>3, <2>4, <2>5, <3>1
    <3> QED BY <1>1, <3>2 DEF OccurrencesFollowRule, Clones
  <2> QED BY <2>6, <2>7, <2>8, <2>9 DEF RecurrenceInvariant
<1>5. ASSUME NEW i \in Ids, CloneCampaign(i) PROVE RecurrenceInvariant'
  <2>1. PICK n \in Ids, next \in NextOccurrences(i) :
          /\ series[n].status = "none"
          /\ series' = [series EXCEPT ![n] = [status |-> "DRAFT", at |-> next, of |-> i]]
          /\ pending' = pending \cup {n}
    BY <1>5 DEF CloneCampaign
  <2>2. /\ series[i].status = "COMPLETED" /\ ~EndPassed /\ n # i
        /\ UNCHANGED << day, half, moments, rule, endDate >>
    BY <1>5, <2>1 DEF CloneCampaign
  <2>3. IsDay(series[i].at.date)
    BY <1>1, <2>2 DEF RecurrenceTypeOK
  <2>4. PICK dt \in CalculateNextDate(series[i].at.date) : next = Moment(dt, series[i].at.half)
    BY DEF NextOccurrences
  <2>5. /\ IsDay(dt) /\ Follows(series[i].at.date, dt)
        /\ next.date = dt /\ next.half = series[i].at.half /\ next.half \in {0, 1}
        /\ next \in [date : DateRecord \cup {NoDate}, half : {0, 1}]
    BY <1>1, <1>2, <2>3, <2>4, NextDateFollows, OccurrenceIs DEF Moment, IsDay
  <2>6. endDate # NoDate => MomentKey(series[i].at) <= 2 * DateKey(endDate)
    <3> SUFFICES ASSUME endDate # NoDate PROVE MomentKey(series[i].at) <= 2 * DateKey(endDate)
      OBVIOUS
    <3>1. DateKey(endDate) \in Nat
      BY <1>1, DayKeys DEF RecurrenceTypeOK
    <3>2. MomentKey(series[i].at) <= MomentKey(Now) /\ MomentKey(series[i].at) \in Int /\ MomentKey(Now) \in Int
      BY <1>1, <2>2, OccurrenceIs DEF CompletedByNow
    <3>3. ~(DateKey(endDate) * 2 < MomentKey(Now))
      BY <2>2 DEF EndPassed
    <3> QED BY <3>1, <3>2, <3>3
  <2> DEFINE occ == [status |-> "DRAFT", at |-> next, of |-> i]
  <2>7. occ \in Occurrence /\ occ.status = "DRAFT" /\ occ.of = i /\ occ.at = next /\ i # 0
    BY <2>5 DEF Occurrence, Statuses, Ids
  <2> HIDE DEF occ
  <2>8. /\ series' \in [Ids -> Occurrence] /\ series'[n] = occ
        /\ \A k \in Ids : k # n => series'[k] = series[k]
    BY <1>2, <2>1, <2>7 DEF occ
  <2>9. \A k \in Ids : series[k].of # 0 =>
          series[k].of \in Ids /\ series[series[k].of].status = "COMPLETED" /\ series[k].of # n
    BY <1>1, <2>1, OccurrenceIs DEF ClonesStand
  <2>10. RecurrenceTypeOK'
    BY <1>1, <1>2, <2>1, <2>2, <2>5, <2>7, <2>8 DEF RecurrenceTypeOK
  <2>11. CompletedByNow'
    <3>1. MomentKey(Now)' = MomentKey(Now)
      BY <2>2 DEF MomentKey, Now, Moment
    <3> SUFFICES ASSUME NEW k \in Ids, series'[k].status = "COMPLETED"
                 PROVE  MomentKey(series'[k].at) <= MomentKey(Now)
      BY <3>1 DEF CompletedByNow, MomentKey
    <3> QED BY <1>1, <2>7, <2>8 DEF CompletedByNow
  <2>12. ClonesStand'
    <3>1. series'[n].of = i /\ series'[i] = series[i] /\ series'[n].status = "DRAFT"
      BY <2>2, <2>7, <2>8
    <3> QED BY <1>1, <2>1, <2>2, <2>8, <2>9, <3>1 DEF ClonesStand
  <2>13. OccurrencesFollowRule'
    <3> SUFFICES ASSUME NEW k \in Ids, series'[k].of # 0, series'[k].status \in {"DRAFT", "SCHEDULED"}
                 PROVE  /\ Follows(series'[series'[k].of].at.date, series'[k].at.date)
                        /\ series'[k].at.half = series'[series'[k].of].at.half
                        /\ endDate # NoDate => MomentKey(series'[series'[k].of].at) <= 2 * DateKey(endDate)
      BY <2>2, Zenon DEF OccurrencesFollowRule, Clones, Follows, MomentKey
    <3>1. CASE k = n
      <4>1. series'[k].of = i /\ series'[i] = series[i] /\ series'[k].at = next
        BY <2>2, <2>7, <2>8, <3>1
      <4> QED BY <2>5, <2>6, <4>1
    <3>2. CASE k # n
      <4>1. series'[k] = series[k] /\ series[k].of # 0 /\ series'[series'[k].of] = series[series[k].of]
        BY <2>8, <2>9, <3>2
      <4> QED BY <1>1, <4>1 DEF OccurrencesFollowRule, Clones
    <3> QED BY <3>1, <3>2
  <2> QED BY <2>10, <2>11, <2>12, <2>13 DEF RecurrenceInvariant
<1>6. ASSUME NEW n \in Ids, ScheduleClone(n) \/ ScheduleCloneFails(n) PROVE RecurrenceInvariant'
  <2>1. /\ n \in pending /\ pending' \subseteq pending /\ n \notin pending'
        /\ UNCHANGED << day, half, moments, rule, endDate >>
    BY <1>6 DEF ScheduleClone, ScheduleCloneFails
  <2>2. series[n].status = "DRAFT"
    BY <1>1, <2>1 DEF ClonesStand
  <2> DEFINE occ == [status |-> "SCHEDULED", at |-> series[n].at, of |-> series[n].of]
  <2>3. occ \in Occurrence /\ occ.status = "SCHEDULED" /\ occ.at = series[n].at /\ occ.of = series[n].of
    BY <1>2 DEF Occurrence, Statuses
  <2>4. series' = series \/ series' = [series EXCEPT ![n] = occ]
    BY <1>6 DEF ScheduleClone, ScheduleCloneFails
  <2> HIDE DEF occ
  <2>5. /\ series' \in [Ids -> Occurrence]
        /\ \A k \in Ids : k # n => series'[k] = series[k]
        /\ series'[n].at = series[n].at /\ series'[n].of = series[n].of
        /\ series'[n].status \in {"DRAFT", "SCHEDULED"}
    BY <1>2, <2>2, <2>3, <2>4
  <2>6. \A k \in Ids : series'[k].at = series[k].at /\ series'[k].of = series[k].of
    BY <2>5
  <2>7. \A k \in Ids : series[k].of # 0 => series[k].of \in Ids /\ series[k].of # n
    BY <1>1, <2>2, OccurrenceIs DEF ClonesStand
  <2>8. RecurrenceTypeOK'
    BY <1>1, <1>2, <2>1, <2>2, <2>5 DEF RecurrenceTypeOK
  <2>9. CompletedByNow'
    <3>1. MomentKey(Now)' = MomentKey(Now)
      BY <2>1 DEF MomentKey, Now, Moment
    <3> SUFFICES ASSUME NEW k \in Ids, series'[k].status = "COMPLETED"
                 PROVE  MomentKey(series'[k].at) <= MomentKey(Now)
      BY <3>1 DEF CompletedByNow, MomentKey
    <3>2. k # n
      BY <2>5
    <3> QED BY <1>1, <2>5, <3>2 DEF CompletedByNow
  <2>10. ClonesStand'
    BY <1>1, <2>1, <2>2, <2>5, <2>6, <2>7 DEF ClonesStand
  <2>11. OccurrencesFollowRule'
    <3> SUFFICES ASSUME NEW k \in Ids, series'[k].of # 0, series'[k].status \in {"DRAFT", "SCHEDULED"}
                 PROVE  /\ Follows(series'[series'[k].of].at.date, series'[k].at.date)
                        /\ series'[k].at.half = series'[series'[k].of].at.half
                        /\ endDate # NoDate => MomentKey(series'[series'[k].of].at) <= 2 * DateKey(endDate)
      BY <2>1, Zenon DEF OccurrencesFollowRule, Clones, Follows, MomentKey
    <3>1. /\ series[k].of # 0 /\ series[k].status \in {"DRAFT", "SCHEDULED"}
          /\ series'[k].of = series[k].of /\ series'[k].at = series[k].at
          /\ series'[series[k].of].at = series[series[k].of].at
      BY <2>2, <2>5, <2>6, <2>7
    <3> QED BY <1>1, <3>1 DEF OccurrencesFollowRule, Clones
  <2> QED BY <2>8, <2>9, <2>10, <2>11 DEF RecurrenceInvariant
<1>7. CASE UNCHANGED recurrenceVars
  <2>1. UNCHANGED << day, half, moments, rule, endDate, series, pending >>
    BY <1>7 DEF recurrenceVars
  <2>2. RecurrenceTypeOK' /\ CompletedByNow' /\ ClonesStand'
    BY <1>1, <2>1 DEF RecurrenceTypeOK, CompletedByNow, ClonesStand, MomentKey, Now
  <2>3. OccurrencesFollowRule'
    BY <1>1, <2>1, ZenonT(40) DEF OccurrencesFollowRule, Clones, Follows, MomentKey
  <2> QED BY <2>2, <2>3 DEF RecurrenceInvariant
<1> QED BY <1>3, <1>4, <1>5, <1>6, <1>7 DEF RecurrenceNext

\* The invariant of recurring campaigns.
THEOREM RecurrenceInvariance == RecurrenceSpec => []RecurrenceInvariant
  BY InitRecurrence, RecurrenceStep, PTL DEF RecurrenceSpec

\* Types of recurring campaigns.
THEOREM RecurrenceTypes == RecurrenceSpec => []RecurrenceTypeOK
  BY RecurrenceInvariance, PTL DEF RecurrenceInvariant

\* An occurrence is the first that its rule allows after the one before completed,
\* at that time of day, and none follows once the end date has passed: whatever the
\* rule, the calendar and the lengths of its months.
THEOREM OccurrencesFollow == RecurrenceSpec => []OccurrencesFollowRule
  BY RecurrenceInvariance, PTL DEF RecurrenceInvariant

-----------------------------------------------------------------------------
(* The dashboard's pages. *)

\* The pages of the site, one by one.
LEMMA SiteIs ==
  /\ PageNames = {"dashboard", "campaigns", "campaigns/new", "campaigns/id", "campaigns/id/edit",
                  "contacts", "contacts/new", "contacts/id", "contacts/id/edit", "groups",
                  "groups/id", "templates", "templates/id", "drip", "drip/new", "drip/id",
                  "auto-replies", "auto-replies/new", "date-based", "inbox", "inbox/id",
                  "team", "api-keys", "plan", "webhooks", "analytics"}
  /\ Site["dashboard"] = DashboardPage /\ Site["campaigns"] = CampaignsPage
  /\ Site["campaigns/new"] = NewCampaignPage /\ Site["campaigns/id"] = CampaignPage
  /\ Site["campaigns/id/edit"] = EditCampaignPage /\ Site["contacts"] = ContactsPage
  /\ Site["contacts/new"] = NewContactPage /\ Site["contacts/id"] = ContactPage
  /\ Site["contacts/id/edit"] = EditContactPage /\ Site["groups"] = GroupsPage
  /\ Site["groups/id"] = GroupPage /\ Site["templates"] = TemplatesPage
  /\ Site["templates/id"] = TemplatePage /\ Site["drip"] = DripSequencesPage
  /\ Site["drip/new"] = NewDripSequencePage /\ Site["drip/id"] = DripSequencePage
  /\ Site["auto-replies"] = AutoRepliesPage /\ Site["auto-replies/new"] = NewAutoReplyPage
  /\ Site["date-based"] = DateBasedPage /\ Site["inbox"] = InboxPage
  /\ Site["inbox/id"] = ThreadPage /\ Site["team"] = TeamPage
  /\ Site["api-keys"] = ApiKeysPage /\ Site["plan"] = PlanPage
  /\ Site["webhooks"] = WebhooksPage /\ Site["analytics"] = AnalyticsPage
<1> DEFINE Names26 == {"dashboard", "campaigns", "campaigns/new", "campaigns/id", "campaigns/id/edit",
                  "contacts", "contacts/new", "contacts/id", "contacts/id/edit", "groups",
                  "groups/id", "templates", "templates/id", "drip", "drip/new", "drip/id",
                  "auto-replies", "auto-replies/new", "date-based", "inbox", "inbox/id",
                  "team", "api-keys", "plan", "webhooks", "analytics"}
<1>1. PageNames = Names26
  BY DEF PageNames, Sections
<1> QED BY <1>1 DEF Site

\* A name stands for itself and for the keys it begins.
LEMMA Begins ==
  /\ \A a : IsPrefix(<< a >>, << a >>)
  /\ \A a, b : IsPrefix(<< a >>, << a, b >>) /\ IsPrefix(<< a, b >>, << a, b >>)
  /\ \A a, b, c : IsPrefix(<< a, b >>, << a, b, c >>)
<1>1. ASSUME NEW a PROVE IsPrefix(<< a >>, << a >>)
  BY DEF IsPrefix
<1>2. ASSUME NEW a, NEW b PROVE IsPrefix(<< a >>, << a, b >>) /\ IsPrefix(<< a, b >>, << a, b >>)
  BY DEF IsPrefix
<1>3. ASSUME NEW a, NEW b, NEW c PROVE IsPrefix(<< a, b >>, << a, b, c >>)
  BY DEF IsPrefix
<1> QED BY <1>1, <1>2, <1>3

\* Keys of different lengths are different.
LEMMA LengthsTell ==
  /\ \A a, b, c : << a >> # << b, c >>
  /\ \A a, b, c, d : << a >> # << b, c, d >>
<1>1. ASSUME NEW a, NEW b, NEW c PROVE << a >> # << b, c >>
  <2>1. Len(<< a >>) = 1 /\ Len(<< b, c >>) = 2
    OBVIOUS
  <2> QED BY <2>1
<1>2. ASSUME NEW a, NEW b, NEW c, NEW d PROVE << a >> # << b, c, d >>
  <2>1. Len(<< a >>) = 1 /\ Len(<< b, c, d >>) = 3
    OBVIOUS
  <2> QED BY <2>1
<1> QED BY <1>1, <1>2

\* The names that mutations invalidate, and the keys they stand for.
LEMMA NamesBegin ==
  /\ IsPrefix(<< "api-keys" >>, << "api-keys" >>)
  /\ IsPrefix(<< "auto-reply-rules" >>, << "auto-reply-rules" >>)
  /\ IsPrefix(<< "campaigns" >>, << "campaigns" >>)
  /\ IsPrefix(<< "contacts" >>, ContactList)
  /\ IsPrefix(<< "date-automations" >>, << "date-automations" >>)
  /\ IsPrefix(<< "drip-sequences" >>, << "drip-sequences" >>)
  /\ IsPrefix(<< "groups" >>, << "groups" >>)
  /\ IsPrefix(<< "team-members" >>, << "team-members" >>)
  /\ IsPrefix(<< "template", "id" >>, << "template", "id" >>)
  /\ IsPrefix(<< "templates" >>, << "templates" >>)
  /\ IsPrefix(<< "webhooks" >>, << "webhooks" >>) /\ IsPrefix(CampaignKey, CampaignKey)
  /\ IsPrefix(CampaignKey, MessagesKey) /\ IsPrefix(ContactKey, ContactKey)
  /\ IsPrefix(DripKey, DripKey) /\ IsPrefix(GroupKey, GroupKey)
  /\ IsPrefix(ThreadKey, ThreadKey)
BY Begins DEF CampaignKey, MessagesKey, ContactKey, GroupKey, ContactList, DripKey, ThreadKey

\* Keys that are not what a mutation changes.
LEMMA KeysApart ==
  /\ << "sessions" >> # << "inbox" >> /\ << "sessions" >> # ThreadKey
  /\ << "webhook-deliveries", "id" >> # << "webhooks" >>
  /\ CampaignKey # << "campaigns" >> /\ MessagesKey # << "campaigns" >>
  /\ PickerKey # << "groups" >> /\ PickerKey # GroupKey
BY LengthsTell DEF CampaignKey, MessagesKey, ContactKey, GroupKey, PickerKey, ThreadKey

\* The pages that mutations go on to.
Moves ==
  { << "campaigns/new", "campaigns/id" >>, << "campaigns/id/edit", "campaigns/id" >>,
    << "campaigns/id", "campaigns" >>, << "contacts/new", "contacts" >>,
    << "contacts/id", "contacts" >>, << "contacts/id/edit", "contacts/id" >>,
    << "templates/id", "templates" >>, << "drip/new", "drip" >>,
    << "auto-replies/new", "auto-replies" >> }

\* What is asked of a mutation d of the page p: it stays or makes such a move, and names
\* what it has changed of the page it leads to, or is one of the four that name nothing.
Sound(p, d, k) ==
  /\ d.to = Stay \/ << p, d.to >> \in Moves
  /\ k \in d.changes /\ k \in Site[Destination(p, d)].shows =>
       \/ \E n \in d.invalidates : IsPrefix(n, k)
       \/ << p, d.name >> \in Unannounced

\* The pages of campaigns are sound.
LEMMA CampaignPagesSound ==
  ASSUME NEW k
  PROVE  \A p \in {"dashboard", "campaigns", "campaigns/new", "campaigns/id", "campaigns/id/edit"} :
           \A d \in Site[p].does : Sound(p, d, k)
<1> USE SiteIs, NamesBegin, KeysApart DEF Destination, Does, Stay, Unannounced, Moves, Lists
<1>1. \A d \in DashboardPage.does : Sound("dashboard", d, k)
  BY DEF DashboardPage
<1>2. \A d \in CampaignsPage.does : Sound("campaigns", d, k)
  <2>1. Sound("campaigns", Does("delete", {<<"campaigns">>}, {<<"campaigns">>}, Stay), k)
    BY DEF Sound, CampaignsPage
  <2> QED BY <2>1 DEF CampaignsPage
<1>3. \A d \in NewCampaignPage.does : Sound("campaigns/new", d, k)
  <2>1. Sound("campaigns/new", Does("create", {<<"campaigns">>}, {}, "campaigns/id"), k)
    BY DEF Sound, CampaignPage
  <2> QED BY <2>1 DEF NewCampaignPage
<1>4. \A d \in CampaignPage.does : Sound("campaigns/id", d, k)
  <2>1. Sound("campaigns/id",
             Does("start", {CampaignKey, MessagesKey, <<"campaigns">>}, {CampaignKey, MessagesKey}, Stay), k)
    BY DEF Sound, CampaignPage
  <2>2. Sound("campaigns/id",
             Does("pause", {CampaignKey, <<"campaigns">>}, {CampaignKey}, Stay), k)
    BY DEF Sound, CampaignPage
  <2>3. Sound("campaigns/id",
             Does("cancel", {CampaignKey, MessagesKey, <<"campaigns">>}, {CampaignKey, MessagesKey}, Stay), k)
    BY DEF Sound, CampaignPage
  <2>4. Sound("campaigns/id",
             Does("delete", {CampaignKey, MessagesKey, <<"campaigns">>}, {<<"campaigns">>}, "campaigns"), k)
    BY DEF Sound, CampaignsPage
  <2> QED BY <2>1, <2>2, <2>3, <2>4 DEF CampaignPage
<1>5. \A d \in EditCampaignPage.does : Sound("campaigns/id/edit", d, k)
  <2>1. Sound("campaigns/id/edit",
             Does("update", {CampaignKey, <<"campaigns">>}, {CampaignKey, <<"campaigns">>}, "campaigns/id"), k)
    BY DEF Sound, CampaignPage
  <2> QED BY <2>1 DEF EditCampaignPage
<1> QED BY <1>1, <1>2, <1>3, <1>4, <1>5

\* The page of a contact shows the contact.
LEMMA ContactShows ==
  /\ Site["contacts/id"].shows = {ContactKey}
  /\ IsPrefix(ContactKey, ContactKey)
<1>1. Site["contacts/id"] = ContactPage
  BY SiteIs
<1>2. ContactPage.shows = {ContactKey}
  BY DEF ContactPage
<1> QED BY <1>1, <1>2, NamesBegin

\* The pages of contacts are sound.
LEMMA ContactPagesSound ==
  ASSUME NEW k
  PROVE  \A p \in {"contacts", "contacts/new", "contacts/id", "contacts/id/edit", "groups",
                    "groups/id"} :
           \A d \in Site[p].does : Sound(p, d, k)
<1> USE SiteIs, NamesBegin, KeysApart DEF Destination, Does, Stay, Unannounced, Moves, Lists
<1>1. \A d \in ContactsPage.does : Sound("contacts", d, k)
  <2>1. Sound("contacts",
             Does("import", Lists \cup {ContactKey}, {<<"contacts">>}, Stay), k)
    BY DEF Sound, ContactsPage
  <2>2. Sound("contacts",
             Does("delete", Lists \cup {ContactKey}, {<<"contacts">>}, Stay), k)
    BY DEF Sound, ContactsPage
  <2> QED BY <2>1, <2>2 DEF ContactsPage
<1>2. \A d \in NewContactPage.does : Sound("contacts/new", d, k)
  <2>1. Sound("contacts/new", Does("create", Lists, {}, "contacts"), k)
    BY DEF Sound, ContactsPage
  <2> QED BY <2>1 DEF NewContactPage
<1>3. \A d \in ContactPage.does : Sound("contacts/id", d, k)
  <2>1. Sound("contacts/id",
             Does("opt out", Lists \cup {ContactKey}, {ContactKey}, Stay), k)
    BY ContactShows DEF Sound
  <2>2. Sound("contacts/id",
             Does("delete", Lists \cup {ContactKey, GroupKey}, {<<"contacts">>}, "contacts"), k)
    BY DEF Sound, ContactsPage
  <2> QED BY <2>1, <2>2 DEF ContactPage
<1>4. \A d \in EditContactPage.does : Sound("contacts/id/edit", d, k)
  <2>1. Sound("contacts/id/edit",
             Does("update", Lists \cup {ContactKey}, {ContactKey, <<"contacts">>}, "contacts/id"), k)
    BY ContactShows DEF Sound
  <2> QED BY <2>1 DEF EditContactPage
<1>5. \A d \in GroupsPage.does : Sound("groups", d, k)
  <2>1. Sound("groups", Does("create", {<<"groups">>}, {<<"groups">>}, Stay), k)
    BY DEF Sound, GroupsPage
  <2>2. Sound("groups", Does("delete", {<<"groups">>, GroupKey}, {<<"groups">>}, Stay), k)
    BY DEF Sound, GroupsPage
  <2> QED BY <2>1, <2>2 DEF GroupsPage
<1>6. \A d \in GroupPage.does : Sound("groups/id", d, k)
  <2>1. Sound("groups/id",
             Does("rename", {GroupKey, <<"groups">>}, {GroupKey, <<"groups">>}, Stay), k)
    BY DEF Sound, GroupPage
  <2>2. Sound("groups/id", Does("add", {GroupKey}, {GroupKey}, Stay), k)
    BY DEF Sound, GroupPage
  <2>3. Sound("groups/id", Does("remove", {GroupKey}, {GroupKey}, Stay), k)
    BY DEF Sound, GroupPage
  <2> QED BY <2>1, <2>2, <2>3 DEF GroupPage
<1> QED BY <1>1, <1>2, <1>3, <1>4, <1>5, <1>6

\* The pages of templates and automations are sound.
LEMMA AutomationPagesSound ==
  ASSUME NEW k
  PROVE  \A p \in {"templates", "templates/id", "drip", "drip/new", "drip/id", "auto-replies",
                    "auto-replies/new", "date-based"} :
           \A d \in Site[p].does : Sound(p, d, k)
<1> USE SiteIs, NamesBegin, KeysApart DEF Destination, Does, Stay, Unannounced, Moves, Lists
<1>1. \A d \in TemplatesPage.does : Sound("templates", d, k)
  <2>1. Sound("templates", Does("create", {<<"templates">>}, {<<"templates">>}, Stay), k)
    BY DEF Sound, TemplatesPage
  <2> QED BY <2>1 DEF TemplatesPage
<1>2. \A d \in TemplatePage.does : Sound("templates/id", d, k)
  <2>1. Sound("templates/id",
             Does("update", {<<"template", "id">>, <<"templates">>}, {<<"template", "id">>}, Stay), k)
    BY DEF Sound, TemplatePage
  <2>2. Sound("templates/id",
             Does("delete", {<<"template", "id">>, <<"templates">>}, {}, "templates"), k)
    BY DEF Sound, TemplatesPage
  <2> QED BY <2>1, <2>2 DEF TemplatePage
<1>3. \A d \in DripSequencesPage.does : Sound("drip", d, k)
  <2>1. Sound("drip",
             Does("delete", {<<"drip-sequences">>, DripKey}, {<<"drip-sequences">>}, Stay), k)
    BY DEF Sound, DripSequencesPage
  <2> QED BY <2>1 DEF DripSequencesPage
<1>4. \A d \in NewDripSequencePage.does : Sound("drip/new", d, k)
  <2>1. Sound("drip/new", Does("create", {<<"drip-sequences">>}, {}, "drip"), k)
    BY DEF Sound, DripSequencesPage
  <2> QED BY <2>1 DEF NewDripSequencePage
<1>5. \A d \in DripSequencePage.does : Sound("drip/id", d, k)
  <2>1. Sound("drip/id",
             Does("toggle", {<<"drip-sequences">>, DripKey}, {DripKey}, Stay), k)
    BY DEF Sound, DripSequencePage
  <2> QED BY <2>1 DEF DripSequencePage
<1>6. \A d \in AutoRepliesPage.does : Sound("auto-replies", d, k)
  <2>1. Sound("auto-replies",
             Does("delete", {<<"auto-reply-rules">>}, {<<"auto-reply-rules">>}, Stay), k)
    BY DEF Sound, AutoRepliesPage
  <2>2. Sound("auto-replies",
             Does("toggle", {<<"auto-reply-rules">>}, {<<"auto-reply-rules">>}, Stay), k)
    BY DEF Sound, AutoRepliesPage
  <2> QED BY <2>1, <2>2 DEF AutoRepliesPage
<1>7. \A d \in NewAutoReplyPage.does : Sound("auto-replies/new", d, k)
  <2>1. Sound("auto-replies/new",
             Does("create", {<<"auto-reply-rules">>}, {}, "auto-replies"), k)
    BY DEF Sound, AutoRepliesPage
  <2> QED BY <2>1 DEF NewAutoReplyPage
<1>8. \A d \in DateBasedPage.does : Sound("date-based", d, k)
  <2>1. Sound("date-based",
             Does("create", {<<"date-automations">>}, {<<"date-automations">>}, Stay), k)
    BY DEF Sound, DateBasedPage
  <2>2. Sound("date-based",
             Does("toggle", {<<"date-automations">>}, {<<"date-automations">>}, Stay), k)
    BY DEF Sound, DateBasedPage
  <2>3. Sound("date-based",
             Does("delete", {<<"date-automations">>}, {<<"date-automations">>}, Stay), k)
    BY DEF Sound, DateBasedPage
  <2> QED BY <2>1, <2>2, <2>3 DEF DateBasedPage
<1> QED BY <1>1, <1>2, <1>3, <1>4, <1>5, <1>6, <1>7, <1>8

\* The pages of the inbox, the settings and the integrations are sound.
LEMMA OtherPagesSound ==
  ASSUME NEW k
  PROVE  \A p \in {"inbox", "inbox/id", "team", "api-keys", "plan", "webhooks", "analytics"} :
           \A d \in Site[p].does : Sound(p, d, k)
<1> USE SiteIs, NamesBegin, KeysApart DEF Destination, Does, Stay, Unannounced, Moves, Lists
<1>1. \A d \in InboxPage.does : Sound("inbox", d, k)
  BY DEF InboxPage
<1>2. \A d \in ThreadPage.does : Sound("inbox/id", d, k)
  <2>1. Sound("inbox/id", Does("send", {<<"inbox">>, ThreadKey}, {ThreadKey}, Stay), k)
    BY DEF Sound, ThreadPage
  <2> QED BY <2>1 DEF ThreadPage
<1>3. \A d \in TeamPage.does : Sound("team", d, k)
  <2>1. Sound("team", Does("invite", {<<"team-members">>}, {<<"team-members">>}, Stay), k)
    BY DEF Sound, TeamPage
  <2>2. Sound("team",
             Does("update role", {<<"team-members">>}, {<<"team-members">>}, Stay), k)
    BY DEF Sound, TeamPage
  <2>3. Sound("team", Does("remove", {<<"team-members">>}, {<<"team-members">>}, Stay), k)
    BY DEF Sound, TeamPage
  <2> QED BY <2>1, <2>2, <2>3 DEF TeamPage
<1>4. \A d \in ApiKeysPage.does : Sound("api-keys", d, k)
  <2>1. Sound("api-keys", Does("create", {<<"api-keys">>}, {<<"api-keys">>}, Stay), k)
    BY DEF Sound, ApiKeysPage
  <2>2. Sound("api-keys", Does("revoke", {<<"api-keys">>}, {<<"api-keys">>}, Stay), k)
    BY DEF Sound, ApiKeysPage
  <2>3. Sound("api-keys", Does("delete", {<<"api-keys">>}, {<<"api-keys">>}, Stay), k)
    BY DEF Sound, ApiKeysPage
  <2> QED BY <2>1, <2>2, <2>3 DEF ApiKeysPage
<1>5. \A d \in PlanPage.does : Sound("plan", d, k)
  BY DEF PlanPage
<1>6. \A d \in WebhooksPage.does : Sound("webhooks", d, k)
  <2>1. Sound("webhooks", Does("create", {<<"webhooks">>}, {<<"webhooks">>}, Stay), k)
    BY DEF Sound, WebhooksPage
  <2>2. Sound("webhooks", Does("delete", {<<"webhooks">>}, {<<"webhooks">>}, Stay), k)
    BY DEF Sound, WebhooksPage
  <2>3. Sound("webhooks", Does("toggle", {<<"webhooks">>}, {<<"webhooks">>}, Stay), k)
    BY DEF Sound, WebhooksPage
  <2> QED BY <2>1, <2>2, <2>3 DEF WebhooksPage
<1>7. \A d \in AnalyticsPage.does : Sound("analytics", d, k)
  BY DEF AnalyticsPage
<1> QED BY <1>1, <1>2, <1>3, <1>4, <1>5, <1>6, <1>7

\* Every page of the site is sound.
LEMMA SiteIsSound ==
  ASSUME NEW k, NEW p \in PageNames, NEW d \in Site[p].does
  PROVE  Sound(p, d, k)
BY SiteIs, CampaignPagesSound, ContactPagesSound, AutomationPagesSound, OtherPagesSound

\* A page is in one section.
LEMMA SectionOf ==
  ASSUME NEW s \in Sections, NEW p \in s
  PROVE  Section(p) = s
<1>1. \A t \in Sections : p \in t => t = s
  BY DEF Sections
<1> QED BY <1>1 DEF Section

\* Its section has it, and the same section.
LEMMA SectionIsPages ==
  ASSUME NEW p \in PageNames
  PROVE  /\ p \in Section(p) /\ Section(p) \subseteq PageNames
         /\ \A q \in Section(p) : Section(q) = Section(p)
<1>1. PICK s \in Sections : p \in s
  BY DEF PageNames
<1>2. Section(p) = s /\ \A q \in s : Section(q) = s
  BY <1>1, SectionOf
<1> QED BY <1>1, <1>2 DEF PageNames

\* A mutation leads to a page of the same section.
LEMMA DestinationIsNear ==
  ASSUME NEW p \in PageNames, NEW d \in Site[p].does
  PROVE  Destination(p, d) \in Section(p)
<1>1. Sound(p, d, << >>)
  BY SiteIsSound
<1>2. ASSUME NEW s \in Sections, NEW q \in s, NEW r, << q, r >> \in Moves
      PROVE  r \in s
  BY <1>2 DEF Sections, Moves
<1>3. Section(p) \in Sections /\ p \in Section(p)
  <2>1. PICK s \in Sections : p \in s
    BY DEF PageNames
  <2> QED BY <2>1, SectionOf
<1> QED BY <1>1, <1>2, <1>3 DEF Sound, Destination

\* A page that is mounted asks for what it shows and has no fresh answer to.
LEMMA MountAsks ==
  ASSUME NEW p, NEW answer, NEW query
  PROVE  /\ Mount(p, answer, query) \in {"asked", query}
         /\ Mount(p, answer, query) = "asked" => query = "idle" \/ query = "asked"
         /\ query # "idle" => Mount(p, answer, query) = query
         /\ Shows(p) /\ answer # "fresh" => Mount(p, answer, query) # "idle"
BY DEF Mount

\* The types in parts.
LEMMA PagesParts ==
  PagesInvariance <=>
    /\ page \in PageNames /\ key \in KeysOf(Section(page))
    /\ visits \in 0..MaxVisits /\ mutations \in 0..MaxMutations
    /\ cached \in {"none", "fresh", "stale"}
    /\ fetching \in {"idle", "asked", "read"}
    /\ mutation.pc \in {"idle", "asked", "written"}
    /\ excused \in BOOLEAN
    /\ MutationIsThePages /\ WritesAreThePages
    /\ AnnouncedIsAskedFor /\ AnnouncedIsRead
    /\ cached = "none" => behind = {}
    /\ fetching # "read" => outrun = {}
BY DEF PagesInvariance, PagesTypeOK

\* Where a step leaves a page of the section shown, the key followed is still one of it.
LEMMA PagesPartsNext ==
  ASSUME PagesInvariance,
         key' = key /\ page' \in Section(page),
         visits' \in 0..MaxVisits /\ mutations' \in 0..MaxMutations,
         cached' \in {"none", "fresh", "stale"},
         fetching' \in {"idle", "asked", "read"},
         mutation'.pc \in {"idle", "asked", "written"},
         excused' \in BOOLEAN,
         \/ mutation' = Idle
         \/ /\ mutation'.pc \in {"asked", "written"} /\ mutation'.from \in Section(page)
            /\ mutation'.does \in Site[mutation'.from].does,
         WritesAreThePages' /\ AnnouncedIsAskedFor' /\ AnnouncedIsRead',
         cached' = "none" => behind' = {},
         fetching' # "read" => outrun' = {}
  PROVE  PagesInvariance'
<1>1. page' \in PageNames /\ Section(page') = Section(page)
  BY PagesParts, SectionIsPages
<1>2. key' \in KeysOf(Section(page'))
  BY <1>1, PagesParts
<1>3. PagesTypeOK'
  BY <1>1, <1>2 DEF PagesTypeOK
<1>4. MutationIsThePages'
  BY <1>1 DEF MutationIsThePages
<1> QED BY <1>3, <1>4 DEF PagesInvariance

\* The invariant holds at first.
LEMMA PagesBegin == PagesInit => PagesInvariance
<1> SUFFICES ASSUME PagesInit PROVE PagesInvariance
  OBVIOUS
<1>1. mutation = Idle /\ behind = {} /\ outrun = {} /\ mutation.pc = "idle"
  BY DEF PagesInit, Idle
<1>2. MutationIsThePages /\ WritesAreThePages /\ AnnouncedIsAskedFor /\ AnnouncedIsRead
  BY <1>1 DEF MutationIsThePages, WritesAreThePages, AnnouncedIsAskedFor, AnnouncedIsRead
<1>3. visits \in 0..MaxVisits /\ mutations \in 0..MaxMutations
  BY PagesBounds DEF PagesInit
<1>4. fetching \in {"idle", "asked", "read"} /\ (fetching # "read" => outrun = {})
  BY <1>1 DEF PagesInit
<1>5. page \in PageNames /\ key \in KeysOf(Section(page)) /\ cached = "none" /\ excused = FALSE
  BY DEF PagesInit
<1> QED BY <1>1, <1>2, <1>3, <1>4, <1>5, PagesParts

\* Opening a page keeps the invariant.
LEMMA OpenPageKeeps ==
  ASSUME PagesInvariance, NEW p \in Section(page), OpenPage(p)
  PROVE  PagesInvariance'
<1>2. /\ page' = p /\ key' = key /\ cached' = cached /\ behind' = behind /\ outrun' = outrun
      /\ mutation' = mutation /\ mutations' = mutations /\ excused' = excused
      /\ visits' \in 0..MaxVisits
      /\ fetching' = Mount(p, cached, fetching)
  BY PagesParts, PagesBounds DEF OpenPage
<1>3. WritesAreThePages' /\ AnnouncedIsRead'
  BY <1>2, PagesParts DEF WritesAreThePages, AnnouncedIsRead, Unanswered, Names
<1>4. AnnouncedIsAskedFor'
  BY <1>2, PagesParts, MountAsks DEF AnnouncedIsAskedFor, Unanswered, Names, Shows
<1>5. fetching' \in {"idle", "asked", "read"} /\ (fetching' # "read" => outrun' = {})
  BY <1>2, PagesParts, MountAsks
<1>6. \/ mutation' = Idle
      \/ /\ mutation'.pc \in {"asked", "written"} /\ mutation'.from \in Section(page)
         /\ mutation'.does \in Site[mutation'.from].does
  BY <1>2, PagesParts DEF MutationIsThePages
<1> QED BY <1>2, <1>3, <1>4, <1>5, <1>6, PagesParts, PagesPartsNext

\* Making a mutation keeps it.
LEMMA MutateKeeps ==
  ASSUME PagesInvariance, NEW d \in Site[page].does, Mutate(d)
  PROVE  PagesInvariance'
<1>1. /\ page' = page /\ key' = key /\ cached' = cached /\ behind' = behind /\ outrun' = outrun
      /\ visits' = visits /\ excused' = excused /\ fetching' = fetching
      /\ mutations' \in 0..MaxMutations
      /\ mutation = Idle /\ mutation' = [pc |-> "asked", from |-> page, does |-> d]
  BY PagesParts, PagesBounds DEF Mutate
<1>2. /\ mutation.pc # "written" /\ mutation'.pc = "asked"
      /\ mutation'.from = page /\ mutation'.does = d
  BY <1>1 DEF Idle
<1>3. page \in Section(page)
  BY PagesParts, SectionIsPages
<1>4. WritesAreThePages'
  BY <1>1, PagesParts DEF WritesAreThePages
<1>5. AnnouncedIsAskedFor' /\ AnnouncedIsRead'
  BY <1>1, <1>2, PagesParts DEF AnnouncedIsAskedFor, AnnouncedIsRead, Unanswered, Names, Shows
<1> QED BY <1>1, <1>2, <1>3, <1>4, <1>5, PagesParts, PagesPartsNext

\* The write at the server keeps it: what it adds has not been answered.
LEMMA WriteRowsKeeps ==
  ASSUME PagesInvariance, WriteRows
  PROVE  PagesInvariance'
<1> DEFINE new == << mutation.from, mutation.does >>
<1>1. /\ page' = page /\ key' = key /\ cached' = cached /\ excused' = excused
      /\ fetching' = fetching /\ visits' = visits /\ mutations' = mutations
      /\ mutation.pc = "asked"
      /\ mutation' = [pc |-> "written", from |-> mutation.from, does |-> mutation.does]
  BY DEF WriteRows
<1>2. /\ mutation'.pc = "written" /\ mutation'.from = mutation.from
      /\ mutation'.does = mutation.does
  BY <1>1
<1>3. /\ page \in Section(page) /\ mutation.from \in Section(page)
      /\ mutation.from \in PageNames /\ mutation.does \in Site[mutation.from].does
  BY <1>1, PagesParts, SectionIsPages DEF MutationIsThePages, Idle
<1>4. \A m \in behind' : m \in behind \/ (m = new /\ key \in mutation.does.changes)
  BY DEF WriteRows, Changed
<1>5. \A m \in outrun' : m \in outrun \/ (m = new /\ key \in mutation.does.changes)
  BY DEF WriteRows, Changed
<1>6. cached = "none" => behind' = behind
  BY DEF WriteRows
<1>7. fetching # "read" => outrun' = outrun
  BY DEF WriteRows
<1>8. new[1] = mutation.from /\ new[2] = mutation.does
  OBVIOUS
<1>9. \A m : (Unanswered(m))' <=> m = new
  BY <1>2 DEF Unanswered
<1>10. \A m : ~Unanswered(m)
  BY <1>1 DEF Unanswered
<1> HIDE DEF new
<1>12. WritesAreThePages'
  BY <1>1, <1>3, <1>4, <1>5, <1>8, PagesParts DEF WritesAreThePages
<1>13. AnnouncedIsAskedFor'
  BY <1>1, <1>4, <1>9, <1>10, PagesParts DEF AnnouncedIsAskedFor, Names, Shows
<1>14. AnnouncedIsRead'
  BY <1>1, <1>5, <1>9, <1>10, PagesParts DEF AnnouncedIsRead, Names
<1> QED BY <1>1, <1>2, <1>3, <1>6, <1>7, <1>12, <1>13, <1>14, PagesParts, PagesPartsNext

\* The answer keeps it: what it announces is made stale and asked for again.
LEMMA SucceedKeeps ==
  ASSUME PagesInvariance, Succeed
  PROVE  PagesInvariance'
<1> DEFINE answer == IF Named /\ cached = "fresh" THEN "stale" ELSE cached
           again  == Named /\ Shows(page) /\ (cached # "none" \/ fetching = "idle")
           next   == IF mutation.does.to = Stay THEN page ELSE mutation.does.to
           query  == IF again THEN "asked" ELSE fetching
<1>1. /\ mutation.pc = "written" /\ mutation' = Idle /\ key' = key /\ behind' = behind
      /\ visits' = visits /\ mutations' = mutations
      /\ cached' = answer /\ page' = next /\ fetching' = Mount(next, answer, query)
      /\ outrun' = (IF again THEN {} ELSE outrun)
      /\ excused' = (excused \/ (Named /\ ~again /\ outrun # {}))
  BY DEF Succeed
<1>2. /\ mutation.from \in Section(page) /\ mutation.from \in PageNames
      /\ mutation.does \in Site[mutation.from].does
  BY <1>1, PagesParts, SectionIsPages DEF MutationIsThePages, Idle
<1>3. next \in Section(page)
  <2>1. /\ Destination(mutation.from, mutation.does) \in Section(mutation.from)
        /\ Section(mutation.from) = Section(page) /\ page \in Section(page)
    BY <1>2, PagesParts, SectionIsPages, DestinationIsNear
  <2> QED BY <2>1 DEF Destination
<1>4. /\ Named => answer # "fresh"
      /\ cached # "fresh" => answer # "fresh"
      /\ answer = "none" => cached = "none"
      /\ answer \in {"none", "fresh", "stale"}
  BY PagesParts
<1>5. /\ query \in {"asked", fetching}
      /\ fetching # "idle" => query # "idle"
      /\ ~again => query = fetching
  OBVIOUS
<1>6. /\ Mount(next, answer, query) # "read" => query # "read"
      /\ query = "read" => ~again
  BY MountAsks
<1>7. Shows(next) /\ answer # "fresh" => fetching' # "idle"
  BY <1>1, MountAsks
<1>8. ~excused' => ~excused /\ (Named => outrun' = {})
  BY <1>1
<1>9. outrun' \subseteq outrun
  BY <1>1
<1>10. fetching' \in {"idle", "asked", "read"} /\ (fetching' # "read" => outrun' = {})
  BY <1>1, <1>5, <1>6, PagesParts, MountAsks
<1>11. \A m : ~(Unanswered(m))'
  BY <1>1 DEF Unanswered, Idle
<1>12. \A m : Unanswered(m) /\ Names(m[2]) => Named
  BY DEF Unanswered, Named
<1>13. excused' \in BOOLEAN /\ mutation'.pc = "idle"
  BY <1>1, PagesParts DEF Idle
<1> HIDE DEF answer, again, next, query
<1>14. WritesAreThePages'
  BY <1>1, <1>9, PagesParts DEF WritesAreThePages
<1>15. AnnouncedIsAskedFor'
  <2> SUFFICES ASSUME ~excused', NEW m \in behind, Names(m[2])
               PROVE  answer # "fresh" /\ (Shows(next) => fetching' # "idle")
    BY <1>1, <1>11 DEF AnnouncedIsAskedFor, Names, Shows
  <2>1. CASE Unanswered(m)
    BY <2>1, <1>4, <1>7, <1>12
  <2>2. CASE ~Unanswered(m)
    BY <2>2, <1>4, <1>7, <1>8, PagesParts DEF AnnouncedIsAskedFor
  <2> QED BY <2>1, <2>2
<1>16. AnnouncedIsRead'
  <2> SUFFICES ASSUME ~excused', NEW m \in outrun', Names(m[2])
               PROVE  FALSE
    BY <1>1 DEF AnnouncedIsRead, Names
  <2>1. Unanswered(m)
    BY <1>8, <1>9, PagesParts DEF AnnouncedIsRead
  <2> QED BY <2>1, <1>8, <1>12
<1> QED BY <1>1, <1>3, <1>4, <1>10, <1>13, <1>14, <1>15, <1>16, PagesParts, PagesPartsNext

\* A mutation that fails keeps it: one that was written is an excuse.
LEMMA FailKeeps ==
  ASSUME PagesInvariance, Fail
  PROVE  PagesInvariance'
<1>1. /\ page' = page /\ key' = key /\ cached' = cached /\ behind' = behind /\ outrun' = outrun
      /\ visits' = visits /\ mutations' = mutations
      /\ fetching' = fetching /\ mutation' = Idle
      /\ excused' = (excused \/ (mutation.pc = "written" /\ Changed))
  BY DEF Fail
<1>2. ASSUME NEW m \in behind \cup outrun, Unanswered(m)
      PROVE  excused'
  <2>1. mutation.pc = "written" /\ m[2] = mutation.does
    BY <1>2 DEF Unanswered
  <2>2. Changed
    BY <2>1, PagesParts DEF WritesAreThePages, Changed
  <2> QED BY <1>1, <2>1, <2>2
<1>3. excused' \in BOOLEAN /\ mutation'.pc = "idle" /\ page \in Section(page)
  BY <1>1, PagesParts, SectionIsPages DEF Idle
<1>4. WritesAreThePages'
  BY <1>1, PagesParts DEF WritesAreThePages
<1>5. AnnouncedIsAskedFor' /\ AnnouncedIsRead'
  BY <1>1, <1>2, PagesParts DEF AnnouncedIsAskedFor, AnnouncedIsRead, Names, Shows
<1> QED BY <1>1, <1>3, <1>4, <1>5, PagesParts, PagesPartsNext

\* The steps of a query keep it.
LEMMA QueryKeeps ==
  ASSUME PagesInvariance, ReadRows \/ QueryAnswered \/ QueryFails \/ Age \/ Poll
  PROVE  PagesInvariance'
<1>1. /\ page' = page /\ key' = key /\ mutation' = mutation
      /\ visits' = visits /\ mutations' = mutations
  BY DEF ReadRows, QueryAnswered, QueryFails, Age, Poll
<1>2. \A m : /\ (Unanswered(m))' <=> Unanswered(m)
             /\ (Names(m[2]))' <=> Names(m[2])
  BY <1>1 DEF Unanswered, Names
<1>3. (Shows(page))' <=> Shows(page)
  BY <1>1 DEF Shows
<1>4. behind' \cup outrun' \subseteq behind \cup outrun
  BY DEF ReadRows, QueryAnswered, QueryFails, Age, Poll
<1>5. WritesAreThePages'
  BY <1>1, <1>4, PagesParts DEF WritesAreThePages
<1>6. /\ cached' \in {"none", "fresh", "stale"} /\ fetching' \in {"idle", "asked", "read"}
      /\ cached' = "none" => behind' = {}
      /\ fetching' # "read" => outrun' = {}
  BY PagesParts DEF ReadRows, QueryAnswered, QueryFails, Age, Poll
<1>7. excused' \in BOOLEAN
  BY PagesParts DEF ReadRows, QueryAnswered, QueryFails, Age, Poll
<1>8. /\ page \in Section(page)
      /\ \/ mutation' = Idle
         \/ /\ mutation'.pc \in {"asked", "written"} /\ mutation'.from \in Section(page)
            /\ mutation'.does \in Site[mutation'.from].does
  BY <1>1, PagesParts, SectionIsPages DEF MutationIsThePages
<1>9. AnnouncedIsAskedFor' /\ AnnouncedIsRead'
  <2>1. CASE ReadRows
    BY <1>2, <1>3, <2>1, PagesParts DEF ReadRows, AnnouncedIsAskedFor, AnnouncedIsRead
  <2>2. CASE QueryAnswered
    <3>1. /\ cached' = "fresh" /\ behind' = outrun /\ outrun' = {}
          /\ ~excused' => ~excused \/ outrun = {}
      BY <2>2 DEF QueryAnswered
    <3>2. \A m \in behind' : ~excused' /\ Names(m[2]) => Unanswered(m)
      BY <3>1, PagesParts DEF AnnouncedIsRead
    <3> QED BY <1>2, <3>1, <3>2 DEF AnnouncedIsAskedFor, AnnouncedIsRead
  <2>3. CASE QueryFails
    BY <2>3 DEF QueryFails, AnnouncedIsAskedFor, AnnouncedIsRead
  <2>4. CASE Age
    BY <1>2, <1>3, <2>4, PagesParts DEF Age, AnnouncedIsAskedFor, AnnouncedIsRead
  <2>5. CASE Poll
    BY <1>2, <1>3, <2>5, PagesParts DEF Poll, AnnouncedIsAskedFor, AnnouncedIsRead
  <2> QED BY <2>1, <2>2, <2>3, <2>4, <2>5
<1> QED BY <1>1, <1>5, <1>6, <1>7, <1>8, <1>9, PagesParts, PagesPartsNext

\* Every step keeps the invariant.
LEMMA PagesStep ==
  ASSUME PagesInvariance, [PagesNext]_pageVars
  PROVE  PagesInvariance'
<1>1. CASE UNCHANGED pageVars
  <2>1. /\ page' = page /\ key' = key /\ mutation' = mutation /\ behind' = behind
        /\ outrun' = outrun /\ cached' = cached /\ fetching' = fetching /\ excused' = excused
        /\ visits' = visits /\ mutations' = mutations
    BY <1>1 DEF pageVars
  <2> QED BY <2>1 DEF PagesInvariance, PagesTypeOK, MutationIsThePages, WritesAreThePages,
             AnnouncedIsAskedFor, AnnouncedIsRead, Unanswered, Names, Shows
<1>2. CASE \E p \in Section(page) : OpenPage(p)
  BY <1>2, OpenPageKeeps
<1>3. CASE \E d \in Site[page].does : Mutate(d)
  BY <1>3, MutateKeeps
<1> QED BY <1>1, <1>2, <1>3, WriteRowsKeeps, SucceedKeeps, FailKeeps, QueryKeeps DEF PagesNext

\* The invariant of the pages: what a write has been announced for is never taken for
\* fresh, and is asked for again where it is shown (the cache of @tanstack/react-query
\* under the queries and mutations of the dashboard).
THEOREM PagesKeep == PagesSpec => []PagesInvariance
  BY PagesBegin, PagesStep, PTL DEF PagesSpec

\* Once everything under way has come through, the page that a mutation leads to shows
\* it, but for the four that name nothing, a failure, and a query that was overtaken
\* (the invalidateQueries of the dashboard's pages).
THEOREM OwnWritesAreShown == PagesSpec => []OwnWritesShow
<1>1. PagesInvariance => OwnWritesShow
  <2> SUFFICES ASSUME PagesInvariance, mutation = Idle, fetching = "idle", Shows(page),
                      ~excused, NEW m \in behind, Destination(m[1], m[2]) = page,
                      << m[1], m[2].name >> \notin Unannounced
               PROVE  FALSE
    BY DEF OwnWritesShow
  <2>1. m[1] \in PageNames /\ m[2] \in Site[m[1]].does /\ key \in m[2].changes
    BY PagesParts DEF WritesAreThePages
  <2>2. Sound(m[1], m[2], key)
    BY <2>1, SiteIsSound
  <2>3. Names(m[2])
    BY <2>1, <2>2 DEF Sound, Shows, Names
  <2>4. ~Unanswered(m)
    BY DEF Unanswered, Idle
  <2> QED BY <2>3, <2>4, PagesParts DEF AnnouncedIsAskedFor
<1> QED BY <1>1, PagesKeep, PTL

-----------------------------------------------------------------------------
(* Exports. *)

\* A job on the queue, with its stalls.
QueuedExport == [waits : BOOLEAN, stalls : 0..MaxExportStalls]

\* The types and the invariant in parts.
LEMMA ExportParts ==
  ExportsInvariant <=>
    /\ exportRow \in [ExportJobs -> ExportRow]
    /\ exportJob \in [ExportJobs -> QueuedExport]
    /\ creator \in ExportJobs \cup {NoExport}
    /\ exporter.job \in ExportJobs \cup {NoExport}
    /\ exporter.pc \in {"idle", "generate", "put", "complete", "catch", "done"}
    /\ exportPage \in ExportJobs \cup {NoExport}
    /\ poll.job \in ExportJobs \cup {NoExport}
    /\ exportCrashes \in 0..MaxExportCrashes /\ stranded \subseteq ExportJobs
    /\ \A e \in ExportJobs : exportRow[e] = "COMPLETE" => e \in file
    /\ ExporterHolds /\ ReadsAreOfThePast
BY DEF ExportsInvariant, ExportsTypeOK, ReadsAreOfThePast, QueuedExport

\* And of the next state.
LEMMA ExportPartsNext ==
  ASSUME /\ exportRow' \in [ExportJobs -> ExportRow]
         /\ exportJob' \in [ExportJobs -> QueuedExport]
         /\ creator' \in ExportJobs \cup {NoExport}
         /\ exporter'.job \in ExportJobs \cup {NoExport}
         /\ exporter'.pc \in {"idle", "generate", "put", "complete", "catch", "done"}
         /\ exportPage' \in ExportJobs \cup {NoExport}
         /\ poll'.job \in ExportJobs \cup {NoExport}
         /\ exportCrashes' \in 0..MaxExportCrashes /\ stranded' \subseteq ExportJobs
         /\ \A e \in ExportJobs : exportRow'[e] = "COMPLETE" => e \in file'
         /\ ExporterHolds' /\ ReadsAreOfThePast'
  PROVE  ExportsInvariant'
BY DEF ExportsInvariant, ExportsTypeOK, ReadsAreOfThePast, QueuedExport

\* The first state.
LEMMA ExportsBegin == ExportsInit => ExportsInvariant
<1> SUFFICES ASSUME ExportsInit PROVE ExportsInvariant
  OBVIOUS
<1> USE ExportBounds, NoExportAssumption DEF ExportsInit
<1>1. exportJob \in [ExportJobs -> QueuedExport]
  BY DEF QueuedExport
<1>2. exporter.job = NoExport /\ exporter.pc = "idle" /\ poll.job = NoExport /\ poll.status = "none"
  OBVIOUS
<1>3. ReadsAreOfThePast
  BY <1>2 DEF ReadsAreOfThePast, ExportRow, Final
<1> QED BY <1>1, <1>2, <1>3, ExportParts DEF ExporterHolds, ExportRow

\* A job is put on the queue or taken off it.
LEMMA SettingJobs ==
  ASSUME exportJob \in [ExportJobs -> QueuedExport], NEW e \in ExportJobs,
         NEW waits \in BOOLEAN, NEW stalls \in 0..MaxExportStalls, SetJob(e, waits, stalls)
  PROVE  exportJob' \in [ExportJobs -> QueuedExport]
BY DEF SetJob, QueuedExport

\* The stalls of a job on the queue.
LEMMA StallsOf ==
  ASSUME exportJob \in [ExportJobs -> QueuedExport], NEW e \in ExportJobs
  PROVE  exportJob[e].stalls \in 0..MaxExportStalls
BY DEF QueuedExport

\* A row is written: what was read of it stays of the past, unless it is PENDING again.
LEMMA SettingRows ==
  ASSUME exportRow \in [ExportJobs -> ExportRow], ReadsAreOfThePast,
         NEW e \in ExportJobs, NEW status \in ExportStatus, SetRow(e, status),
         status = "PENDING" => exportRow[e] = "none",
         UNCHANGED << seen, poll >>
  PROVE  /\ exportRow' \in [ExportJobs -> ExportRow] /\ ReadsAreOfThePast'
         /\ exportRow'[e] = status
         /\ \A d \in ExportJobs \ {e} : exportRow'[d] = exportRow[d]
<1>1. /\ exportRow' \in [ExportJobs -> ExportRow] /\ exportRow'[e] = status
      /\ \A d \in ExportJobs \ {e} : exportRow'[d] = exportRow[d]
  BY DEF SetRow, ExportRow
<1>2. status # "none"
  BY DEF ExportStatus
<1>3. ReadsAreOfThePast'
  BY <1>1, <1>2 DEF ReadsAreOfThePast, Final
<1> QED BY <1>1, <1>3

\* The request: its row, then its job.
LEMMA RequestingExports ==
  ASSUME ExportsInvariant,
         (\E e \in ExportJobs : CreateExportJob(e)) \/ AddExportJob \/ AddExportFails
  PROVE  ExportsInvariant'
<1>1. CASE \E e \in ExportJobs : CreateExportJob(e)
  <2>1. PICK e \in ExportJobs : CreateExportJob(e)
    BY <1>1
  <2>2. /\ SetRow(e, "PENDING") /\ exportRow[e] = "none" /\ creator' = e
        /\ UNCHANGED << browserVars, exportJob, file, exporter, exportCrashes, stranded >>
    BY <2>1 DEF CreateExportJob
  <2>3. /\ exportRow' \in [ExportJobs -> ExportRow] /\ ReadsAreOfThePast'
        /\ exportRow'[e] = "PENDING"
        /\ \A d \in ExportJobs \ {e} : exportRow'[d] = exportRow[d]
    BY <2>2, ExportParts, SettingRows DEF ExportStatus, browserVars
  <2>4. \A d \in ExportJobs : exportRow'[d] = "COMPLETE" => d \in file'
    BY <2>2, <2>3, ExportParts
  <2>5. ExporterHolds'
    BY <2>2, ExportParts DEF ExporterHolds
  <2> QED BY <2>2, <2>3, <2>4, <2>5, ExportParts, ExportPartsNext DEF browserVars
<1>2. CASE AddExportJob
  <2>1. /\ creator # NoExport /\ creator' = NoExport /\ exportPage' = creator
        /\ SetJob(creator, TRUE, exportJob[creator].stalls)
        /\ UNCHANGED << exportRow, file, exporter, seen, poll, exportCrashes, stranded >>
    BY <1>2 DEF AddExportJob, StartPolling
  <2>2. creator \in ExportJobs
    BY <2>1, ExportParts
  <2>3. exportJob' \in [ExportJobs -> QueuedExport]
    BY <2>1, <2>2, ExportParts, StallsOf, SettingJobs
  <2>4. ExporterHolds' /\ ReadsAreOfThePast'
    BY <2>1, ExportParts DEF ExporterHolds, ReadsAreOfThePast
  <2> QED BY <2>1, <2>2, <2>3, <2>4, ExportParts, ExportPartsNext
<1>3. CASE AddExportFails
  <2>1. /\ creator # NoExport /\ creator' = NoExport /\ stranded' = stranded \cup {creator}
        /\ UNCHANGED << browserVars, exportRow, exportJob, file, exporter, exportCrashes >>
    BY <1>3 DEF AddExportFails
  <2>2. ExporterHolds' /\ ReadsAreOfThePast'
    BY <2>1, ExportParts DEF ExporterHolds, ReadsAreOfThePast, browserVars
  <2> QED BY <2>1, <2>2, ExportParts, ExportPartsNext DEF browserVars
<1> QED BY <1>1, <1>2, <1>3

\* The worker takes a job, or fails to.
LEMMA TakingExports ==
  ASSUME ExportsInvariant, NEW e \in ExportJobs, TakeExport(e) \/ TakeExportFails(e)
  PROVE  ExportsInvariant'
<1>1. CASE TakeExport(e)
  <2>1. /\ SetJob(e, FALSE, exportJob[e].stalls) /\ SetRow(e, "PROCESSING")
        /\ exporter' = [job |-> e, pc |-> "generate"]
        /\ UNCHANGED << browserVars, file, creator, exportCrashes, stranded >>
    BY <1>1 DEF TakeExport
  <2>2. exportJob' \in [ExportJobs -> QueuedExport]
    BY <2>1, ExportParts, StallsOf, SettingJobs
  <2>3. /\ exportRow' \in [ExportJobs -> ExportRow] /\ ReadsAreOfThePast'
        /\ exportRow'[e] = "PROCESSING"
        /\ \A d \in ExportJobs \ {e} : exportRow'[d] = exportRow[d]
    BY <2>1, ExportParts, SettingRows DEF ExportStatus, browserVars
  <2>4. exporter'.job = e /\ exporter'.pc = "generate"
    BY <2>1
  <2>5. ExporterHolds'
    BY <2>4 DEF ExporterHolds
  <2> QED BY <2>1, <2>2, <2>3, <2>4, <2>5, ExportParts, ExportPartsNext DEF browserVars
<1>2. CASE TakeExportFails(e)
  <2>1. /\ SetJob(e, FALSE, exportJob[e].stalls) /\ stranded' = stranded \cup {e}
        /\ UNCHANGED << browserVars, exportRow, file, creator, exporter, exportCrashes >>
    BY <1>2 DEF TakeExportFails
  <2>2. exportJob' \in [ExportJobs -> QueuedExport]
    BY <2>1, ExportParts, StallsOf, SettingJobs
  <2>3. ExporterHolds' /\ ReadsAreOfThePast'
    BY <2>1, ExportParts DEF ExporterHolds, ReadsAreOfThePast, browserVars
  <2> QED BY <2>1, <2>2, <2>3, ExportParts, ExportPartsNext DEF browserVars
<1> QED BY <1>1, <1>2

\* The worker moves on in its job.
LEMMA ExporterMoves ==
  ASSUME ExportsInvariant, exporter.pc # "idle",
         NEW pc \in {"put", "complete", "catch", "done"}, Reaches(pc),
         UNCHANGED << browserVars, exportJob, creator, exportCrashes, stranded >>,
         file' \in {file, file \cup {exporter.job}},
         pc = "complete" => exporter.job \in file',
         \/ UNCHANGED exportRow
         \/ SetRow(exporter.job, "FAILED")
         \/ SetRow(exporter.job, "COMPLETE") /\ exporter.job \in file
  PROVE  ExportsInvariant'
<1>1. exporter'.job = exporter.job /\ exporter'.pc = pc /\ exporter.job \in ExportJobs
  BY ExportParts DEF Reaches, ExporterHolds
<1>2. ExporterHolds'
  BY <1>1 DEF ExporterHolds
<1>3. /\ exportRow' \in [ExportJobs -> ExportRow] /\ ReadsAreOfThePast'
      /\ \A d \in ExportJobs : exportRow'[d] = "COMPLETE" => d \in file'
  <2>1. CASE UNCHANGED exportRow
    BY <2>1, ExportParts DEF ReadsAreOfThePast, browserVars
  <2>2. CASE SetRow(exporter.job, "FAILED")
    <3>1. /\ exportRow' \in [ExportJobs -> ExportRow] /\ ReadsAreOfThePast'
          /\ exportRow'[exporter.job] = "FAILED"
          /\ \A d \in ExportJobs \ {exporter.job} : exportRow'[d] = exportRow[d]
      BY <2>2, <1>1, ExportParts, SettingRows DEF ExportStatus, browserVars
    <3> QED BY <3>1, ExportParts
  <2>3. CASE SetRow(exporter.job, "COMPLETE") /\ exporter.job \in file
    <3>1. /\ exportRow' \in [ExportJobs -> ExportRow] /\ ReadsAreOfThePast'
          /\ \A d \in ExportJobs \ {exporter.job} : exportRow'[d] = exportRow[d]
      BY <2>3, <1>1, ExportParts, SettingRows DEF ExportStatus, browserVars
    <3> QED BY <2>3, <3>1, ExportParts
  <2> QED BY <2>1, <2>2, <2>3
<1> QED BY <1>1, <1>2, <1>3, ExportParts, ExportPartsNext DEF browserVars

\* The report, the file, the end of the row, and what goes wrong.
LEMMA ExporterWorks ==
  ASSUME ExportsInvariant,
         GenerateReport \/ PutFile \/ CompleteExport \/ ExportThrows \/ FailExport
  PROVE  ExportsInvariant'
<1>1. CASE GenerateReport
  BY <1>1, ExporterMoves DEF GenerateReport
<1>2. CASE PutFile
  BY <1>2, ExporterMoves DEF PutFile
<1>3. CASE CompleteExport
  BY <1>3, ExporterMoves, ExportParts DEF CompleteExport, ExporterHolds
<1>4. CASE ExportThrows
  BY <1>4, ExporterMoves DEF ExportThrows
<1>5. CASE FailExport
  BY <1>5, ExporterMoves DEF FailExport
<1> QED BY <1>1, <1>2, <1>3, <1>4, <1>5

\* The worker leaves its job, by itself or with the backend.
LEMMA ExporterLeaves ==
  ASSUME ExportsInvariant, FinishExport \/ FailExportFails \/ ExportCrash
  PROVE  ExportsInvariant'
<1>1. EndsJob /\ UNCHANGED << browserVars, exportRow, file >>
  BY DEF FinishExport, FailExportFails, ExportCrash
<1>2. exporter'.job = NoExport /\ exporter'.pc = "idle"
  BY <1>1 DEF EndsJob
<1>3. ExporterHolds' /\ ReadsAreOfThePast'
  BY <1>1, <1>2, ExportParts DEF ExporterHolds, ReadsAreOfThePast, browserVars
<1>4. CASE FinishExport
  BY <1>1, <1>2, <1>3, <1>4, ExportParts, ExportPartsNext DEF FinishExport, browserVars
<1>5. CASE FailExportFails
  <2>1. /\ exporter.job \in ExportJobs /\ stranded' = stranded \cup {exporter.job}
        /\ UNCHANGED << exportJob, creator, exportCrashes >>
    BY <1>5, ExportParts DEF FailExportFails, ExporterHolds
  <2> QED BY <1>1, <1>2, <1>3, <2>1, ExportParts, ExportPartsNext DEF browserVars
<1>6. CASE ExportCrash
  <2> DEFINE e == exporter.job
             again == e # NoExport /\ exportJob[e].stalls < MaxExportStalls
  <2>1. /\ exportCrashes < MaxExportCrashes /\ exportCrashes' = exportCrashes + 1
        /\ creator' = NoExport
        /\ IF again THEN SetJob(e, TRUE, exportJob[e].stalls + 1) ELSE UNCHANGED exportJob
        /\ stranded' = stranded \cup ({creator, IF again THEN NoExport ELSE e} \ {NoExport})
    BY <1>6 DEF ExportCrash
  <2>2. exportJob' \in [ExportJobs -> QueuedExport]
    <3>1. CASE again
      <4>1. e \in ExportJobs /\ exportJob[e].stalls + 1 \in 0..MaxExportStalls
        BY <3>1, ExportParts, StallsOf, ExportBounds
      <4> QED BY <2>1, <3>1, <4>1, ExportParts, SettingJobs
    <3>2. CASE ~again
      BY <2>1, <3>2, ExportParts
    <3> QED BY <3>1, <3>2
  <2>3. stranded' \subseteq ExportJobs
    BY <2>1, ExportParts
  <2>4. exportCrashes' \in 0..MaxExportCrashes
    BY <2>1, ExportParts, ExportBounds
  <2> QED BY <1>1, <1>2, <1>3, <2>1, <2>2, <2>3, <2>4, ExportParts, ExportPartsNext
             DEF browserVars
<1> QED BY <1>4, <1>5, <1>6

\* The page polls, and sees what it has read.
LEMMA PagePolls ==
  ASSUME ExportsInvariant, PollExport \/ SeeExport
  PROVE  ExportsInvariant'
<1>1. /\ UNCHANGED << exportRow, exportJob, file, creator, exporter, exportPage,
                      exportCrashes, stranded >>
  BY DEF PollExport, SeeExport
<1>2. ExporterHolds'
  BY <1>1, ExportParts DEF ExporterHolds
<1>3. poll'.job \in ExportJobs \cup {NoExport} /\ ReadsAreOfThePast'
  <2>1. CASE PollExport
    <3>1. /\ exportPage # NoExport /\ seen' = seen
          /\ poll' = [job |-> exportPage, status |-> exportRow[exportPage]]
      BY <2>1 DEF PollExport
    <3>2. exportPage \in ExportJobs
      BY <3>1, ExportParts
    <3>3. poll'.job = exportPage /\ poll'.status = exportRow[exportPage]
      BY <3>1
    <3> QED BY <1>1, <3>1, <3>2, <3>3, ExportParts DEF ReadsAreOfThePast, Final
  <2>2. CASE SeeExport
    <3>1. /\ poll.job # NoExport /\ seen' = [seen EXCEPT ![poll.job] = poll.status]
          /\ poll' = [job |-> NoExport, status |-> "none"]
      BY <2>2 DEF SeeExport
    <3>2. poll.job \in ExportJobs /\ poll'.job = NoExport /\ poll'.status = "none"
      BY <3>1, ExportParts
    <3>3. "none" \in ExportRow /\ ~Final("none")
      BY DEF ExportRow, Final
    <3>4. /\ seen' \in [ExportJobs -> ExportRow] /\ seen'[poll.job] = poll.status
          /\ \A d \in ExportJobs \ {poll.job} : seen'[d] = seen[d]
      BY <3>1, <3>2, ExportParts DEF ReadsAreOfThePast
    <3> QED BY <1>1, <3>2, <3>3, <3>4, ExportParts, NoExportAssumption DEF ReadsAreOfThePast
  <2> QED BY <2>1, <2>2
<1> QED BY <1>1, <1>2, <1>3, ExportParts, ExportPartsNext

\* Every step keeps the invariant.
LEMMA ExportsKeep ==
  ASSUME ExportsInvariant, [ExportsNext]_exportVars
  PROVE  ExportsInvariant'
<1>1. CASE UNCHANGED exportVars
  BY <1>1 DEF exportVars, browserVars, ExportsInvariant, ExportsTypeOK, ExporterHolds,
              ReadsAreOfThePast
<1> QED BY <1>1, RequestingExports, TakingExports, ExporterWorks, ExporterLeaves, PagePolls
           DEF ExportsNext, ExportStep

\* An export that says COMPLETE has its file, and a status that a page has read as final
\* is never PENDING again, whatever crashes and faults there are and however often a
\* stalled job runs again (ExportProcessor.process and the page's poll).
THEOREM ExportsInvariance == ExportsInit /\ [][ExportsNext]_exportVars => []ExportsInvariant
  BY ExportsBegin, ExportsKeep, PTL

-----------------------------------------------------------------------------
(* The page of a running campaign. *)

\* The invariant holds at first.
LEMMA LiveBegins == LiveInit => LiveInvariant
<1> SUFFICES ASSUME LiveInit PROVE LiveInvariant
  OBVIOUS
<1>1. /\ campaignRow.status = "RUNNING" /\ campaignRow.processed = 0 /\ logged = 0
      /\ counting.pc = "idle" /\ counting.row = NoCampaign
      /\ campaignPage.row = NoCampaign /\ messagesPage = -1
      /\ queries.campaign.pc = "idle" /\ queries.campaign.row = NoCampaign
      /\ queries.messages.pc = "idle" /\ queries.messages.read = -1
  BY DEF LiveInit
<1>2. NoCampaign.status = "none"
  BY DEF NoCampaign
<1>3. LiveTypeOK
  BY <1>1, <1>2, LiveBounds DEF LiveInit, LiveTypeOK
<1>4. CountFollows /\ CompletesTheRow
  BY <1>1, LiveBounds DEF CountFollows, CompletesTheRow
<1>5. ReadIsTrue(queries.campaign.row) /\ ReadIsTrue(campaignPage.row)
  BY <1>1, <1>2 DEF ReadIsTrue
<1> QED BY <1>1, <1>3, <1>4, <1>5 DEF LiveInvariant

\* The page stays as it is, while the worker's row does not go back.
LEMMA PageStays ==
  ASSUME LiveInvariant,
         UNCHANGED << campaignPage, messagesPage, queries >>,
         campaignRow.status = "COMPLETED" => campaignRow'.status = "COMPLETED",
         logged' \in Nat, logged' >= logged
  PROVE  /\ (ReadIsTrue(queries.campaign.row))' /\ (ReadIsTrue(campaignPage.row))'
         /\ queries'.messages.read \in -1..logged' /\ messagesPage' \in -1..logged'
<1>1. logged \in Nat
  BY LiveBounds DEF LiveInvariant, LiveTypeOK
<1> QED BY <1>1 DEF LiveInvariant, ReadIsTrue

\* The worker's steps keep it.
LEMMA CountingKeeps ==
  ASSUME LiveInvariant, CountingStep
  PROVE  LiveInvariant'
<1>1. UNCHANGED << socket, dropped, campaignPage, messagesPage, queries, errors >>
  BY DEF CountingStep, ProcessMessage, CountProcessed, ReadProcessed, Complete, ServerOnly
<1>2. /\ LiveTypeOK /\ logged \in 0..Outgoing /\ campaignRow.processed \in 0..Outgoing
      /\ campaignRow.status \in {"RUNNING", "COMPLETED"} /\ Outgoing \in Nat
  BY LiveBounds DEF LiveInvariant, LiveTypeOK
<1>3. ASSUME /\ campaignRow'.status \in {"RUNNING", "COMPLETED"}
             /\ campaignRow'.processed \in 0..Outgoing
             /\ campaignRow.status = "COMPLETED" => campaignRow'.status = "COMPLETED"
             /\ logged' \in logged..Outgoing
             /\ counting'.pc \in {"idle", "count", "read", "complete", "emit"}
             /\ event' \in {"none", "sent"}
             /\ CountFollows' /\ CompletesTheRow'
      PROVE  LiveInvariant'
  <2>1. LiveTypeOK'
    BY <1>1, <1>2, <1>3 DEF LiveTypeOK
  <2> QED BY <1>1, <1>2, <1>3, <2>1, PageStays DEF LiveInvariant
<1> USE <1>2 DEF LiveInvariant, CountFollows, CompletesTheRow
<1>4. CASE ProcessMessage
  <2>1. /\ counting.pc = "idle" /\ logged < Outgoing /\ logged' = logged + 1
        /\ counting' = [pc |-> "count", row |-> counting.row]
        /\ UNCHANGED << campaignRow, event, uninformed >>
    BY <1>4 DEF ProcessMessage
  <2>2. counting'.pc = "count"
    BY <2>1
  <2>3. campaignRow.status = "RUNNING"
    BY <2>1
  <2> QED BY <1>3, <2>1, <2>2, <2>3 DEF LiveTypeOK
<1>5. CASE CountProcessed
  <2>1. /\ counting.pc = "count"
        /\ campaignRow' = [status |-> campaignRow.status, processed |-> campaignRow.processed + 1]
        /\ counting' = [pc |-> "read", row |-> counting.row]
        /\ UNCHANGED << logged, event, uninformed >>
    BY <1>5 DEF CountProcessed
  <2>2. /\ counting'.pc = "read" /\ campaignRow'.status = campaignRow.status
        /\ campaignRow'.processed = campaignRow.processed + 1
    BY <2>1
  <2> QED BY <1>3, <2>1, <2>2 DEF LiveTypeOK
<1>6. CASE ReadProcessed
  <2>1. /\ counting.pc = "read"
        /\ counting' = [pc  |-> IF campaignRow.processed >= Outgoing /\ campaignRow.status = "RUNNING"
                                THEN "complete" ELSE "idle",
                        row |-> campaignRow]
        /\ UNCHANGED << campaignRow, logged, event, uninformed >>
    BY <1>6 DEF ReadProcessed
  <2>2. /\ counting'.row = campaignRow /\ counting'.pc \in {"complete", "idle"}
        /\ counting'.pc = "complete" => campaignRow.processed >= Outgoing
    BY <2>1
  <2> QED BY <1>3, <2>1, <2>2 DEF LiveTypeOK
<1>7. CASE counting.pc = "complete" /\ Complete
  <2>1. /\ campaignRow' = [status |-> "COMPLETED", processed |-> counting.row.processed]
        /\ counting' = [pc |-> "emit", row |-> counting.row]
        /\ UNCHANGED << logged, event, uninformed >>
    BY <1>7 DEF Complete, SaveStatus
  <2>2. /\ campaignRow'.status = "COMPLETED" /\ counting'.pc = "emit"
        /\ campaignRow'.processed = campaignRow.processed
    BY <1>7, <2>1
  <2> QED BY <1>3, <1>7, <2>1, <2>2 DEF LiveTypeOK
<1>8. CASE counting.pc = "emit" /\ Complete
  <2>1. /\ counting' = [pc |-> "idle", row |-> counting.row]
        /\ UNCHANGED << campaignRow, logged >> /\ event' \in {"none", "sent"}
    BY <1>8 DEF Complete, EmitCompleted
  <2>2. counting'.pc = "idle"
    BY <2>1
  <2> QED BY <1>3, <1>8, <2>1, <2>2
<1> QED BY <1>4, <1>5, <1>6, <1>7, <1>8 DEF CountingStep, Complete

\* The steps of the socket and of the page keep it: what they read is the row.
LEMMA PageKeeps ==
  ASSUME LiveInvariant, PageOnly,
         socket' \in {"up", "down"}, dropped' \in 0..MaxDrops, event' \in {"none", "sent"},
         errors' \in 0..MaxErrors,
         queries'.campaign.pc \in {"idle", "asked", "read"},
         queries'.campaign.row \in {queries.campaign.row, campaignRow, NoCampaign},
         queries'.messages.pc \in {"idle", "asked", "read"},
         queries'.messages.read \in {queries.messages.read, logged, -1},
         campaignPage'.row \in {campaignPage.row, queries.campaign.row},
         messagesPage' \in {messagesPage, queries.messages.read}
  PROVE  LiveInvariant'
<1>1. /\ LiveTypeOK /\ logged \in 0..Outgoing /\ Outgoing \in Nat
      /\ queries.messages.read \in -1..logged /\ messagesPage \in -1..logged
      /\ UNCHANGED << campaignRow, logged, counting >>
  BY LiveBounds DEF LiveInvariant, LiveTypeOK, PageOnly
<1>2. ReadIsTrue(NoCampaign) /\ ReadIsTrue(campaignRow)
  BY <1>1 DEF ReadIsTrue, NoCampaign, LiveInvariant, LiveTypeOK, CompletesTheRow
<1>3. \A r : ReadIsTrue(r) => (ReadIsTrue(r))'
  BY <1>1 DEF ReadIsTrue
<1>4. ReadIsTrue(queries'.campaign.row) /\ ReadIsTrue(campaignPage'.row)
  BY <1>2 DEF LiveInvariant
<1>5. (ReadIsTrue(queries.campaign.row))' /\ (ReadIsTrue(campaignPage.row))'
  BY <1>1, <1>4 DEF ReadIsTrue
<1>6. queries'.messages.read \in -1..logged' /\ messagesPage' \in -1..logged'
  BY <1>1
<1>7. LiveTypeOK'
  BY <1>1, <1>5, <1>6 DEF LiveTypeOK, ReadIsTrue
<1> QED BY <1>1, <1>5, <1>6, <1>7 DEF LiveInvariant, CountFollows, CompletesTheRow

\* The steps of the page and of its socket are such steps.
LEMMA PageSteps ==
  ASSUME LiveInvariant,
         \/ PageStep \/ DropSocket \/ Reconnect \/ HearCompleted
         \/ OpenCampaign \/ PollLogs \/ LiveQueryFails
  PROVE  LiveInvariant'
<1>1. /\ socket \in {"up", "down"} /\ dropped \in 0..MaxDrops /\ event \in {"none", "sent"}
      /\ errors \in 0..MaxErrors /\ MaxDrops \in Nat /\ MaxErrors \in Nat
      /\ queries.campaign.pc \in {"idle", "asked", "read"}
      /\ queries.messages.pc \in {"idle", "asked", "read"}
  BY LiveBounds DEF LiveInvariant, LiveTypeOK
<1>2. \A c, m : Queries(c, m) => queries'.campaign = c /\ queries'.messages = m
  BY DEF Queries
<1>3. /\ \A pc, r : CampaignQuery(pc, r).pc = pc /\ CampaignQuery(pc, r).row = r
      /\ \A pc, n : MessagesQuery(pc, n).pc = pc /\ MessagesQuery(pc, n).read = n
      /\ \A pc : AskCampaign(pc).pc = pc /\ AskCampaign(pc).row = queries.campaign.row
      /\ \A pc : AskMessages(pc).pc = pc /\ AskMessages(pc).read = queries.messages.read
      /\ NoCampaignQuery.pc = "idle" /\ NoCampaignQuery.row = NoCampaign
      /\ NoMessagesQuery.pc = "idle" /\ NoMessagesQuery.read = -1
  BY DEF CampaignQuery, MessagesQuery, AskCampaign, AskMessages, NoCampaignQuery, NoMessagesQuery
<1>4. \A pc, data, none : Again(pc, data, none) \in {pc, "asked"}
  BY DEF Again
<1>5. CASE ReadCampaign
  <2>1. /\ Queries(CampaignQuery("read", campaignRow), queries.messages) /\ PageOnly
        /\ UNCHANGED << socket, dropped, event, campaignPage, messagesPage, errors >>
    BY <1>5 DEF ReadCampaign
  <2> QED BY <1>1, <1>2, <1>3, <2>1, PageKeeps
<1>6. CASE ShowCampaign
  <2>1. /\ PageOnly /\ UNCHANGED << socket, dropped, event, messagesPage, errors >>
        /\ campaignPage'.row = queries.campaign.row
        /\ Queries(NoCampaignQuery, IF messagesPage = -1 /\ queries.messages.pc = "idle"
                              THEN AskMessages("asked") ELSE queries.messages)
    BY <1>6 DEF ShowCampaign
  <2>2. /\ queries'.campaign = NoCampaignQuery
        /\ queries'.messages \in {AskMessages("asked"), queries.messages}
    BY <1>2, <2>1
  <2> QED BY <1>1, <1>3, <2>1, <2>2, PageKeeps
<1>7. CASE ReadLogs
  <2>1. /\ Queries(queries.campaign, MessagesQuery("read", logged)) /\ PageOnly
        /\ UNCHANGED << socket, dropped, event, campaignPage, messagesPage, errors >>
    BY <1>7 DEF ReadLogs
  <2> QED BY <1>1, <1>2, <1>3, <2>1, PageKeeps
<1>8. CASE ShowLogs
  <2>1. /\ Queries(queries.campaign, NoMessagesQuery) /\ PageOnly
        /\ messagesPage' = queries.messages.read
        /\ UNCHANGED << socket, dropped, event, campaignPage, errors >>
    BY <1>8 DEF ShowLogs
  <2> QED BY <1>1, <1>2, <1>3, <2>1, PageKeeps
<1>9. CASE DropSocket \/ Reconnect
  <2>1. /\ PageOnly /\ UNCHANGED << campaignPage, messagesPage, queries, errors >>
        /\ socket' \in {"up", "down"} /\ dropped' \in 0..MaxDrops
        /\ event' \in {"none", "sent"}
    BY <1>1, <1>9 DEF DropSocket, Reconnect
  <2> QED BY <1>1, <2>1, PageKeeps
<1>10. CASE HearCompleted
  <2>1. /\ PageOnly /\ UNCHANGED << socket, dropped, campaignPage, messagesPage, errors >>
        /\ event' = "none"
    BY <1>10 DEF HearCompleted
  <2>2. CASE UNCHANGED queries
    BY <1>1, <2>1, <2>2, PageKeeps
  <2>3. ASSUME campaignPage.open
        PROVE  /\ queries'.campaign =
                    AskCampaign(Again(queries.campaign.pc, campaignPage.row, NoCampaign))
               /\ queries'.messages \in
                    {queries.messages, AskMessages(Again(queries.messages.pc, messagesPage, -1))}
    BY <1>2, <1>10, <2>3 DEF HearCompleted
  <2>4. CASE campaignPage.open
    BY <1>1, <1>3, <1>4, <2>1, <2>3, <2>4, PageKeeps
  <2> QED BY <1>10, <2>2, <2>4 DEF HearCompleted
<1>11. CASE OpenCampaign
  <2>1. /\ Queries(AskCampaign("asked"), queries.messages) /\ PageOnly
        /\ campaignPage'.row = campaignPage.row
        /\ UNCHANGED << socket, dropped, event, messagesPage, errors >>
    BY <1>11 DEF OpenCampaign
  <2> QED BY <1>1, <1>2, <1>3, <2>1, PageKeeps
<1>12. CASE PollLogs
  <2>1. /\ Queries(queries.campaign, AskMessages("asked")) /\ PageOnly
        /\ UNCHANGED << socket, dropped, event, campaignPage, messagesPage, errors >>
    BY <1>12 DEF PollLogs
  <2> QED BY <1>1, <1>2, <1>3, <2>1, PageKeeps
<1>13. CASE LiveQueryFails
  <2>1. /\ PageOnly /\ UNCHANGED << socket, dropped, event, campaignPage, messagesPage >>
        /\ errors' \in 0..MaxErrors
        /\ \/ Queries(NoCampaignQuery, queries.messages)
           \/ Queries(queries.campaign, NoMessagesQuery)
    BY <1>1, <1>13 DEF LiveQueryFails
  <2> QED BY <1>1, <1>2, <1>3, <2>1, PageKeeps
<1> QED BY <1>5, <1>6, <1>7, <1>8, <1>9, <1>10, <1>11, <1>12, <1>13 DEF PageStep

\* Every step keeps the invariant.
LEMMA LiveKeeps ==
  ASSUME LiveInvariant, [LiveNext]_liveVars
  PROVE  LiveInvariant'
<1>1. CASE UNCHANGED liveVars
  BY <1>1 DEF liveVars, LiveInvariant, LiveTypeOK, CountFollows, CompletesTheRow, ReadIsTrue
<1> QED BY <1>1, CountingKeeps, PageSteps DEF LiveNext

\* What the page shows of a campaign was so: COMPLETED only once each message was
\* counted, and no more messages than have ended; the save of COMPLETED overwrites no
\* count (incrementCampaignCounter of CampaignProcessor and the page of the campaign).
THEOREM LiveInvariance == LiveInit /\ [][LiveNext]_liveVars => []LiveInvariant
  BY LiveBegins, LiveKeeps, PTL
=============================================================================
