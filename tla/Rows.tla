-------------------------------- MODULE Rows --------------------------------
(***************************************************************************)
(* The services whose requests find a row and save it back: API keys and   *)
(* the guard that admits them, team members, templates, date automations,  *)
(* settings and notification preferences.  A behaviour is about one table. *)
(*                                                                         *)
(* Between the find and the save other requests run.  A save writes every  *)
(* column in which the copy differs from the row, and inserts a row that   *)
(* was deleted meanwhile.                                                  *)
(***************************************************************************)
EXTENDS Integers, FiniteSets

CONSTANTS
  Keys,           \* primary keys
  RowClients,     \* the HTTP requests that may be in flight
  MaxRowRequests  \* bound: requests admitted

ASSUME RowBounds == MaxRowRequests \in Nat /\ Keys # {}

VARIABLES
  table,        \* the table the behaviour is about
  row,          \* its rows
  client,       \* the requests in flight, with the copies they hold
  rowRequests,
  wanted,       \* history: the rows as the last request on each left them
  conflict,     \* history: keys that a save with a stale copy has hit
  dead          \* history: API keys revoked or deleted

rowVars == << table, row, client, rowRequests, wanted, conflict, dead >>

\* Two columns stand for those of a table; isActive of an API key, and the role
\* of a team member, is "first".
Columns == {"first", "second"}
RowType == [state : {"none", "live", "deleted"}, col : [Columns -> BOOLEAN]]
NoRow   == [state |-> "none", col |-> [c \in Columns |-> TRUE]]
NewRow(col) == [state |-> "live", col |-> col]
DeletedRow(r)  == [state |-> "deleted", col |-> r.col]

\* What the methods of each service do with the row they find; use is the guard.
ApiKeyOps   == [create |-> "insert", revoke |-> "save", delete |-> "remove", use |-> "touch"]
TeamOps     == [invite |-> "save", updateRole |-> "save", removeMember |-> "remove"]
TemplateOps == [create |-> "insert", update |-> "save", remove |-> "remove", findById |-> "idle"]
AutomationOps   == [create |-> "insert", update |-> "save", remove |-> "remove", findOne |-> "idle"]
SettingsOps     == [getOrCreate |-> "idle", update |-> "save"]
NotificationOps == [getOrCreate |-> "idle", update |-> "save", shouldNotify |-> "idle"]
Ops == [apiKeys |-> ApiKeyOps, teams |-> TeamOps, templates |-> TemplateOps,
        automations |-> AutomationOps, settings |-> SettingsOps,
        preferences |-> NotificationOps]
Tables == DOMAIN Ops

\* The operations that are requests of a controller, and those that the API key guard
\* and the notifications call.
ApiKeyController         == {"create", "revoke", "delete"}
TeamsController          == {"invite", "updateRole", "removeMember"}
TemplatesController      == {"create", "findById", "update", "remove"}
DateAutomationController == {"create", "findOne", "update", "remove"}
SettingsController       == {"getOrCreate", "update"}
NotificationsController  == {"getOrCreate", "update"}
Called == [apiKeys |-> ApiKeyController \cup {"use"}, teams |-> TeamsController,
           templates |-> TemplatesController, automations |-> DateAutomationController,
           settings |-> SettingsController,
           preferences |-> NotificationsController \cup {"shouldNotify"}]
Singletons == {"settings", "preferences"}   \* one row per user, made when first read

ClientAt(pc, op, key, copy) == [pc |-> pc, op |-> op, key |-> key, copy |-> copy]
NoKey    == CHOOSE k \in Keys : TRUE
NoClient == ClientAt("idle", "update", NoKey, NoRow)
RowClient == [pc : {"idle", "find", "insert", "save", "remove", "touch"},
              op : UNION {DOMAIN Ops[t] : t \in Tables}, key : Keys, copy : RowType]

RowsInit ==
  /\ table \in Tables
  /\ row = [k \in Keys |-> NoRow]
  /\ client = [c \in RowClients |-> NoClient]
  /\ rowRequests = 0
  /\ wanted = row
  /\ conflict = {}
  /\ dead = {}

-----------------------------------------------------------------------------

RowRequest(c) ==
  /\ client[c].pc = "idle" /\ rowRequests < MaxRowRequests
  /\ rowRequests' = rowRequests + 1
  /\ \E op \in Called[table] :
       client' = [client EXCEPT ![c] =
         ClientAt(IF op = "create" THEN "insert" ELSE "find", op, NoKey, NoRow)]
  /\ UNCHANGED << table, row, wanted, conflict, dead >>

Found(c, k) == client' = [client EXCEPT ![c] =
  ClientAt(Ops[table][client[c].op], client[c].op, k, row[k])]

\* 404, or what validateApiKey answers: no user.
FindRow(c) ==
  /\ client[c].pc = "find" /\ table \notin Singletons /\ client[c].op # "invite"
  /\ \E k \in Keys :
       IF row[k].state = "live" THEN Found(c, k)
       ELSE client' = [client EXCEPT ![c] = NoClient]
  /\ UNCHANGED << table, row, rowRequests, wanted, conflict, dead >>

\* A member already: 400.
FindMember(c) ==
  /\ client[c].pc = "find" /\ client[c].op = "invite"
  /\ \E k \in Keys : client' = [client EXCEPT ![c] =
       IF row[k].state = "live" THEN NoClient
       ELSE ClientAt("save", "invite", k, NoRow)]
  /\ UNCHANGED << table, row, rowRequests, wanted, conflict, dead >>

\* getOrCreate: the row of the user, any of them when there are several.
FindSingleton(c) ==
  /\ client[c].pc = "find" /\ table \in Singletons
  /\ LET live == {k \in Keys : row[k].state = "live"} IN
     IF live # {} THEN \E k \in live : Found(c, k)
     ELSE client' = [client EXCEPT ![c] = ClientAt("insert", client[c].op, NoKey, NoRow)]
  /\ UNCHANGED << table, row, rowRequests, wanted, conflict, dead >>

\* Keys are generated, except that the key of the settings is the user: a second
\* insert breaks it, and the request fails, or goes on with the row when save saw it.
InsertRow(c) ==
  /\ client[c].pc = "insert"
  /\ \E k \in Keys, col \in [Columns -> BOOLEAN] :
       /\ row[k].state = "none"
       /\ table = "settings" => \A j \in Keys : row[j].state = "none"
       /\ table = "apiKeys" => col["first"]
       /\ row' = [row EXCEPT ![k] = NewRow(col)]
       /\ wanted' = [wanted EXCEPT ![k] = NewRow(col)]
       /\ client' = [client EXCEPT ![c] =
            IF client[c].op = "update" THEN ClientAt("save", "update", k, NewRow(col))
            ELSE NoClient]
  /\ UNCHANGED << table, rowRequests, conflict, dead >>

SettingsAreThere(c) ==
  /\ client[c].pc = "insert" /\ table = "settings"
  /\ \E k \in Keys : row[k].state = "live" /\ Found(c, k)
  /\ UNCHANGED << table, row, rowRequests, wanted, conflict, dead >>

\* What a request asks of the columns: nothing, or a value, of each.
Asks(op) ==
  CASE op = "revoke" -> {[first |-> {FALSE}, second |-> {}]}
    [] op = "updateRole" -> {[first |-> {b}, second |-> {}] : b \in BOOLEAN}
    [] OTHER -> [Columns -> {{}, {TRUE}, {FALSE}}]
Assign(r, asks) ==
  NewRow([c \in Columns |-> IF asks[c] = {} THEN r.col[c] ELSE TRUE \in asks[c]])

\* Mutant: the columns that were not asked for get their defaults.
SaveRowAfresh(c) ==
  LET k == client[c].key IN
  /\ client[c].pc = "save"
  /\ \E asks \in Asks(client[c].op) :
       /\ row' = [row EXCEPT ![k] = Assign(NoRow, asks)]
       /\ wanted' = [wanted EXCEPT ![k] = Assign(@, asks)]
  /\ conflict' = IF client[c].op # "invite" /\ client[c].copy # row[k] THEN conflict \cup {k} ELSE conflict
  /\ dead' = IF client[c].op = "revoke" THEN dead \cup {k} ELSE dead
  /\ client' = [client EXCEPT ![c] = NoClient]
  /\ UNCHANGED << table, rowRequests >>

\* repository.save of the copy with the columns assigned.
SaveRow(c) ==
  LET k == client[c].key  copy == client[c].copy
      stale == IF client[c].op = "invite" THEN row[k].state = "live" ELSE copy # row[k]
  IN
  /\ client[c].pc = "save"
  /\ \E asks \in Asks(client[c].op) :
       /\ row' = [row EXCEPT ![k] = Assign(copy, asks)]
       /\ wanted' = [wanted EXCEPT ![k] =
            IF client[c].op = "invite" THEN Assign(NoRow, asks) ELSE Assign(wanted[k], asks)]
  /\ conflict' = IF stale THEN conflict \cup {k} ELSE conflict
  /\ dead' = IF client[c].op = "revoke" THEN dead \cup {k} ELSE dead
  /\ client' = [client EXCEPT ![c] = NoClient]
  /\ UNCHANGED << table, rowRequests >>

\* remove deletes the row; softRemove of a template writes deletedAt, no more.
RemoveRow(c) ==
  LET k == client[c].key IN
  /\ client[c].pc = "remove"
  /\ row' = [row EXCEPT ![k] = DeletedRow(row[k])]
  /\ wanted' = [wanted EXCEPT ![k] = DeletedRow(wanted[k])]
  /\ dead' = IF table = "apiKeys" THEN dead \cup {k} ELSE dead
  /\ client' = [client EXCEPT ![c] = NoClient]
  /\ UNCHANGED << table, rowRequests, conflict >>

\* A key the guard lets in.
Admitted(r) == r.state = "live" /\ r.col["first"]

\* Mutant: validateApiKey saves the record it read, to set lastUsedAt.
TouchKeySaves(c) ==
  /\ client[c].pc = "touch"
  /\ row' = IF Admitted(client[c].copy)
              THEN [row EXCEPT ![client[c].key] = client[c].copy] ELSE row
  /\ client' = [client EXCEPT ![c] = NoClient]
  /\ UNCHANGED << table, rowRequests, wanted, conflict, dead >>

\* An UPDATE of lastUsedAt alone, when the key is admitted; a deleted key stays so.
TouchKey(c) ==
  /\ client[c].pc = "touch"
  /\ client' = [client EXCEPT ![c] = NoClient]
  /\ UNCHANGED << table, row, rowRequests, wanted, conflict, dead >>

RowRequestFails(c) ==
  /\ client[c].pc # "idle"
  /\ client' = [client EXCEPT ![c] = NoClient]
  /\ UNCHANGED << table, row, rowRequests, wanted, conflict, dead >>

RowsNext == \E c \in RowClients :
  \/ RowRequest(c) \/ FindRow(c) \/ FindMember(c) \/ FindSingleton(c) \/ InsertRow(c)
  \/ SettingsAreThere(c) \/ SaveRow(c) \/ RemoveRow(c) \/ TouchKey(c) \/ RowRequestFails(c)

RowsSpec == RowsInit /\ [][RowsNext]_rowVars
-----------------------------------------------------------------------------
(* Properties. *)

\* Every variable keeps its type.
RowsTypeOK ==
  /\ table \in Tables
  /\ row \in [Keys -> RowType] /\ wanted \in [Keys -> RowType]
  /\ client \in [RowClients -> RowClient]
  /\ rowRequests \in 0..MaxRowRequests
  /\ conflict \subseteq Keys /\ dead \subseteq Keys

\* Once a revocation or a deletion of an API key is answered, no request is let
\* in with it, whatever requests read the key before and end after.
KeysStayDead == \A k \in dead : ~Admitted(row[k])

\* A row is as the requests on it asked, column by column, and a removed one stays
\* removed, unless a save found the row changed since its find.
RowsAsWanted == \A k \in Keys \ conflict : row[k] = wanted[k]

-----------------------------------------------------------------------------
(* What every reachable state satisfies. *)

\* A request is one of its controller's; on a revocation alone depends what is saved
\* to an API key, and who is invited has no row yet.
RequestsFit == \A c \in RowClients :
  client[c].pc # "idle" =>
    /\ client[c].op \in Called[table]
    /\ client[c].pc = "save" /\ table = "apiKeys" => client[c].op = "revoke"
    /\ client[c].pc = "save" /\ client[c].op = "invite" => client[c].copy = NoRow

\* Only API keys are dead, and what is inserted never was.
DeadWereMade ==
  /\ dead # {} => table = "apiKeys"
  /\ \A k \in dead : row[k].state # "none"

RowsInvariant == RowsTypeOK /\ RequestsFit /\ DeadWereMade /\ KeysStayDead /\ RowsAsWanted
=============================================================================
