------------------------------- MODULE Pages --------------------------------
(***************************************************************************)
(* The dashboard's pages, over the query cache of the browser.  A page     *)
(* shows the answers of its queries, each cached under a key; a mutation   *)
(* changes rows at the server and, once answered, names the keys whose     *)
(* answers it may have changed.  An answer is shown without asking again   *)
(* for as long as it is fresh.                                             *)
(*                                                                         *)
(* A key is a sequence, and a name stands for every key it begins.  Each   *)
(* page is one definition: the keys it shows and what it does.             *)
(***************************************************************************)
EXTENDS Integers, Sequences, SequencesExt

CONSTANTS
  MaxVisits,     \* bound: pages opened by the user
  MaxMutations   \* bound: mutations made

ASSUME PagesBounds == MaxVisits \in Nat /\ MaxMutations \in Nat

Stay == "stay"

\* A mutation: the keys whose answer it changes, the names it invalidates once it
\* has succeeded, and the page it goes on to.
Does(name, changes, invalidates, to) ==
  [name |-> name, changes |-> changes, invalidates |-> invalidates, to |-> to]

-----------------------------------------------------------------------------
(* Campaigns. *)

CampaignKey == <<"campaign", "id">>
MessagesKey == <<"campaign", "id", "messages">>
FormKeys    == {<<"sessions">>, <<"groups">>, <<"templates">>}

DashboardPage ==
  [shows |-> {<<"campaigns">>, <<"contacts-count">>, <<"templates-count">>, <<"sessions">>},
   does  |-> {}]

CampaignsPage ==
  [shows |-> {<<"campaigns">>},
   does  |-> {Does("delete", {<<"campaigns">>}, {<<"campaigns">>}, Stay)}]

\* The page it goes on to is that of a campaign which no query has asked for yet.
NewCampaignPage ==
  [shows |-> FormKeys,
   does  |-> {Does("create", {<<"campaigns">>}, {}, "campaigns/id")}]

EditCampaignPage ==
  [shows |-> FormKeys \cup {CampaignKey},
   does  |-> {Does("update", {CampaignKey, <<"campaigns">>}, {CampaignKey, <<"campaigns">>},
                   "campaigns/id")}]

\* Mutant: cancel names the campaign's list and not the campaign.
CampaignPageCancelsList ==
  [shows |-> {CampaignKey, MessagesKey},
   does  |-> {Does("cancel", {CampaignKey, MessagesKey, <<"campaigns">>}, {<<"campaigns">>}, Stay)}]

CampaignPage ==
  [shows |-> {CampaignKey, MessagesKey},
   does  |->
     {Does("start",  {CampaignKey, MessagesKey, <<"campaigns">>}, {CampaignKey, MessagesKey}, Stay),
      Does("pause",  {CampaignKey, <<"campaigns">>}, {CampaignKey}, Stay),
      Does("cancel", {CampaignKey, MessagesKey, <<"campaigns">>}, {CampaignKey, MessagesKey}, Stay),
      Does("delete", {CampaignKey, MessagesKey, <<"campaigns">>}, {<<"campaigns">>}, "campaigns")}]

(* Contacts. *)

ContactKey  == <<"contact", "id">>
GroupKey    == <<"group", "id">>
ContactList == <<"contacts", "page">>
PickerKey   == <<"contacts", "all">>
Lists       == {ContactList, PickerKey}

ContactsPage ==
  [shows |-> {ContactList},
   does  |-> {Does("import", Lists \cup {ContactKey}, {<<"contacts">>}, Stay),
              Does("delete", Lists \cup {ContactKey}, {<<"contacts">>}, Stay)}]

NewContactPage ==
  [shows |-> {}, does |-> {Does("create", Lists, {}, "contacts")}]

ContactPage ==
  [shows |-> {ContactKey},
   does  |-> {Does("opt out", Lists \cup {ContactKey}, {ContactKey}, Stay),
              Does("delete", Lists \cup {ContactKey, GroupKey}, {<<"contacts">>}, "contacts")}]

EditContactPage ==
  [shows |-> {ContactKey},
   does  |-> {Does("update", Lists \cup {ContactKey}, {ContactKey, <<"contacts">>}, "contacts/id")}]

GroupsPage ==
  [shows |-> {<<"groups">>},
   does  |-> {Does("create", {<<"groups">>}, {<<"groups">>}, Stay),
              Does("delete", {<<"groups">>, GroupKey}, {<<"groups">>}, Stay)}]

GroupPage ==
  [shows |-> {GroupKey, PickerKey},
   does  |-> {Does("rename", {GroupKey, <<"groups">>}, {GroupKey, <<"groups">>}, Stay),
              Does("add", {GroupKey}, {GroupKey}, Stay),
              Does("remove", {GroupKey}, {GroupKey}, Stay)}]

(* Templates and automations. *)

TemplatesPage ==
  [shows |-> {<<"templates">>}, does |-> {Does("create", {<<"templates">>}, {<<"templates">>}, Stay)}]

TemplatePage ==
  [shows |-> {<<"template", "id">>},
   does  |-> {Does("update", {<<"template", "id">>, <<"templates">>}, {<<"template", "id">>}, Stay),
              Does("delete", {<<"template", "id">>, <<"templates">>}, {}, "templates")}]

DripKey == <<"drip-sequences", "id">>

DripSequencesPage ==
  [shows |-> {<<"drip-sequences">>},
   does  |-> {Does("delete", {<<"drip-sequences">>, DripKey}, {<<"drip-sequences">>}, Stay)}]

NewDripSequencePage ==
  [shows |-> {<<"templates">>}, does |-> {Does("create", {<<"drip-sequences">>}, {}, "drip")}]

DripSequencePage ==
  [shows |-> {DripKey}, does |-> {Does("toggle", {<<"drip-sequences">>, DripKey}, {DripKey}, Stay)}]

AutoRepliesPage ==
  [shows |-> {<<"auto-reply-rules">>},
   does  |-> {Does("delete", {<<"auto-reply-rules">>}, {<<"auto-reply-rules">>}, Stay),
              Does("toggle", {<<"auto-reply-rules">>}, {<<"auto-reply-rules">>}, Stay)}]

NewAutoReplyPage ==
  [shows |-> {}, does |-> {Does("create", {<<"auto-reply-rules">>}, {}, "auto-replies")}]

DateBasedPage ==
  [shows |-> {<<"date-automations">>},
   does  |-> {Does(a, {<<"date-automations">>}, {<<"date-automations">>}, Stay) :
                a \in {"create", "toggle", "delete"}}]

(* Inbox, settings and integrations. *)

ThreadKey == <<"inbox", "id">>

InboxPage == [shows |-> {<<"inbox">>}, does |-> {}]

ThreadPage ==
  [shows |-> {<<"sessions">>, ThreadKey},
   does  |-> {Does("send", {<<"inbox">>, ThreadKey}, {ThreadKey}, Stay)}]

TeamPage ==
  [shows |-> {<<"team-members">>},
   does  |-> {Does(a, {<<"team-members">>}, {<<"team-members">>}, Stay) :
                a \in {"invite", "update role", "remove"}}]

ApiKeysPage ==
  [shows |-> {<<"api-keys">>},
   does  |-> {Does(a, {<<"api-keys">>}, {<<"api-keys">>}, Stay) :
                a \in {"create", "revoke", "delete"}}]

PlanPage == [shows |-> {<<"billing", "usage">>}, does |-> {}]

WebhooksPage ==
  [shows |-> {<<"webhooks">>, <<"webhook-deliveries", "id">>},
   does  |-> {Does(a, {<<"webhooks">>}, {<<"webhooks">>}, Stay) :
                a \in {"create", "delete", "toggle"}}]

AnalyticsPage == [shows |-> {<<"analytics-overview">>}, does |-> {}]

\* The user keeps to the pages of one section.
Sections ==
  { {"dashboard", "campaigns", "campaigns/new", "campaigns/id", "campaigns/id/edit"},
    {"contacts", "contacts/new", "contacts/id", "contacts/id/edit", "groups", "groups/id"},
    {"templates", "templates/id", "drip", "drip/new", "drip/id"},
    {"auto-replies", "auto-replies/new", "date-based", "inbox", "inbox/id"},
    {"team", "api-keys", "plan", "webhooks", "analytics"} }

PageNames == UNION Sections

Site == [p \in PageNames |->
  CASE p = "dashboard" -> DashboardPage [] p = "campaigns" -> CampaignsPage
    [] p = "campaigns/new" -> NewCampaignPage [] p = "campaigns/id" -> CampaignPage
    [] p = "campaigns/id/edit" -> EditCampaignPage [] p = "contacts" -> ContactsPage
    [] p = "contacts/new" -> NewContactPage [] p = "contacts/id" -> ContactPage
    [] p = "contacts/id/edit" -> EditContactPage [] p = "groups" -> GroupsPage
    [] p = "groups/id" -> GroupPage [] p = "templates" -> TemplatesPage
    [] p = "templates/id" -> TemplatePage [] p = "drip" -> DripSequencesPage
    [] p = "drip/new" -> NewDripSequencePage [] p = "drip/id" -> DripSequencePage
    [] p = "auto-replies" -> AutoRepliesPage
    [] p = "auto-replies/new" -> NewAutoReplyPage [] p = "date-based" -> DateBasedPage
    [] p = "inbox" -> InboxPage [] p = "inbox/id" -> ThreadPage
    [] p = "team" -> TeamPage [] p = "api-keys" -> ApiKeysPage [] p = "plan" -> PlanPage
    [] p = "webhooks" -> WebhooksPage [] p = "analytics" -> AnalyticsPage]

Section(p) == CHOOSE s \in Sections : p \in s
KeysOf(s)  == UNION {Site[p].shows : p \in s}

VARIABLES
  key,        \* the key followed: what becomes of one does not depend on the others
  page,       \* the page shown
  visits,     \* pages opened so far
  cached,     \* the answer the browser has: none, fresh or stale
  fetching,   \* the query under way: idle, asked, or read at the server
  behind,     \* the writes made since the cached answer was read
  outrun,     \* those made since the one under way was read
  mutation,   \* the mutation under way: asked, or written at the server
  mutations,  \* mutations made so far
  excused     \* history: a failure or a race has left an old answer

pageVars == << key, page, visits, cached, fetching, behind, outrun, mutation, mutations,
               excused >>

Idle == [pc |-> "idle", from |-> "none", does |-> Does("none", {}, {}, Stay)]

Shows(p) == key \in Site[p].shows
Names(d) == \E n \in d.invalidates : IsPrefix(n, key)
Named    == Names(mutation.does)
Changed  == key \in mutation.does.changes

PagesInit ==
  /\ page \in PageNames /\ key \in KeysOf(Section(page))
  /\ visits = 0 /\ mutations = 0
  /\ cached = "none"
  /\ fetching = IF Shows(page) THEN "asked" ELSE "idle"
  /\ behind = {} /\ outrun = {}
  /\ mutation = Idle
  /\ excused = FALSE

\* A page that comes to be shown asks for what it has no fresh answer to.
Mount(p, answer, query) ==
  IF Shows(p) /\ answer # "fresh" /\ query = "idle" THEN "asked" ELSE query

-----------------------------------------------------------------------------
(* The user. *)

OpenPage(p) ==
  /\ visits < MaxVisits /\ visits' = visits + 1
  /\ p # page /\ page' = p
  /\ fetching' = Mount(p, cached, fetching)
  /\ UNCHANGED << key, cached, behind, outrun, mutation, mutations, excused >>

Mutate(d) ==
  /\ mutation = Idle /\ mutations < MaxMutations
  /\ mutations' = mutations + 1
  /\ mutation' = [pc |-> "asked", from |-> page, does |-> d]
  /\ UNCHANGED << key, page, visits, cached, fetching, behind, outrun, excused >>

-----------------------------------------------------------------------------
(* A mutation: the write, and its answer. *)

WriteRows ==
  /\ mutation.pc = "asked"
  /\ mutation' = [pc |-> "written", from |-> mutation.from, does |-> mutation.does]
  /\ LET write == IF Changed THEN {<< mutation.from, mutation.does >>} ELSE {} IN
     /\ behind' = IF cached = "none" THEN behind ELSE behind \cup write
     /\ outrun' = IF fetching = "read" THEN outrun \cup write ELSE outrun
  /\ UNCHANGED << key, page, visits, cached, fetching, mutations, excused >>

\* onSuccess, also of a page that is no longer shown: invalidateQueries makes the
\* answer stale and asks again if it is shown, in place of a query under way if there
\* is an answer to fall back on; then the next page, if it goes on to one.
Succeed ==
  LET answer == IF Named /\ cached = "fresh" THEN "stale" ELSE cached
      again  == Named /\ Shows(page) /\ (cached # "none" \/ fetching = "idle")
      next   == IF mutation.does.to = Stay THEN page ELSE mutation.does.to IN
  /\ mutation.pc = "written" /\ mutation' = Idle
  /\ cached' = answer
  /\ page' = next
  /\ fetching' = Mount(next, answer, IF again THEN "asked" ELSE fetching)
  /\ outrun' = IF again THEN {} ELSE outrun
  /\ excused' = (excused \/ (Named /\ ~again /\ outrun # {}))
  /\ UNCHANGED << key, visits, behind, mutations >>

\* onError, of a mutation refused, or of one written whose answer is lost.
Fail ==
  /\ mutation # Idle /\ mutation' = Idle
  /\ excused' = (excused \/ (mutation.pc = "written" /\ Changed))
  /\ UNCHANGED << key, page, visits, cached, fetching, behind, outrun, mutations >>

-----------------------------------------------------------------------------
(* A query: it is read at the server, and answered, also when its page has gone. *)

ReadRows ==
  /\ fetching = "asked" /\ fetching' = "read"
  /\ UNCHANGED << key, page, visits, cached, behind, outrun, mutation, mutations, excused >>

QueryAnswered ==
  /\ fetching = "read" /\ fetching' = "idle"
  /\ cached' = "fresh"
  /\ behind' = outrun /\ outrun' = {}
  /\ excused' = (excused /\ outrun # {})
  /\ UNCHANGED << key, page, visits, mutation, mutations >>

QueryFails ==
  /\ fetching # "idle" /\ fetching' = "idle"
  /\ outrun' = {}
  /\ excused' = TRUE
  /\ UNCHANGED << key, page, visits, cached, behind, mutation, mutations >>

\* 30 seconds.
Age ==
  /\ cached = "fresh" /\ cached' = "stale"
  /\ UNCHANGED << key, page, visits, fetching, behind, outrun, mutation, mutations, excused >>

\* The queries with an interval.
Poll ==
  /\ key \in {MessagesKey, <<"inbox">>, ThreadKey} /\ Shows(page)
  /\ fetching = "idle" /\ fetching' = "asked"
  /\ UNCHANGED << key, page, visits, cached, behind, outrun, mutation, mutations, excused >>

PagesNext ==
  \/ \E p \in Section(page) : OpenPage(p)
  \/ \E d \in Site[page].does : Mutate(d)
  \/ WriteRows \/ Succeed \/ Fail
  \/ ReadRows \/ QueryAnswered \/ QueryFails \/ Age \/ Poll

PagesSpec == PagesInit /\ [][PagesNext]_pageVars
-----------------------------------------------------------------------------
(* Properties. *)

\* Every variable keeps its type.
PagesTypeOK ==
  /\ page \in PageNames /\ key \in KeysOf(Section(page))
  /\ visits \in 0..MaxVisits /\ mutations \in 0..MaxMutations
  /\ cached \in {"none", "fresh", "stale"}
  /\ fetching \in {"idle", "asked", "read"}
  /\ mutation.pc \in {"idle", "asked", "written"}
  /\ excused \in BOOLEAN

\* Where a mutation of a page leaves the user.
Destination(p, d) == IF d.to = Stay THEN p ELSE d.to

\* The four that name nothing and go on to the list they have changed.
Unannounced ==
  { << "contacts/new", "create" >>, << "drip/new", "create" >>,
    << "auto-replies/new", "create" >>, << "templates/id", "delete" >> }

\* Once what is under way has come through, the page that a mutation of the user
\* leads to shows it: no answer on it is from before the write.  A failed query, a
\* lost answer and a query that the write has overtaken may leave one, and so may
\* the four mutations that name nothing.
OwnWritesShow ==
  mutation = Idle /\ fetching = "idle" /\ Shows(page) /\ ~excused =>
    \A m \in behind :
      Destination(m[1], m[2]) = page => << m[1], m[2].name >> \in Unannounced

-----------------------------------------------------------------------------
(* What every step keeps. *)

\* A mutation under way is one of the page it was made on, of the section shown.
MutationIsThePages ==
  \/ mutation = Idle
  \/ /\ mutation.pc \in {"asked", "written"} /\ mutation.from \in Section(page)
     /\ mutation.does \in Site[mutation.from].does

\* A write that an answer lacks has changed that answer.
WritesAreThePages ==
  \A m \in behind \cup outrun :
    /\ m[1] \in PageNames /\ m[2] \in Site[m[1]].does
    /\ key \in m[2].changes

\* A write whose mutation has not been answered yet.
Unanswered(m) ==
  mutation.pc = "written" /\ m = << mutation.from, mutation.does >>

\* An answer that lacks a write announced since is not fresh, and is asked for again
\* as long as it is shown.
AnnouncedIsAskedFor ==
  ~excused =>
    \A m \in behind : Names(m[2]) /\ ~Unanswered(m) =>
      cached # "fresh" /\ (Shows(page) => fetching # "idle")

\* A query under way lacks none that has been announced.
AnnouncedIsRead ==
  ~excused => \A m \in outrun : Names(m[2]) => Unanswered(m)

PagesInvariance ==
  /\ PagesTypeOK
  /\ MutationIsThePages /\ WritesAreThePages
  /\ AnnouncedIsAskedFor /\ AnnouncedIsRead
  /\ cached = "none" => behind = {}
  /\ fetching # "read" => outrun = {}
=============================================================================
