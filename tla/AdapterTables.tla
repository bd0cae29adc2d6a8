---------------------------- MODULE AdapterTables ---------------------------
(***************************************************************************)
(* What the modules that hand a call over to a backend make of its         *)
(* parameters: email, calendar, messaging, alerting, dashboard,            *)
(* error_tracking, logging, metrics, vault, web_search, database, and      *)
(* SCMModule on top of its providers.  For each module the description of  *)
(* its tools, the conditions it resolves and the arguments its handlers    *)
(* read.                                                                   *)
(*                                                                         *)
(* A tool is a pair of a namespace and a name.  The text of a value is a   *)
(* sequence of tokens, as coarse as the code tells texts apart.            *)
(***************************************************************************)
EXTENDS Statements, FiniteSets

CONSTANTS Providers \* names of the providers scm has

Value(kind, tokens) == [kind |-> kind, is |-> tokens]
Text(tokens) == Value("text", tokens)
Null == Value("null", <<"None">>)
Empty == Text(<<>>)
EmptyList == Value("list", <<>>)
False == Value("bool", <<"False">>)

Str(v) == Text(v.is)
IsBlank(v) == \A i \in 1..Len(v.is) : v.is[i] = " "
IsNumber(v) == v.kind \in {"text", "number"} /\ Len(v.is) = 1 /\ v.is[1] \in DOMAIN Worth
IsZero(v) == v.kind = "number" /\ IsNumber(v) /\ Worth[v.is[1]] = 0
IsTrue(v) == v # Null /\ v.is # <<>> /\ v # False /\ ~IsZero(v)

Given(p, params) == p \in DOMAIN params
IsSet(p, params) == Given(p, params) /\ params[p] # Null
Get(p, params, default) == IF Given(p, params) THEN params[p] ELSE default

-----------------------------------------------------------------------------
(* A function given by its entries, and two joined: where both have a      *)
(* value, the first one's.                                                 *)
Entry(key, v) == [k \in {key} |-> v]

f ++ g == [k \in DOMAIN f \cup DOMAIN g |-> IF k \in DOMAIN f THEN f[k] ELSE g[k]]

-----------------------------------------------------------------------------
(* What describe() says of a tool: the parameters that must and may be     *)
(* given, and those that name its resources.                               *)
Tool(required, optional, resource) ==
  [required |-> required, optional |-> optional, resource |-> resource]

EmailTools(name) ==
  CASE name = "send_email" -> Tool({"to", "subject", "body"}, {"cc", "attachments"}, {"to"})
    [] name = "read_inbox" -> Tool({"limit"}, {"folder", "filter"}, {"folder"})
    [] name = "parse_email" -> Tool({"message_id"}, {"extract_fields"}, {"message_id"})

CalendarTools(name) ==
  IF name = "create_event"
    THEN Tool({"calendar_id", "title", "start", "end"}, {"description", "attendees"}, {"calendar_id"})
    ELSE Tool({"calendar_id", "start", "end"}, {}, {"calendar_id"})

MessagingTools(name) ==
  CASE name = "send_message" -> Tool({"channel", "text"}, {"thread_id"}, {"channel"})
    [] name = "read_messages" -> Tool({"channel", "limit"}, {"since"}, {"channel"})

AlertingTools(name) ==
  CASE name = "list_alerts" -> Tool({}, {"source", "severity", "state", "limit"}, {"source"})
    [] name = "acknowledge_alert" -> Tool({"alert_id"}, {"note"}, {"alert_id"})
    [] name = "escalate_alert" -> Tool({"alert_id"}, {"target", "note"}, {"alert_id"})
    [] name = "silence_alert" -> Tool({"alert_id", "duration"}, {"reason"}, {"alert_id"})

DashboardTools(name) ==
  CASE name = "get_panel" ->
         Tool({"dashboard_id", "panel_id"}, {"time_range", "output_format"}, {"dashboard_id"})
    [] name = "list_dashboards" -> Tool({}, {"filter", "tags"}, {"*"})

ErrorTrackingTools == Tool({"project"}, {"query", "time_range", "limit"}, {"project"})

LoggingTools(name) ==
  CASE name = "query_logs" -> Tool({"source", "query", "start", "end"}, {"limit"}, {"source"})
    [] name = "write_log" -> Tool({"source", "level", "message"}, {"metadata"}, {"source"})

MetricsTools == Tool({"datasource", "query", "start", "end"}, {"step"}, {"datasource"})

VaultTools == Tool({"path"}, {"version"}, {"path"})

WebSearchTools == Tool({"query"}, {"max_results", "domain_filter"}, {"query"})

DatabaseTools(name) ==
  CASE name = "query" -> Tool({"database", "sql"}, {"limit"}, {"database"})
    [] name = "execute_statement" -> Tool({"database", "sql"}, {}, {"database"})

Repo == {"owner", "repo"}
OnRepo(required, optional) == Tool({"provider"} \cup Repo \cup required, optional, Repo)

ScmCreatingTools(name) ==
  CASE name = "CreatePullRequest" -> OnRepo({"title", "head", "base"}, {"body", "draft"})
    [] name = "CreateIssue" -> OnRepo({"title"}, {"body", "labels"})
    [] name = "CreateRepo" -> Tool({"provider", "name"}, {"description", "private"}, {"name"})
    [] name = "CreateFork" -> OnRepo({}, {"namespace"})

ScmOtherTools(name) ==
  CASE name = "ListRepos" -> Tool({"provider", "owner"}, {}, {"owner"})
    [] name = "ListBranches" -> OnRepo({}, {})
    [] name = "CreateWebhook" -> OnRepo({"url", "events"}, {"secret"})
    [] name = "ApprovePullRequest" -> OnRepo({"number"}, {"body"})
    [] name = "CommentOnPullRequest" -> OnRepo({"number", "body"}, {})

ScmCreating == {"CreatePullRequest", "CreateIssue", "CreateRepo", "CreateFork"}
ScmOther == {"ListRepos", "ListBranches", "CreateWebhook", "ApprovePullRequest",
             "CommentOnPullRequest"}

NamesOf ==
  [email |-> {"send_email", "read_inbox", "parse_email"},
   calendar |-> {"create_event", "list_events", "check_conflicts"},
   messaging |-> {"send_message", "read_messages"},
   alerting |-> {"list_alerts", "acknowledge_alert", "escalate_alert", "silence_alert"},
   dashboard |-> {"get_panel", "list_dashboards"},
   error_tracking |-> {"query_errors"},
   logging |-> {"query_logs", "write_log"},
   metrics |-> {"query_metrics"},
   vault |-> {"get_secret"},
   web_search |-> {"search"},
   database |-> {"query", "execute_statement"},
   scm |-> ScmCreating \cup ScmOther]

ToolNames == UNION {{m} \X NamesOf[m] : m \in DOMAIN NamesOf}

Described(t) ==
  CASE t[1] = "email" -> EmailTools(t[2])
    [] t[1] = "calendar" -> CalendarTools(t[2])
    [] t[1] = "messaging" -> MessagingTools(t[2])
    [] t[1] = "alerting" -> AlertingTools(t[2])
    [] t[1] = "dashboard" -> DashboardTools(t[2])
    [] t[1] = "error_tracking" -> ErrorTrackingTools
    [] t[1] = "logging" -> LoggingTools(t[2])
    [] t[1] = "metrics" -> MetricsTools
    [] t[1] = "vault" -> VaultTools
    [] t[1] = "web_search" -> WebSearchTools
    [] t[1] = "database" -> DatabaseTools(t[2])
    [] t[1] = "scm" /\ t[2] \in ScmCreating -> ScmCreatingTools(t[2])
    [] t[1] = "scm" /\ t[2] \in ScmOther -> ScmOtherTools(t[2])

(* The kinds the descriptions give to parameters.                          *)
NumberNames == {"limit", "number", "max_results", "version"}
ListNames == {"attachments", "attendees", "extract_fields", "tags", "labels", "events"}
BoolNames == {"draft", "private"}
ObjectNames == {"metadata"}

Kind(p) ==
  IF p \in NumberNames THEN "number" ELSE IF p \in ListNames THEN "list"
  ELSE IF p \in BoolNames THEN "bool" ELSE IF p \in ObjectNames THEN "object" ELSE "text"

-----------------------------------------------------------------------------
(* resolve_conditions(), module by module: a function from keys to values. *)
NoEntry == [k \in {} |-> Null]

IfSet(p, key, params) == IF IsSet(p, params) THEN Entry(key, Str(params[p])) ELSE NoEntry

EmailConditions(name, params) ==
  IF name = "send_email"
    THEN Entry("email:Recipient", Get("to", params, Empty))
         ++ Entry("email:Subject", Get("subject", params, Empty))
  ELSE IF name = "read_inbox" THEN Entry("email:Folder", Get("folder", params, Text(<<"inbox">>)))
  ELSE NoEntry

CalendarConditions(params) == IfSet("calendar_id", "calendar:CalendarId", params)

(* A channel that is a person: "@" and a name, or "D" and digits.          *)
Recipient(channel) ==
  LET t == channel.is
      bare == {i \in 1..Len(t) : t[i] # "@"} IN
  IF t # <<>> /\ t[1] = "@"
    THEN Text(SubSeq(t, 1 + Cardinality({i \in 1..Len(t) : \A j \in bare : i < j}), Len(t)))
  ELSE IF Len(t) = 2 /\ t[1] = "D" /\ t[2] \in DOMAIN Worth THEN channel
  ELSE Null

MessagingConditions(name, params) ==
  IfSet("channel", "messaging:Channel", params)
  ++ IF /\ name = "send_message" /\ IsSet("channel", params)
        /\ Recipient(Str(params["channel"])) # Null
       THEN Entry("messaging:Recipient", Recipient(Str(params["channel"])))
       ELSE NoEntry

(* Slip: the filter by severity is mistaken for the one by state.          *)
AlertingConditionsByState(params) ==
  IfSet("state", "alerting:Severity", params) ++ IfSet("source", "alerting:AlertSource", params)

AlertingConditions(params) ==
  IfSet("severity", "alerting:Severity", params) ++ IfSet("source", "alerting:AlertSource", params)

DashboardConditions(params) == IfSet("dashboard_id", "dashboard:DashboardId", params)

(* The text after the first of the marks, up to a space; the marks in the  *)
(* order in which they are tried.                                          *)
TypeMarks == <<{"type:", "error_type:"}, {"error_type:"}, {"error:"}>>

AfterMark(t, marks) ==
  LET at == {i \in 1..Len(t) : t[i] \in marks}
      first == CHOOSE i \in at : \A j \in at : i <= j
      ends == {j \in (first + 1)..Len(t) : t[j] = " "}
      last == IF ends = {} THEN Len(t) ELSE (CHOOSE i \in ends : \A j \in ends : i <= j) - 1 IN
  IF at = {} THEN <<>> ELSE SubSeq(t, first + 1, last)

ErrorTypes(query) == SelectSeq([n \in 1..3 |-> AfterMark(query.is, TypeMarks[n])],
                               LAMBDA t : t # <<>>)

ErrorTrackingConditions(params) ==
  IF ~IsSet("project", params) THEN NoEntry
  ELSE IfSet("project", "error_tracking:Project", params)
       ++ IF /\ IsSet("query", params) /\ params["query"].kind = "text"
             /\ ErrorTypes(params["query"]) # <<>>
            THEN Entry("error_tracking:ErrorType", Text(ErrorTypes(params["query"])[1]))
            ELSE NoEntry

LoggingConditions(params) ==
  IfSet("source", "logging:LogSource", params) ++ IfSet("level", "logging:Severity", params)

(* What language and what range these are, no property tells apart.        *)
MetricsConditions(params) ==
  Entry("metrics:QueryLanguage", Text(<<"language">>))
  ++ IF IsTrue(Get("start", params, Null)) /\ IsTrue(Get("end", params, Null))
       THEN Entry("metrics:TimeRange", Text(<<"range">>))
       ELSE NoEntry

(* The engine is what comes before the first "/", or the whole path.       *)
Engine(t) ==
  LET at == {i \in 1..Len(t) : t[i] = "/"} IN
  IF at = {} THEN t ELSE SubSeq(t, 1, (CHOOSE i \in at : \A j \in at : i <= j) - 1)

VaultConditions(params) ==
  IF IsSet("path", params)
    THEN Entry("vault:SecretPath", Str(params["path"]))
         ++ Entry("vault:SecretEngine", Text(Engine(params["path"].is)))
    ELSE NoEntry

WebSearchConditions(params) == IfSet("domain_filter", "web_search:QueryDomain", params)

DatabaseConditions(params) ==
  IfSet("database", "database:DatabaseName", params)
  ++ IF IsSet("sql", params) /\ TableName(params["sql"].is) # NoName
       THEN Entry("database:TableName", Text(<<TableName(params["sql"].is)>>))
       ELSE NoEntry

Repository(params) ==
  Text(Get("owner", params, Empty).is \o <<"/">> \o params["repo"].is)

ScmConditions(params) ==
  (IF Given("owner", params) THEN Entry("scm:Owner", params["owner"]) ELSE NoEntry)
  ++ IF Given("repo", params) THEN Entry("scm:Repository", Repository(params)) ELSE NoEntry

Conditions(t, params) ==
  CASE t[1] = "email" -> EmailConditions(t[2], params)
    [] t[1] = "calendar" -> CalendarConditions(params)
    [] t[1] = "messaging" -> MessagingConditions(t[2], params)
    [] t[1] = "alerting" -> AlertingConditions(params)
    [] t[1] = "dashboard" -> DashboardConditions(params)
    [] t[1] = "error_tracking" -> ErrorTrackingConditions(params)
    [] t[1] = "logging" -> LoggingConditions(params)
    [] t[1] = "metrics" -> MetricsConditions(params)
    [] t[1] = "vault" -> VaultConditions(params)
    [] t[1] = "web_search" -> WebSearchConditions(params)
    [] t[1] = "database" -> DatabaseConditions(params)
    [] t[1] = "scm" -> ScmConditions(params)

(* Only the metrics module may raise: it takes the query and the times for *)
(* texts, and looks at the end if the start is a time.                     *)
Resolutions(t, params) ==
  LET start == Get("start", params, Null)
      end == Get("end", params, Null) IN
  IF t[1] # "metrics" THEN {"resolved"}
  ELSE IF Get("query", params, Empty).kind # "text" THEN {"raised"}
  ELSE IF ~(IsTrue(start) /\ IsTrue(end)) \/ (start.kind = "text" /\ end.kind = "text") THEN {"resolved"}
  ELSE IF start.kind # "text" THEN {"raised"}
  ELSE {"raised", "resolved"}

(* The resources of the dispatcher: what the parameters that name them     *)
(* hold, or the empty text.                                                *)
Resources(t, params) ==
  LET named == {Str(params[p]) : p \in {q \in Described(t).resource : IsSet(q, params)}} IN
  IF named = {} THEN {Empty} ELSE named

-----------------------------------------------------------------------------
(* What a handler passes on: the way each argument is read ("how") and     *)
(* the kind of value it is turned into ("as").                             *)
Args(names, how, as) == [p \in names |-> [how |-> how, as |-> as, default |-> Null]]

Needed(names, as) == Args(names, "needed", as)    \* params[p]
IfGiven(names, as) == Args(names, "given", as)    \* only if p in params
IfNotNone(names, as) == Args(names, "not none", as)
IfTrue(names) == Args(names, "true", "any")
Checked(names) == Args(names, "checked", "text")  \* neither missing nor blank

(* params.get(p, default)                                                  *)
Or(names, as, default) == [p \in names |-> [how |-> "or", as |-> as, default |-> default]]

SendEmail ==
  Or({"to", "subject", "body"}, "text", Empty)
  ++ IfGiven({"cc"}, "text") ++ IfGiven({"attachments"}, "texts")

ReadInbox ==
  Or({"folder"}, "text", Text(<<"inbox">>)) ++ Or({"limit"}, "number", Value("number", <<"10">>))
  ++ IfGiven({"filter"}, "text")

ParseEmail == Or({"message_id"}, "text", Empty) ++ IfGiven({"extract_fields"}, "texts")

CreateEvent ==
  Or({"calendar_id", "title", "start", "end"}, "text", Empty)
  ++ IfGiven({"description", "attendees"}, "any")

(* _list_events(), _check_conflicts(): whatever else is given, too.        *)
CalendarQuery(params) ==
  LET named == {"calendar_id", "start", "end"} IN
  Or(named, "text", Empty) ++ IfGiven(DOMAIN params \ named, "any")

SendMessage == Needed({"channel", "text"}, "text") ++ IfGiven({"thread_id"}, "any")

ReadMessages ==
  Needed({"channel"}, "text") ++ Needed({"limit"}, "number") ++ IfGiven({"since"}, "any")

ListAlerts == IfGiven({"severity", "source", "state"}, "text") ++ IfGiven({"limit"}, "number")

AcknowledgeAlert == Checked({"alert_id"}) ++ IfGiven({"note"}, "text")

EscalateAlert == Checked({"alert_id"}) ++ IfGiven({"target", "note"}, "text")

SilenceAlert ==
  Checked({"alert_id"}) ++ Args({"duration"}, "checked", "minutes") ++ IfGiven({"reason"}, "text")

GetPanel ==
  Needed({"dashboard_id", "panel_id"}, "text") ++ IfNotNone({"time_range", "output_format"}, "text")

ListDashboards == IfNotNone({"filter"}, "text") ++ IfNotNone({"tags"}, "list")

QueryErrors == Needed({"project"}, "text") ++ IfGiven({"query", "time_range", "limit"}, "any")

QueryLogs == Needed({"source", "query", "start", "end"}, "text") ++ IfGiven({"limit"}, "any")

WriteLog == Needed({"source", "level", "message"}, "text") ++ IfGiven({"metadata"}, "any")

QueryMetrics == Needed({"datasource", "query", "start", "end"}, "any") ++ Or({"step"}, "any", Null)

GetSecret == Checked({"path"}) ++ IfGiven({"version"}, "any")

(* Slip: the number of results must be given.                              *)
SearchSome ==
  Needed({"query"}, "text") ++ Needed({"max_results"}, "number") ++ IfGiven({"domain_filter"}, "any")

Search ==
  Needed({"query"}, "text") ++ IfGiven({"max_results"}, "number") ++ IfGiven({"domain_filter"}, "any")

Query == Checked({"database", "sql"}) ++ IfGiven({"limit"}, "any")

ExecuteStatement == Checked({"database", "sql"})

ScmArguments(name) ==
  CASE name = "CreatePullRequest" ->
         Needed(Repo \cup {"title", "head", "base"}, "any")
         ++ Or({"body"}, "any", Null) ++ Or({"draft"}, "any", False)
    [] name = "CreateIssue" ->
         Needed(Repo \cup {"title"}, "any")
         ++ Or({"body"}, "any", Null) ++ Or({"labels"}, "any", EmptyList)
    [] name = "CreateRepo" ->
         Needed({"name"}, "any") ++ Or({"description"}, "any", Null) ++ Or({"private"}, "any", False)
    [] name = "CreateFork" -> Needed(Repo, "any") ++ IfTrue({"namespace"})
    [] name = "ListRepos" -> Needed({"owner"}, "any")
    [] name = "ListBranches" -> Needed(Repo, "any")
    [] name = "CreateWebhook" ->
         Needed(Repo \cup {"url", "events"}, "any") ++ IfTrue({"secret"})
    [] name = "ApprovePullRequest" -> Needed(Repo \cup {"number"}, "any") ++ Or({"body"}, "any", Null)
    [] name = "CommentOnPullRequest" -> Needed(Repo \cup {"number", "body"}, "any")

Arguments(t, params) ==
  CASE t = <<"email", "send_email">> -> SendEmail
    [] t = <<"email", "read_inbox">> -> ReadInbox
    [] t = <<"email", "parse_email">> -> ParseEmail
    [] t = <<"calendar", "create_event">> -> CreateEvent
    [] t[1] = "calendar" /\ t[2] # "create_event" -> CalendarQuery(params)
    [] t = <<"messaging", "send_message">> -> SendMessage
    [] t = <<"messaging", "read_messages">> -> ReadMessages
    [] t = <<"alerting", "list_alerts">> -> ListAlerts
    [] t = <<"alerting", "acknowledge_alert">> -> AcknowledgeAlert
    [] t = <<"alerting", "escalate_alert">> -> EscalateAlert
    [] t = <<"alerting", "silence_alert">> -> SilenceAlert
    [] t = <<"dashboard", "get_panel">> -> GetPanel
    [] t = <<"dashboard", "list_dashboards">> -> ListDashboards
    [] t = <<"error_tracking", "query_errors">> -> QueryErrors
    [] t = <<"logging", "query_logs">> -> QueryLogs
    [] t = <<"logging", "write_log">> -> WriteLog
    [] t = <<"metrics", "query_metrics">> -> QueryMetrics
    [] t = <<"vault", "get_secret">> -> GetSecret
    [] t = <<"web_search", "search">> -> Search
    [] t = <<"database", "query">> -> Query
    [] t = <<"database", "execute_statement">> -> ExecuteStatement
    [] t[1] = "scm" -> ScmArguments(t[2])

-----------------------------------------------------------------------------
(* Reading the argument p in the way a.                                    *)
Passed(p, a, params) ==
  CASE a.how \in {"needed", "or", "checked"} -> TRUE
    [] a.how = "given" -> Given(p, params)
    [] a.how = "not none" -> IsSet(p, params)
    [] a.how = "true" -> IsTrue(Get(p, params, Null))

(* Something that is no list is left out where texts are expected.         *)
LeftOut(a, v) == a.as = "texts" /\ v.kind # "list"

Converted(a, v) ==
  CASE a.as = "text" -> Str(v)
    [] a.as \in {"any", "texts"} -> v
    [] a.as = "list" -> Value("list", v.is)
    [] a.as = "number" -> Value("number", v.is)
    [] a.as = "minutes" -> Value("minutes", v.is)

(* What makes the handler raise or return an error of its own.             *)
Fails(p, a, params) ==
  LET v == Get(p, params, a.default) IN
  \/ a.how = "needed" /\ ~Given(p, params)
  \/ a.how = "checked" /\ (~IsSet(p, params) \/ IsBlank(Str(v)))
  \/ /\ Passed(p, a, params)
     /\ \/ a.as = "number" /\ Given(p, params) /\ ~IsNumber(v)
        \/ a.as = "minutes" /\ Minutes(v.is) < 1
        \/ a.as = "list" /\ v.kind = "number"

Turned(t, params) ==
  CASE t = <<"database", "query">> -> ~IsReadonly(params["sql"].is) \/ IsDDL(params["sql"].is)
    [] t = <<"database", "execute_statement">> ->
         IsDDL(params["sql"].is) \/ IsReadonly(params["sql"].is)
    [] t[1] = "scm" ->
         ~IsTrue(Get("provider", params, Null)) \/ params["provider"].is \notin Providers
    [] OTHER -> FALSE

TurnedAway(t, params) ==
  LET args == Arguments(t, params) IN
  (\E p \in DOMAIN args : Fails(p, args[p], params)) \/ Turned(t, params)

HandedOn(t, params) ==
  LET args == Arguments(t, params)
      Read(p) == Get(p, params, args[p].default)
      passed == {p \in DOMAIN args : Passed(p, args[p], params) /\ ~LeftOut(args[p], Read(p))} IN
  [p \in passed |-> Converted(args[p], Read(p))]
=============================================================================
