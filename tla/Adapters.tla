------------------------------ MODULE Adapters ------------------------------
(***************************************************************************)
(* One call of a module that hands it over to a backend.  These modules    *)
(* keep nothing between calls.  What can go wrong is that the conditions a *)
(* call is decided on, which resolve_conditions() reads from its           *)
(* parameters, and the arguments the backend gets, which the handler reads *)
(* from them once more and in another way, are not the same.               *)
(***************************************************************************)
EXTENDS AdapterTables

CONSTANT Asks \* tools with the parameters they are called with

(* What is asked of Asks: tools there are, numbers that are worth          *)
(* something, texts of tokens, and no parameter named "*", which is what   *)
(* list_dashboards names as its resource and hands on to nobody.           *)
WellFormed ==
  \A a \in Asks :
    /\ a.tool \in ToolNames
    /\ "*" \notin DOMAIN a.params
    /\ \A p \in DOMAIN a.params :
         /\ a.params[p].is \in Seq(STRING)
         /\ a.params[p].kind = "number" => IsNumber(a.params[p])

VARIABLES ask,       \* the tool and the parameters it is called with
          stage,     \* where the call is
          context,   \* the conditions it is decided on
          resources, \* the resources it is decided on
          sent,      \* what the backend was given
          reply

askVars == <<ask, stage, context, resources, sent, reply>>

AskInit ==
  /\ ask \in Asks
  /\ stage = "asked"
  /\ context = NoEntry
  /\ resources = {}
  /\ sent = NoEntry
  /\ reply = "none"

Answers(a) == stage' = "done" /\ reply' = a

ResolveAsk ==
  /\ stage = "asked"
  /\ \E how \in Resolutions(ask.tool, ask.params) :
       IF how = "resolved"
         THEN /\ context' = Conditions(ask.tool, ask.params)
              /\ resources' = Resources(ask.tool, ask.params)
              /\ stage' = "resolved"
              /\ UNCHANGED reply
         ELSE Answers("denied") /\ UNCHANGED <<context, resources>>
  /\ UNCHANGED <<ask, sent>>

Deny == stage = "resolved" /\ Answers("denied") /\ UNCHANGED <<ask, context, resources, sent>>

(* The policies allow the call; the handler goes on to the backend, or     *)
(* answers without it.                                                     *)
Execute ==
  /\ stage = "resolved"
  /\ IF TurnedAway(ask.tool, ask.params)
       THEN Answers("refused") /\ UNCHANGED sent
       ELSE stage' = "calling" /\ sent' = HandedOn(ask.tool, ask.params) /\ UNCHANGED reply
  /\ UNCHANGED <<ask, context, resources>>

(* The backend returns, raises, or is cancelled.                           *)
BackendAnswers ==
  /\ stage = "calling"
  /\ \E a \in {"done", "failed", "cancelled"} : Answers(a)
  /\ UNCHANGED <<ask, context, resources, sent>>

AskNext == ResolveAsk \/ Deny \/ Execute \/ BackendAnswers

AskSpec == AskInit /\ [][AskNext]_askVars

-----------------------------------------------------------------------------
(* The keys that name a parameter.                                         *)
KeysOf ==
  [email |-> {<<"email:Recipient", "to">>, <<"email:Subject", "subject">>,
              <<"email:Folder", "folder">>},
   calendar |-> {<<"calendar:CalendarId", "calendar_id">>},
   messaging |-> {<<"messaging:Channel", "channel">>},
   alerting |-> {<<"alerting:Severity", "severity">>, <<"alerting:AlertSource", "source">>},
   dashboard |-> {<<"dashboard:DashboardId", "dashboard_id">>},
   error_tracking |-> {<<"error_tracking:Project", "project">>},
   logging |-> {<<"logging:LogSource", "source">>, <<"logging:Severity", "level">>},
   metrics |-> {},
   vault |-> {<<"vault:SecretPath", "path">>},
   web_search |-> {<<"web_search:QueryDomain", "domain_filter">>},
   database |-> {<<"database:DatabaseName", "database">>},
   scm |-> {<<"scm:Owner", "owner">>}]

Called == stage \in {"calling", "done"} /\ reply \notin {"denied", "refused"}

(* A calendar that is not given at all is passed on as an empty text.      *)
Agrees(key, p) ==
  (p \in DOMAIN sent /\ (Given(p, ask.params) \/ sent[p] # Empty))
    => key \in DOMAIN context /\ Str(context[key]) = Str(sent[p])

IsNone(p) == Given(p, ask.params) /\ ask.params[p] = Null

(* read_inbox without a folder is decided on as "", the resource of a call *)
(* that names none, and reads "inbox": no other default parts the two.     *)
UnnamedInbox(p) ==
  ask.tool = <<"email", "read_inbox">> /\ p = "folder" /\ ~Given(p, ask.params)

(* Whatever the policies are, what they decide on is what is done.  A      *)
(* parameter that a condition key names reaches the backend as the value   *)
(* the key had.  One that names a resource reaches it as that resource,    *)
(* whether it was given or is a default of the handler; what neither is,   *)
(* does not reach it.  Both unless the parameter was given as None, and the*)
(* second but for the inbox.                                               *)
KeysAgree ==
  \A k \in KeysOf[ask.tool[1]] : Called /\ ~IsNone(k[2]) => Agrees(k[1], k[2])

ResourcesAgree ==
  Called => \A p \in Described(ask.tool).resource :
              \/ IsNone(p) \/ UnnamedInbox(p)
              \/ IF p \in DOMAIN sent THEN Str(sent[p]) \in resources ELSE ~Given(p, ask.params)

RepositoryAgrees ==
  (Called /\ ask.tool[1] = "scm" /\ "repo" \in DOMAIN sent)
    => context["scm:Repository"] = Text(sent["owner"].is \o <<"/">> \o sent["repo"].is)

DecidedIsDone == KeysAgree /\ ResourcesAgree /\ RepositoryAgrees

(* A call that keeps to the description of its tool reaches the backend    *)
(* with everything it gives, but for texts that are empty, an SQL          *)
(* statement of the wrong kind and a duration that is none.                *)
Conforms ==
  LET tool == Described(ask.tool)
      given == DOMAIN ask.params IN
  /\ tool.required \subseteq given
  /\ given \subseteq tool.required \cup tool.optional
  /\ \A p \in given : ask.params[p].kind = Kind(p) /\ ~IsBlank(ask.params[p])

Fit ==
  /\ "sql" \in DOMAIN ask.params =>
       LET sql == ask.params["sql"].is IN
       ~HasBareDDL(sql) /\ (BeginsWithSelect(sql) <=> ask.tool[2] = "query")
  /\ "duration" \in DOMAIN ask.params => Minutes(ask.params["duration"].is) > 0
  /\ "provider" \in DOMAIN ask.params => ask.params["provider"].is \in Providers

DescribedIsDone ==
  Conforms =>
    /\ Fit => reply # "refused"
    /\ Called => \A p \in DOMAIN ask.params \ {"provider"} :
                   p \in DOMAIN sent /\ sent[p].is = ask.params[p].is

(* What the query tool hands over begins with SELECT, what the other hands *)
(* over does not, and no word of a change to tables stands outside the     *)
(* literals of either.                                                     *)
StatementsSorted ==
  (Called /\ ask.tool[1] = "database")
    => LET sql == sent["sql"].is IN
       ~HasBareDDL(sql) /\ (BeginsWithSelect(sql) <=> ask.tool[2] = "query")
=============================================================================
