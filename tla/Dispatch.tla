------------------------------ MODULE Dispatch ------------------------------
(***************************************************************************)
(* ToolDispatcher.dispatch (core/dispatcher.py): the one path from a tool  *)
(* call of the model to a module's execute().  Several calls are in flight *)
(* at once, one per session that is being answered, and share one audit    *)
(* log; a call can be cancelled wherever the coroutine awaits a module.    *)
(*                                                                         *)
(* The log is the sequence of the entries AuditLogger.log has accepted.    *)
(* An entry does not name the resource it decides: the field "slot" is     *)
(* there for the properties only.                                          *)
(***************************************************************************)
EXTENDS Naturals, Sequences

CONSTANTS Calls,          \* calls of dispatch()
          Tools,          \* tool names a call may ask for
          Registered,     \* those the registry knows
          Params,         \* params dicts: functions from names to values
          Values,         \* values of a parameter
          None,           \* the value of an absent parameter
          ResourceParam,  \* descriptor.resource_param of each tool
          Resources,      \* resource strings
          NoResource,     \* the empty string
          Str,            \* str(value)
          Contexts,       \* dicts resolve_conditions() may return
          Malformed,      \* what it returns when that is not a dict
          Verdict         \* PolicyEvaluator.evaluate, over a frozen store

Decisions == {"ALLOWED", "DENIED_EXPLICIT", "DENIED_IMPLICIT"}

Marks == {"policy", "__unknown_tool__", "__internal_error__",
          "__execute_error__", "__executed__"}

ASSUME ToolsAssumption ==
  /\ Registered \subseteq Tools
  /\ \A t \in Registered : Len(ResourceParam[t]) \in Nat

ASSUME ParamsAssumption ==
  \A t \in Registered, p \in Params :
    \A i \in 1..Len(ResourceParam[t]) :
      p[ResourceParam[t][i]] \in Values \cup {None}

ASSUME ResourcesAssumption ==
  /\ NoResource \in Resources
  /\ Str \in [Values -> Resources]

ASSUME VerdictAssumption ==
  /\ Malformed \notin Contexts
  /\ \A t \in Registered, r \in Resources, x \in Contexts :
       Verdict[t, r, x] \in Decisions \cup {"raise"}

VARIABLES pc,        \* where the coroutine of a call is
          tool,      \* tool_name of the call
          params,    \* params of the call
          context,   \* resolved_conditions
          todo,      \* resources still to be evaluated
          denied,    \* the flag of the evaluation loop
          outcome,   \* what the caller was given
          log,       \* entries the audit log has accepted
          alarms,    \* security events of the process log: refused writes
          executed   \* calls whose module.execute() was entered

vars == <<pc, tool, params, context, todo, denied, outcome, log, alarms,
          executed>>

PCs == {"idle", "resolving", "evaluating", "executing",
        "returned", "raised", "cancelled"}

Ended == {"returned", "raised", "cancelled"}

-----------------------------------------------------------------------------
(* The resources of a call: one for each resource parameter that is        *)
(* present, or the empty string when none is.  A slot is the position of   *)
(* the parameter in resource_param; slot 0 stands for the empty string.    *)
Present(t, p) ==
  {i \in 1..Len(ResourceParam[t]) : p[ResourceParam[t][i]] # None}

Slots(t, p) == IF Present(t, p) = {} THEN {0} ELSE Present(t, p)

ResourceAt(t, p, i) ==
  IF i = 0 THEN NoResource ELSE Str[p[ResourceParam[t][i]]]

SlotsOf(c) == Slots(tool[c], params[c])

VerdictOn(c, i) == Verdict[tool[c], ResourceAt(tool[c], params[c], i), context[c]]

Entry(c, m, d, i) == [call |-> c, mark |-> m, decision |-> d, slot |-> i]

(* Slot i of call c has an Allow decision in the audit log.                *)
Recorded(c, i) ==
  \E k \in DOMAIN log : log[k] = Entry(c, "policy", "ALLOWED", i)

Logged(c) == \E k \in DOMAIN log : log[k].call = c

Alarmed(c) == \E m \in Marks : <<c, m>> \in alarms

-----------------------------------------------------------------------------
Init ==
  /\ pc = [c \in Calls |-> "idle"]
  /\ tool = [c \in Calls |-> None]
  /\ params = [c \in Calls |-> None]
  /\ context = [c \in Calls |-> Malformed]
  /\ todo = [c \in Calls |-> {}]
  /\ denied = [c \in Calls |-> FALSE]
  /\ outcome = [c \in Calls |-> "none"]
  /\ log = <<>>
  /\ alarms = {}
  /\ executed = {}

(* _log_safe: the entry is in the log, or the write raised and a security  *)
(* event is on the process log.                                            *)
LogSafe(ok, e) ==
  IF ok THEN log' = Append(log, e) /\ UNCHANGED alarms
        ELSE alarms' = alarms \cup {<<e.call, e.mark>>} /\ UNCHANGED log

(* Slip: tells an unknown tool apart from a refused one.                   *)
ReturnTelling(c, value) ==
  /\ pc' = [pc EXCEPT ![c] = "returned"]
  /\ outcome' = [outcome EXCEPT ![c] = IF pc[c] = "idle" THEN "unknown" ELSE value]

Return(c, value) ==
  /\ pc' = [pc EXCEPT ![c] = "returned"]
  /\ outcome' = [outcome EXCEPT ![c] = value]

(* Step 1, the tool is not in the registry.                                *)
RejectUnknown(c, t, p) ==
  /\ pc[c] = "idle"
  /\ t \notin Registered
  /\ tool' = [tool EXCEPT ![c] = t]
  /\ params' = [params EXCEPT ![c] = p]
  /\ \E ok \in BOOLEAN :
       LogSafe(ok, Entry(c, "__unknown_tool__", "DENIED_IMPLICIT", 0))
  /\ Return(c, "failed")
  /\ UNCHANGED <<context, todo, denied, executed>>

(* Steps 1 to 3: the tool is known, its resources are extracted and        *)
(* resolve_conditions() is awaited.                                        *)
Start(c, t, p) ==
  /\ pc[c] = "idle"
  /\ t \in Registered
  /\ tool' = [tool EXCEPT ![c] = t]
  /\ params' = [params EXCEPT ![c] = p]
  /\ todo' = [todo EXCEPT ![c] = Slots(t, p)]
  /\ pc' = [pc EXCEPT ![c] = "resolving"]
  /\ UNCHANGED <<context, denied, outcome, log, alarms, executed>>

(* resolve_conditions() answers; nothing checks that it answers a dict.    *)
Resolve(c, x) ==
  /\ pc[c] = "resolving"
  /\ context' = [context EXCEPT ![c] = x]
  /\ pc' = [pc EXCEPT ![c] = "evaluating"]
  /\ UNCHANGED <<tool, params, todo, denied, outcome, log, alarms, executed>>

ResolveRaises(c) ==
  /\ pc[c] = "resolving"
  /\ \E ok \in BOOLEAN :
       LogSafe(ok, Entry(c, "__internal_error__", "DENIED_IMPLICIT", 0))
  /\ Return(c, "failed")
  /\ UNCHANGED <<tool, params, context, todo, denied, executed>>

-----------------------------------------------------------------------------
(* Slip: the resources are taken in any order.                             *)
AnySlot(c, i) == i \in todo[c]

(* Steps 4 and 5, one iteration of the loop: the resources are taken in    *)
(* the order of resource_param.                                            *)
NextSlot(c, i) == i \in todo[c] /\ \A j \in todo[c] : i <= j

(* Slip: the last resource decides.                                        *)
DeniedByLast(c, i, ok) == ~ok \/ VerdictOn(c, i) # "ALLOWED"

(* Slip: a refused audit write is only reported.                           *)
DeniedByPolicy(c, i, ok) == denied[c] \/ VerdictOn(c, i) # "ALLOWED"

StillDenied(c, i, ok) == denied[c] \/ ~ok \/ VerdictOn(c, i) # "ALLOWED"

(* Slip: the loop is left at the first denial.                             *)
TodoUntilDenial(c, i, ok) ==
  IF ok /\ VerdictOn(c, i) = "ALLOWED" THEN todo[c] \ {i} ELSE {}

(* A refused write leaves the loop, a denial does not.                     *)
StillTodo(c, i, ok) == IF ok THEN todo[c] \ {i} ELSE {}

Decide(c, i, ok) ==
  /\ pc[c] = "evaluating"
  /\ NextSlot(c, i)
  /\ context[c] # Malformed
  /\ VerdictOn(c, i) # "raise"
  /\ LogSafe(ok, Entry(c, "policy", VerdictOn(c, i), i))
  /\ denied' = [denied EXCEPT ![c] = StillDenied(c, i, ok)]
  /\ todo' = [todo EXCEPT ![c] = StillTodo(c, i, ok)]
  /\ UNCHANGED <<pc, tool, params, context, outcome, executed>>

(* The evaluator raises: one entry, and the loop is left.                  *)
EvaluateRaises(c, i) ==
  /\ pc[c] = "evaluating"
  /\ NextSlot(c, i)
  /\ context[c] # Malformed
  /\ VerdictOn(c, i) = "raise"
  /\ \E ok \in BOOLEAN :
       LogSafe(ok, Entry(c, "__internal_error__", "DENIED_IMPLICIT", i))
  /\ denied' = [denied EXCEPT ![c] = TRUE]
  /\ todo' = [todo EXCEPT ![c] = {}]
  /\ UNCHANGED <<pc, tool, params, context, outcome, executed>>

(* The context is not a dict: AuthorizationRequest refuses it, and so does *)
(* the AuditEntry built in the except clause, outside _log_safe's try.     *)
MalformedContext(c) ==
  /\ pc[c] = "evaluating"
  /\ todo[c] # {}
  /\ context[c] = Malformed
  /\ pc' = [pc EXCEPT ![c] = "raised"]
  /\ UNCHANGED <<tool, params, context, todo, denied, outcome, log, alarms,
                 executed>>

-----------------------------------------------------------------------------
(* Slip: a call whose audit write was refused waits for the log.           *)
DenyWhenRecorded(c) ==
  /\ pc[c] = "evaluating"
  /\ todo[c] = {}
  /\ denied[c]
  /\ ~Alarmed(c)
  /\ Return(c, "failed")
  /\ UNCHANGED <<tool, params, context, todo, denied, log, alarms, executed>>

(* Steps 6 and 7: any denial refuses the call.                             *)
Deny(c) ==
  /\ pc[c] = "evaluating"
  /\ todo[c] = {}
  /\ denied[c]
  /\ Return(c, "failed")
  /\ UNCHANGED <<tool, params, context, todo, denied, log, alarms, executed>>

(* Slip: the tool starts before the last resource is evaluated.            *)
ExecuteEarly(c) ==
  /\ pc[c] = "evaluating"
  /\ ~denied[c]
  /\ pc' = [pc EXCEPT ![c] = "executing"]
  /\ executed' = executed \cup {c}
  /\ UNCHANGED <<tool, params, context, todo, denied, outcome, log, alarms>>

(* Step 8: all resources are allowed, module.execute() is entered.         *)
Execute(c) ==
  /\ pc[c] = "evaluating"
  /\ todo[c] = {}
  /\ ~denied[c]
  /\ pc' = [pc EXCEPT ![c] = "executing"]
  /\ executed' = executed \cup {c}
  /\ UNCHANGED <<tool, params, context, todo, denied, outcome, log, alarms>>

(* Slip: the execution itself is not audited.                              *)
ExecuteReturnsQuietly(c) ==
  /\ pc[c] = "executing"
  /\ Return(c, "result")
  /\ UNCHANGED <<tool, params, context, todo, denied, log, alarms, executed>>

(* execute() answers; the result is returned even when the entry is lost.  *)
ExecuteReturns(c) ==
  /\ pc[c] = "executing"
  /\ \E ok \in BOOLEAN : LogSafe(ok, Entry(c, "__executed__", "ALLOWED", 0))
  /\ Return(c, "result")
  /\ UNCHANGED <<tool, params, context, todo, denied, executed>>

ExecuteRaises(c) ==
  /\ pc[c] = "executing"
  /\ \E ok \in BOOLEAN :
       LogSafe(ok, Entry(c, "__execute_error__", "DENIED_IMPLICIT", 0))
  /\ Return(c, "failed")
  /\ UNCHANGED <<tool, params, context, todo, denied, executed>>

(* CancelledError at one of the two awaits: no except clause catches it.   *)
Cancel(c) ==
  /\ pc[c] \in {"resolving", "executing"}
  /\ pc' = [pc EXCEPT ![c] = "cancelled"]
  /\ UNCHANGED <<tool, params, context, todo, denied, outcome, log, alarms,
                 executed>>

-----------------------------------------------------------------------------
Evaluate(c) ==
  \/ \E i \in todo[c], ok \in BOOLEAN : Decide(c, i, ok)
  \/ \E i \in todo[c] : EvaluateRaises(c, i)
  \/ MalformedContext(c)
  \/ Deny(c)
  \/ Execute(c)

Next ==
  \E c \in Calls :
    \/ \E t \in Tools, p \in Params : RejectUnknown(c, t, p) \/ Start(c, t, p)
    \/ \E x \in Contexts \cup {Malformed} : Resolve(c, x)
    \/ ResolveRaises(c)
    \/ Evaluate(c)
    \/ ExecuteReturns(c)
    \/ ExecuteRaises(c)
    \/ Cancel(c)

(* Nothing is awaited between resolve_conditions() and execute(): the      *)
(* evaluation runs to its end.  Modules may never answer.                  *)
Fairness == \A c \in Calls : WF_vars(Evaluate(c))

Spec == Init /\ [][Next]_vars
FairSpec == Spec /\ Fairness

-----------------------------------------------------------------------------
(* Type invariant.                                                         *)
TypeOK ==
  /\ pc \in [Calls -> PCs]
  /\ tool \in [Calls -> Tools \cup {None}]
  /\ params \in [Calls -> Params \cup {None}]
  /\ context \in [Calls -> Contexts \cup {Malformed}]
  /\ todo \in [Calls -> SUBSET Nat]
  /\ denied \in [Calls -> BOOLEAN]
  /\ outcome \in [Calls -> {"none", "failed", "result"}]
  /\ log \in Seq([call : Calls, mark : Marks, decision : Decisions, slot : Nat])
  /\ alarms \subseteq Calls \X Marks
  /\ executed \subseteq Calls

(* There is no bypass (dispatcher.py:38-40): when execute() has been       *)
(* entered for a call, the tool is a registered one, the policy allows     *)
(* every resource of the call under the resolved conditions, and the audit *)
(* log holds an Allow decision for each of them.                           *)
NoBypass ==
  \A c \in executed :
    /\ tool[c] \in Registered
    /\ \A i \in SlotsOf(c) : VerdictOn(c, i) = "ALLOWED" /\ Recorded(c, i)

(* Audit failure is fail-closed (dispatcher.py:66-71): a call one of whose *)
(* decisions could not be recorded is not executed and gets no result; only *)
(* what is written after execute() may be lost.                            *)
FailClosed ==
  \A c \in Calls :
    (\E m \in {"policy", "__unknown_tool__", "__internal_error__"} :
        <<c, m>> \in alarms)
      => c \notin executed /\ outcome[c] # "result"

(* A denial does not cut the record short (dispatcher.py:291-295): when a  *)
(* call that met no internal error and no failing write has been refused,  *)
(* the log holds the decision on every resource, not only the first denied *)
(* one.                                                                    *)
FullPicture ==
  \A c \in Calls :
    pc[c] = "returned" /\ tool[c] \in Registered /\ ~Alarmed(c)
    /\ ~(\E k \in DOMAIN log :
           log[k].call = c /\ log[k].mark = "__internal_error__")
      => \A i \in SlotsOf(c) :
           \E k \in DOMAIN log :
             log[k] = Entry(c, "policy", VerdictOn(c, i), i)

(* An audit entry does not say which resource it decides; whoever reads    *)
(* the log counts.  The entries of a call are therefore in the order of    *)
(* its resources, no resource before a decided one is missing, no resource *)
(* is decided twice, and nothing of the call follows its closing entry.    *)
TrailReadable ==
  \A l \in DOMAIN log :
    /\ \A k \in 1..(l - 1) :
         log[k].call = log[l].call =>
           /\ log[k].mark = "policy"
           /\ log[l].mark = "policy" => log[k].slot < log[l].slot
    /\ log[l].mark = "policy" =>
         \A i \in SlotsOf(log[l].call) :
           i < log[l].slot =>
             \E k \in 1..(l - 1) :
               log[k] = Entry(log[l].call, "policy", VerdictOn(log[l].call, i), i)

(* A result the caller is given is the result of an execution, and an      *)
(* execution that has ended left an entry of its own or, when that write   *)
(* was refused, a security event: no tool runs unnoticed unless the call   *)
(* is cancelled under it.                                                  *)
ExecutionNoticed ==
  \A c \in Calls :
    /\ outcome[c] = "result" => c \in executed
    /\ c \in executed /\ pc[c] = "returned" =>
         \E m \in {"__executed__", "__execute_error__"} :
           \/ <<c, m>> \in alarms
           \/ \E k \in DOMAIN log : log[k].call = c /\ log[k].mark = m

(* dispatcher.py:56-57: "Every outcome - allowed, denied, unknown-tool,    *)
(* internal error - produces an audit entry.  There is no silent dispatch  *)
(* path."  A call that has ended by itself is in the log, or the log has   *)
(* refused it and the process log says so.                                 *)
NoSilentDispatch ==
  \A c \in Calls :
    pc[c] \in {"returned", "raised"} => Logged(c) \/ Alarmed(c)

(* A call whose conditions are resolved is not left in the evaluation      *)
(* loop: it is refused, it fails, or the tool is started.                  *)
EvaluationEnds ==
  \A c \in Calls :
    pc[c] = "evaluating" ~> pc[c] \in Ended \cup {"executing"}

-----------------------------------------------------------------------------
(* The dispatcher implements the code gate: a call owes a decision for     *)
(* each of its resources, and an Allow entry in the log discharges one.    *)
GateStage ==
  [c \in Calls |->
     IF pc[c] = "idle" THEN "new"
     ELSE IF pc[c] = "executing" THEN "running"
     ELSE IF pc[c] \notin Ended THEN "pending"
     ELSE IF c \in executed THEN "ran" ELSE "refused"]

GateOwed ==
  [c \in Calls |->
     IF pc[c] # "idle" /\ tool[c] \in Registered THEN SlotsOf(c) ELSE {}]

GateDischarged == [c \in Calls |-> {i \in GateOwed[c] : Recorded(c, i)}]

AllSlots == UNION {Slots(t, p) : t \in Registered, p \in Params}

Gate == INSTANCE CodeGate WITH
  Obligations <- AllSlots, stage <- GateStage, owed <- GateOwed,
  discharged <- GateDischarged

(* Every step of the dispatcher is a step of the code gate or leaves it    *)
(* alone: no tool starts while a decision is owed.                         *)
ImplementsGate == Gate!Spec

(* What the log holds of a call is complete: each decision of a call that  *)
(* was refused, and the end of each execution; and the variables have their*)
(* types.                                                                  *)
RecordComplete == TypeOK /\ FullPicture /\ ExecutionNoticed

(* The log tells all that happened, in an order that can be read back.     *)
RecordFaithful == RecordComplete /\ TrailReadable
=============================================================================
