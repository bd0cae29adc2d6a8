------------------------------ MODULE Registry ------------------------------
(***************************************************************************)
(* ModuleRegistry (modules/registry.py): which module answers for a        *)
(* namespace and for a tool.  register() and discover() run on one thread, *)
(* but discover() runs the code of installed packages, as it loads,        *)
(* constructs and describes their modules, and that code may call either   *)
(* of the two on the same registry before discover() goes on.              *)
(***************************************************************************)
EXTENDS Naturals, Sequences, FiniteSets

CONSTANTS Classes,       \* classes of modules
          Namespaces, Tools,
          NamespaceOf,   \* what a class describes itself as
          ToolsOf,       \* the tools it lists
          Given,         \* classes whose instances are given to register()
          EntryPoints,   \* classes installed packages advertise
          NeedArguments, \* of which these cannot be constructed without
          MaxDiscovers   \* bound of the model: calls of discover()

ASSUME RegistryAssumption ==
  /\ "none" \notin Classes
  /\ NamespaceOf \in [Classes -> Namespaces]
  /\ ToolsOf \in [Classes -> Seq(Tools)]
  /\ Given \subseteq Classes
  /\ EntryPoints \subseteq Classes
  /\ MaxDiscovers \in Nat

(* An instance is known by its class and by the call of discover() that    *)
(* made it, 0 if it was given to register().                               *)
Modules == [class : Classes, by : 0..MaxDiscovers]
NoModule == [class |-> "none", by |-> 0]

VARIABLES namespaces,  \* _namespace_map, NoModule where there is no entry
          tools,       \* _tool_map, likewise
          discovered,  \* _discovered
          running,     \* calls of discover() under way, the innermost last
          calls,       \* how many there were
          done,        \* of which these ended well
          accepted,    \* modules register() took
          overtaken    \* of which these while a discover() was under way

registryVars == <<namespaces, tools, discovered, running, calls, done, accepted, overtaken>>

ToolSet(m) == {ToolsOf[m.class][i] : i \in DOMAIN ToolsOf[m.class]}

RepeatsATool(m) == Cardinality(ToolSet(m)) # Len(ToolsOf[m.class])

RegistryInit ==
  /\ namespaces = [n \in Namespaces |-> NoModule]
  /\ tools = [t \in Tools |-> NoModule]
  /\ discovered = FALSE
  /\ running = <<>>
  /\ calls = 0
  /\ done = {}
  /\ accepted = {}
  /\ overtaken = {}

Current == running[Len(running)]

(* Code that is not discover()'s own runs if no call of it is under way,   *)
(* or the innermost is at an entry point.                                  *)
OthersRun == running # <<>> => Current.left # {}

-----------------------------------------------------------------------------
(* The maps ns and ts with module m added.                                 *)
Collides(ns, ts, m) ==
  \/ ns[NamespaceOf[m.class]] # NoModule
  \/ RepeatsATool(m)
  \/ \E t \in ToolSet(m) : ts[t] # NoModule

WithNamespace(ns, m) == [ns EXCEPT ![NamespaceOf[m.class]] = m]
WithTools(ts, m) == [t \in Tools |-> IF t \in ToolSet(m) THEN m ELSE ts[t]]

(* A mutant of Register: what has been checked is committed at once.       *)
RegisterEagerly(c) ==
  LET m == [class |-> c, by |-> 0] IN
  /\ OthersRun
  /\ namespaces[NamespaceOf[c]] = NoModule
  /\ namespaces' = WithNamespace(namespaces, m)
  /\ tools' = IF Collides(namespaces, tools, m) THEN tools ELSE WithTools(tools, m)
  /\ accepted' = IF Collides(namespaces, tools, m) THEN accepted ELSE accepted \cup {m}
  /\ UNCHANGED <<discovered, running, calls, done, overtaken>>

(* register(module).  It raises, and changes nothing, if the module        *)
(* collides with another, or with itself.                                  *)
Register(c) ==
  LET m == [class |-> c, by |-> 0] IN
  /\ OthersRun
  /\ ~Collides(namespaces, tools, m)
  /\ namespaces' = WithNamespace(namespaces, m)
  /\ tools' = WithTools(tools, m)
  /\ accepted' = accepted \cup {m}
  /\ overtaken' = IF running = <<>> THEN overtaken ELSE overtaken \cup {m}
  /\ UNCHANGED <<discovered, running, calls, done>>

(* The same module registered again is taken, and nothing changes.         *)
RegisterAgain(c) ==
  /\ OthersRun
  /\ namespaces[NamespaceOf[c]] = [class |-> c, by |-> 0]
  /\ UNCHANGED registryVars

-----------------------------------------------------------------------------
(* A mutant of Discover: the entry points of every group are taken.        *)
DiscoverEveryGroup ==
  /\ OthersRun
  /\ ~discovered
  /\ calls < MaxDiscovers
  /\ calls' = calls + 1
  /\ running' = Append(running, [by |-> calls + 1, left |-> Classes,
                                 namespaces |-> namespaces, tools |-> tools])
  /\ UNCHANGED <<namespaces, tools, discovered, done, accepted, overtaken>>

(* A mutant of Discover: the copies start empty.                           *)
DiscoverFromNothing ==
  /\ OthersRun
  /\ ~discovered
  /\ calls < MaxDiscovers
  /\ calls' = calls + 1
  /\ running' = Append(running, [by |-> calls + 1, left |-> EntryPoints,
                                 namespaces |-> [n \in Namespaces |-> NoModule],
                                 tools |-> [t \in Tools |-> NoModule]])
  /\ UNCHANGED <<namespaces, tools, discovered, done, accepted, overtaken>>

(* discover(): what the entry points make is added to copies of the maps,  *)
(* which replace them at the end.                                          *)
Discover ==
  /\ OthersRun
  /\ ~discovered
  /\ calls < MaxDiscovers
  /\ calls' = calls + 1
  /\ running' = Append(running, [by |-> calls + 1, left |-> EntryPoints,
                                 namespaces |-> namespaces, tools |-> tools])
  /\ UNCHANGED <<namespaces, tools, discovered, done, accepted, overtaken>>

InnermostBecomes(frame) == running' = [running EXCEPT ![Len(running)] = frame]

InnermostEnds == running' = SubSeq(running, 1, Len(running) - 1)

(* An entry point whose class needs arguments is passed over.              *)
PassOver(c) ==
  /\ running # <<>>
  /\ c \in Current.left \cap NeedArguments
  /\ InnermostBecomes([Current EXCEPT !.left = @ \ {c}])
  /\ UNCHANGED <<namespaces, tools, discovered, calls, done, accepted, overtaken>>

(* A mutant of Stage: the copies are the maps themselves.                  *)
StageInPlace(c) ==
  /\ running # <<>>
  /\ c \in Current.left \ NeedArguments
  /\ LET m == [class |-> c, by |-> Current.by] IN
       /\ ~Collides(namespaces, tools, m)
       /\ namespaces' = WithNamespace(namespaces, m)
       /\ tools' = WithTools(tools, m)
       /\ InnermostBecomes([Current EXCEPT !.left = @ \ {c},
                                           !.namespaces = namespaces',
                                           !.tools = tools'])
  /\ UNCHANGED <<discovered, calls, done, accepted, overtaken>>

(* An instance is made and added to the copies, unless it collides.        *)
Stage(c) ==
  /\ running # <<>>
  /\ c \in Current.left \ NeedArguments
  /\ LET m == [class |-> c, by |-> Current.by] IN
       /\ ~Collides(Current.namespaces, Current.tools, m)
       /\ InnermostBecomes([Current EXCEPT !.left = @ \ {c},
                                           !.namespaces = WithNamespace(@, m),
                                           !.tools = WithTools(@, m)])
  /\ UNCHANGED <<namespaces, tools, discovered, calls, done, accepted, overtaken>>

(* An entry point cannot be loaded, is not a module, raises when it is     *)
(* constructed or described, or collides: discover() raises.               *)
Fail ==
  /\ running # <<>>
  /\ Current.left # {}
  /\ InnermostEnds
  /\ UNCHANGED <<namespaces, tools, discovered, calls, done, accepted, overtaken>>

Swap ==
  /\ running # <<>>
  /\ Current.left = {}
  /\ namespaces' = Current.namespaces
  /\ tools' = Current.tools
  /\ discovered' = TRUE
  /\ done' = done \cup {Current.by}
  /\ InnermostEnds
  /\ UNCHANGED <<calls, accepted, overtaken>>

RegistryNext ==
  \/ \E c \in Given : Register(c) \/ RegisterAgain(c)
  \/ Discover
  \/ \E c \in EntryPoints : PassOver(c) \/ Stage(c)
  \/ Fail \/ Swap

RegistrySpec == RegistryInit /\ [][RegistryNext]_registryVars

-----------------------------------------------------------------------------
(* The maps ns and ts agree: a module that has a namespace has all of its  *)
(* tools, and nobody else has any of them; a module that has a tool has    *)
(* its namespace, and lists the tool.                                      *)
Agreeing(ns, ts) ==
  /\ \A n \in Namespaces : ns[n] # NoModule =>
       NamespaceOf[ns[n].class] = n /\ \A t \in ToolSet(ns[n]) : ts[t] = ns[n]
  /\ \A t \in Tools : ts[t] # NoModule =>
       t \in ToolSet(ts[t]) /\ ns[NamespaceOf[ts[t].class]] = ts[t]

NamespaceMaps == [Namespaces -> Modules \cup {NoModule}]
ToolMaps == [Tools -> Modules \cup {NoModule}]

Frames == [by : 1..MaxDiscovers, left : SUBSET EntryPoints,
           namespaces : NamespaceMaps, tools : ToolMaps]

(* What the variables hold.                                                *)
RegistryTypes ==
  /\ namespaces \in NamespaceMaps
  /\ tools \in ToolMaps
  /\ discovered \in BOOLEAN
  /\ calls \in 0..MaxDiscovers
  /\ done \subseteq 1..MaxDiscovers
  /\ accepted \subseteq [class : Given, by : {0}]
  /\ overtaken \subseteq accepted
  /\ running \in Seq(Frames)

(* "Either all tools are committed or none": no failure, no call in        *)
(* between and no collision leaves a module with some of its tools, a tool *)
(* with two modules, or a tool whose module is not in the registry.        *)
Agree == Agreeing(namespaces, tools)

(* discover() is all or nothing: no module of a call that has failed, or   *)
(* that is still under way, can be reached.                                *)
NoneOfAFailed ==
  \A m \in {namespaces[n] : n \in Namespaces} \cup {tools[t] : t \in Tools} :
    m # NoModule => m.by \in {0} \cup done

(* What register() has taken stays in the registry, unless discover() was  *)
(* under way when it took it.                                              *)
NothingLost ==
  \A m \in accepted \ overtaken : namespaces[NamespaceOf[m.class]] = m

(* The same with no exception.                                             *)
NothingEverLost == \A m \in accepted : namespaces[NamespaceOf[m.class]] = m

(* "Subsequent calls raise RuntimeError to prevent double-instantiation":  *)
(* discover() succeeds once.                                               *)
DiscoversOnce == Cardinality(done) <= 1

(* The two maps agree, and hold what register() accepted                   *)
(* (registry.py:87-88); and the variables have their types.                *)
MapsSound == RegistryTypes /\ Agree /\ NothingLost
=============================================================================
