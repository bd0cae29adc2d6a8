---------------------------- MODULE StateProofs -----------------------------
(***************************************************************************)
(* What the core keeps: the policies (PolicyStore, Evaluator), the modules *)
(* (Registry) and the sessions (Sessions).  The three share nothing here.  *)
(*                                                                         *)
(* For every set of policies, every request and whatever the patterns      *)
(* match: the store is loaded whole or not at all, an evaluation of a      *)
(* frozen store sees all of it, and a decision depends neither on how the  *)
(* statements are spread over policies nor on what the context leaves out. *)
(*                                                                         *)
(* The two maps of the registry agree at all times, whatever modules there *)
(* are and however calls of register() and discover() are nested; none of  *)
(* them shows a module of a discover() that failed, or loses a module that *)
(* was registered while none was under way.                                *)
(*                                                                         *)
(* For any number of sessions and threads, any limits and any TTL: the     *)
(* manager is never over capacity, the order of the dict is the order of   *)
(* last use, the eviction callback is called once per session, and the     *)
(* history of a session is the newest part of what it was given.           *)
(***************************************************************************)
EXTENDS PolicyStore, Registry, Sessions, SequenceTheorems, FiniteSetTheorems, TLAPS

-----------------------------------------------------------------------------
(* The policies.                                                           *)
(* What the properties rest on: no store is frozen while it is loaded, and *)
(* the cache that freeze() has built is still the whole store.             *)
Staged ==
  /\ setup = "loading" => ~frozen
  /\ files \subseteq Policies \cup {Broken}
  /\ staged \subseteq Policies

CacheWhole == frozen \/ setup = "freezing" => cached = Statements

ReadersSound ==
  /\ \A r \in Readers : flag[r] => frozen
  /\ DOMAIN flag = Readers
  /\ DOMAIN seen = Readers
  /\ DOMAIN pc = Readers

StoreInv == Staged /\ AllOrNothing /\ CacheWhole /\ ReadersSound /\ DecidedByAll

LEMMA StoreInvInit == StoreInit => StoreInv
BY DEF StoreInit, StoreInv, Staged, AllOrNothing, CacheWhole, ReadersSound, DecidedByAll,
       Statements

(* What a reader does leaves the store alone, what the writer does leaves  *)
(* the readers alone.                                                      *)
LEMMA WriterFrame ==
  ASSUME UNCHANGED reader, ReadersSound, DecidedByAll,
         frozen => frozen' /\ policies' = policies,
         policies \subseteq policies'
  PROVE  ReadersSound' /\ DecidedByAll'
<1>1. UNCHANGED <<pc, flag, seen>>
  BY DEF reader
<1>2. ReadersSound'
  BY <1>1 DEF ReadersSound
<1>3. Statements \subseteq Statements'
  BY DEF Statements
<1>4. frozen => Statements' = Statements
  BY DEF Statements
<1>5. DecidedByAll'
  BY <1>1, <1>3, <1>4 DEF DecidedByAll, ReadersSound
<1> QED BY <1>2, <1>5

LEMMA ReaderFrame ==
  ASSUME UNCHANGED writer, StoreInv
  PROVE  Staged' /\ AllOrNothing' /\ CacheWhole' /\ Statements' = Statements
BY DEF writer, StoreInv, Staged, AllOrNothing, CacheWhole, Statements

LEMMA StoreInvNext == StoreInv /\ [StoreNext]_storeVars => StoreInv'
<1> SUFFICES ASSUME StoreInv, [StoreNext]_storeVars PROVE StoreInv'
  OBVIOUS
<1> USE DEF StoreInv
<1>1. ASSUME NEW d \in Dirs, Load(d) PROVE StoreInv'
  <2>1. d \subseteq Policies \cup {Broken}
    BY StoreAssumption
  <2>2. Staged' /\ AllOrNothing' /\ CacheWhole'
    BY <1>1, <2>1 DEF Load, Staged, AllOrNothing, CacheWhole, Statements
  <2> QED BY <1>1, <2>2, WriterFrame DEF Load
<1>2. ASSUME NEW f \in files, LoadFile(f) PROVE StoreInv'
  <2>1. Staged' /\ AllOrNothing' /\ CacheWhole'
    BY <1>2 DEF LoadFile, Staged, AllOrNothing, CacheWhole, Statements
  <2> QED BY <1>2, <2>1, WriterFrame DEF LoadFile
<1>3. CASE LoadRaises
  <2>1. Staged' /\ AllOrNothing' /\ CacheWhole'
    BY <1>3 DEF LoadRaises, Staged, AllOrNothing, CacheWhole, Statements
  <2> QED BY <1>3, <2>1, WriterFrame DEF LoadRaises
<1>4. CASE Commit
  <2>1. Staged' /\ AllOrNothing'
    BY <1>4 DEF Commit, Staged, AllOrNothing
  <2>2. ~frozen /\ CacheWhole'
    BY <1>4 DEF Commit, Staged, CacheWhole
  <2> QED BY <1>4, <2>1, <2>2, WriterFrame DEF Commit
<1>5. ASSUME NEW p \in Policies, AddPolicy(p) PROVE StoreInv'
  <2>1. Staged' /\ AllOrNothing' /\ CacheWhole'
    BY <1>5 DEF AddPolicy, Staged, AllOrNothing, CacheWhole
  <2> QED BY <1>5, <2>1, WriterFrame DEF AddPolicy
<1>6. CASE Refused
  <2>1. Staged' /\ AllOrNothing' /\ CacheWhole'
    BY <1>6 DEF Refused, Staged, AllOrNothing, CacheWhole, Statements
  <2> QED BY <1>6, <2>1, WriterFrame DEF Refused
<1>7. CASE FreezeCache
  <2>1. Staged' /\ AllOrNothing' /\ CacheWhole'
    BY <1>7 DEF FreezeCache, Staged, AllOrNothing, CacheWhole, Statements
  <2> QED BY <1>7, <2>1, WriterFrame DEF FreezeCache
<1>8. CASE Freeze
  <2>1. Staged' /\ AllOrNothing' /\ CacheWhole'
    BY <1>8 DEF Freeze, Staged, AllOrNothing, CacheWhole, Statements
  <2> QED BY <1>8, <2>1, WriterFrame DEF Freeze
<1>9. ASSUME NEW r \in Readers, NEW q \in Asked, Ask(r, q) PROVE StoreInv'
  <2>1. UNCHANGED writer
    BY <1>9 DEF Ask
  <2>2. ReadersSound' /\ DecidedByAll'
    BY <1>9, <2>1, ReaderFrame DEF Ask, ReadersSound, DecidedByAll, writer
  <2> QED BY <2>1, <2>2, ReaderFrame
<1>10. ASSUME NEW r \in Readers, Read(r) PROVE StoreInv'
  <2>1. UNCHANGED writer
    BY <1>10 DEF Read
  <2>2. ReadersSound' /\ DecidedByAll'
    BY <1>10, <2>1, ReaderFrame
       DEF Read, ReadersSound, DecidedByAll, CacheWhole, writer
  <2> QED BY <2>1, <2>2, ReaderFrame
<1>11. ASSUME NEW r \in Readers, Decide(r) PROVE StoreInv'
  <2>1. UNCHANGED writer
    BY <1>11 DEF Decide
  <2>2. ReadersSound' /\ DecidedByAll'
    BY <1>11, <2>1, ReaderFrame DEF Decide, ReadersSound, DecidedByAll, writer
  <2> QED BY <2>1, <2>2, ReaderFrame
<1>12. CASE UNCHANGED storeVars
  <2>1. UNCHANGED writer /\ UNCHANGED reader
    BY <1>12 DEF storeVars, writer, reader
  <2> QED BY <2>1, ReaderFrame, WriterFrame DEF writer
<1> QED
  BY <1>1, <1>2, <1>3, <1>4, <1>5, <1>6, <1>7, <1>8, <1>9, <1>10, <1>11, <1>12
     DEF StoreNext

(* policy.py:65-67: a load() that is refused, or is still reading, has     *)
(* changed nothing.                                                        *)
THEOREM AllOrNothingHolds == StoreSpec => []AllOrNothing
<1>1. StoreInv => AllOrNothing
  BY DEF StoreInv
<1> QED BY StoreInvInit, StoreInvNext, <1>1, PTL DEF StoreSpec

(* policy.py:30 and :130: an evaluation of a frozen store is made by all   *)
(* its policies, one of a store that is not frozen by none that load() may *)
(* still reject.                                                           *)
THEOREM DecidedByAllHolds == StoreSpec => []DecidedByAll
<1>1. StoreInv => DecidedByAll
  BY DEF StoreInv
<1> QED BY StoreInvInit, StoreInvNext, <1>1, PTL DEF StoreSpec

(* evaluator.py:281-313: a store decides what the strictest of its         *)
(* policies decide on their own.                                           *)
LEMMA Combine == PoliciesCombine
<1> SUFFICES ASSUME NEW q \in Requests
             PROVE  Evaluate(Statements, q) =
                      IF "DENIED_EXPLICIT" \in {Evaluate(p, q) : p \in policies}
                      THEN "DENIED_EXPLICIT"
                      ELSE IF "ALLOWED" \in {Evaluate(p, q) : p \in policies}
                      THEN "ALLOWED" ELSE "DENIED_IMPLICIT"
  BY DEF PoliciesCombine
<1> DEFINE By(S, e) == \E s \in S : s.effect = e /\ Applies(s, q)
<1>1. \A S : Evaluate(S, q) = IF By(S, "Deny") THEN "DENIED_EXPLICIT"
                              ELSE IF By(S, "Allow") THEN "ALLOWED"
                              ELSE "DENIED_IMPLICIT"
  BY Zenon DEF Evaluate
<1>2. \A e : By(Statements, e) <=> \E p \in policies : By(p, e)
  BY Zenon DEF Statements
<1> HIDE DEF By
<1> QED BY <1>1, <1>2

THEOREM PoliciesCombineHolds == StoreSpec => []PoliciesCombine
BY Combine, PTL

(* evaluator.py:184-185: what a request leaves out of its context never    *)
(* grants anything, where no Deny statement has a condition.               *)
LEMMA SatisfiedMonotone ==
  ASSUME NEW condition, NEW c1, NEW c2,
         DOMAIN c1 \subseteq DOMAIN c2,
         \A k \in DOMAIN c1 : c1[k] = c2[k],
         Satisfied(condition, c1)
  PROVE  Satisfied(condition, c2)
BY DEF Satisfied

LEMMA ContextGrants == ContextGrantsNothing
<1> SUFFICES ASSUME NEW q1 \in Requests, NEW q2 \in Requests,
                    q1.action = q2.action, q1.resource = q2.resource,
                    DOMAIN q1.context \subseteq DOMAIN q2.context,
                    \A k \in DOMAIN q1.context : q1.context[k] = q2.context[k],
                    \A s \in Statements :
                      s.effect = "Deny" => s.condition = NoCondition,
                    Evaluate(Statements, q1) = "ALLOWED"
             PROVE  Evaluate(Statements, q2) = "ALLOWED"
  BY DEF ContextGrantsNothing
<1>1. \A s : Matches(s, q1) <=> Matches(s, q2)
  BY DEF Matches
<1>2. \A s : Applies(s, q1) => Applies(s, q2)
  BY <1>1, SatisfiedMonotone DEF Applies
<1>3. \A s \in Statements :
        s.effect = "Deny" => (Applies(s, q1) <=> Applies(s, q2))
  BY <1>1 DEF Applies, Satisfied
<1>4. ~\E s \in Statements : s.effect = "Deny" /\ Applies(s, q1)
  BY DEF Evaluate
<1>5. PICK s \in Statements : s.effect = "Allow" /\ Applies(s, q1)
  BY <1>4 DEF Evaluate
<1> QED BY <1>2, <1>3, <1>4, <1>5 DEF Evaluate

THEOREM ContextGrantsNothingHolds == StoreSpec => []ContextGrantsNothing
BY ContextGrants, PTL
-----------------------------------------------------------------------------
(* The types, of what the writer keeps and of what the readers keep.       *)
WriterTypes ==
  /\ policies \subseteq Policies
  /\ frozen \in BOOLEAN
  /\ cached = NoCache \/ cached \subseteq UNION Policies
  /\ setup \in {"idle", "loading", "raised", "freezing"}
  /\ files \subseteq Policies \cup {Broken}
  /\ staged \subseteq Policies
  /\ before \subseteq Policies

Decisions == {"none", "ALLOWED", "DENIED_EXPLICIT", "DENIED_IMPLICIT"}

ReaderTypes ==
  /\ pc \in [Readers -> {"idle", "asked", "read", "decided"}]
  /\ request \in [Readers -> Requests \cup {NoRequest}]
  /\ flag \in [Readers -> BOOLEAN]
  /\ seen \in [Readers -> SUBSET UNION Policies]
  /\ decision \in [Readers -> Decisions]

LEMMA WriterTyped == WriterTypes /\ [StoreNext]_storeVars => WriterTypes'
<1> SUFFICES ASSUME WriterTypes, [StoreNext]_storeVars PROVE WriterTypes'
  OBVIOUS
<1>1. Statements \subseteq UNION Policies
  BY DEF WriterTypes, Statements
<1>2. ASSUME NEW d \in Dirs, Load(d) PROVE WriterTypes'
  BY <1>2, StoreAssumption DEF Load, WriterTypes
<1>3. ASSUME NEW f \in files, LoadFile(f) PROVE WriterTypes'
  BY <1>3 DEF LoadFile, WriterTypes
<1>4. CASE LoadRaises \/ Refused
  BY <1>4 DEF LoadRaises, Refused, WriterTypes
<1>5. CASE Commit
  BY <1>5 DEF Commit, WriterTypes
<1>6. ASSUME NEW p \in Policies, AddPolicy(p) PROVE WriterTypes'
  BY <1>6 DEF AddPolicy, WriterTypes
<1>7. CASE FreezeCache
  BY <1>1, <1>7 DEF FreezeCache, WriterTypes
<1>8. CASE Freeze
  BY <1>8 DEF Freeze, WriterTypes
<1>9. CASE UNCHANGED writer
  BY <1>9 DEF writer, WriterTypes
<1> QED
  BY <1>2, <1>3, <1>4, <1>5, <1>6, <1>7, <1>8, <1>9
     DEF StoreNext, Ask, Read, Decide, storeVars, writer

LEMMA ReaderTyped ==
  WriterTypes /\ ReaderTypes /\ StoreInv /\ [StoreNext]_storeVars => ReaderTypes'
<1> SUFFICES ASSUME WriterTypes, ReaderTypes, StoreInv, [StoreNext]_storeVars PROVE ReaderTypes'
  OBVIOUS
<1>1. ASSUME NEW r \in Readers, NEW q \in Asked, Ask(r, q) PROVE ReaderTypes'
  <2>1. frozen \in BOOLEAN /\ q \in Requests
    BY StoreAssumption DEF WriterTypes
  <2>2. flag' \in [Readers -> BOOLEAN]
    BY <1>1, <2>1, Zenon DEF Ask, ReaderTypes
  <2> QED BY <1>1, <2>1, <2>2 DEF Ask, ReaderTypes
<1>2. ASSUME NEW r \in Readers, Read(r) PROVE ReaderTypes'
  <2>1. Statements \subseteq UNION Policies
    BY DEF WriterTypes, Statements
  <2>2. flag[r] => cached = Statements
    BY DEF StoreInv, ReadersSound, CacheWhole
  <2> QED BY <1>2, <2>1, <2>2 DEF Read, ReaderTypes, writer
<1>3. ASSUME NEW r \in Readers, Decide(r) PROVE ReaderTypes'
  <2>1. Evaluate(seen[r], request[r]) \in Decisions
    BY DEF Evaluate, Decisions
  <2> QED BY <1>3, <2>1 DEF Decide, ReaderTypes, writer
<1>4. CASE UNCHANGED reader
  BY <1>4 DEF reader, ReaderTypes
<1> QED
  BY <1>1, <1>2, <1>3, <1>4
     DEF StoreNext, Load, LoadFile, LoadRaises, Commit, AddPolicy, Refused, FreezeCache,
         Freeze, storeVars, reader

LEMMA TypesAre == WriterTypes /\ ReaderTypes <=> StoreTypes
BY DEF WriterTypes, ReaderTypes, StoreTypes, Decisions

(* What readers and a load that fails leave of the store, for every set of *)
(* policies and directories, and however many readers there are.           *)
THEOREM StoreWholeHolds == StoreSpec => []StoreWhole
<1>1. StoreInit => WriterTypes /\ ReaderTypes
  BY DEF StoreInit, WriterTypes, ReaderTypes, Decisions
<1>2. WriterTypes /\ ReaderTypes /\ StoreInv => StoreWhole
  BY TypesAre DEF StoreInv, StoreWhole
<1> QED BY <1>1, <1>2, StoreInvInit, StoreInvNext, WriterTyped, ReaderTyped, PTL DEF StoreSpec

-----------------------------------------------------------------------------
(* The modules.                                                            *)
(* What a pair of maps, the live one or a copy, is worth when the calls in *)
(* d are the ones whose modules it may show.                               *)
Shows(ns, ts, d) ==
  /\ \A n \in Namespaces : ns[n] # NoModule => ns[n].by \in {0} \cup d
  /\ \A t \in Tools : ts[t] # NoModule => ts[t].by \in {0} \cup d

Keeps(ns, ms) == \A m \in ms : ns[NamespaceOf[m.class]] = m

Good(ns, ts, d, ms) == Agreeing(ns, ts) /\ Shows(ns, ts, d) /\ Keeps(ns, ms)

RegistryInv ==
  /\ RegistryTypes
  /\ Good(namespaces, tools, done, accepted \ overtaken)
  /\ \A i \in DOMAIN running :
       Good(running[i].namespaces, running[i].tools, done \cup {running[i].by},
            accepted \ overtaken)

-----------------------------------------------------------------------------
(* A module that does not collide can be added to a pair of maps: they     *)
(* still agree, show it besides, and keep what they kept.                  *)
LEMMA Adding ==
  ASSUME NEW ns \in NamespaceMaps, NEW ts \in ToolMaps, NEW d, NEW ms,
         NEW m \in Modules,
         ~Collides(ns, ts, m), Good(ns, ts, d, ms), m.by \in {0} \cup d,
         ms \subseteq Modules
  PROVE  /\ WithNamespace(ns, m) \in NamespaceMaps
         /\ WithTools(ts, m) \in ToolMaps
         /\ Good(WithNamespace(ns, m), WithTools(ts, m), d, ms)
         /\ WithNamespace(ns, m)[NamespaceOf[m.class]] = m
<1> DEFINE N == NamespaceOf[m.class]
           ns2 == WithNamespace(ns, m)
           ts2 == WithTools(ts, m)
<1>1. \A x \in Modules : x # NoModule
  BY RegistryAssumption DEF Modules, NoModule
<1>2. N \in Namespaces
  BY RegistryAssumption DEF Modules
<1>3. /\ ns[N] = NoModule
      /\ \A t \in ToolSet(m) : ts[t] = NoModule
  BY DEF Collides
<1>4. ns2 \in NamespaceMaps /\ ts2 \in ToolMaps
  BY <1>2 DEF WithNamespace, WithTools, NamespaceMaps, ToolMaps
<1>5. \A n \in Namespaces : ns2[n] = IF n = N THEN m ELSE ns[n]
  BY <1>2 DEF WithNamespace, NamespaceMaps
<1>6. \A t \in Tools : ts2[t] = IF t \in ToolSet(m) THEN m ELSE ts[t]
  BY DEF WithTools
<1>7. ToolSet(m) \subseteq Tools
  <2>1. ToolsOf[m.class] \in Seq(Tools)
    BY RegistryAssumption DEF Modules
  <2>2. \A i \in DOMAIN ToolsOf[m.class] : ToolsOf[m.class][i] \in Tools
    BY <2>1, ElementOfSeq, LenProperties
  <2> QED BY <2>2 DEF ToolSet
<1>8. \A x \in Modules : ToolSet(x) \subseteq Tools /\ NamespaceOf[x.class] \in Namespaces
  <2> TAKE x \in Modules
  <2>1. x.class \in Classes
    BY DEF Modules
  <2>2. ToolsOf[x.class] \in Seq(Tools) /\ NamespaceOf[x.class] \in Namespaces
    BY <2>1, RegistryAssumption
  <2>3. \A i \in DOMAIN ToolsOf[x.class] : ToolsOf[x.class][i] \in Tools
    BY <2>2, ElementOfSeq, LenProperties
  <2> QED BY <2>2, <2>3 DEF ToolSet
<1> HIDE DEF N, ns2, ts2
<1>9. Agreeing(ns2, ts2)
  <2>1. ASSUME NEW n \in Namespaces, ns2[n] # NoModule
        PROVE  NamespaceOf[ns2[n].class] = n /\ \A t \in ToolSet(ns2[n]) : ts2[t] = ns2[n]
    <3>1. CASE n = N
      BY <3>1, <1>5, <1>6, <1>7 DEF N
    <3>2. CASE n # N
      <4>1. ns2[n] = ns[n] /\ ns[n] # NoModule /\ ns[n] \in Modules
        BY <3>2, <1>5, <2>1 DEF NamespaceMaps
      <4>2. NamespaceOf[ns[n].class] = n /\ \A t \in ToolSet(ns[n]) : ts[t] = ns[n]
        BY <4>1 DEF Good, Agreeing
      <4>3. \A t \in ToolSet(ns[n]) : t \in Tools /\ t \notin ToolSet(m)
        BY <4>1, <4>2, <1>3, <1>8
      <4> QED BY <4>1, <4>2, <4>3, <1>6
    <3> QED BY <3>1, <3>2
  <2>2. ASSUME NEW t \in Tools, ts2[t] # NoModule
        PROVE  t \in ToolSet(ts2[t]) /\ ns2[NamespaceOf[ts2[t].class]] = ts2[t]
    <3>1. CASE t \in ToolSet(m)
      BY <3>1, <1>5, <1>6, <1>2 DEF N
    <3>2. CASE t \notin ToolSet(m)
      <4>1. ts2[t] = ts[t] /\ ts[t] # NoModule /\ ts[t] \in Modules
        BY <3>2, <1>6, <2>2 DEF ToolMaps
      <4>2. t \in ToolSet(ts[t]) /\ ns[NamespaceOf[ts[t].class]] = ts[t]
        BY <4>1 DEF Good, Agreeing
      <4>3. NamespaceOf[ts[t].class] # N /\ NamespaceOf[ts[t].class] \in Namespaces
        BY <4>1, <4>2, <1>3, <1>8
      <4> QED BY <4>1, <4>2, <4>3, <1>5
    <3> QED BY <3>1, <3>2
  <2> QED BY <2>1, <2>2 DEF Agreeing
<1>10. Shows(ns2, ts2, d)
  BY <1>5, <1>6 DEF Good, Shows
<1>11. Keeps(ns2, ms)
  <2> SUFFICES ASSUME NEW x \in ms PROVE ns2[NamespaceOf[x.class]] = x
    BY DEF Keeps
  <2>1. ns[NamespaceOf[x.class]] = x /\ NamespaceOf[x.class] \in Namespaces
    BY <1>8 DEF Good, Keeps
  <2>2. CASE NamespaceOf[x.class] # N
    BY <2>1, <2>2, <1>5
  <2>3. CASE NamespaceOf[x.class] = N
    BY <2>1, <2>3, <1>1, <1>3
  <2> QED BY <2>2, <2>3
<1>12. ns2[N] = m
  BY <1>5, <1>2
<1> QED BY <1>4, <1>9, <1>10, <1>11, <1>12 DEF Good, N, ns2, ts2

-----------------------------------------------------------------------------
LEMMA RegistryInvInit == RegistryInit => RegistryInv
<1> SUFFICES ASSUME RegistryInit PROVE RegistryInv
  OBVIOUS
<1>1. RegistryTypes
  <2>1. running \in Seq(Frames)
    BY EmptySeq DEF RegistryInit
  <2>2. namespaces \in NamespaceMaps /\ tools \in ToolMaps
    BY DEF RegistryInit, NamespaceMaps, ToolMaps
  <2>3. discovered \in BOOLEAN
    BY Zenon DEF RegistryInit
  <2>4. calls = 0
    BY DEF RegistryInit
  <2>5. calls \in 0..MaxDiscovers
    BY <2>4, RegistryAssumption
  <2>6. /\ done \subseteq 1..MaxDiscovers
        /\ accepted \subseteq [class : Given, by : {0}]
        /\ overtaken \subseteq accepted
    BY DEF RegistryInit
  <2> QED BY <2>1, <2>2, <2>3, <2>5, <2>6 DEF RegistryTypes
<1>2. Good(namespaces, tools, done, accepted \ overtaken)
  BY DEF RegistryInit, Good, Agreeing, Shows, Keeps
<1>3. DOMAIN running = {}
  BY DEF RegistryInit
<1> QED BY <1>1, <1>2, <1>3 DEF RegistryInv

(* The frames of running, one at a time.                                   *)
LEMMA FrameTypes ==
  ASSUME RegistryInv, NEW i \in DOMAIN running
  PROVE  /\ running[i] \in Frames
         /\ Good(running[i].namespaces, running[i].tools, done \cup {running[i].by},
                 accepted \ overtaken)
<1>1. running \in Seq(Frames)
  BY DEF RegistryInv, RegistryTypes
<1> QED BY <1>1, ElementOfSeq, LenProperties DEF RegistryInv

LEMMA InnermostIn ==
  ASSUME RegistryInv, running # <<>>
  PROVE  Len(running) \in DOMAIN running /\ Len(running) \in Nat \ {0}
<1>1. running \in Seq(Frames)
  BY DEF RegistryInv, RegistryTypes
<1> QED BY <1>1, EmptySeq, LenProperties

(* A step that leaves the maps, what they may show and what they keep as   *)
(* they are, and changes running to something good, preserves Inv.         *)
LEMMA RunningOnly ==
  ASSUME RegistryInv, UNCHANGED <<namespaces, tools, done, accepted, overtaken>>,
         discovered' \in BOOLEAN, calls' \in 0..MaxDiscovers,
         running' \in Seq(Frames),
         \A i \in DOMAIN running' :
           Good(running'[i].namespaces, running'[i].tools, done \cup {running'[i].by},
                accepted \ overtaken)
  PROVE  RegistryInv'
<1>1. RegistryTypes'
  BY DEF RegistryInv, RegistryTypes
<1>2. Good(namespaces, tools, done, accepted \ overtaken)'
  BY DEF RegistryInv, Good, Agreeing, Shows, Keeps
<1>3. \A i \in DOMAIN running' :
        Good(running[i].namespaces, running[i].tools, done \cup {running[i].by},
             accepted \ overtaken)'
  BY DEF Good, Agreeing, Shows, Keeps
<1> QED BY <1>1, <1>2, <1>3 DEF RegistryInv

LEMMA GoodMonotone ==
  ASSUME NEW ns, NEW ts, NEW d, NEW d2, NEW ms, NEW ms2,
         Good(ns, ts, d, ms), d \subseteq d2, ms2 \subseteq ms
  PROVE  Good(ns, ts, d2, ms2)
BY DEF Good, Shows, Keeps

LEMMA RegisterInv ==
  ASSUME RegistryInv, NEW c \in Given, Register(c)
  PROVE  RegistryInv'
<1> DEFINE m == [class |-> c, by |-> 0]
           ms == accepted \ overtaken
<1>1. m \in Modules /\ m.by = 0 /\ m.class = c
  BY RegistryAssumption DEF Modules
<1>2. ms \subseteq Modules
  BY RegistryAssumption DEF RegistryInv, RegistryTypes, Modules
<1>3. /\ namespaces' \in NamespaceMaps
      /\ tools' \in ToolMaps
      /\ Good(namespaces', tools', done, ms)
      /\ namespaces'[NamespaceOf[m.class]] = m
  <2>1. ~Collides(namespaces, tools, m)
    BY DEF Register
  <2>2. Good(namespaces, tools, done, ms) /\ namespaces \in NamespaceMaps /\ tools \in ToolMaps
    BY DEF RegistryInv, RegistryTypes
  <2>3. namespaces' = WithNamespace(namespaces, m) /\ tools' = WithTools(tools, m)
    BY DEF Register
  <2>4. m.by \in {0} \cup done
    BY <1>1
  <2> HIDE DEF m, ms
  <2>5. /\ WithNamespace(namespaces, m) \in NamespaceMaps
        /\ WithTools(tools, m) \in ToolMaps
        /\ Good(WithNamespace(namespaces, m), WithTools(tools, m), done, ms)
        /\ WithNamespace(namespaces, m)[NamespaceOf[m.class]] = m
    BY <1>1, <1>2, <2>1, <2>2, <2>4, Adding
  <2> QED BY <2>3, <2>5
<1>4. /\ done' = done /\ running' = running /\ calls' = calls /\ discovered' = discovered
      /\ accepted' = accepted \cup {m}
  BY DEF Register
<1>5. overtaken' = IF running = <<>> THEN overtaken ELSE overtaken \cup {m}
  BY DEF Register
<1>6. RegistryTypes'
  <2>1. accepted' \subseteq [class : Given, by : {0}] /\ overtaken' \subseteq accepted'
    BY <1>4, <1>5 DEF RegistryInv, RegistryTypes
  <2> QED BY <2>1, <1>3, <1>4 DEF RegistryInv, RegistryTypes
<1>7. Good(namespaces', tools', done', accepted' \ overtaken')
  BY <1>3, <1>4, <1>5 DEF Good, Keeps
<1>8. \A i \in DOMAIN running' :
        Good(running'[i].namespaces, running'[i].tools, done' \cup {running'[i].by},
             accepted' \ overtaken')
  <2>1. CASE running = <<>>
    BY <2>1, <1>4
  <2>2. CASE running # <<>>
    <3>1. accepted' \ overtaken' \subseteq ms
      BY <2>2, <1>4, <1>5
    <3>2. \A i \in DOMAIN running :
            Good(running[i].namespaces, running[i].tools, done \cup {running[i].by}, ms)
      BY DEF RegistryInv
    <3> QED BY <3>1, <3>2, <1>4, GoodMonotone
  <2> QED BY <2>1, <2>2
<1> QED BY <1>6, <1>7, <1>8 DEF RegistryInv

LEMMA DiscoverInv == RegistryInv /\ Discover => RegistryInv'
<1> SUFFICES ASSUME RegistryInv, Discover PROVE RegistryInv'
  OBVIOUS
<1> DEFINE f == [by |-> calls + 1, left |-> EntryPoints,
                 namespaces |-> namespaces, tools |-> tools]
           ms == accepted \ overtaken
<1>1. running \in Seq(Frames) /\ calls \in 0..MaxDiscovers /\ calls < MaxDiscovers
  BY DEF RegistryInv, RegistryTypes, Discover
<1>2. f \in Frames
  BY <1>1, RegistryAssumption DEF RegistryInv, RegistryTypes, Frames
<1>3. running' = Append(running, f) /\ calls' = calls + 1
  BY DEF Discover
<1>4. UNCHANGED <<namespaces, tools, discovered, done, accepted, overtaken>>
  BY DEF Discover
<1>5. Good(f.namespaces, f.tools, done \cup {f.by}, ms)
  <2>1. Good(namespaces, tools, done, ms)
    BY DEF RegistryInv
  <2> QED BY <2>1, GoodMonotone
<1>6. \A i \in DOMAIN running :
        Good(running[i].namespaces, running[i].tools, done \cup {running[i].by}, ms)
  BY DEF RegistryInv
<1> HIDE DEF f, ms
<1>7. running' \in Seq(Frames)
  BY <1>1, <1>2, <1>3
<1>8. \A i \in DOMAIN running' :
        (i \in DOMAIN running /\ running'[i] = running[i]) \/ running'[i] = f
  BY <1>1, <1>2, <1>3
<1>9. \A i \in DOMAIN running' :
        Good(running'[i].namespaces, running'[i].tools, done \cup {running'[i].by}, ms)
  BY <1>5, <1>6, <1>8
<1>10. calls' \in 0..MaxDiscovers /\ discovered' \in BOOLEAN
  <2>1. calls' \in 0..MaxDiscovers
    BY <1>1, <1>3, RegistryAssumption
  <2>2. discovered' \in BOOLEAN
    BY <1>4, Zenon DEF RegistryInv, RegistryTypes
  <2> QED BY <2>1, <2>2
<1> QED BY <1>4, <1>7, <1>9, <1>10, RunningOnly DEF ms

(* A step of the innermost call, which becomes frame g.                    *)
LEMMA InnermostInv ==
  ASSUME RegistryInv, running # <<>>, NEW g \in Frames,
         InnermostBecomes(g),
         Good(g.namespaces, g.tools, done \cup {g.by}, accepted \ overtaken),
         UNCHANGED <<namespaces, tools, discovered, calls, done, accepted, overtaken>>
  PROVE  RegistryInv'
<1>1. running \in Seq(Frames) /\ Len(running) \in DOMAIN running
  BY InnermostIn DEF RegistryInv, RegistryTypes
<1>2. running' = [running EXCEPT ![Len(running)] = g]
  BY DEF InnermostBecomes
<1>3. running' \in Seq(Frames)
  BY <1>1, <1>2
<1>4. \A i \in DOMAIN running' :
        (i \in DOMAIN running /\ running'[i] = running[i]) \/ running'[i] = g
  BY <1>1, <1>2
<1>5. \A i \in DOMAIN running' :
        Good(running'[i].namespaces, running'[i].tools, done \cup {running'[i].by},
             accepted \ overtaken)
  BY <1>4 DEF RegistryInv
<1>6. discovered' \in BOOLEAN
  BY Zenon DEF RegistryInv, RegistryTypes
<1>7. calls' \in 0..MaxDiscovers
  BY DEF RegistryInv, RegistryTypes
<1> QED BY <1>3, <1>5, <1>6, <1>7, RunningOnly

LEMMA PassOverInv ==
  ASSUME RegistryInv, NEW c \in EntryPoints, PassOver(c)
  PROVE  RegistryInv'
<1> DEFINE g == [Current EXCEPT !.left = @ \ {c}]
<1>1. running # <<>> /\ InnermostBecomes(g)
  BY DEF PassOver
<1>2. /\ Current \in Frames
      /\ Good(Current.namespaces, Current.tools, done \cup {Current.by}, accepted \ overtaken)
  BY <1>1, InnermostIn, FrameTypes DEF Current
<1>3. /\ g \in Frames
      /\ g.namespaces = Current.namespaces /\ g.tools = Current.tools /\ g.by = Current.by
  BY <1>2 DEF Frames
<1>4. UNCHANGED <<namespaces, tools, discovered, calls, done, accepted, overtaken>>
  BY DEF PassOver
<1> HIDE DEF g
<1> QED BY <1>1, <1>2, <1>3, <1>4, InnermostInv

LEMMA StageInv ==
  ASSUME RegistryInv, NEW c \in EntryPoints, Stage(c)
  PROVE  RegistryInv'
<1> DEFINE m == [class |-> c, by |-> Current.by]
           ms == accepted \ overtaken
           d == done \cup {Current.by}
           g == [Current EXCEPT !.left = @ \ {c},
                                !.namespaces = WithNamespace(@, m),
                                !.tools = WithTools(@, m)]
<1>1. running # <<>> /\ InnermostBecomes(g) /\ ~Collides(Current.namespaces, Current.tools, m)
  BY DEF Stage
<1>2. Current \in Frames /\ Good(Current.namespaces, Current.tools, d, ms)
  BY <1>1, InnermostIn, FrameTypes DEF Current
<1>3. m \in Modules /\ m.by \in {0} \cup d
  BY <1>2, RegistryAssumption DEF Frames, Modules
<1>4. ms \subseteq Modules
  BY RegistryAssumption DEF RegistryInv, RegistryTypes, Modules
<1>5. Current.namespaces \in NamespaceMaps /\ Current.tools \in ToolMaps
  BY <1>2 DEF Frames
<1>6. UNCHANGED <<namespaces, tools, discovered, calls, done, accepted, overtaken>>
  BY DEF Stage
<1>7. /\ WithNamespace(Current.namespaces, m) \in NamespaceMaps
      /\ WithTools(Current.tools, m) \in ToolMaps
      /\ Good(WithNamespace(Current.namespaces, m), WithTools(Current.tools, m), d, ms)
  <2> HIDE DEF m, ms, d
  <2> QED BY <1>1, <1>2, <1>3, <1>4, <1>5, Adding
<1>8. /\ g \in Frames
      /\ g.namespaces = WithNamespace(Current.namespaces, m)
      /\ g.tools = WithTools(Current.tools, m)
      /\ g.by = Current.by
  <2> HIDE DEF m
  <2> QED BY <1>2, <1>7 DEF Frames
<1>9. Good(g.namespaces, g.tools, done \cup {g.by}, accepted \ overtaken)
  BY <1>7, <1>8
<1> HIDE DEF g
<1> QED BY <1>1, <1>6, <1>8, <1>9, InnermostInv

(* What is left when the innermost call ends.                              *)
LEMMA EndsLeaves ==
  ASSUME RegistryInv, running # <<>>, InnermostEnds
  PROVE  /\ running' \in Seq(Frames)
         /\ \A i \in DOMAIN running' : i \in DOMAIN running /\ running'[i] = running[i]
<1>1. running \in Seq(Frames) /\ Len(running) \in Nat \ {0}
  BY InnermostIn DEF RegistryInv, RegistryTypes
<1> QED BY <1>1, SubSeqProperties DEF InnermostEnds

LEMMA FailInv == RegistryInv /\ Fail => RegistryInv'
<1> SUFFICES ASSUME RegistryInv, Fail PROVE RegistryInv'
  OBVIOUS
<1>1. /\ running' \in Seq(Frames)
      /\ \A i \in DOMAIN running' : i \in DOMAIN running /\ running'[i] = running[i]
  BY EndsLeaves DEF Fail
<1>2. \A i \in DOMAIN running' :
        Good(running'[i].namespaces, running'[i].tools, done \cup {running'[i].by},
             accepted \ overtaken)
  BY <1>1 DEF RegistryInv
<1>3. UNCHANGED <<namespaces, tools, discovered, calls, done, accepted, overtaken>>
  BY DEF Fail
<1>4. discovered' \in BOOLEAN
  BY <1>3, Zenon DEF RegistryInv, RegistryTypes
<1>5. calls' \in 0..MaxDiscovers
  BY <1>3 DEF RegistryInv, RegistryTypes
<1> QED BY <1>1, <1>2, <1>3, <1>4, <1>5, RunningOnly

LEMMA SwapInv == RegistryInv /\ Swap => RegistryInv'
<1> SUFFICES ASSUME RegistryInv, Swap PROVE RegistryInv'
  OBVIOUS
<1> DEFINE ms == accepted \ overtaken
<1>1. /\ running' \in Seq(Frames)
      /\ \A i \in DOMAIN running' : i \in DOMAIN running /\ running'[i] = running[i]
  BY EndsLeaves DEF Swap
<1>2. Current \in Frames /\ Good(Current.namespaces, Current.tools, done \cup {Current.by}, ms)
  BY InnermostIn, FrameTypes DEF Current, Swap
<1>3. /\ namespaces' = Current.namespaces /\ tools' = Current.tools
      /\ done' = done \cup {Current.by}
      /\ UNCHANGED <<calls, accepted, overtaken>>
  BY DEF Swap
<1>4. RegistryTypes'
  <2>1. discovered' \in BOOLEAN
    BY Zenon DEF Swap
  <2>2. namespaces' \in NamespaceMaps /\ tools' \in ToolMaps /\ Current.by \in 1..MaxDiscovers
    BY <1>2, <1>3 DEF Frames
  <2> QED BY <1>1, <1>3, <2>1, <2>2 DEF RegistryInv, RegistryTypes
<1>5. \A i \in DOMAIN running :
        Good(running[i].namespaces, running[i].tools, done \cup {running[i].by}, ms)
  BY DEF RegistryInv
<1>6. \A i \in DOMAIN running' :
        Good(running'[i].namespaces, running'[i].tools, done' \cup {running'[i].by}, ms)
  BY <1>1, <1>3, <1>5, GoodMonotone
<1> QED BY <1>2, <1>3, <1>4, <1>6 DEF RegistryInv

LEMMA RegistryInvNext == RegistryInv /\ [RegistryNext]_registryVars => RegistryInv'
<1> SUFFICES ASSUME RegistryInv, [RegistryNext]_registryVars PROVE RegistryInv'
  OBVIOUS
<1>1. CASE UNCHANGED registryVars
  <2>1. UNCHANGED <<namespaces, tools, discovered, running, calls, done, accepted, overtaken>>
    BY <1>1 DEF registryVars
  <2>2. discovered' \in BOOLEAN
    BY <2>1, Zenon DEF RegistryInv, RegistryTypes
  <2>3. running' \in Seq(Frames) /\ calls' \in 0..MaxDiscovers
    BY <2>1 DEF RegistryInv, RegistryTypes
  <2>4. \A i \in DOMAIN running' :
          Good(running'[i].namespaces, running'[i].tools, done \cup {running'[i].by},
               accepted \ overtaken)
    BY <2>1 DEF RegistryInv
  <2> QED BY <2>1, <2>2, <2>3, <2>4, RunningOnly
<1>2. ASSUME NEW c \in Given, Register(c) PROVE RegistryInv'
  BY <1>2, RegisterInv
<1>3. ASSUME NEW c \in Given, RegisterAgain(c) PROVE RegistryInv'
  BY <1>1, <1>3 DEF RegisterAgain
<1>4. CASE Discover
  BY <1>4, DiscoverInv
<1>5. ASSUME NEW c \in EntryPoints, PassOver(c) PROVE RegistryInv'
  BY <1>5, PassOverInv
<1>6. ASSUME NEW c \in EntryPoints, Stage(c) PROVE RegistryInv'
  BY <1>6, StageInv
<1>7. CASE Fail
  BY <1>7, FailInv
<1>8. CASE Swap
  BY <1>8, SwapInv
<1> QED BY <1>1, <1>2, <1>3, <1>4, <1>5, <1>6, <1>7, <1>8 DEF RegistryNext

(* Every call of register() and discover(), nested ones too, leaves the    *)
(* maps good.                                                              *)
THEOREM RegistryInvariance == RegistrySpec => []RegistryInv
BY RegistryInvInit, RegistryInvNext, PTL DEF RegistrySpec

(* The variables hold what they should.                                    *)
THEOREM RegistryTypesHold == RegistrySpec => []RegistryTypes
<1>1. RegistryInv => RegistryTypes
  BY DEF RegistryInv
<1> QED BY <1>1, RegistryInvariance, PTL

(* A module is in the registry with its namespace and all of its tools, or *)
(* not at all, and no tool has two modules.                                *)
THEOREM MapsAgree == RegistrySpec => []Agree
<1>1. RegistryInv => Agree
  BY DEF RegistryInv, Good, Agree
<1> QED BY <1>1, RegistryInvariance, PTL

(* Nothing a failed or unfinished discover() made can be reached.          *)
THEOREM DiscoverIsAtomic == RegistrySpec => []NoneOfAFailed
<1>1. RegistryInv => NoneOfAFailed
  BY DEF RegistryInv, Good, Shows, NoneOfAFailed
<1> QED BY <1>1, RegistryInvariance, PTL

(* What was registered while no discover() was under way stays.            *)
THEOREM RegisteredStays == RegistrySpec => []NothingLost
<1>1. RegistryInv => NothingLost
  BY DEF RegistryInv, Good, Keeps, NothingLost
<1> QED BY <1>1, RegistryInvariance, PTL

(* The three together.                                                     *)
THEOREM MapsSoundHolds == RegistrySpec => []MapsSound
<1>1. RegistryTypes /\ Agree /\ NothingLost => MapsSound
  BY DEF MapsSound
<1> QED BY <1>1, RegistryTypesHold, MapsAgree, RegisteredStays, PTL

-----------------------------------------------------------------------------
(* The sessions.                                                           *)
(* The invariant: every set of sessions in play is finite, and the four    *)
(* properties rest on each other only through the types and the order.     *)
IInv ==
  /\ TypeOK
  /\ IsFiniteSet(tracked)
  /\ Capacity
  /\ OrderIsAge
  /\ ReleasedOnce
  /\ HistoryIsSuffix

-----------------------------------------------------------------------------
(* Sessions that leave an order leave an order.                            *)
LEMMA OrderWithout ==
  ASSUME NEW T, NEW R \in SUBSET T, IsOrder(T, older)
  PROVE  IsOrder(R, {p \in older : p[1] \in R /\ p[2] \in R})
  BY DEF IsOrder

(* Moving a session to the end of what is left gives an order again.       *)
LEMMA OrderMoved ==
  ASSUME NEW R \in SUBSET tracked, NEW s, IsOrder(tracked, older)
  PROVE  IsOrder(R \cup {s}, MovedToEnd(s, R))
  <1> DEFINE o == {p \in older : p[1] \in R \ {s} /\ p[2] \in R \ {s}}
             e == {<<r, s>> : r \in R \ {s}}
  <1>1. IsOrder(R \ {s}, o)
    BY OrderWithout
  <1>2. MovedToEnd(s, R) = o \cup e
    BY DEF MovedToEnd
  <1>3. \A r, u : <<r, u>> \in e <=> r \in R \ {s} /\ u = s
    OBVIOUS
  <1>4. e \subseteq (R \cup {s}) \X (R \cup {s})
    OBVIOUS
  <1> HIDE DEF o, e
  <1> QED
    BY <1>1, <1>2, <1>3, <1>4 DEF IsOrder

(* The oldest are older still when the youngest is stamped with the        *)
(* clock.                                                                  *)
LEMMA AgeMoved ==
  ASSUME TypeOK, OrderIsAge, NEW R \in SUBSET tracked, NEW s \in Ids,
         clock' = clock, tracked' = R \cup {s}, older' = MovedToEnd(s, R),
         lastAccessed' = [lastAccessed EXCEPT ![s] = clock]
  PROVE  OrderIsAge'
  <1>1. IsOrder(tracked', older')
    BY OrderMoved DEF OrderIsAge
  <1>2. /\ lastAccessed'[s] = clock
        /\ \A r \in Ids \ {s} : lastAccessed'[r] = lastAccessed[r]
    BY DEF TypeOK
  <1>3. \A r \in tracked' : lastAccessed'[r] <= clock'
    BY <1>2 DEF OrderIsAge, TypeOK
  <1>4. ASSUME NEW p \in older'
        PROVE  lastAccessed'[p[1]] <= lastAccessed'[p[2]]
    <2>1. CASE p \in older /\ p[1] \in R \ {s} /\ p[2] \in R \ {s}
      BY <1>2, <2>1 DEF OrderIsAge, TypeOK
    <2>2. CASE \E r \in R \ {s} : p = <<r, s>>
      <3>1. PICK r \in R \ {s} : p = <<r, s>>
        BY <2>2
      <3>2. lastAccessed'[r] <= clock
        BY <1>3, <3>1
      <3> QED
        BY <1>2, <3>1, <3>2
    <2> QED
      BY <1>4, <2>1, <2>2 DEF MovedToEnd
  <1> QED
    BY <1>1, <1>3, <1>4 DEF OrderIsAge

LEMMA AgeWithout ==
  ASSUME TypeOK, OrderIsAge, NEW gone, clock' = clock,
         tracked' = tracked \ gone, older' = Without(gone),
         lastAccessed' = lastAccessed
  PROVE  OrderIsAge'
  <1>1. older' = {p \in older : p[1] \in tracked' /\ p[2] \in tracked'}
    BY DEF Without, OrderIsAge, IsOrder
  <1>2. IsOrder(tracked', older')
    BY <1>1, OrderWithout DEF OrderIsAge
  <1> QED
    BY <1>1, <1>2 DEF OrderIsAge

(* Each session that goes is released once more, no other is.              *)
LEMMA ReleasedByEvict ==
  ASSUME TypeOK, ReleasedOnce, NEW gone \in SUBSET tracked, Evict(gone),
         used \subseteq used', used' \subseteq Ids,
         tracked' = (tracked \ gone) \cup (used' \ used)
  PROVE  ReleasedOnce' /\ released' \in [Ids -> Nat]
  BY DEF TypeOK, ReleasedOnce, Evict

(* Appending and trimming keep the newest messages, without a gap.         *)
LEMMA NewestIsSuffix ==
  ASSUME NEW n \in Nat, NEW q \in Seq(Nat),
         \A i \in DOMAIN q : q[i] = n - Len(q) + i,
         Len(q) >= IF n < MaxMessages THEN n ELSE MaxMessages
  PROVE  /\ Newest(q) \in Seq(Nat)
         /\ \A i \in DOMAIN Newest(q) : Newest(q)[i] = n - Len(Newest(q)) + i
         /\ Len(Newest(q)) >= IF n < MaxMessages THEN n ELSE MaxMessages
  <1>1. MaxMessages \in Nat \ {0} /\ Len(q) \in Nat
    BY LimitsAssumption
  <1>2. CASE Len(q) > MaxMessages
    <2> DEFINE m == Len(q) - MaxMessages + 1
    <2>1. m \in 1..Len(q) /\ Newest(q) = SubSeq(q, m, Len(q))
      BY <1>1, <1>2 DEF Newest
    <2>2. /\ Newest(q) \in Seq(Nat)
          /\ Len(Newest(q)) = MaxMessages
          /\ \A i \in 1..MaxMessages : Newest(q)[i] = q[m + i - 1]
      BY <1>1, <1>2, <2>1
    <2>3. \A i \in 1..MaxMessages : m + i - 1 \in 1..Len(q)
      BY <1>1, <1>2
    <2>4. \A i \in 1..MaxMessages : q[m + i - 1] = n - Len(q) + (m + i - 1)
      BY <2>3
    <2>5. ASSUME NEW i \in 1..MaxMessages
          PROVE  Newest(q)[i] = n - MaxMessages + i
      <3>1. Newest(q)[i] = n - Len(q) + (m + i - 1)
        BY <2>2, <2>4
      <3>2. n - Len(q) + (m + i - 1) = n - MaxMessages + i
        BY <1>1
      <3> QED
        BY <3>1, <3>2
    <2>6. DOMAIN Newest(q) = 1..MaxMessages
      BY <2>2
    <2>7. MaxMessages >= IF n < MaxMessages THEN n ELSE MaxMessages
      BY <1>1
    <2> QED
      BY <2>2, <2>5, <2>6, <2>7
  <1>3. CASE ~(Len(q) > MaxMessages)
    BY <1>3 DEF Newest
  <1> QED
    BY <1>2, <1>3

LEMMA InitIInv == Init => IInv
  BY FS_EmptySet, LimitsAssumption, NoIdAssumption
  DEF Init, IInv, TypeOK, Capacity, OrderIsAge, IsOrder, ReleasedOnce, HistoryIsSuffix

(* The set of live sessions is a finite part of the tracked ones.          *)
LEMMA LiveIsPart ==
  ASSUME IInv
  PROVE  /\ Live \subseteq tracked /\ Expired \subseteq tracked
         /\ Live = tracked \ Expired
  BY DEF Live, Expired

LEMMA PartFits ==
  ASSUME IInv, NEW T \in SUBSET tracked
  PROVE  IsFiniteSet(T) /\ Cardinality(T) <= MaxSessions /\ Cardinality(T) \in Nat
  BY FS_Subset, FS_CardinalityType, LimitsAssumption DEF IInv, Capacity

LEMMA CreateStep ==
  ASSUME IInv, NEW s \in Ids, Create(s)
  PROVE  IInv'
  <1>1. PICK V \in SUBSET Live :
          /\ Victims(V)
          /\ Evict(Expired \cup V)
          /\ tracked' = (Live \ V) \cup {s}
          /\ older' = MovedToEnd(s, Live \ V)
    BY DEF Create
  <1>2. s \notin tracked /\ Live \ V \in SUBSET tracked
    BY LiveIsPart DEF Create, IInv, TypeOK
  <1>3. /\ IsFiniteSet(tracked')
        /\ Cardinality(tracked') = Cardinality(Live \ V) + 1
    BY <1>1, <1>2, PartFits, FS_AddElement
  <1>4. Capacity'
    <2>1. Cardinality(Live \ V) < MaxSessions /\ Cardinality(Live \ V) \in Nat
      BY <1>1, <1>2, PartFits DEF Victims
    <2> QED
      BY <1>3, <2>1, LimitsAssumption DEF Capacity
  <1>5. OrderIsAge'
    BY <1>1, <1>2, AgeMoved DEF Create, IInv
  <1>6. ReleasedOnce' /\ released' \in [Ids -> Nat]
    <2>1. Expired \cup V \in SUBSET tracked
      BY LiveIsPart
    <2>2. tracked' = (tracked \ (Expired \cup V)) \cup (used' \ used)
      BY <1>1, LiveIsPart DEF Create
    <2>3. used \subseteq used' /\ used' \subseteq Ids
      BY DEF Create, IInv, TypeOK
    <2> QED
      BY <1>1, <2>1, <2>2, <2>3, ReleasedByEvict DEF IInv
  <1>7. older' \subseteq Ids \X Ids
    BY <1>1 DEF MovedToEnd, Live, IInv, TypeOK
  <1>8. TypeOK'
    BY <1>1, <1>2, <1>6, <1>7 DEF Create, IInv, TypeOK
  <1>9. HistoryIsSuffix'
    BY DEF Create, IInv, HistoryIsSuffix
  <1> QED
    BY <1>3, <1>4, <1>5, <1>6, <1>8, <1>9 DEF IInv

LEMMA GetFoundStep ==
  ASSUME IInv, NEW s \in Ids, GetFound(s)
  PROVE  IInv'
  <1>1. tracked' = Live /\ Live \cup {s} = Live /\ Live \in SUBSET tracked
    BY LiveIsPart DEF GetFound
  <1>2. IsFiniteSet(tracked') /\ Capacity'
    BY <1>1, PartFits DEF Capacity
  <1>3. OrderIsAge'
    BY <1>1, AgeMoved DEF GetFound, IInv
  <1>4. ReleasedOnce' /\ released' \in [Ids -> Nat]
    BY <1>1, LiveIsPart, ReleasedByEvict DEF GetFound, IInv, TypeOK
  <1>5. TypeOK'
    <2>1. older' \subseteq Ids \X Ids
      BY DEF GetFound, MovedToEnd, Live, IInv, TypeOK
    <2>2. tracked' \subseteq used' /\ used' \subseteq Ids /\ closed' \subseteq used'
      BY <1>1 DEF GetFound, IInv, TypeOK
    <2>3. lastAccessed' \in [Ids -> Nat]
      BY DEF GetFound, IInv, TypeOK
    <2> QED
      BY <1>4, <2>1, <2>2, <2>3 DEF GetFound, IInv, TypeOK
  <1>6. HistoryIsSuffix'
    BY DEF GetFound, IInv, HistoryIsSuffix
  <1> QED
    BY <1>2, <1>3, <1>4, <1>5, <1>6 DEF IInv

(* Steps that only take sessions out.                                      *)
LEMMA EvictStep ==
  ASSUME IInv, NEW gone \in SUBSET tracked, Evict(gone),
         tracked' = tracked \ gone, older' = Without(gone), closed' \subseteq used,
         UNCHANGED <<clock, lastAccessed, messages, added, appending, used>>
  PROVE  IInv'
  <1>1. IsFiniteSet(tracked') /\ Capacity'
    BY PartFits DEF Capacity
  <1>2. OrderIsAge'
    BY AgeWithout DEF IInv
  <1>3. ReleasedOnce' /\ released' \in [Ids -> Nat]
    BY ReleasedByEvict DEF IInv, TypeOK
  <1>4. TypeOK'
    BY <1>3 DEF Without, IInv, TypeOK
  <1>5. HistoryIsSuffix'
    BY DEF IInv, HistoryIsSuffix
  <1> QED
    BY <1>1, <1>2, <1>3, <1>4, <1>5 DEF IInv

LEMMA AddMessageStep ==
  ASSUME IInv, NEW t \in Threads, NEW s \in Ids, AddMessage(t, s)
  PROVE  IInv'
  <1>1. tracked' = tracked /\ tracked = tracked \cup {s} /\ s \in tracked
    BY DEF AddMessage
  <1>2. OrderIsAge'
    BY <1>1, AgeMoved DEF AddMessage, IInv
  <1>3. TypeOK'
    BY <1>1 DEF AddMessage, MovedToEnd, IInv, TypeOK
  <1>4. IsFiniteSet(tracked') /\ Capacity' /\ ReleasedOnce' /\ HistoryIsSuffix'
    BY DEF AddMessage, IInv, Capacity, ReleasedOnce, HistoryIsSuffix
  <1> QED
    BY <1>2, <1>3, <1>4 DEF IInv

LEMMA AppendMessageStep ==
  ASSUME IInv, NEW t \in Threads, NEW trim \in BOOLEAN, AppendMessage(t, trim)
  PROVE  IInv'
  <1> DEFINE s == appending[t]
             n == added[s] + 1
             q == Append(messages[s], n)
             kept == IF trim THEN Newest(q) ELSE q
  <1>1. s \in Ids /\ n \in Nat /\ messages[s] \in Seq(Nat) /\ q \in Seq(Nat)
    BY DEF AppendMessage, IInv, TypeOK
  <1>2. /\ messages' = [messages EXCEPT ![s] = kept]
        /\ added' = [added EXCEPT ![s] = n]
    BY DEF AppendMessage
  <1>3. /\ Len(q) = Len(messages[s]) + 1 /\ DOMAIN q = 1..Len(q)
        /\ DOMAIN messages[s] = 1..Len(messages[s])
        /\ \A i \in DOMAIN messages[s] : q[i] = messages[s][i]
        /\ q[Len(q)] = n /\ Len(messages[s]) \in Nat
    BY <1>1
  <1>4. /\ \A i \in DOMAIN messages[s] : messages[s][i] = added[s] - Len(messages[s]) + i
        /\ Len(messages[s]) >= IF added[s] < MaxMessages THEN added[s] ELSE MaxMessages
        /\ added[s] \in Nat
    BY <1>1 DEF IInv, HistoryIsSuffix, TypeOK
  <1>5. \A i \in DOMAIN q : q[i] = n - Len(q) + i
    <2> SUFFICES ASSUME NEW i \in 1..Len(q) PROVE q[i] = n - Len(q) + i
      BY <1>3
    <2>1. CASE i = Len(q)
      BY <1>1, <1>3, <2>1
    <2>2. CASE i # Len(q)
      <3>1. i \in DOMAIN messages[s]
        BY <1>3, <2>2
      <3>2. q[i] = messages[s][i]
        BY <1>3, <3>1
      <3>3. messages[s][i] = added[s] - Len(messages[s]) + i
        BY <1>4, <3>1
      <3> HIDE DEF q
      <3> QED
        BY <1>3, <1>4, <3>2, <3>3
    <2> QED
      BY <2>1, <2>2
  <1>6. Len(q) >= IF n < MaxMessages THEN n ELSE MaxMessages
    BY <1>3, <1>4, LimitsAssumption
  <1>7. /\ kept \in Seq(Nat)
        /\ \A i \in DOMAIN kept : kept[i] = n - Len(kept) + i
        /\ Len(kept) >= IF n < MaxMessages THEN n ELSE MaxMessages
    <2> HIDE DEF q, n
    <2> QED
      BY <1>1, <1>5, <1>6, NewestIsSuffix
  <1> HIDE DEF kept, q, n, s
  <1>8. HistoryIsSuffix'
    BY <1>1, <1>2, <1>7 DEF IInv, HistoryIsSuffix, TypeOK
  <1>9. TypeOK'
    <2>1. messages' \in [Ids -> Seq(Nat)] /\ added' \in [Ids -> Nat]
      BY <1>1, <1>2, <1>7 DEF IInv, TypeOK
    <2>2. appending' \in [Threads -> Ids \cup {NoId}]
      BY DEF AppendMessage, IInv, TypeOK
    <2> QED
      BY <2>1, <2>2 DEF AppendMessage, IInv, TypeOK
  <1>10. IsFiniteSet(tracked') /\ Capacity' /\ OrderIsAge' /\ ReleasedOnce'
    BY DEF AppendMessage, IInv, Capacity, OrderIsAge, ReleasedOnce
  <1> QED
    BY <1>8, <1>9, <1>10 DEF IInv

LEMMA Inductive == IInv /\ [Next]_vars => IInv'
  <1> SUFFICES ASSUME IInv, [Next]_vars PROVE IInv'
    OBVIOUS
  <1>1. ASSUME NEW s \in Ids, Create(s) \/ GetFound(s) \/ Close(s)
        PROVE  IInv'
    <2>1. CASE Close(s)
      <3>1. Expired \cup {s} \in SUBSET tracked /\ closed' \subseteq used
        BY <2>1, LiveIsPart DEF Close, IInv, TypeOK
      <3>2. Live \ {s} = tracked \ (Expired \cup {s})
        BY LiveIsPart
      <3> QED
        BY <2>1, <3>1, <3>2, EvictStep DEF Close
    <2> QED
      BY <1>1, <2>1, CreateStep, GetFoundStep
  <1>2. CASE Cleanup
    <2>1. closed \subseteq used
      BY DEF IInv, TypeOK
    <2> QED
      BY <1>2, <2>1, LiveIsPart, EvictStep DEF Cleanup
  <1>3. ASSUME NEW t \in Threads, NEW s \in Ids, AddMessage(t, s)
        PROVE  IInv'
    BY <1>3, AddMessageStep
  <1>4. ASSUME NEW t \in Threads, NEW trim \in BOOLEAN, AppendMessage(t, trim)
        PROVE  IInv'
    BY <1>4, AppendMessageStep
  <1>5. CASE Tick
    BY <1>5 DEF Tick, IInv, TypeOK, Capacity, OrderIsAge, ReleasedOnce, HistoryIsSuffix
  <1>6. CASE UNCHANGED vars
    BY <1>6 DEF vars, IInv, TypeOK, Capacity, OrderIsAge, ReleasedOnce, HistoryIsSuffix
  <1> QED
    BY <1>1, <1>2, <1>3, <1>4, <1>5, <1>6 DEF Next

LEMMA Invariance == Spec => []IInv
  BY InitIInv, Inductive, PTL DEF Spec

(* The variables keep their types.                                         *)
THEOREM TypeCorrect == Spec => []TypeOK
  BY Invariance, PTL DEF IInv

(* session.py:77: never more than max_sessions sessions.                   *)
THEOREM CapacityHolds == Spec => []Capacity
  BY Invariance, PTL DEF IInv

(* The order of the dict is a total order, and the order of last use.      *)
THEOREM OrderIsAgeHolds == Spec => []OrderIsAge
  BY Invariance, PTL DEF IInv

(* The types, the capacity and the order together.                         *)
THEOREM KeptInOrderHolds == Spec => []KeptInOrder
  BY Invariance, PTL DEF IInv, KeptInOrder

(* Every session that is gone was released exactly once, no other ever.    *)
THEOREM ReleasedOnceHolds == Spec => []ReleasedOnce
  BY Invariance, PTL DEF IInv

(* The history of a session is the newest part of what it was given.       *)
THEOREM HistoryIsSuffixHolds == Spec => []HistoryIsSuffix
  BY Invariance, PTL DEF IInv

-----------------------------------------------------------------------------
(* What create() evicts beside the expired sessions is older than what it  *)
(* keeps, and leaves no place empty.                                       *)
LEMMA CreateEvicts ==
  ASSUME IInv, NEW n \in Ids, Create(n), NEW s \in tracked \ tracked'
  PROVE  \/ Idle(s) > TTL
         \/ /\ used' # used
            /\ \A r \in tracked' \cap tracked :
                 lastAccessed[s] <= lastAccessed[r] /\ Idle(r) <= TTL
            /\ Cardinality(tracked') = MaxSessions
  <1>1. PICK V \in SUBSET Live : Victims(V) /\ tracked' = (Live \ V) \cup {n}
    BY DEF Create
  <1>2. used' # used /\ n \notin tracked
    BY DEF Create, IInv, TypeOK
  <1>3. CASE s \in Expired
    BY <1>3 DEF Expired
  <1>4. CASE s \notin Expired
    <2>1. s \in V
      BY <1>1, <1>4 DEF Live
    <2>2. ASSUME NEW r \in tracked' \cap tracked
          PROVE  lastAccessed[s] <= lastAccessed[r] /\ Idle(r) <= TTL
      <3>1. r \in Live \ V
        BY <1>1, <1>2, <2>2
      <3>2. Idle(r) <= TTL
        <4>1. ~(Idle(r) > TTL)
          BY <3>1 DEF Live, Expired
        <4>2. Idle(r) \in Int /\ TTL \in Nat
          BY LimitsAssumption DEF Idle, IInv, TypeOK
        <4> QED
          BY <4>1, <4>2
      <3>3. <<s, r>> \in older
        <4>1. <<r, s>> \notin older
          BY <1>1, <2>1, <3>1 DEF Victims
        <4> QED
          BY <2>1, <3>1, <4>1 DEF Live, IInv, OrderIsAge, IsOrder
      <3> QED
        BY <3>2, <3>3 DEF IInv, OrderIsAge
    <2>3. Cardinality(tracked') = MaxSessions
      <3>1. Cardinality(Live \ V) = MaxSessions - 1
        BY <1>1, <2>1 DEF Victims
      <3>2. Live \ V \in SUBSET tracked /\ n \notin Live \ V
        BY <1>2, LiveIsPart
      <3>3. Cardinality(tracked') = Cardinality(Live \ V) + 1
        BY <1>1, <3>2, PartFits, FS_AddElement
      <3> QED
        BY <3>1, <3>3, LimitsAssumption
    <2> QED
      BY <1>2, <2>2, <2>3
  <1> QED
    BY <1>3, <1>4

(* A session leaves because it was closed, because it was idle for longer  *)
(* than the TTL, or because the manager was full and it was the oldest.    *)
THEOREM EvictedForCauseHolds == Spec => EvictedForCause
  <1> DEFINE Cause(s) ==
        \/ Idle(s) > TTL
        \/ s \in closed'
        \/ /\ used' # used
           /\ \A r \in tracked' \cap tracked :
                lastAccessed[s] <= lastAccessed[r] /\ Idle(r) <= TTL
           /\ Cardinality(tracked') = MaxSessions
  <1>1. IInv /\ [Next]_vars => [\A s \in tracked \ tracked' : Cause(s)]_vars
    <2> SUFFICES ASSUME IInv, Next, NEW s \in tracked \ tracked'
                 PROVE  Cause(s)
      OBVIOUS
    <2>1. CASE \E n \in Ids : Create(n)
      BY <2>1, CreateEvicts
    <2>2. CASE (\E n \in Ids : GetFound(n)) \/ Cleanup
      BY <2>2 DEF GetFound, Cleanup, Live, Expired
    <2>3. CASE \E n \in Ids : Close(n)
      BY <2>3 DEF Close, Live, Expired
    <2>4. CASE (\E t \in Threads, n \in Ids : AddMessage(t, n))
               \/ (\E t \in Threads, trim \in BOOLEAN : AppendMessage(t, trim)) \/ Tick
      BY <2>4 DEF AddMessage, AppendMessage, Tick
    <2> QED
      BY <2>1, <2>2, <2>3, <2>4 DEF Next
  <1> QED
    BY <1>1, Invariance, PTL DEF Spec, EvictedForCause
=============================================================================
