---------------------------- MODULE PolicyStore -----------------------------
(***************************************************************************)
(* PolicyStore (access/policy.py) and its readers: one thread sets the     *)
(* store up -- it loads directories, adds policies and freezes the store   *)
(* -- while others may evaluate requests against it.  The order of the     *)
(* statements plays no part in a decision: a policy is the set of its      *)
(* statements, the store a set of policies.                                *)
(***************************************************************************)
EXTENDS Evaluator

CONSTANTS Policies,   \* valid policies
          Broken,     \* a file that is no valid policy of a known version
          Dirs,       \* directories: sets of policies and broken files
          Requests,   \* authorization requests
          Asked,      \* bound of the model: those that readers evaluate
          Readers,    \* calls of evaluate()
          NoRequest,
          NoCache     \* the None of _cached_statements

ASSUME StoreAssumption ==
  /\ Broken \notin Policies
  /\ \A d \in Dirs : d \subseteq Policies \cup {Broken}
  /\ NoRequest \notin Requests
  /\ Asked \subseteq Requests

VARIABLES policies,  \* _policies
          frozen,    \* _frozen
          cached,    \* _cached_statements
          setup,     \* where the thread that sets up is
          files,     \* files load() has not read
          staged,    \* policies load() has read
          before,    \* what was in the store when load() was called
          pc,        \* where a reader is
          request,   \* the request it evaluates
          flag,      \* what it read of _frozen
          seen,      \* the statements it evaluates
          decision   \* what it decided

writer == <<policies, frozen, cached, setup, files, staged, before>>
reader == <<pc, request, flag, seen, decision>>
storeVars == <<policies, frozen, cached, setup, files, staged, before,
          pc, request, flag, seen, decision>>

Statements == UNION policies

-----------------------------------------------------------------------------
StoreInit ==
  /\ policies = {}
  /\ frozen = FALSE
  /\ cached = NoCache
  /\ setup = "idle"
  /\ files = {}
  /\ staged = {}
  /\ before = {}
  /\ pc = [r \in Readers |-> "idle"]
  /\ request = [r \in Readers |-> NoRequest]
  /\ flag = [r \in Readers |-> FALSE]
  /\ seen = [r \in Readers |-> {}]
  /\ decision = [r \in Readers |-> "none"]

(* load() of a store that is not frozen.                                   *)
Load(d) ==
  /\ setup \in {"idle", "raised"}
  /\ ~frozen
  /\ files' = d
  /\ staged' = {}
  /\ before' = policies
  /\ setup' = "loading"
  /\ UNCHANGED <<policies, frozen, cached, reader>>

(* Slip: what is read is in the store at once.                             *)
LoadFileAtOnce(f) ==
  /\ setup = "loading"
  /\ f \in files \ {Broken}
  /\ files' = files \ {f}
  /\ policies' = policies \cup {f}
  /\ UNCHANGED <<frozen, cached, setup, staged, before, reader>>

(* Slip: what fails validation is staged as it is.                         *)
LoadFileUnchecked(f) ==
  /\ setup = "loading"
  /\ f \in files
  /\ files' = files \ {f}
  /\ staged' = staged \cup {f}
  /\ UNCHANGED <<policies, frozen, cached, setup, before, reader>>

LoadFile(f) ==
  /\ setup = "loading"
  /\ f \in files \ {Broken}
  /\ files' = files \ {f}
  /\ staged' = staged \cup {f}
  /\ UNCHANGED <<policies, frozen, cached, setup, before, reader>>

LoadRaises ==
  /\ setup = "loading"
  /\ Broken \in files
  /\ setup' = "raised"
  /\ UNCHANGED <<policies, frozen, cached, files, staged, before, reader>>

(* All files are valid: they are added together.                           *)
Commit ==
  /\ setup = "loading"
  /\ files = {}
  /\ policies' = policies \cup staged
  /\ setup' = "idle"
  /\ UNCHANGED <<frozen, cached, files, staged, before, reader>>

(* Slip: the flag is not looked at.                                        *)
AddPolicyAnyway(p) ==
  /\ setup \in {"idle", "raised"}
  /\ policies' = policies \cup {p}
  /\ setup' = "idle"
  /\ UNCHANGED <<frozen, cached, files, staged, before, reader>>

AddPolicy(p) ==
  /\ setup \in {"idle", "raised"}
  /\ ~frozen
  /\ policies' = policies \cup {p}
  /\ setup' = "idle"
  /\ UNCHANGED <<frozen, cached, files, staged, before, reader>>

(* load() or add_policy() of a frozen store, or of a bad version.          *)
Refused ==
  /\ setup \in {"idle", "raised"}
  /\ setup' = "raised"
  /\ before' = policies
  /\ UNCHANGED <<policies, frozen, cached, files, staged, reader>>

(* Slip: the flag comes before the cache.                                  *)
FreezeFlag ==
  /\ setup \in {"idle", "raised"}
  /\ frozen' = TRUE
  /\ setup' = "freezing"
  /\ UNCHANGED <<policies, cached, files, staged, before, reader>>

(* freeze(): the cache first, then the flag, with readers in between.      *)
FreezeCache ==
  /\ setup \in {"idle", "raised"}
  /\ cached' = Statements
  /\ setup' = "freezing"
  /\ UNCHANGED <<policies, frozen, files, staged, before, reader>>

Freeze ==
  /\ setup = "freezing"
  /\ frozen' = TRUE
  /\ setup' = "idle"
  /\ UNCHANGED <<policies, cached, files, staged, before, reader>>

-----------------------------------------------------------------------------
(* evaluate(): get_all_statements() looks at the flag first, ...           *)
Ask(r, q) ==
  /\ pc[r] = "idle"
  /\ request' = [request EXCEPT ![r] = q]
  /\ flag' = [flag EXCEPT ![r] = frozen]
  /\ pc' = [pc EXCEPT ![r] = "asked"]
  /\ UNCHANGED <<writer, seen, decision>>

(* Slip: whoever finds a cache takes it.                                   *)
ReadAnyCache(r) ==
  /\ pc[r] = "asked"
  /\ seen' = [seen EXCEPT ![r] = IF cached # NoCache THEN cached ELSE Statements]
  /\ pc' = [pc EXCEPT ![r] = "read"]
  /\ UNCHANGED <<writer, request, flag, decision>>

(* ... and takes the cache or builds the list.                             *)
Read(r) ==
  /\ pc[r] = "asked"
  /\ seen' = [seen EXCEPT ![r] = IF flag[r] THEN cached ELSE Statements]
  /\ pc' = [pc EXCEPT ![r] = "read"]
  /\ UNCHANGED <<writer, request, flag, decision>>

Decide(r) ==
  /\ pc[r] = "read"
  /\ decision' = [decision EXCEPT ![r] = Evaluate(seen[r], request[r])]
  /\ pc' = [pc EXCEPT ![r] = "decided"]
  /\ UNCHANGED <<writer, request, flag, seen>>

StoreNext ==
  \/ \E d \in Dirs : Load(d)
  \/ \E f \in files : LoadFile(f)
  \/ \E p \in Policies : AddPolicy(p)
  \/ LoadRaises \/ Commit \/ Refused \/ FreezeCache \/ Freeze
  \/ \E r \in Readers : (\E q \in Asked : Ask(r, q)) \/ Read(r) \/ Decide(r)

StoreSpec == StoreInit /\ [][StoreNext]_storeVars

-----------------------------------------------------------------------------
(* Type invariant.                                                         *)
StoreTypes ==
  /\ policies \subseteq Policies
  /\ frozen \in BOOLEAN
  /\ cached = NoCache \/ cached \subseteq UNION Policies
  /\ setup \in {"idle", "loading", "raised", "freezing"}
  /\ files \subseteq Policies \cup {Broken}
  /\ staged \subseteq Policies
  /\ before \subseteq Policies
  /\ pc \in [Readers -> {"idle", "asked", "read", "decided"}]
  /\ request \in [Readers -> Requests \cup {NoRequest}]
  /\ flag \in [Readers -> BOOLEAN]
  /\ seen \in [Readers -> SUBSET UNION Policies]
  /\ decision \in [Readers ->
       {"none", "ALLOWED", "DENIED_EXPLICIT", "DENIED_IMPLICIT"}]

(* policy.py:65-67 "an atomic all-or-nothing pattern ... If any file fails *)
(* validation, the store remains unchanged": so it is after any refusal,   *)
(* and while files are still being read.                                   *)
AllOrNothing == setup \in {"loading", "raised"} => policies = before

(* An evaluation that began when the store was frozen is made by all the   *)
(* policies of the store, one that began before by none that are not in    *)
(* it: what load() has read and may still reject decides nothing.          *)
DecidedByAll ==
  \A r \in Readers :
    pc[r] \in {"read", "decided"} =>
      IF flag[r] THEN seen[r] = Statements ELSE seen[r] \subseteq Statements

(* A request that is allowed is allowed with more in its context, when no  *)
(* Deny statement has a condition: what modules leave out of the context   *)
(* never grants anything.                                                  *)
ContextGrantsNothing ==
  \A q1, q2 \in Requests :
    LET more == /\ q1.action = q2.action
                /\ q1.resource = q2.resource
                /\ DOMAIN q1.context \subseteq DOMAIN q2.context
                /\ \A k \in DOMAIN q1.context : q1.context[k] = q2.context[k]
    IN  /\ more
        /\ \A s \in Statements : s.effect = "Deny" => s.condition = NoCondition
        /\ Evaluate(Statements, q1) = "ALLOWED"
        => Evaluate(Statements, q2) = "ALLOWED"

(* A store decides what the strictest of its policies decide on their own: *)
(* splitting a policy, merging two or reordering files changes no decision,*)
(* and a policy that is added can only deny more or allow what no other    *)
(* policy speaks of.                                                       *)
PoliciesCombine ==
  \A q \in Requests :
    LET each == {Evaluate(p, q) : p \in policies}
    IN  Evaluate(Statements, q) =
          IF "DENIED_EXPLICIT" \in each THEN "DENIED_EXPLICIT"
          ELSE IF "ALLOWED" \in each THEN "ALLOWED" ELSE "DENIED_IMPLICIT"

(* design/architecture.md:110 "The system fails closed. Missing or         *)
(* misconfigured policies result in denial": a Deny statement for a        *)
(* request whose condition uses an operator that does not exist denies it. *)
MisconfiguredDenies ==
  \A q \in Requests, s \in Statements :
    /\ s.effect = "Deny"
    /\ Matches(s, q)
    /\ s.condition # NoCondition
    /\ ~(DOMAIN s.condition \subseteq KnownOps)
    => Evaluate(Statements, q) # "ALLOWED"

(* What readers and a load that fails leave of the store (policy.py:65-67):*)
(* no decision is made by part of it, and none by what was not accepted;   *)
(* and the variables have their types.                                     *)
StoreWhole == StoreTypes /\ AllOrNothing /\ DecidedByAll
=============================================================================
