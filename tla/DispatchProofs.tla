--------------------------- MODULE DispatchProofs ---------------------------
(***************************************************************************)
(* Proofs about Dispatch, for any number of calls, tools, parameters and   *)
(* resources: the type invariant, NoBypass, FailClosed, that the           *)
(* dispatcher implements CodeGate, and that the record is faithful.        *)
(***************************************************************************)
EXTENDS Dispatch, TLAPS

Entries == [call : Calls, mark : Marks, decision : Decisions, slot : Nat]

(* A call under evaluation is of a registered tool, and what it has still  *)
(* to evaluate are resources of its own.                                   *)
LoopInv ==
  \A c \in Calls :
    /\ pc[c] = "idle" => outcome[c] = "none" /\ ~denied[c]
    /\ pc[c] \in {"resolving", "evaluating"} =>
         /\ tool[c] \in Registered
         /\ params[c] \in Params
         /\ todo[c] \subseteq SlotsOf(c)
         /\ outcome[c] = "none"
    /\ pc[c] = "resolving" => todo[c] = SlotsOf(c) /\ ~denied[c]
    /\ pc[c] = "evaluating" /\ context[c] = Malformed => ~denied[c]

(* While nothing is denied, what has been evaluated is allowed and in the  *)
(* log.                                                                    *)
ProgressInv ==
  \A c \in Calls :
    pc[c] = "evaluating" /\ ~denied[c] =>
      \A i \in SlotsOf(c) \ todo[c] : VerdictOn(c, i) = "ALLOWED" /\ Recorded(c, i)

ExecutedInv ==
  \A c \in Calls :
    /\ c \in executed => pc[c] \in Ended \cup {"executing"}
    /\ pc[c] = "executing" => c \in executed

(* A write refused before execute() has refused the call, or is about to.  *)
LossInv ==
  \A c \in Calls :
    (\E m \in {"policy", "__unknown_tool__", "__internal_error__"} :
        <<c, m>> \in alarms)
      => \/ pc[c] = "evaluating" /\ denied[c]
         \/ pc[c] = "returned" /\ outcome[c] = "failed" /\ c \notin executed

IInv == TypeOK /\ LoopInv /\ ProgressInv /\ ExecutedInv /\ LossInv /\ NoBypass

-----------------------------------------------------------------------------
(* Slots are natural numbers, and each names a resource.                   *)
LEMMA SlotsType ==
  ASSUME NEW t \in Registered, NEW p \in Params
  PROVE  /\ Slots(t, p) \subseteq Nat
         /\ \A i \in Slots(t, p) : ResourceAt(t, p, i) \in Resources
  <1>1. Len(ResourceParam[t]) \in Nat
    BY ToolsAssumption
  <1>2. Slots(t, p) \subseteq Nat
    BY <1>1 DEF Slots, Present
  <1>3. ASSUME NEW i \in Slots(t, p)
        PROVE  ResourceAt(t, p, i) \in Resources
    <2>1. CASE i = 0
      BY <2>1, ResourcesAssumption DEF ResourceAt
    <2>2. CASE i # 0
      <3>1. /\ i \in 1..Len(ResourceParam[t])
            /\ p[ResourceParam[t][i]] # None
        BY <1>3, <2>2 DEF Slots, Present
      <3>2. p[ResourceParam[t][i]] \in Values
        BY <3>1, ParamsAssumption
      <3> QED
        BY <2>2, <3>2, ResourcesAssumption DEF ResourceAt
    <2> QED
      BY <2>1, <2>2
  <1> QED
    BY <1>2, <1>3

(* An audit write keeps the log and the alarms well typed.                 *)
LEMMA LogSafeType ==
  ASSUME TypeOK, NEW ok \in BOOLEAN, NEW e \in Entries, LogSafe(ok, e)
  PROVE  /\ log' \in Seq(Entries)
         /\ alarms' \subseteq Calls \X Marks
  <1>1. /\ log \in Seq(Entries)
        /\ alarms \subseteq Calls \X Marks
    BY DEF TypeOK, Entries
  <1>2. e.call \in Calls /\ e.mark \in Marks
    BY DEF Entries
  <1>3. CASE ok
    BY <1>1, <1>3 DEF LogSafe
  <1>4. CASE ~ok
    BY <1>1, <1>2, <1>4 DEF LogSafe
  <1> QED
    BY <1>3, <1>4

(* An audit write forgets nothing, and records an Allow decision only when *)
(* it is one.                                                              *)
LEMMA LogSafeRecorded ==
  ASSUME TypeOK, NEW ok \in BOOLEAN, NEW e \in Entries, LogSafe(ok, e),
         NEW c, NEW i
  PROVE  Recorded(c, i)' <=>
           Recorded(c, i) \/ (ok /\ e = Entry(c, "policy", "ALLOWED", i))
  <1>1. log \in Seq(Entries)
    BY DEF TypeOK, Entries
  <1>2. CASE ok
    <2>1. log' = Append(log, e)
      BY <1>2 DEF LogSafe
    <2>2. /\ DOMAIN log = 1..Len(log)
          /\ DOMAIN log' = 1..(Len(log) + 1)
          /\ \A k \in DOMAIN log : log'[k] = log[k]
          /\ log'[Len(log) + 1] = e
          /\ Len(log) \in Nat
      BY <1>1, <2>1
    <2>3. DOMAIN log' = DOMAIN log \cup {Len(log) + 1}
      BY <2>2
    <2> QED
      BY <1>2, <2>2, <2>3 DEF Recorded
  <1>3. CASE ~ok
    BY <1>3 DEF LogSafe, Recorded
  <1> QED
    BY <1>2, <1>3

(* In the loop the evaluator's answer is a decision or an exception.       *)
LEMMA VerdictType ==
  ASSUME TypeOK, LoopInv, NEW c \in Calls, pc[c] = "evaluating",
         context[c] # Malformed, NEW i \in todo[c]
  PROVE  /\ VerdictOn(c, i) \in Decisions \cup {"raise"}
         /\ i \in Nat
  <1>1. /\ tool[c] \in Registered
        /\ params[c] \in Params
        /\ i \in Slots(tool[c], params[c])
    BY DEF LoopInv, SlotsOf
  <1>2. context[c] \in Contexts
    BY DEF TypeOK
  <1>3. ResourceAt(tool[c], params[c], i) \in Resources /\ i \in Nat
    BY <1>1, SlotsType
  <1> QED
    BY <1>1, <1>2, <1>3, VerdictAssumption DEF VerdictOn

(* A call whose arguments and context stand still keeps its resources and  *)
(* the evaluator's answers on them.                                        *)
LEMMA SameCall ==
  ASSUME NEW c, tool'[c] = tool[c], params'[c] = params[c],
         context'[c] = context[c]
  PROVE  /\ SlotsOf(c)' = SlotsOf(c)
         /\ \A i : VerdictOn(c, i)' = VerdictOn(c, i)
  BY DEF SlotsOf, VerdictOn, Slots, Present, ResourceAt

(* What a step that writes to the log at most once leaves as it is: the    *)
(* records of all calls.                                                   *)
LEMMA RecordedStays ==
  ASSUME TypeOK, NEW e \in Entries,
         UNCHANGED log \/ \E ok \in BOOLEAN : LogSafe(ok, e)
  PROVE  \A c, i : Recorded(c, i) => Recorded(c, i)'
  BY LogSafeRecorded DEF Recorded

(* NoBypass survives every step that starts no tool and leaves the calls   *)
(* already executed alone.                                                 *)
LEMMA NoBypassStays ==
  ASSUME NoBypass, UNCHANGED executed,
         \A c, i : Recorded(c, i) => Recorded(c, i)',
         \A c \in executed : tool'[c] = tool[c] /\ params'[c] = params[c]
                             /\ context'[c] = context[c]
  PROVE  NoBypass'
  <1> SUFFICES ASSUME NEW c \in executed
               PROVE  /\ tool'[c] \in Registered
                      /\ \A i \in SlotsOf(c)' : /\ VerdictOn(c, i)' = "ALLOWED"
                                                /\ Recorded(c, i)'
    BY DEF NoBypass
  <1>1. /\ SlotsOf(c)' = SlotsOf(c)
        /\ \A i : VerdictOn(c, i)' = VerdictOn(c, i)
    BY SameCall
  <1> QED
    BY <1>1 DEF NoBypass

-----------------------------------------------------------------------------
LEMMA InitIInv == Init => IInv
  <1> SUFFICES ASSUME Init PROVE IInv
    OBVIOUS
  <1>1. TypeOK
    BY DEF Init, TypeOK, PCs
  <1>2. LoopInv /\ ProgressInv /\ ExecutedInv /\ LossInv /\ NoBypass
    BY DEF Init, LoopInv, ProgressInv, ExecutedInv, LossInv, NoBypass
  <1> QED
    BY <1>1, <1>2 DEF IInv

(* A step that gives a call its arguments, and no answer.                  *)
LEMMA StartStep ==
  ASSUME IInv, NEW c \in Calls, NEW t \in Tools, NEW p \in Params, Start(c, t, p)
  PROVE  IInv'
  <1> USE DEF IInv
  <1>1. t \in Registered /\ Slots(t, p) \subseteq Nat
    BY SlotsType DEF Start
  <1>2. c \notin executed
    BY DEF Start, ExecutedInv, Ended
  <1>3. TypeOK'
    BY <1>1 DEF Start, TypeOK, PCs
  <1>4. SlotsOf(c)' = Slots(t, p) /\ todo'[c] = Slots(t, p)
    BY DEF Start, SlotsOf, Slots, Present, TypeOK
  <1>5. \A d \in Calls \ {c} :
          /\ tool'[d] = tool[d] /\ params'[d] = params[d] /\ context'[d] = context[d]
          /\ pc'[d] = pc[d] /\ todo'[d] = todo[d]
    BY DEF Start, TypeOK
  <1>6. \A d \in Calls \ {c} : /\ SlotsOf(d)' = SlotsOf(d)
                              /\ \A i : VerdictOn(d, i)' = VerdictOn(d, i)
    BY <1>5, SameCall
  <1>7. \A d, i : Recorded(d, i)' = Recorded(d, i)
    BY DEF Start, Recorded
  <1>8. LoopInv'
    BY <1>1, <1>4, <1>5, <1>6 DEF Start, LoopInv, TypeOK
  <1>9. ProgressInv'
    BY <1>5, <1>6, <1>7 DEF Start, ProgressInv, TypeOK
  <1>10. ExecutedInv'
    BY <1>2, <1>5 DEF Start, ExecutedInv, TypeOK, Ended
  <1>11. LossInv'
    BY <1>5 DEF Start, LossInv, TypeOK
  <1>12. NoBypass'
    BY <1>2, <1>5, <1>7, NoBypassStays DEF Start, TypeOK
  <1> QED
    BY <1>3, <1>8, <1>9, <1>10, <1>11, <1>12

(* A call of an unknown tool is over at once.                              *)
LEMMA RejectStep ==
  ASSUME IInv, NEW c \in Calls, NEW t \in Tools, NEW p \in Params,
         RejectUnknown(c, t, p)
  PROVE  IInv'
  <1> DEFINE e == Entry(c, "__unknown_tool__", "DENIED_IMPLICIT", 0)
  <1> USE DEF IInv
  <1>0. e \in Entries
    BY DEF Entry, Entries, Marks, Decisions
  <1>1. PICK ok \in BOOLEAN : LogSafe(ok, e)
    BY DEF RejectUnknown
  <1>2. log' \in Seq(Entries) /\ alarms' \subseteq Calls \X Marks
    BY <1>0, <1>1, LogSafeType
  <1>3. c \notin executed
    BY DEF RejectUnknown, ExecutedInv, Ended
  <1>4. TypeOK'
    BY <1>2 DEF RejectUnknown, Return, TypeOK, PCs, Entries
  <1>5. \A d \in Calls \ {c} :
          /\ tool'[d] = tool[d] /\ params'[d] = params[d] /\ context'[d] = context[d]
          /\ pc'[d] = pc[d] /\ todo'[d] = todo[d] /\ denied'[d] = denied[d]
          /\ outcome'[d] = outcome[d]
    BY DEF RejectUnknown, Return, TypeOK
  <1>6. \A d \in Calls \ {c} : /\ SlotsOf(d)' = SlotsOf(d)
                              /\ \A i : VerdictOn(d, i)' = VerdictOn(d, i)
    BY <1>5, SameCall
  <1>7. \A d, i : Recorded(d, i) => Recorded(d, i)'
    BY <1>0, <1>1, RecordedStays
  <1>8. pc'[c] = "returned" /\ outcome'[c] = "failed"
    BY DEF RejectUnknown, Return, TypeOK
  <1>9. LoopInv'
    BY <1>5, <1>6, <1>8 DEF LoopInv
  <1>10. ProgressInv'
    BY <1>5, <1>6, <1>7, <1>8 DEF ProgressInv
  <1>11. ExecutedInv'
    BY <1>3, <1>5, <1>8 DEF RejectUnknown, ExecutedInv, Ended
  <1>12. \A d \in Calls \ {c} : \A m : <<d, m>> \in alarms' => <<d, m>> \in alarms
    BY <1>1 DEF LogSafe, Entry
  <1>13. LossInv'
    BY <1>3, <1>5, <1>8, <1>12 DEF RejectUnknown, LossInv
  <1>14. NoBypass'
    BY <1>3, <1>5, <1>7, NoBypassStays DEF RejectUnknown, TypeOK
  <1> QED
    BY <1>4, <1>9, <1>10, <1>11, <1>13, <1>14

(* A step that ends a call without starting its tool: whatever it writes,  *)
(* the call has failed, was cancelled, or has raised.                      *)
LEMMA EndStep ==
  ASSUME IInv, NEW c \in Calls, NEW e \in Entries, e.call = c,
         NEW q \in Ended, NEW v \in {"none", "failed", "result"},
         pc[c] \notin Ended,
         pc' = [pc EXCEPT ![c] = q],
         outcome' = [outcome EXCEPT ![c] = v],
         UNCHANGED <<tool, params, context, todo, denied, executed>>,
         UNCHANGED <<log, alarms>> \/ \E ok \in BOOLEAN : LogSafe(ok, e),
         pc[c] = "evaluating" => (q = "returned" /\ v = "failed") \/ ~denied[c],
         \/ UNCHANGED alarms
         \/ e.mark \in {"__executed__", "__execute_error__"}
         \/ q = "returned" /\ v = "failed" /\ c \notin executed
  PROVE  IInv'
  <1>0. /\ pc' \in [Calls -> PCs] /\ pc'[c] = q
        /\ outcome' \in [Calls -> {"none", "failed", "result"}] /\ outcome'[c] = v
        /\ \A d \in Calls \ {c} : pc'[d] = pc[d] /\ outcome'[d] = outcome[d]
    BY DEF IInv, TypeOK, PCs, Ended
  <1> USE DEF IInv
  <1>1. log' \in Seq(Entries) /\ alarms' \subseteq Calls \X Marks
    BY LogSafeType DEF TypeOK, Entries
  <1>2. TypeOK'
    BY <1>0, <1>1 DEF TypeOK, Entries
  <1>3. \A d : /\ SlotsOf(d)' = SlotsOf(d)
               /\ \A i : VerdictOn(d, i)' = VerdictOn(d, i)
    BY SameCall
  <1>4. \A d, i : Recorded(d, i) => Recorded(d, i)'
    BY RecordedStays
  <1>5. LoopInv'
    BY <1>0, <1>3 DEF LoopInv, Ended
  <1>6. ProgressInv'
    BY <1>0, <1>3, <1>4 DEF ProgressInv, Ended
  <1>7. ExecutedInv'
    BY <1>0 DEF ExecutedInv, Ended
  <1>8. \A d, m : <<d, m>> \in alarms' => <<d, m>> \in alarms \/ <<d, m>> = <<c, e.mark>>
    BY DEF LogSafe
  <1>9. LossInv'
    <2> SUFFICES ASSUME NEW d \in Calls,
                        NEW m \in {"policy", "__unknown_tool__", "__internal_error__"},
                        <<d, m>> \in alarms'
                 PROVE  \/ pc'[d] = "evaluating" /\ denied'[d]
                        \/ /\ pc'[d] = "returned" /\ outcome'[d] = "failed"
                           /\ d \notin executed'
      BY DEF LossInv
    <2>1. CASE d # c
      BY <1>0, <1>8, <2>1 DEF LossInv
    <2>2. CASE d = c /\ <<c, m>> \in alarms
      <3>1. pc[c] = "evaluating" /\ denied[c]
        BY <2>2 DEF LossInv, Ended
      <3>2. c \notin executed
        BY <3>1 DEF ExecutedInv, Ended
      <3> QED
        BY <1>0, <2>2, <3>1, <3>2
    <2>3. CASE d = c /\ <<c, m>> \notin alarms
      <3>1. m = e.mark /\ alarms' # alarms
        BY <1>8, <2>3
      <3> QED
        BY <1>0, <2>3, <3>1
    <2> QED
      BY <2>1, <2>2, <2>3
  <1>10. NoBypass'
    BY <1>4, NoBypassStays
  <1> QED
    BY <1>2, <1>5, <1>6, <1>7, <1>9, <1>10

(* resolve_conditions() has answered.                                      *)
LEMMA ResolveStep ==
  ASSUME IInv, NEW c \in Calls, NEW x \in Contexts \cup {Malformed}, Resolve(c, x)
  PROVE  IInv'
  <1> USE DEF IInv
  <1>1. TypeOK'
    BY DEF Resolve, TypeOK, PCs
  <1>2. c \notin executed
    BY DEF Resolve, ExecutedInv, Ended
  <1>3. \A d \in Calls \ {c} : context'[d] = context[d] /\ pc'[d] = pc[d]
    BY DEF Resolve, TypeOK
  <1>4. \A d \in Calls \ {c} : /\ SlotsOf(d)' = SlotsOf(d)
                              /\ \A i : VerdictOn(d, i)' = VerdictOn(d, i)
    BY <1>3, SameCall DEF Resolve
  <1>5. \A d, i : Recorded(d, i)' = Recorded(d, i)
    BY DEF Resolve, Recorded
  <1>6. SlotsOf(c)' = SlotsOf(c) /\ pc'[c] = "evaluating" /\ todo'[c] = SlotsOf(c)
    BY DEF Resolve, SlotsOf, Slots, Present, LoopInv, TypeOK
  <1>7. LoopInv'
    BY <1>3, <1>4, <1>6 DEF Resolve, LoopInv
  <1>8. ProgressInv'
    BY <1>3, <1>4, <1>5, <1>6 DEF Resolve, ProgressInv
  <1>9. ExecutedInv'
    BY <1>2, <1>3, <1>6 DEF Resolve, ExecutedInv
  <1>10. LossInv'
    BY <1>3 DEF Resolve, LossInv
  <1>11. NoBypass'
    BY <1>2, <1>3, <1>5, NoBypassStays DEF Resolve
  <1> QED
    BY <1>1, <1>7, <1>8, <1>9, <1>10, <1>11

(* A step of the loop: one entry, at most one resource less to evaluate.   *)
LEMMA DecideStep ==
  ASSUME IInv, NEW c \in Calls, NEW i \in todo[c], NEW ok \in BOOLEAN, Decide(c, i, ok)
  PROVE  IInv'
  <1> DEFINE e == Entry(c, "policy", VerdictOn(c, i), i)
  <1> USE DEF IInv
  <1>1. pc[c] = "evaluating" /\ VerdictOn(c, i) \in Decisions /\ i \in Nat
    BY VerdictType DEF Decide
  <1>2. e \in Entries
    BY <1>1 DEF Entry, Entries, Marks
  <1>3. LogSafe(ok, e)
    BY DEF Decide
  <1>4. log' \in Seq(Entries) /\ alarms' \subseteq Calls \X Marks
    BY <1>2, <1>3, LogSafeType
  <1>5. todo'[c] \subseteq todo[c] /\ todo'[c] \subseteq Nat
    BY DEF Decide, StillTodo, TypeOK
  <1>6. denied'[c] \in BOOLEAN
    BY DEF Decide, StillDenied, TypeOK
  <1>7. TypeOK'
    BY <1>4, <1>5, <1>6 DEF Decide, TypeOK, Entries
  <1>8. \A d \in Calls \ {c} : todo'[d] = todo[d] /\ denied'[d] = denied[d]
    BY DEF Decide, TypeOK
  <1>9. \A d : /\ SlotsOf(d)' = SlotsOf(d)
               /\ \A j : VerdictOn(d, j)' = VerdictOn(d, j)
    BY SameCall DEF Decide
  <1>10. \A d, j : Recorded(d, j) => Recorded(d, j)'
    BY <1>2, <1>3, RecordedStays
  <1>11. LoopInv'
    BY <1>1, <1>5, <1>8, <1>9 DEF Decide, LoopInv
  <1>12. ProgressInv'
    <2>1. \A d \in Calls \ {c} : \A j : Recorded(d, j) => Recorded(d, j)'
      BY <1>10
    <2>2. ASSUME ~denied'[c], NEW j \in SlotsOf(c) \ todo'[c]
          PROVE  VerdictOn(c, j) = "ALLOWED" /\ Recorded(c, j)'
      <3>1. ~denied[c] /\ ok /\ VerdictOn(c, i) = "ALLOWED"
        BY <2>2 DEF Decide, StillDenied, TypeOK
      <3>2. todo'[c] = todo[c] \ {i}
        BY <3>1 DEF Decide, StillTodo, TypeOK
      <3>3. CASE j = i
        BY <1>2, <1>3, <3>1, <3>3, LogSafeRecorded
      <3>4. CASE j # i
        <4>1. j \in SlotsOf(c) \ todo[c]
          BY <2>2, <3>2, <3>4
        <4> QED
          BY <1>1, <1>10, <3>1, <4>1 DEF ProgressInv
      <3> QED
        BY <3>3, <3>4
    <2> QED
      BY <1>8, <1>9, <2>1, <2>2 DEF Decide, ProgressInv
  <1>13. ExecutedInv'
    BY DEF Decide, ExecutedInv
  <1>14. LossInv'
    <2>1. \A d, m : <<d, m>> \in alarms' => <<d, m>> \in alarms \/ (d = c /\ ~ok)
      BY <1>3 DEF LogSafe, Entry
    <2>2. denied[c] \/ ~ok => denied'[c]
      BY DEF Decide, StillDenied, TypeOK
    <2> QED
      BY <1>1, <1>8, <2>1, <2>2 DEF Decide, LossInv
  <1>15. NoBypass'
    BY <1>10, NoBypassStays DEF Decide
  <1> QED
    BY <1>7, <1>11, <1>12, <1>13, <1>14, <1>15

(* The evaluator has raised: the call is denied.                           *)
LEMMA EvaluateRaisesStep ==
  ASSUME IInv, NEW c \in Calls, NEW i \in todo[c], EvaluateRaises(c, i)
  PROVE  IInv'
  <1> DEFINE e == Entry(c, "__internal_error__", "DENIED_IMPLICIT", i)
  <1> USE DEF IInv
  <1>1. pc[c] = "evaluating" /\ i \in Nat
    BY DEF EvaluateRaises, TypeOK
  <1>2. e \in Entries
    BY <1>1 DEF Entry, Entries, Marks, Decisions
  <1>3. PICK ok \in BOOLEAN : LogSafe(ok, e)
    BY DEF EvaluateRaises
  <1>4. log' \in Seq(Entries) /\ alarms' \subseteq Calls \X Marks
    BY <1>2, <1>3, LogSafeType
  <1>5. TypeOK'
    BY <1>4 DEF EvaluateRaises, TypeOK, Entries
  <1>6. \A d \in Calls \ {c} : todo'[d] = todo[d] /\ denied'[d] = denied[d]
    BY DEF EvaluateRaises, TypeOK
  <1>7. denied'[c] /\ todo'[c] = {}
    BY DEF EvaluateRaises, TypeOK
  <1>8. \A d : /\ SlotsOf(d)' = SlotsOf(d)
               /\ \A j : VerdictOn(d, j)' = VerdictOn(d, j)
    BY SameCall DEF EvaluateRaises
  <1>9. \A d, j : Recorded(d, j) => Recorded(d, j)'
    BY <1>2, <1>3, RecordedStays
  <1>10. LoopInv'
    BY <1>1, <1>6, <1>7, <1>8 DEF EvaluateRaises, LoopInv
  <1>11. ProgressInv'
    BY <1>6, <1>7, <1>8, <1>9 DEF EvaluateRaises, ProgressInv
  <1>12. ExecutedInv'
    BY DEF EvaluateRaises, ExecutedInv
  <1>13. LossInv'
    <2>1. \A d, m : <<d, m>> \in alarms' => <<d, m>> \in alarms \/ d = c
      BY <1>3 DEF LogSafe, Entry
    <2> QED
      BY <1>1, <1>6, <1>7, <2>1 DEF EvaluateRaises, LossInv
  <1>14. NoBypass'
    BY <1>9, NoBypassStays DEF EvaluateRaises
  <1> QED
    BY <1>5, <1>10, <1>11, <1>12, <1>13, <1>14

(* execute() is entered: here ProgressInv turns into NoBypass.             *)
LEMMA ExecuteStep ==
  ASSUME IInv, NEW c \in Calls, Execute(c)
  PROVE  IInv'
  <1> USE DEF IInv
  <1>1. TypeOK'
    BY DEF Execute, TypeOK, PCs
  <1>2. \A d \in Calls \ {c} : pc'[d] = pc[d]
    BY DEF Execute, TypeOK
  <1>3. pc'[c] = "executing" /\ executed' = executed \cup {c}
    BY DEF Execute, TypeOK
  <1>4. \A d : /\ SlotsOf(d)' = SlotsOf(d)
               /\ \A i : VerdictOn(d, i)' = VerdictOn(d, i)
    BY SameCall DEF Execute
  <1>5. \A d, i : Recorded(d, i)' = Recorded(d, i)
    BY DEF Execute, Recorded
  <1>6. LoopInv'
    BY <1>2, <1>3, <1>4 DEF Execute, LoopInv
  <1>7. ProgressInv'
    BY <1>2, <1>3, <1>4, <1>5 DEF Execute, ProgressInv
  <1>8. ExecutedInv'
    BY <1>2, <1>3 DEF ExecutedInv, Ended
  <1>9. LossInv'
    <2>1. c \in Calls /\ pc[c] = "evaluating" /\ ~denied[c]
      BY DEF Execute
    <2> QED
      BY <1>2, <1>3, <2>1 DEF Execute, LossInv
  <1>10. NoBypass'
    <2>1. tool[c] \in Registered
      BY DEF Execute, LoopInv
    <2>2. \A i \in SlotsOf(c) : VerdictOn(c, i) = "ALLOWED" /\ Recorded(c, i)
      BY DEF Execute, ProgressInv
    <2> QED
      BY <1>3, <1>4, <1>5, <2>1, <2>2 DEF Execute, NoBypass
  <1> QED
    BY <1>1, <1>6, <1>7, <1>8, <1>9, <1>10

(* The steps that end a call, each with the entry it may write.            *)
LEMMA EndSteps ==
  ASSUME IInv, NEW c \in Calls,
         \/ ResolveRaises(c)
         \/ MalformedContext(c)
         \/ Deny(c)
         \/ ExecuteReturns(c)
         \/ ExecuteRaises(c)
         \/ Cancel(c)
  PROVE  IInv'
  <1> DEFINE e(m, d) == Entry(c, m, d, 0)
  <1>1. /\ e("__internal_error__", "DENIED_IMPLICIT") \in Entries
        /\ e("__execute_error__", "DENIED_IMPLICIT") \in Entries
        /\ e("__executed__", "ALLOWED") \in Entries
    BY DEF Entry, Entries, Marks, Decisions
  <1>2. CASE ResolveRaises(c)
    <2>1. pc[c] = "resolving" /\ c \notin executed
      BY <1>2 DEF ResolveRaises, IInv, ExecutedInv, Ended
    <2> QED
      BY <1>1, <1>2, <2>1, EndStep DEF ResolveRaises, Return, Ended, Entry
  <1>3. CASE MalformedContext(c)
    <2>1. /\ pc[c] = "evaluating" /\ ~denied[c]
          /\ outcome[c] \in {"none", "failed", "result"}
          /\ outcome = [outcome EXCEPT ![c] = outcome[c]]
      BY <1>3 DEF MalformedContext, IInv, LoopInv, TypeOK
    <2> QED
      BY <1>1, <1>3, <2>1, EndStep DEF MalformedContext, Ended, Entry
  <1>4. CASE Deny(c)
    BY <1>1, <1>4, EndStep DEF Deny, Return, Ended, Entry
  <1>5. CASE ExecuteReturns(c)
    BY <1>1, <1>5, EndStep DEF ExecuteReturns, Return, Ended, Entry
  <1>6. CASE ExecuteRaises(c)
    BY <1>1, <1>6, EndStep DEF ExecuteRaises, Return, Ended, Entry
  <1>7. CASE Cancel(c)
    <2>1. /\ pc[c] \in {"resolving", "executing"}
          /\ outcome[c] \in {"none", "failed", "result"}
          /\ outcome = [outcome EXCEPT ![c] = outcome[c]]
      BY <1>7 DEF Cancel, IInv, TypeOK
    <2> QED
      BY <1>1, <1>7, <2>1, EndStep DEF Cancel, Ended, Entry
  <1> QED
    BY <1>2, <1>3, <1>4, <1>5, <1>6, <1>7

LEMMA Inductive == IInv /\ [Next]_vars => IInv'
  <1> SUFFICES ASSUME IInv, [Next]_vars PROVE IInv'
    OBVIOUS
  <1>1. CASE UNCHANGED vars
    <2>1. \A d : /\ SlotsOf(d)' = SlotsOf(d)
                 /\ \A i : VerdictOn(d, i)' = VerdictOn(d, i)
                 /\ \A i : Recorded(d, i)' = Recorded(d, i)
      BY <1>1, SameCall DEF vars, Recorded
    <2>2. TypeOK' /\ LoopInv' /\ ExecutedInv' /\ LossInv'
      BY <1>1, <2>1 DEF vars, IInv, TypeOK, LoopInv, ExecutedInv, LossInv
    <2>3. ProgressInv' /\ NoBypass'
      BY <1>1, <2>1 DEF vars, IInv, ProgressInv, NoBypass
    <2> QED
      BY <2>2, <2>3 DEF IInv
  <1>2. CASE Next
    <2> PICK c \in Calls :
          \/ \E t \in Tools, p \in Params : RejectUnknown(c, t, p) \/ Start(c, t, p)
          \/ \E x \in Contexts \cup {Malformed} : Resolve(c, x)
          \/ ResolveRaises(c)
          \/ Evaluate(c)
          \/ ExecuteReturns(c)
          \/ ExecuteRaises(c)
          \/ Cancel(c)
      BY <1>2 DEF Next
    <2>1. CASE \E t \in Tools, p \in Params : RejectUnknown(c, t, p) \/ Start(c, t, p)
      BY <2>1, RejectStep, StartStep
    <2>2. CASE \E x \in Contexts \cup {Malformed} : Resolve(c, x)
      BY <2>2, ResolveStep
    <2>3. CASE ResolveRaises(c) \/ ExecuteReturns(c) \/ ExecuteRaises(c) \/ Cancel(c)
      BY <2>3, EndSteps
    <2>4. CASE Evaluate(c)
      BY <2>4, DecideStep, EvaluateRaisesStep, ExecuteStep, EndSteps DEF Evaluate
    <2> QED
      BY <2>1, <2>2, <2>3, <2>4
  <1> QED
    BY <1>1, <1>2

LEMMA Invariance == Spec => []IInv
  BY InitIInv, Inductive, PTL DEF Spec

(* The variables keep their types, whatever the calls, tools, parameters   *)
(* and policies are.                                                       *)
THEOREM TypeCorrect == Spec => []TypeOK
  BY Invariance, PTL DEF IInv

(* dispatcher.py:38-40: no tool runs unless the policy allows every        *)
(* resource of the call and the audit log has recorded each permission.    *)
THEOREM NoBypassHolds == Spec => []NoBypass
  BY Invariance, PTL DEF IInv

(* dispatcher.py:66-71: a call that lost a pre-execution audit write never *)
(* runs and gets no result.                                                *)
THEOREM FailClosedHolds == Spec => []FailClosed
  <1>1. IInv => FailClosed
    <2> SUFFICES ASSUME IInv, NEW c \in Calls,
                        NEW m \in {"policy", "__unknown_tool__", "__internal_error__"},
                        <<c, m>> \in alarms
                 PROVE  c \notin executed /\ outcome[c] # "result"
      BY DEF FailClosed
    <2>1. CASE pc[c] = "evaluating"
      BY <2>1 DEF IInv, LoopInv, ExecutedInv, Ended
    <2>2. CASE pc[c] # "evaluating"
      BY <2>2 DEF IInv, LossInv
    <2> QED
      BY <2>1, <2>2
  <1> QED
    BY <1>1, Invariance, PTL

-----------------------------------------------------------------------------
(* The refinement.  A step either leaves the records of Allow decisions    *)
(* alone or is the one that records such a decision.                       *)
gateView == <<GateStage, GateOwed, GateDischarged>>

LEMMA GateInit == Init => Gate!Init
  BY DEF Init, Gate!Init, GateStage, GateOwed, GateDischarged

(* Recorded is kept by a write that is not an Allow decision.              *)
LEMMA RecordedSame ==
  ASSUME TypeOK, NEW e \in Entries,
         e.mark # "policy" \/ e.decision # "ALLOWED",
         UNCHANGED log \/ \E ok \in BOOLEAN : LogSafe(ok, e)
  PROVE  \A c, i : Recorded(c, i)' = Recorded(c, i)
  <1>1. \A c, i : e # Entry(c, "policy", "ALLOWED", i)
    BY DEF Entry
  <1>2. CASE UNCHANGED log
    BY <1>2 DEF Recorded
  <1>3. CASE \E ok \in BOOLEAN : LogSafe(ok, e)
    <2>1. PICK ok \in BOOLEAN : LogSafe(ok, e)
      BY <1>3
    <2>2. \A c, i : Recorded(c, i)' <=> Recorded(c, i)
      BY <1>1, <2>1, LogSafeRecorded
    <2>3. \A c, i : Recorded(c, i) \in BOOLEAN /\ Recorded(c, i)' \in BOOLEAN
      BY DEF Recorded
    <2> QED
      BY <2>2, <2>3
  <1> QED
    BY <1>2, <1>3

(* A call that has not come to the evaluation has no decision in the log.  *)
FreshInv ==
  \A c \in Calls :
    pc[c] \in {"idle", "resolving"} => \A i : ~Recorded(c, i)

LEMMA FreshInductive == IInv /\ FreshInv /\ [Next]_vars => FreshInv'
  <1> SUFFICES ASSUME IInv, FreshInv, [Next]_vars PROVE FreshInv'
    OBVIOUS
  <1>1. CASE UNCHANGED vars
    BY <1>1 DEF vars, FreshInv, Recorded
  <1>2. ASSUME NEW c \in Calls,
               \A d \in Calls : pc'[d] \in {"idle", "resolving"} =>
                                 pc[d] \in {"idle", "resolving"},
               \A d, i : Recorded(d, i)' = Recorded(d, i)
        PROVE  FreshInv'
    BY <1>2 DEF FreshInv
  <1>3. ASSUME NEW c \in Calls, NEW t \in Tools, NEW p \in Params,
               RejectUnknown(c, t, p) \/ Start(c, t, p)
        PROVE  FreshInv'
    <2>1. Entry(c, "__unknown_tool__", "DENIED_IMPLICIT", 0) \in Entries
      BY DEF Entry, Entries, Marks, Decisions
    <2>2. \A d, i : Recorded(d, i)' = Recorded(d, i)
      BY <1>3, <2>1, RecordedSame DEF RejectUnknown, Start, IInv, Entry
    <2>3. pc[c] = "idle" /\ \A d \in Calls \ {c} : pc'[d] = pc[d]
      BY <1>3 DEF RejectUnknown, Start, Return, IInv, TypeOK
    <2> QED
      BY <1>2, <2>2, <2>3
  <1>4. ASSUME NEW c \in Calls, NEW x \in Contexts \cup {Malformed}, Resolve(c, x)
        PROVE  FreshInv'
    <2>1. \A d, i : Recorded(d, i)' = Recorded(d, i)
      BY <1>4 DEF Resolve, Recorded
    <2>2. pc[c] = "resolving" /\ \A d \in Calls \ {c} : pc'[d] = pc[d]
      BY <1>4 DEF Resolve, IInv, TypeOK
    <2> QED
      BY <1>2, <2>1, <2>2
  <1>5. ASSUME NEW c \in Calls,
               ResolveRaises(c) \/ ExecuteReturns(c) \/ ExecuteRaises(c) \/ Cancel(c)
               \/ MalformedContext(c) \/ Deny(c) \/ Execute(c)
        PROVE  FreshInv'
    <2>1. /\ Entry(c, "__internal_error__", "DENIED_IMPLICIT", 0) \in Entries
          /\ Entry(c, "__execute_error__", "DENIED_IMPLICIT", 0) \in Entries
          /\ Entry(c, "__executed__", "ALLOWED", 0) \in Entries
      BY DEF Entry, Entries, Marks, Decisions
    <2>2. \A d, i : Recorded(d, i)' = Recorded(d, i)
      BY <1>5, <2>1, RecordedSame
      DEF ResolveRaises, ExecuteReturns, ExecuteRaises, Cancel, MalformedContext,
          Deny, Execute, IInv, Entry
    <2>3. pc'[c] \in Ended \cup {"executing"} /\ \A d \in Calls \ {c} : pc'[d] = pc[d]
      BY <1>5
      DEF ResolveRaises, ExecuteReturns, ExecuteRaises, Cancel, MalformedContext,
          Deny, Execute, Return, IInv, TypeOK, Ended
    <2> QED
      BY <1>2, <2>2, <2>3 DEF Ended
  <1>6. ASSUME NEW c \in Calls, NEW i \in todo[c], EvaluateRaises(c, i)
        PROVE  FreshInv'
    <2>1. Entry(c, "__internal_error__", "DENIED_IMPLICIT", i) \in Entries
      BY DEF Entry, Entries, Marks, Decisions, IInv, TypeOK
    <2>2. \A d, j : Recorded(d, j)' = Recorded(d, j)
      BY <1>6, <2>1, RecordedSame DEF EvaluateRaises, IInv, Entry
    <2> QED
      BY <1>2, <1>6, <2>2 DEF EvaluateRaises
  <1>7. ASSUME NEW c \in Calls, NEW i \in todo[c], NEW ok \in BOOLEAN, Decide(c, i, ok)
        PROVE  FreshInv'
    <2>1. pc[c] = "evaluating" /\ VerdictOn(c, i) \in Decisions /\ i \in Nat
      BY <1>7, VerdictType DEF Decide, IInv
    <2>2. Entry(c, "policy", VerdictOn(c, i), i) \in Entries
      BY <2>1 DEF Entry, Entries, Marks
    <2>3. \A d \in Calls \ {c} : \A j : Recorded(d, j)' <=> Recorded(d, j)
      BY <1>7, <2>2, LogSafeRecorded DEF Decide, IInv, Entry
    <2> QED
      BY <1>7, <2>1, <2>3 DEF Decide, FreshInv
  <1> QED
    BY <1>1, <1>3, <1>4, <1>5, <1>6, <1>7 DEF Next, Evaluate

(* A step that leaves arguments and records alone changes neither what a   *)
(* call owes nor what is discharged.                                       *)
LEMMA GateFrame ==
  ASSUME \A d \in Calls : pc'[d] = "idle" <=> pc[d] = "idle",
         UNCHANGED <<tool, params>>,
         \A d, i : Recorded(d, i)' = Recorded(d, i)
  PROVE  GateOwed' = GateOwed /\ GateDischarged' = GateDischarged
  <1>1. \A d : SlotsOf(d)' = SlotsOf(d)
    BY DEF SlotsOf, Slots, Present
  <1>2. GateOwed' = GateOwed
    BY <1>1 DEF GateOwed
  <1>3. GateDischarged' = GateDischarged
    BY <1>2 DEF GateDischarged
  <1> QED
    BY <1>2, <1>3

(* A call that ends without its tool being started is refused.             *)
LEMMA GateRefuse ==
  ASSUME IInv, NEW c \in Calls, NEW e \in Entries, NEW q \in Ended,
         e.mark # "policy",
         pc[c] \in {"resolving", "evaluating"},
         pc' = [pc EXCEPT ![c] = q],
         UNCHANGED <<tool, params, executed>>,
         UNCHANGED log \/ \E ok \in BOOLEAN : LogSafe(ok, e)
  PROVE  Gate!Refuse(c)
  <1>1. pc'[c] = q /\ \A d \in Calls \ {c} : pc'[d] = pc[d]
    BY DEF IInv, TypeOK
  <1>2. GateOwed' = GateOwed /\ GateDischarged' = GateDischarged
    BY <1>1, RecordedSame, GateFrame DEF IInv, Ended
  <1>3. c \notin executed
    BY DEF IInv, ExecutedInv, Ended
  <1>4. GateStage[c] = "pending"
    BY DEF GateStage, Ended
  <1>5. GateStage' = [GateStage EXCEPT ![c] = "refused"]
    BY <1>1, <1>3 DEF GateStage, Ended
  <1> QED
    BY <1>2, <1>4, <1>5 DEF Gate!Refuse

(* A call that ends after its tool was started is finished.                *)
LEMMA GateFinish ==
  ASSUME IInv, NEW c \in Calls, NEW e \in Entries, NEW q \in Ended,
         e.mark # "policy",
         pc[c] = "executing",
         pc' = [pc EXCEPT ![c] = q],
         UNCHANGED <<tool, params, executed>>,
         UNCHANGED log \/ \E ok \in BOOLEAN : LogSafe(ok, e)
  PROVE  Gate!Finish(c)
  <1>1. pc'[c] = q /\ \A d \in Calls \ {c} : pc'[d] = pc[d]
    BY DEF IInv, TypeOK
  <1>2. GateOwed' = GateOwed /\ GateDischarged' = GateDischarged
    BY <1>1, RecordedSame, GateFrame DEF IInv, Ended
  <1>3. c \in executed
    BY DEF IInv, ExecutedInv
  <1>4. GateStage[c] = "running"
    BY DEF GateStage
  <1>5. GateStage' = [GateStage EXCEPT ![c] = "ran"]
    BY <1>1, <1>3 DEF GateStage, Ended
  <1> QED
    BY <1>2, <1>4, <1>5 DEF Gate!Finish

(* A known tool is submitted with a debt that is not empty.                *)
LEMMA GateSubmit ==
  ASSUME IInv, FreshInv, NEW c \in Calls, NEW t \in Tools, NEW p \in Params,
         Start(c, t, p)
  PROVE  Gate!Submit(c, Slots(t, p)) /\ Slots(t, p) \in SUBSET AllSlots
  <1>1. /\ \A d \in Calls \ {c} : pc'[d] = pc[d] /\ tool'[d] = tool[d]
                                /\ params'[d] = params[d]
        /\ pc[c] = "idle" /\ pc'[c] = "resolving" /\ tool'[c] = t /\ params'[c] = p
        /\ t \in Registered
    BY DEF IInv, TypeOK, Start
  <1>2. \A d \in Calls \ {c} : SlotsOf(d)' = SlotsOf(d)
    BY <1>1 DEF SlotsOf, Slots, Present
  <1>3. SlotsOf(c)' = Slots(t, p)
    BY <1>1 DEF SlotsOf, Slots, Present
  <1>4. \A d, i : Recorded(d, i)' = Recorded(d, i)
    BY DEF Start, Recorded
  <1>5. GateStage[c] = "new" /\ GateStage' = [GateStage EXCEPT ![c] = "pending"]
    BY <1>1 DEF Start, GateStage, Ended
  <1>6. GateOwed' = [GateOwed EXCEPT ![c] = Slots(t, p)]
    BY <1>1, <1>2, <1>3 DEF GateOwed
  <1>7. GateDischarged' = GateDischarged
    <2>1. \A i : ~Recorded(c, i)
      BY <1>1 DEF FreshInv
    <2>2. \A d \in Calls : {i \in GateOwed'[d] : Recorded(d, i)'}
                          = {i \in GateOwed[d] : Recorded(d, i)}
      <3>1. \A d \in Calls \ {c} : GateOwed'[d] = GateOwed[d]
        BY <1>6 DEF GateOwed
      <3> QED
        BY <1>4, <2>1, <3>1
    <2> QED
      BY <2>2 DEF GateDischarged
  <1>8. Slots(t, p) # {}
    BY DEF Slots
  <1>9. Slots(t, p) \in SUBSET AllSlots
    BY <1>1 DEF AllSlots
  <1> QED
    BY <1>5, <1>6, <1>7, <1>8, <1>9 DEF Gate!Submit

(* A call of an unknown tool is refused before it owes anything.           *)
LEMMA GateReject ==
  ASSUME IInv, NEW c \in Calls, NEW t \in Tools, NEW p \in Params,
         RejectUnknown(c, t, p)
  PROVE  Gate!Refuse(c)
  <1>1. /\ \A d \in Calls \ {c} : pc'[d] = pc[d] /\ tool'[d] = tool[d]
                                /\ params'[d] = params[d]
        /\ pc[c] = "idle" /\ pc'[c] = "returned" /\ tool'[c] = t
        /\ t \notin Registered
    BY DEF IInv, TypeOK, RejectUnknown, Return
  <1>2. c \notin executed
    BY <1>1 DEF IInv, ExecutedInv, Ended
  <1>3. Entry(c, "__unknown_tool__", "DENIED_IMPLICIT", 0) \in Entries
    BY DEF Entry, Entries, Marks, Decisions
  <1>4. \A d, i : Recorded(d, i)' = Recorded(d, i)
    BY <1>3, RecordedSame DEF RejectUnknown, IInv, Entry
  <1>5. \A d \in Calls \ {c} : SlotsOf(d)' = SlotsOf(d)
    BY <1>1 DEF SlotsOf, Slots, Present
  <1>6. GateStage[c] = "new" /\ GateStage' = [GateStage EXCEPT ![c] = "refused"]
    BY <1>1, <1>2 DEF RejectUnknown, GateStage, Ended
  <1>7. GateOwed' = GateOwed
    BY <1>1, <1>5 DEF GateOwed
  <1>8. GateDischarged' = GateDischarged
    BY <1>4, <1>7 DEF GateDischarged
  <1> QED
    BY <1>6, <1>7, <1>8 DEF Gate!Refuse

(* A recorded Allow decision discharges a resource; any other decision     *)
(* leaves the gate alone.                                                  *)
LEMMA GateDecide ==
  ASSUME IInv, NEW c \in Calls, NEW i \in todo[c], NEW ok \in BOOLEAN, Decide(c, i, ok)
  PROVE  (i \in AllSlots /\ Gate!Discharge(c, i)) \/ UNCHANGED gateView
  <1> DEFINE e == Entry(c, "policy", VerdictOn(c, i), i)
  <1>1. /\ pc[c] = "evaluating" /\ VerdictOn(c, i) \in Decisions /\ i \in Nat
        /\ tool[c] \in Registered /\ params[c] \in Params /\ i \in SlotsOf(c)
    BY VerdictType DEF Decide, IInv, LoopInv
  <1>2. e \in Entries
    BY <1>1 DEF Entry, Entries, Marks
  <1>3. \A d : SlotsOf(d)' = SlotsOf(d)
    BY DEF Decide, SlotsOf, Slots, Present
  <1>4. GateStage' = GateStage
    BY DEF Decide, GateStage
  <1>5. GateOwed' = GateOwed
    BY <1>3 DEF Decide, GateOwed
  <1>6. CASE ok /\ VerdictOn(c, i) = "ALLOWED"
    <2> HIDE DEF e
    <2>0. \A d, j : e = Entry(d, "policy", "ALLOWED", j) <=> d = c /\ j = i
      BY <1>6 DEF e, Entry
    <2>1. \A d, j : Recorded(d, j)' <=> Recorded(d, j) \/ (d = c /\ j = i)
      <3>1. TypeOK /\ e \in Entries /\ LogSafe(ok, e) /\ ok
        BY <1>2, <1>6 DEF Decide, IInv, e
      <3>2. \A d, j : Recorded(d, j)' <=>
                      Recorded(d, j) \/ (ok /\ e = Entry(d, "policy", "ALLOWED", j))
        BY <3>1, LogSafeRecorded
      <3> QED
        BY <2>0, <3>1, <3>2
    <2>2. i \in AllSlots
      BY <1>1 DEF AllSlots, SlotsOf
    <2>4. i \in GateOwed[c] /\ GateStage[c] = "pending"
      BY <1>1 DEF GateOwed, GateStage, Ended
    <2>3. GateDischarged' = [GateDischarged EXCEPT ![c] = @ \cup {i}]
      <3>1. \A d \in Calls : {j \in GateOwed[d] : Recorded(d, j)'}
               = IF d = c THEN {j \in GateOwed[d] : Recorded(d, j)} \cup {i}
                          ELSE {j \in GateOwed[d] : Recorded(d, j)}
        BY <2>1, <2>4
      <3> QED
        BY <1>5, <3>1 DEF GateDischarged
    <2> QED
      BY <1>4, <1>5, <2>2, <2>4, <2>3 DEF Gate!Discharge
  <1>7. CASE ~(ok /\ VerdictOn(c, i) = "ALLOWED")
    <2>1. \A d, j : Recorded(d, j)' <=> Recorded(d, j)
      BY <1>2, <1>7, LogSafeRecorded DEF Decide, IInv, Entry
    <2>2. GateDischarged' = GateDischarged
      BY <1>5, <2>1 DEF GateDischarged
    <2> QED
      BY <1>4, <1>5, <2>2 DEF gateView
  <1> QED
    BY <1>6, <1>7

(* The tool starts only when everything owed has been discharged.          *)
LEMMA GateRun ==
  ASSUME IInv, NEW c \in Calls, Execute(c)
  PROVE  Gate!Run(c)
  <1>1. /\ pc[c] = "evaluating" /\ pc'[c] = "executing"
        /\ \A d \in Calls \ {c} : pc'[d] = pc[d]
    BY DEF IInv, TypeOK, Execute
  <1>2. \A d, i : Recorded(d, i)' = Recorded(d, i)
    BY DEF Execute, Recorded
  <1>3. GateOwed' = GateOwed /\ GateDischarged' = GateDischarged
    BY <1>1, <1>2, GateFrame DEF Execute
  <1>4. GateStage[c] = "pending" /\ GateStage' = [GateStage EXCEPT ![c] = "running"]
    BY <1>1 DEF Execute, GateStage, Ended
  <1>5. GateOwed[c] = GateDischarged[c]
    <2>1. tool[c] \in Registered /\ \A i \in SlotsOf(c) : Recorded(c, i)
      BY DEF Execute, IInv, LoopInv, ProgressInv
    <2> QED
      BY <2>1 DEF GateOwed, GateDischarged
  <1> QED
    BY <1>3, <1>4, <1>5 DEF Gate!Run

LEMMA GateStep ==
  IInv /\ FreshInv /\ [Next]_vars => [Gate!Next]_gateView
  <1> SUFFICES ASSUME IInv, FreshInv, [Next]_vars
               PROVE  Gate!Next \/ UNCHANGED gateView
    BY DEF gateView
  <1>1. CASE UNCHANGED vars
    BY <1>1 DEF vars, gateView, GateStage, GateOwed, GateDischarged, SlotsOf, Slots,
                Present, Recorded
  <1>2. ASSUME NEW c \in Calls, NEW t \in Tools, NEW p \in Params,
               RejectUnknown(c, t, p) \/ Start(c, t, p)
        PROVE  Gate!Next
    BY <1>2, GateReject, GateSubmit DEF Gate!Next
  <1>3. ASSUME NEW c \in Calls, NEW x \in Contexts \cup {Malformed}, Resolve(c, x)
        PROVE  UNCHANGED gateView
    <2>1. /\ pc[c] = "resolving" /\ pc'[c] = "evaluating"
          /\ \A d \in Calls \ {c} : pc'[d] = pc[d]
      BY <1>3 DEF Resolve, IInv, TypeOK
    <2>2. GateStage' = GateStage
      BY <1>3, <2>1 DEF Resolve, GateStage, Ended
    <2>3. \A d, i : Recorded(d, i)' = Recorded(d, i)
      BY <1>3 DEF Resolve, Recorded
    <2>4. GateOwed' = GateOwed /\ GateDischarged' = GateDischarged
      BY <1>3, <2>1, <2>3, GateFrame DEF Resolve
    <2> QED
      BY <2>2, <2>4 DEF gateView
  <1>4. ASSUME NEW c \in Calls, NEW i \in todo[c], EvaluateRaises(c, i)
        PROVE  UNCHANGED gateView
    <2>1. Entry(c, "__internal_error__", "DENIED_IMPLICIT", i) \in Entries
      BY DEF Entry, Entries, Marks, Decisions, IInv, TypeOK
    <2>2. \A d, j : Recorded(d, j)' = Recorded(d, j)
      BY <1>4, <2>1, RecordedSame DEF EvaluateRaises, IInv, Entry
    <2>3. GateOwed' = GateOwed /\ GateDischarged' = GateDischarged
      BY <1>4, <2>2, GateFrame DEF EvaluateRaises
    <2>4. GateStage' = GateStage
      BY <1>4 DEF EvaluateRaises, GateStage
    <2> QED
      BY <2>3, <2>4 DEF gateView
  <1>5. ASSUME NEW c \in Calls, NEW i \in todo[c], NEW ok \in BOOLEAN, Decide(c, i, ok)
        PROVE  Gate!Next \/ UNCHANGED gateView
    BY <1>5, GateDecide DEF Gate!Next
  <1>6. ASSUME NEW c \in Calls, Execute(c)
        PROVE  Gate!Next
    BY <1>6, GateRun DEF Gate!Next
  <1>7. ASSUME NEW c \in Calls, ResolveRaises(c) \/ MalformedContext(c) \/ Deny(c)
        PROVE  Gate!Next
    <2>1. Entry(c, "__internal_error__", "DENIED_IMPLICIT", 0) \in Entries
      BY DEF Entry, Entries, Marks, Decisions
    <2>2. Gate!Refuse(c)
      BY <1>7, <2>1, GateRefuse
      DEF ResolveRaises, MalformedContext, Deny, Return, Ended, Entry
    <2> QED
      BY <2>2 DEF Gate!Next
  <1>8. ASSUME NEW c \in Calls, ExecuteReturns(c) \/ ExecuteRaises(c)
        PROVE  Gate!Next
    <2>1. /\ Entry(c, "__execute_error__", "DENIED_IMPLICIT", 0) \in Entries
          /\ Entry(c, "__executed__", "ALLOWED", 0) \in Entries
      BY DEF Entry, Entries, Marks, Decisions
    <2>2. Gate!Finish(c)
      BY <1>8, <2>1, GateFinish DEF ExecuteReturns, ExecuteRaises, Return, Ended, Entry
    <2> QED
      BY <2>2 DEF Gate!Next
  <1>9. ASSUME NEW c \in Calls, Cancel(c)
        PROVE  Gate!Next
    <2>1. Entry(c, "__executed__", "ALLOWED", 0) \in Entries
      BY DEF Entry, Entries, Marks, Decisions
    <2>2. Gate!Refuse(c) \/ Gate!Finish(c)
      BY <1>9, <2>1, GateRefuse, GateFinish DEF Cancel, Ended, Entry
    <2> QED
      BY <2>2 DEF Gate!Next
  <1> QED
    BY <1>1, <1>2, <1>3, <1>4, <1>5, <1>6, <1>7, <1>8, <1>9 DEF Next, Evaluate

(* ToolDispatcher implements the code gate: whatever the policies, the     *)
(* modules and the audit log do, every behaviour of the dispatcher is one  *)
(* in which a tool starts only after an Allow decision on each of its      *)
(* resources has reached the audit log, and a refused call never starts.   *)
THEOREM Refinement == Spec => ImplementsGate
  <1>1. Init => FreshInv
    BY DEF Init, FreshInv, Recorded
  <1>2. Spec => [](IInv /\ FreshInv)
    BY <1>1, InitIInv, Inductive, FreshInductive, PTL DEF Spec
  <1> QED
    BY <1>2, GateInit, GateStep, PTL DEF Spec, ImplementsGate, Gate!Spec, gateView,
       Gate!gateVars

-----------------------------------------------------------------------------
(* The record.  A call that is not under evaluation yet is nowhere in the  *)
(* log; one that may still be decided on has decisions only in it, and no  *)
(* write of it was refused.                                                *)
Untouched(c) == ~Alarmed(c) /\ \A k \in DOMAIN log : log[k].call # c

OnlyDecisions(c) ==
  /\ ~Alarmed(c)
  /\ \A k \in DOMAIN log : log[k].call = c => log[k].mark = "policy"

Open(c) ==
  /\ pc[c] \in {"idle", "resolving"} => Untouched(c)
  /\ pc[c] = "evaluating" /\ (todo[c] # {} \/ ~denied[c]) =>
       /\ OnlyDecisions(c)
       /\ \A k \in DOMAIN log, j \in todo[c] : log[k].call = c => log[k].slot < j
  /\ pc[c] = "executing" => OnlyDecisions(c)

(* What is no longer to be evaluated is in the log, unless something failed*)
(* and there is a sign of that.                                            *)
Decided(c, i) == \E k \in DOMAIN log : log[k] = Entry(c, "policy", VerdictOn(c, i), i)

Faulted(c) ==
  Alarmed(c)
  \/ \E k \in DOMAIN log : log[k].call = c /\ log[k].mark = "__internal_error__"

Pictured(c) ==
  pc[c] \in {"evaluating", "executing", "returned"} /\ tool[c] \in Registered
  /\ ~Faulted(c)
    => \A i \in SlotsOf(c) : (pc[c] = "evaluating" /\ i \in todo[c]) \/ Decided(c, i)

(* ExecutionNoticed, call by call.                                         *)
Noticed(c) ==
  /\ outcome[c] = "result" => c \in executed
  /\ c \in executed /\ pc[c] = "returned" =>
       \E m \in {"__executed__", "__execute_error__"} :
         \/ <<c, m>> \in alarms
         \/ \E k \in DOMAIN log : log[k].call = c /\ log[k].mark = m

RecordOf(c) == Open(c) /\ Pictured(c) /\ Noticed(c)

RecordInv == TrailReadable /\ \A c \in Calls : RecordOf(c)

(* What a write does to the log.                                           *)
LEMMA LogSafeLog ==
  ASSUME TypeOK, NEW ok \in BOOLEAN, NEW e \in Entries, LogSafe(ok, e)
  PROVE  /\ DOMAIN log \subseteq DOMAIN log'
         /\ \A k \in DOMAIN log : log'[k] = log[k]
         /\ \A k \in DOMAIN log' \ DOMAIN log : ok /\ k = Len(log) + 1 /\ log'[k] = e
         /\ ok => Len(log) + 1 \in DOMAIN log' /\ log'[Len(log) + 1] = e
         /\ \A d, m : <<d, m>> \in alarms' <=>
                     <<d, m>> \in alarms \/ (~ok /\ d = e.call /\ m = e.mark)
         /\ Len(log) \in Nat /\ DOMAIN log = 1..Len(log)
  <1>1. log \in Seq(Entries)
    BY DEF TypeOK, Entries
  <1>2. CASE ok
    BY <1>1, <1>2 DEF LogSafe
  <1>3. CASE ~ok
    BY <1>1, <1>3 DEF LogSafe
  <1> QED
    BY <1>2, <1>3

(* TrailReadable, entry by entry: what comes before entry l of its call,   *)
(* and what must have come.                                                *)
After(l) ==
  \A k \in 1..(l - 1) :
    log[k].call = log[l].call =>
      log[k].mark = "policy" /\ (log[l].mark = "policy" => log[k].slot < log[l].slot)

NoneMissing(l) ==
  log[l].mark = "policy" =>
    \A i \in SlotsOf(log[l].call) :
      i < log[l].slot =>
        \E k \in 1..(l - 1) :
          log[k] = Entry(log[l].call, "policy", VerdictOn(log[l].call, i), i)

(* The log can be read back when every entry can.                          *)
LEMMA Readable == TrailReadable <=> \A l \in DOMAIN log : After(l) /\ NoneMissing(l)
  BY DEF TrailReadable, After, NoneMissing

(* A step keeps the resources of a call and the answers on them.           *)
InLog(d) == \E k \in DOMAIN log : log[k].call = d

SameAnswers(d) ==
  SlotsOf(d)' = SlotsOf(d) /\ \A i : VerdictOn(d, i)' = VerdictOn(d, i)

(* The log can be read back after a write, if the entry comes after all    *)
(* others of its call, which are decisions, and after a decision on each   *)
(* resource before its own.                                                *)
LEMMA ReadableWrite ==
  ASSUME TypeOK, TrailReadable, NEW ok \in BOOLEAN, NEW e \in Entries, LogSafe(ok, e),
         \A d : InLog(d) => SameAnswers(d),
         \A k \in DOMAIN log :
           log[k].call = e.call =>
             log[k].mark = "policy" /\ (e.mark = "policy" => log[k].slot < e.slot),
         e.mark = "policy" =>
           \A i \in SlotsOf(e.call)' :
             i < e.slot =>
               \E k \in DOMAIN log :
                 log[k] = Entry(e.call, "policy", VerdictOn(e.call, i)', i)
  PROVE  TrailReadable'
  <1>1. /\ \A k \in DOMAIN log : log'[k] = log[k]
        /\ \A k \in DOMAIN log' \ DOMAIN log : k = Len(log) + 1 /\ log'[k] = e
        /\ Len(log) \in Nat /\ DOMAIN log = 1..Len(log)
    BY LogSafeLog
  <1>2. \A l \in DOMAIN log : After(l) /\ NoneMissing(l)
    BY Readable
  <1>3. ASSUME NEW l \in DOMAIN log
        PROVE  After(l)' /\ NoneMissing(l)'
    <2>1. \A k \in 1..(l - 1) : k \in DOMAIN log /\ log'[k] = log[k]
      BY <1>1
    <2>2. log'[l] = log[l]
      BY <1>1
    <2>3. After(l)'
      BY <1>2, <2>1, <2>2 DEF After
    <2>4. NoneMissing(l)'
      <3>1. /\ SlotsOf(log[l].call)' = SlotsOf(log[l].call)
            /\ \A i : VerdictOn(log[l].call, i)' = VerdictOn(log[l].call, i)
        BY <2>2 DEF InLog, SameAnswers
      <3>2. SUFFICES ASSUME log[l].mark = "policy",
                            NEW i \in SlotsOf(log[l].call)', i < log[l].slot
                     PROVE  \E k \in 1..(l - 1) :
                              log'[k] = Entry(log[l].call, "policy",
                                              VerdictOn(log[l].call, i)', i)
        BY <2>2 DEF NoneMissing
      <3>3. PICK k \in 1..(l - 1) :
              log[k] = Entry(log[l].call, "policy", VerdictOn(log[l].call, i), i)
        BY <1>2, <3>1, <3>2 DEF NoneMissing
      <3> QED
        BY <2>1, <3>1, <3>3
    <2> QED
      BY <2>3, <2>4
  <1>4. ASSUME NEW l \in DOMAIN log' \ DOMAIN log
        PROVE  After(l)' /\ NoneMissing(l)'
    <2>1. log'[l] = e /\ 1..(l - 1) = DOMAIN log
      BY <1>1
    <2>2. After(l)'
      BY <1>1, <2>1 DEF After
    <2>3. NoneMissing(l)'
      <3>1. SUFFICES ASSUME e.mark = "policy", NEW i \in SlotsOf(e.call)', i < e.slot
                     PROVE  \E k \in 1..(l - 1) :
                              log'[k] = Entry(e.call, "policy", VerdictOn(e.call, i)', i)
        BY <2>1 DEF NoneMissing
      <3>2. PICK k \in DOMAIN log :
              log[k] = Entry(e.call, "policy", VerdictOn(e.call, i)', i)
        BY <3>1
      <3> QED
        BY <1>1, <2>1, <3>2
    <2> QED
      BY <2>2, <2>3
  <1>5. \A l \in DOMAIN log' : After(l)' /\ NoneMissing(l)'
    BY <1>3, <1>4
  <1> QED
    BY <1>5 DEF TrailReadable, After, NoneMissing

(* What was decided stays decided, and a fault stays a fault.              *)
LEMMA DecidedStays ==
  ASSUME TypeOK, NEW e \in Entries,
         UNCHANGED <<log, alarms>> \/ \E ok \in BOOLEAN : LogSafe(ok, e)
  PROVE  /\ \A c, i : VerdictOn(c, i)' = VerdictOn(c, i) /\ Decided(c, i) => Decided(c, i)'
         /\ \A c : Faulted(c) => Faulted(c)'
         /\ \A c : c # e.call /\ Untouched(c) => Untouched(c)'
         /\ \A c : c # e.call /\ OnlyDecisions(c) => OnlyDecisions(c)'
         /\ \A c : c # e.call => \A k \in DOMAIN log' :
              log'[k].call = c => k \in DOMAIN log /\ log'[k] = log[k]
  <1>1. CASE UNCHANGED <<log, alarms>>
    BY <1>1 DEF Decided, Faulted, Alarmed, Untouched, OnlyDecisions
  <1>2. ASSUME NEW ok \in BOOLEAN, LogSafe(ok, e)
        PROVE  /\ \A c, i : VerdictOn(c, i)' = VerdictOn(c, i) /\ Decided(c, i)
                            => Decided(c, i)'
               /\ \A c : Faulted(c) => Faulted(c)'
               /\ \A c : c # e.call /\ Untouched(c) => Untouched(c)'
               /\ \A c : c # e.call /\ OnlyDecisions(c) => OnlyDecisions(c)'
               /\ \A c : c # e.call => \A k \in DOMAIN log' :
                    log'[k].call = c => k \in DOMAIN log /\ log'[k] = log[k]
    <2>1. /\ DOMAIN log \subseteq DOMAIN log'
          /\ \A k \in DOMAIN log : log'[k] = log[k]
          /\ \A k \in DOMAIN log' \ DOMAIN log : log'[k] = e
          /\ \A d, m : <<d, m>> \in alarms' <=>
                      <<d, m>> \in alarms \/ (~ok /\ d = e.call /\ m = e.mark)
      BY <1>2, LogSafeLog
    <2>2. \A c, i : VerdictOn(c, i)' = VerdictOn(c, i) /\ Decided(c, i) => Decided(c, i)'
      BY <2>1 DEF Decided
    <2>3. \A c : Faulted(c) => Faulted(c)'
      BY <2>1 DEF Faulted, Alarmed
    <2>4. \A c : c # e.call => (Alarmed(c)' <=> Alarmed(c))
      BY <2>1 DEF Alarmed
    <2>5. \A c : c # e.call => \A k \in DOMAIN log' :
            log'[k].call = c => k \in DOMAIN log /\ log'[k] = log[k]
      BY <2>1
    <2> QED
      BY <2>2, <2>3, <2>4, <2>5 DEF Untouched, OnlyDecisions
  <1> QED
    BY <1>1, <1>2

(* A step that writes nothing and changes no call of the log leaves it as  *)
(* readable as it was.                                                     *)
LEMMA ReadableStays ==
  ASSUME TrailReadable, UNCHANGED log,
         \A d : InLog(d) => SameAnswers(d)
  PROVE  TrailReadable'
  <1>1. ASSUME NEW l \in DOMAIN log
        PROVE  After(l)' /\ NoneMissing(l)'
    <2>1. After(l) /\ NoneMissing(l)
      BY Readable
    <2>2. After(l)'
      BY <2>1 DEF After
    <2>3. NoneMissing(l)'
      BY <2>1 DEF NoneMissing, InLog, SameAnswers
    <2> QED
      BY <2>2, <2>3
  <1> QED
    BY <1>1 DEF TrailReadable, After, NoneMissing

(* A step leaves what belongs to call d alone.                             *)
Still(d) ==
  /\ pc'[d] = pc[d] /\ tool'[d] = tool[d] /\ params'[d] = params[d]
  /\ context'[d] = context[d] /\ todo'[d] = todo[d] /\ denied'[d] = denied[d]
  /\ outcome'[d] = outcome[d] /\ (d \in executed' <=> d \in executed)

LEMMA StillAnswers == \A d : Still(d) => SameAnswers(d)
  BY SameCall DEF Still, SameAnswers

(* A step of one call is no concern of another one's record.               *)
LEMMA OthersStay ==
  ASSUME TypeOK, NEW e \in Entries, NEW d \in Calls, d # e.call, Still(d), RecordOf(d),
         UNCHANGED <<log, alarms>> \/ \E ok \in BOOLEAN : LogSafe(ok, e)
  PROVE  RecordOf(d)'
  <1>1. /\ SlotsOf(d)' = SlotsOf(d)
        /\ \A i : VerdictOn(d, i)' = VerdictOn(d, i)
    BY SameCall DEF Still
  <1>2. /\ \A i : Decided(d, i) => Decided(d, i)'
        /\ Faulted(d) => Faulted(d)'
        /\ Untouched(d) => Untouched(d)'
        /\ OnlyDecisions(d) => OnlyDecisions(d)'
        /\ \A k \in DOMAIN log' :
             log'[k].call = d => k \in DOMAIN log /\ log'[k] = log[k]
    BY <1>1, DecidedStays
  <1>3. Open(d)'
    BY <1>2 DEF Still, Open, RecordOf
  <1>4. Pictured(d)'
    BY <1>1, <1>2 DEF Still, Pictured, RecordOf
  <1>5. Noticed(d)'
    <2>1. /\ \A m : <<d, m>> \in alarms => <<d, m>> \in alarms'
          /\ \A k \in DOMAIN log : k \in DOMAIN log' /\ log'[k] = log[k]
      BY LogSafeLog
    <2> QED
      BY <2>1 DEF Still, Noticed, RecordOf
  <1> QED
    BY <1>3, <1>4, <1>5 DEF RecordOf

(* The record after a step of call c that changes no other call.           *)
LEMMA RecordStep ==
  ASSUME IInv, RecordInv, NEW c \in Calls, NEW e \in Entries, e.call = c,
         \A d \in Calls \ {c} : Still(d),
         UNCHANGED <<log, alarms>> \/ \E ok \in BOOLEAN : LogSafe(ok, e),
         RecordOf(c)', TrailReadable'
  PROVE  RecordInv'
  <1>1. \A d \in Calls \ {c} : RecordOf(d)'
    BY OthersStay DEF RecordInv, IInv
  <1> QED
    BY <1>1 DEF RecordInv

(* A call whose tool was not started has nothing to notice.                *)
LEMMA NotRun ==
  ASSUME NEW c, c \notin executed', outcome'[c] # "result"
  PROVE  Noticed(c)'
  BY DEF Noticed

(* The entries in the log are of calls.                                    *)
LEMMA LogCalls == TypeOK => \A k \in DOMAIN log : log[k] \in Entries /\ log[k].call \in Calls
  <1> SUFFICES ASSUME TypeOK, NEW k \in DOMAIN log
               PROVE  log[k] \in Entries /\ log[k].call \in Calls
    OBVIOUS
  <1>1. log \in Seq(Entries)
    BY DEF TypeOK, Entries
  <1>2. log[k] \in Entries
    BY <1>1
  <1> QED
    BY <1>2 DEF Entries

LEMMA StartRecord ==
  ASSUME IInv, RecordInv, NEW c \in Calls, NEW t \in Tools, NEW p \in Params, Start(c, t, p)
  PROVE  RecordInv'
  <1>1. Entry(c, "policy", "ALLOWED", 0) \in Entries
    BY DEF Entry, Entries, Marks, Decisions
  <1>2. \A d \in Calls \ {c} : Still(d)
    BY DEF Start, Still, IInv, TypeOK
  <1>3. /\ Untouched(c) /\ outcome[c] = "none" /\ c \notin executed
    BY DEF Start, RecordInv, RecordOf, Open, IInv, LoopInv, ExecutedInv, Ended
  <1>4. pc'[c] = "resolving" /\ UNCHANGED <<log, alarms, outcome, executed>>
    BY DEF Start, IInv, TypeOK
  <1>5. RecordOf(c)'
    <2>1. Open(c)'
      BY <1>3, <1>4 DEF Open, Untouched, Alarmed
    <2>2. Pictured(c)'
      BY <1>4 DEF Pictured
    <2> QED
      BY <1>3, <1>4, <2>1, <2>2, NotRun DEF RecordOf
  <1>6. TrailReadable'
    <2>1. \A k \in DOMAIN log : log[k].call \in Calls \ {c}
      BY <1>3, LogCalls DEF Untouched, IInv
    <2>2. \A d : InLog(d) => SameAnswers(d)
      BY <1>2, <2>1, StillAnswers DEF InLog
    <2> QED
      BY <1>4, <2>2, ReadableStays DEF RecordInv
  <1> QED
    BY <1>1, <1>2, <1>4, <1>5, <1>6, RecordStep DEF Entry

(* The first entry of a call, when it is not a decision, can be read.      *)
LEMMA FirstWrite ==
  ASSUME TypeOK, TrailReadable, NEW c \in Calls, Untouched(c),
         NEW e \in Entries, e.call = c, e.mark # "policy",
         NEW ok \in BOOLEAN, LogSafe(ok, e),
         \A d \in Calls \ {c} : Still(d)
  PROVE  TrailReadable'
  <1>1. \A k \in DOMAIN log : log[k].call \in Calls \ {c}
    BY LogCalls DEF Untouched
  <1>2. \A d : InLog(d) => SameAnswers(d)
    BY <1>1, StillAnswers DEF InLog
  <1> QED
    BY <1>1, <1>2, ReadableWrite

LEMMA RejectRecord ==
  ASSUME IInv, RecordInv, NEW c \in Calls, NEW t \in Tools, NEW p \in Params,
         RejectUnknown(c, t, p)
  PROVE  RecordInv'
  <1> DEFINE e == Entry(c, "__unknown_tool__", "DENIED_IMPLICIT", 0)
  <1>1. e \in Entries /\ e.call = c /\ e.mark # "policy"
    BY DEF Entry, Entries, Marks, Decisions
  <1>2. PICK ok \in BOOLEAN : LogSafe(ok, e)
    BY DEF RejectUnknown
  <1>3. \A d \in Calls \ {c} : Still(d)
    BY DEF RejectUnknown, Return, Still, IInv, TypeOK
  <1>4. Untouched(c) /\ c \notin executed
    BY DEF RejectUnknown, RecordInv, RecordOf, Open, IInv, ExecutedInv, Ended
  <1>5. /\ pc'[c] = "returned" /\ tool'[c] \notin Registered
        /\ outcome'[c] = "failed" /\ executed' = executed
    BY DEF RejectUnknown, Return, IInv, TypeOK
  <1>6. RecordOf(c)'
    BY <1>4, <1>5, NotRun DEF RecordOf, Open, Pictured
  <1>7. TrailReadable'
    BY <1>1, <1>2, <1>3, <1>4, FirstWrite DEF IInv, RecordInv
  <1> QED
    BY <1>1, <1>2, <1>3, <1>6, <1>7, RecordStep

LEMMA ResolveRecord ==
  ASSUME IInv, RecordInv, NEW c \in Calls, NEW x \in Contexts \cup {Malformed}, Resolve(c, x)
  PROVE  RecordInv'
  <1>1. Entry(c, "policy", "ALLOWED", 0) \in Entries
    BY DEF Entry, Entries, Marks, Decisions
  <1>2. \A d \in Calls \ {c} : Still(d)
    BY DEF Resolve, Still, IInv, TypeOK
  <1>3. /\ Untouched(c) /\ outcome[c] = "none" /\ c \notin executed /\ todo[c] = SlotsOf(c)
    BY DEF Resolve, RecordInv, RecordOf, Open, IInv, LoopInv, ExecutedInv, Ended
  <1>4. /\ pc'[c] = "evaluating" /\ UNCHANGED <<log, alarms, outcome, executed, todo>>
        /\ SlotsOf(c)' = SlotsOf(c)
    BY DEF Resolve, IInv, TypeOK, SlotsOf
  <1>5. RecordOf(c)'
    <2>1. Open(c)'
      BY <1>3, <1>4 DEF Open, OnlyDecisions, Untouched, Alarmed
    <2>2. Pictured(c)'
      BY <1>3, <1>4 DEF Pictured
    <2> QED
      BY <1>3, <1>4, <2>1, <2>2, NotRun DEF RecordOf
  <1>6. TrailReadable'
    <2>1. \A k \in DOMAIN log : log[k].call \in Calls \ {c}
      BY <1>3, LogCalls DEF Untouched, IInv
    <2>2. \A d : InLog(d) => SameAnswers(d)
      BY <1>2, <2>1, StillAnswers DEF InLog
    <2> QED
      BY <1>4, <2>2, ReadableStays DEF RecordInv
  <1> QED
    BY <1>1, <1>2, <1>4, <1>5, <1>6, RecordStep DEF Entry

(* A written entry is in the log, or its refusal is on the process log.    *)
LEMMA WriteSeen ==
  ASSUME TypeOK, NEW e \in Entries, NEW ok \in BOOLEAN, LogSafe(ok, e)
  PROVE  \/ \E k \in DOMAIN log' : log'[k] = e
         \/ <<e.call, e.mark>> \in alarms' /\ Alarmed(e.call)'
  <1>1. e.mark \in Marks
    BY DEF Entries
  <1> QED
    BY <1>1, LogSafeLog DEF Alarmed

LEMMA ResolveRaisesRecord ==
  ASSUME IInv, RecordInv, NEW c \in Calls, ResolveRaises(c)
  PROVE  RecordInv'
  <1> DEFINE e == Entry(c, "__internal_error__", "DENIED_IMPLICIT", 0)
  <1>1. e \in Entries /\ e.call = c /\ e.mark = "__internal_error__"
    BY DEF Entry, Entries, Marks, Decisions
  <1>2. PICK ok \in BOOLEAN : LogSafe(ok, e)
    BY DEF ResolveRaises
  <1>3. \A d \in Calls \ {c} : Still(d)
    BY DEF ResolveRaises, Return, Still, IInv, TypeOK
  <1>4. Untouched(c) /\ c \notin executed
    BY DEF ResolveRaises, RecordInv, RecordOf, Open, IInv, ExecutedInv, Ended
  <1>5. /\ pc'[c] = "returned" /\ outcome'[c] = "failed" /\ executed' = executed
    BY DEF ResolveRaises, Return, IInv, TypeOK
  <1>6. RecordOf(c)'
    <2>1. Faulted(c)'
      BY <1>1, <1>2, WriteSeen DEF Faulted, IInv
    <2> QED
      BY <1>4, <1>5, <2>1, NotRun DEF RecordOf, Open, Pictured
  <1>7. TrailReadable'
    BY <1>1, <1>2, <1>3, <1>4, FirstWrite DEF IInv, RecordInv
  <1> QED
    BY <1>1, <1>2, <1>3, <1>6, <1>7, RecordStep

(* A call under evaluation that is not denied, or has resources left, has  *)
(* a decision in the log on each resource it is through with.              *)
LEMMA LoopRecord ==
  ASSUME IInv, RecordInv, NEW c \in Calls, pc[c] = "evaluating",
         todo[c] # {} \/ ~denied[c]
  PROVE  /\ c \notin executed /\ outcome[c] = "none"
         /\ OnlyDecisions(c) /\ ~Faulted(c)
         /\ \A k \in DOMAIN log, j \in todo[c] : log[k].call = c => log[k].slot < j
         /\ \A j \in SlotsOf(c) : j \in todo[c] \/ Decided(c, j)
  <1>1. c \notin executed /\ outcome[c] = "none" /\ tool[c] \in Registered
    BY DEF IInv, ExecutedInv, LoopInv, Ended
  <1>2. /\ OnlyDecisions(c)
        /\ \A k \in DOMAIN log, j \in todo[c] : log[k].call = c => log[k].slot < j
    BY DEF RecordInv, RecordOf, Open
  <1>3. ~Faulted(c)
    BY <1>2 DEF Faulted, OnlyDecisions
  <1>4. \A j \in SlotsOf(c) : j \in todo[c] \/ Decided(c, j)
    BY <1>1, <1>3 DEF RecordInv, RecordOf, Pictured
  <1> QED
    BY <1>1, <1>2, <1>3, <1>4

(* The next decision of the loop comes where a reader expects it.          *)
LEMMA DecideRecord ==
  ASSUME IInv, RecordInv, NEW c \in Calls, NEW i \in todo[c], NEW ok \in BOOLEAN,
         Decide(c, i, ok)
  PROVE  RecordInv'
  <1>1. pc[c] = "evaluating" /\ VerdictOn(c, i) \in Decisions /\ i \in Nat
    BY VerdictType DEF Decide, IInv
  <1>0. PICK e \in Entries : e = Entry(c, "policy", VerdictOn(c, i), i)
    BY <1>1 DEF Entry, Entries, Marks
  <1>2. e \in Entries /\ e.call = c /\ e.mark = "policy" /\ e.slot = i
    BY <1>0 DEF Entry
  <1>3. LogSafe(ok, e)
    BY <1>0 DEF Decide
  <1>4. \A d \in Calls \ {c} : Still(d)
    BY DEF Decide, Still, IInv, TypeOK
  <1>5. \A d : /\ SlotsOf(d)' = SlotsOf(d)
               /\ \A j : VerdictOn(d, j)' = VerdictOn(d, j)
    BY SameCall DEF Decide
  <1>6. /\ c \notin executed /\ outcome[c] = "none"
        /\ OnlyDecisions(c) /\ ~Faulted(c)
        /\ \A k \in DOMAIN log, j \in todo[c] : log[k].call = c => log[k].slot < j
        /\ \A j \in SlotsOf(c) : j \in todo[c] \/ Decided(c, j)
    BY <1>1, LoopRecord
  <1>7. /\ pc'[c] = "evaluating" /\ UNCHANGED <<pc, outcome, executed>>
        /\ todo'[c] = StillTodo(c, i, ok) /\ denied'[c] = StillDenied(c, i, ok)
        /\ todo[c] \subseteq Nat /\ \A j \in todo[c] : i <= j
    BY <1>1 DEF Decide, IInv, TypeOK, NextSlot
  <1>8. /\ \A k \in DOMAIN log : log'[k] = log[k]
        /\ \A k \in DOMAIN log' \ DOMAIN log : log'[k] = e
        /\ ok => \E k \in DOMAIN log' : log'[k] = e
        /\ \A d, m : <<d, m>> \in alarms' <=>
                    <<d, m>> \in alarms \/ (~ok /\ d = e.call /\ m = e.mark)
    BY <1>2, <1>3, LogSafeLog DEF IInv
  <1>9. Open(c)'
    <2>1. SUFFICES ASSUME todo'[c] # {} \/ ~denied'[c]
                   PROVE  /\ OnlyDecisions(c)'
                          /\ \A k \in DOMAIN log', j \in todo'[c] :
                               log'[k].call = c => log'[k].slot < j
      BY <1>7 DEF Open
    <2>2. ok /\ todo'[c] = todo[c] \ {i}
      BY <1>7, <2>1 DEF StillTodo, StillDenied
    <2>3. OnlyDecisions(c)'
      BY <1>2, <1>6, <1>8, <2>2 DEF OnlyDecisions, Alarmed
    <2>4. ASSUME NEW k \in DOMAIN log', NEW j \in todo'[c], log'[k].call = c
          PROVE  log'[k].slot < j
      <3>1. CASE k \in DOMAIN log
        BY <1>6, <1>8, <2>2, <2>4, <3>1
      <3>2. CASE k \notin DOMAIN log
        <4>1. log'[k].slot = i /\ i <= j /\ j # i /\ j \in Nat
          BY <1>2, <1>7, <1>8, <2>2, <3>2
        <4> QED
          BY <1>1, <4>1
      <3> QED
        BY <3>1, <3>2
    <2> QED
      BY <2>3, <2>4
  <1>10. Pictured(c)'
    <2>1. SUFFICES ASSUME ~Faulted(c)', NEW j \in SlotsOf(c)
                   PROVE  j \in todo'[c] \/ Decided(c, j)'
      BY <1>5, <1>7 DEF Pictured
    <2>2. ok
      BY <1>2, <1>3, <2>1, WriteSeen DEF Faulted, Alarmed, Marks, LogSafe
    <2>3. todo'[c] = todo[c] \ {i}
      BY <1>7, <2>2 DEF StillTodo
    <2>4. Decided(c, i)'
      BY <1>0, <1>5, <1>8, <2>2 DEF Decided
    <2>5. \A h : Decided(c, h) => Decided(c, h)'
      BY <1>2, <1>3, <1>5, DecidedStays DEF IInv
    <2> QED
      BY <1>6, <2>3, <2>4, <2>5
  <1>11. TrailReadable'
    <2>1. \A k \in DOMAIN log :
            log[k].call = e.call => log[k].mark = "policy" /\ log[k].slot < e.slot
      BY <1>2, <1>6 DEF OnlyDecisions
    <2>2. ASSUME NEW j \in SlotsOf(c), j < i
          PROVE  \E k \in DOMAIN log : log[k] = Entry(c, "policy", VerdictOn(c, j), j)
      <3>1. j \notin todo[c]
        BY <1>1, <1>7, <2>2
      <3> QED
        BY <1>6, <3>1 DEF Decided
    <2>3. \A d : InLog(d) => SameAnswers(d)
      BY <1>5 DEF SameAnswers
    <2>4. \A j \in SlotsOf(e.call)' :
            j < e.slot =>
              \E k \in DOMAIN log : log[k] = Entry(e.call, "policy", VerdictOn(e.call, j)', j)
      BY <1>2, <1>5, <2>2
    <2> QED
      BY <1>2, <1>3, <2>1, <2>3, <2>4, ReadableWrite DEF IInv, RecordInv
  <1>12. RecordOf(c)'
    BY <1>6, <1>7, <1>9, <1>10, NotRun DEF RecordOf
  <1> QED
    BY <1>2, <1>3, <1>4, <1>11, <1>12, RecordStep

(* The evaluator has raised: its entry closes the call's record.           *)
LEMMA EvaluateRaisesRecord ==
  ASSUME IInv, RecordInv, NEW c \in Calls, NEW i \in todo[c], EvaluateRaises(c, i)
  PROVE  RecordInv'
  <1> DEFINE e == Entry(c, "__internal_error__", "DENIED_IMPLICIT", i)
  <1>1. pc[c] = "evaluating" /\ i \in Nat
    BY DEF EvaluateRaises, IInv, TypeOK
  <1>2. e \in Entries /\ e.call = c /\ e.mark = "__internal_error__"
    BY <1>1 DEF Entry, Entries, Marks, Decisions
  <1>3. PICK ok \in BOOLEAN : LogSafe(ok, e)
    BY DEF EvaluateRaises
  <1>4. \A d \in Calls \ {c} : Still(d)
    BY DEF EvaluateRaises, Still, IInv, TypeOK
  <1>5. c \notin executed /\ outcome[c] = "none" /\ OnlyDecisions(c)
    BY <1>1, LoopRecord
  <1>6. /\ pc'[c] = "evaluating" /\ todo'[c] = {} /\ denied'[c]
        /\ UNCHANGED <<tool, params, context, outcome, executed>>
    BY <1>1 DEF EvaluateRaises, IInv, TypeOK
  <1>7. RecordOf(c)'
    <2>1. Faulted(c)'
      BY <1>2, <1>3, WriteSeen DEF Faulted, IInv
    <2> QED
      BY <1>5, <1>6, <2>1, NotRun DEF RecordOf, Open, Pictured
  <1>8. TrailReadable'
    <2>1. \A d : InLog(d) => SameAnswers(d)
      BY <1>6, SameCall DEF SameAnswers
    <2> QED
      BY <1>2, <1>3, <1>5, <2>1, ReadableWrite DEF IInv, RecordInv, OnlyDecisions
  <1> QED
    BY <1>2, <1>3, <1>4, <1>7, <1>8, RecordStep

(* The steps that write nothing and move one call on.                      *)
LEMMA SilentRecord ==
  ASSUME IInv, RecordInv, NEW c \in Calls,
         MalformedContext(c) \/ Deny(c) \/ Execute(c) \/ Cancel(c)
  PROVE  RecordInv'
  <1>1. Entry(c, "policy", "ALLOWED", 0) \in Entries
    BY DEF Entry, Entries, Marks, Decisions
  <1>2. \A d \in Calls \ {c} : Still(d)
    BY DEF MalformedContext, Deny, Execute, Cancel, Return, Still, IInv, TypeOK
  <1>3. UNCHANGED <<tool, params, context, todo, denied, log, alarms>>
    BY DEF MalformedContext, Deny, Execute, Cancel
  <1>4. /\ \A d : SameAnswers(d)
        /\ \A i : Decided(c, i)' <=> Decided(c, i)
        /\ Faulted(c)' <=> Faulted(c)
        /\ OnlyDecisions(c)' <=> OnlyDecisions(c)
    BY <1>3, SameCall DEF SameAnswers, Decided, Faulted, OnlyDecisions, Alarmed
  <1>5. RecordOf(c)'
    <2>1. CASE MalformedContext(c)
      <3>1. pc'[c] = "raised" /\ c \notin executed' /\ outcome'[c] = "none"
        BY <2>1 DEF MalformedContext, IInv, TypeOK, LoopInv, ExecutedInv, Ended
      <3> QED
        BY <3>1 DEF RecordOf, Open, Pictured, Noticed
    <2>2. CASE Deny(c)
      <3>1. /\ pc[c] = "evaluating" /\ pc'[c] = "returned" /\ todo[c] = {}
            /\ c \notin executed' /\ outcome'[c] = "failed"
        BY <2>2 DEF Deny, Return, IInv, TypeOK, ExecutedInv, Ended
      <3>2. Pictured(c)'
        BY <1>3, <1>4, <3>1 DEF RecordInv, RecordOf, Pictured, SameAnswers
      <3> QED
        BY <3>1, <3>2 DEF RecordOf, Open, Noticed
    <2>3. CASE Execute(c)
      <3>1. /\ pc[c] = "evaluating" /\ pc'[c] = "executing" /\ todo[c] = {} /\ ~denied[c]
            /\ outcome'[c] = "none"
        BY <2>3 DEF Execute, IInv, TypeOK, LoopInv
      <3>2. OnlyDecisions(c) /\ \A j \in SlotsOf(c) : Decided(c, j)
        BY <3>1, LoopRecord
      <3> QED
        BY <1>4, <3>1, <3>2 DEF RecordOf, Open, Pictured, Noticed, SameAnswers
    <2>4. CASE Cancel(c)
      <3>1. pc'[c] = "cancelled" /\ outcome' = outcome /\ executed' = executed
        BY <2>4 DEF Cancel, IInv, TypeOK
      <3> QED
        BY <3>1 DEF RecordOf, Open, Pictured, Noticed, RecordInv
    <2> QED
      BY <2>1, <2>2, <2>3, <2>4
  <1>6. TrailReadable'
    BY <1>3, <1>4, ReadableStays DEF RecordInv
  <1> QED
    BY <1>1, <1>2, <1>3, <1>5, <1>6, RecordStep DEF Entry

(* An execution that ends is noticed.                                      *)
LEMMA ExecutionRecord ==
  ASSUME IInv, RecordInv, NEW c \in Calls, NEW e \in Entries, e.call = c,
         e.mark \in {"__executed__", "__execute_error__"},
         NEW ok \in BOOLEAN, LogSafe(ok, e),
         NEW v \in {"failed", "result"}, pc[c] = "executing", Return(c, v),
         UNCHANGED <<tool, params, context, todo, denied, executed>>
  PROVE  RecordInv'
  <1>1. \A d \in Calls \ {c} : Still(d)
    BY DEF Return, Still, IInv, TypeOK
  <1>2. pc'[c] = "returned" /\ c \in executed /\ OnlyDecisions(c)
    BY DEF Return, IInv, TypeOK, ExecutedInv, RecordInv, RecordOf, Open
  <1>3. \A d : SameAnswers(d)
    BY SameCall DEF SameAnswers
  <1>4. Open(c)'
    BY <1>2 DEF Open
  <1>5. Pictured(c)'
    <2>1. SUFFICES ASSUME tool[c] \in Registered, ~Faulted(c)', NEW i \in SlotsOf(c)
                   PROVE  Decided(c, i)'
      BY <1>2, <1>3 DEF Pictured, SameAnswers
    <2>2. ~Faulted(c)
      BY <2>1, DecidedStays DEF IInv
    <2>3. Decided(c, i)
      BY <2>1, <2>2 DEF RecordInv, RecordOf, Pictured
    <2> QED
      BY <1>3, <2>3, DecidedStays DEF IInv, SameAnswers
  <1>6. Noticed(c)'
    <2>1. <<c, e.mark>> \in alarms' \/ \E k \in DOMAIN log' : log'[k] = e
      BY WriteSeen DEF IInv
    <2> QED
      BY <1>2, <2>1 DEF Noticed
  <1>7. TrailReadable'
    BY <1>2, <1>3, ReadableWrite DEF IInv, RecordInv, OnlyDecisions
  <1>8. RecordOf(c)'
    BY <1>4, <1>5, <1>6 DEF RecordOf
  <1> QED
    BY <1>1, <1>7, <1>8, RecordStep

LEMMA ExecuteEndsRecord ==
  ASSUME IInv, RecordInv, NEW c \in Calls, ExecuteReturns(c) \/ ExecuteRaises(c)
  PROVE  RecordInv'
  <1>1. CASE ExecuteReturns(c)
    <2>1. PICK e \in Entries : e = Entry(c, "__executed__", "ALLOWED", 0)
      BY DEF Entry, Entries, Marks, Decisions
    <2> QED
      BY <1>1, <2>1, ExecutionRecord DEF ExecuteReturns, Entry
  <1>2. CASE ExecuteRaises(c)
    <2>1. PICK e \in Entries : e = Entry(c, "__execute_error__", "DENIED_IMPLICIT", 0)
      BY DEF Entry, Entries, Marks, Decisions
    <2> QED
      BY <1>2, <2>1, ExecutionRecord DEF ExecuteRaises, Entry
  <1> QED
    BY <1>1, <1>2

LEMMA InitRecord == Init => RecordInv
  <1> SUFFICES ASSUME Init PROVE RecordInv
    OBVIOUS
  <1>1. DOMAIN log = {} /\ \A c : ~Alarmed(c)
    BY DEF Init, Alarmed
  <1>2. TrailReadable
    BY <1>1 DEF TrailReadable
  <1>3. \A c \in Calls : RecordOf(c)
    <2> SUFFICES ASSUME NEW c \in Calls PROVE RecordOf(c)
      OBVIOUS
    <2>1. pc[c] = "idle" /\ outcome[c] = "none" /\ c \notin executed
      BY DEF Init
    <2>2. Open(c)
      BY <1>1, <2>1 DEF Open, Untouched
    <2>3. Pictured(c) /\ Noticed(c)
      BY <2>1 DEF Pictured, Noticed
    <2> QED
      BY <2>2, <2>3 DEF RecordOf
  <1> QED
    BY <1>2, <1>3 DEF RecordInv

LEMMA RecordInductive == IInv /\ RecordInv /\ [Next]_vars => RecordInv'
  <1> SUFFICES ASSUME IInv, RecordInv, [Next]_vars PROVE RecordInv'
    OBVIOUS
  <1>1. CASE UNCHANGED vars
    <2>1. UNCHANGED log /\ \A d : SameAnswers(d)
      BY <1>1, SameCall DEF vars, SameAnswers
    <2>2. TrailReadable'
      BY <2>1, ReadableStays DEF RecordInv
    <2>3. ASSUME NEW d \in Calls PROVE RecordOf(d)'
      <3>1. /\ Untouched(d)' <=> Untouched(d)
            /\ OnlyDecisions(d)' <=> OnlyDecisions(d)
            /\ Faulted(d)' <=> Faulted(d)
            /\ \A i : Decided(d, i)' <=> Decided(d, i)
        BY <1>1, <2>1
        DEF vars, Untouched, OnlyDecisions, Alarmed, Faulted, Decided, SameAnswers
      <3>2. Open(d) /\ Pictured(d) /\ Noticed(d)
        BY DEF RecordInv, RecordOf
      <3>3. Open(d)'
        BY <1>1, <3>1, <3>2 DEF vars, Open
      <3>4. Pictured(d)'
        BY <1>1, <2>1, <3>1, <3>2 DEF vars, Pictured, SameAnswers
      <3>5. Noticed(d)'
        BY <1>1, <3>2 DEF vars, Noticed
      <3> QED
        BY <3>3, <3>4, <3>5 DEF RecordOf
    <2> QED
      BY <2>2, <2>3 DEF RecordInv
  <1>2. CASE Next
    <2> PICK c \in Calls :
          \/ \E t \in Tools, p \in Params : RejectUnknown(c, t, p) \/ Start(c, t, p)
          \/ \E x \in Contexts \cup {Malformed} : Resolve(c, x)
          \/ ResolveRaises(c)
          \/ Evaluate(c)
          \/ ExecuteReturns(c)
          \/ ExecuteRaises(c)
          \/ Cancel(c)
      BY <1>2 DEF Next
    <2>1. CASE \E t \in Tools, p \in Params : RejectUnknown(c, t, p) \/ Start(c, t, p)
      BY <2>1, RejectRecord, StartRecord
    <2>2. CASE \E x \in Contexts \cup {Malformed} : Resolve(c, x)
      BY <2>2, ResolveRecord
    <2>3. CASE ResolveRaises(c) \/ ExecuteReturns(c) \/ ExecuteRaises(c) \/ Cancel(c)
      BY <2>3, ResolveRaisesRecord, ExecuteEndsRecord, SilentRecord
    <2>4. CASE Evaluate(c)
      BY <2>4, DecideRecord, EvaluateRaisesRecord, SilentRecord DEF Evaluate
    <2> QED
      BY <2>1, <2>2, <2>3, <2>4
  <1> QED
    BY <1>1, <1>2

(* dispatcher.py:291-295 and 56-57: the decisions of a refused call are all*)
(* in the log, every ended execution has left a trace, and the entries of  *)
(* a call can be matched with its resources by counting.                   *)
THEOREM RecordFaithfulHolds == Spec => []RecordFaithful
  <1>1. IInv /\ RecordInv => RecordFaithful
    <2> SUFFICES ASSUME IInv, RecordInv PROVE RecordFaithful
      OBVIOUS
    <2>1. FullPicture
      <3> SUFFICES ASSUME NEW c \in Calls, pc[c] = "returned", tool[c] \in Registered,
                          ~Alarmed(c),
                          ~(\E k \in DOMAIN log :
                              log[k].call = c /\ log[k].mark = "__internal_error__"),
                          NEW i \in SlotsOf(c)
                   PROVE  \E k \in DOMAIN log :
                            log[k] = Entry(c, "policy", VerdictOn(c, i), i)
        BY DEF FullPicture
      <3>1. ~Faulted(c)
        BY DEF Faulted
      <3> QED
        BY <3>1 DEF RecordInv, RecordOf, Pictured, Decided
    <2>2. ExecutionNoticed
      <3>1. \A c \in Calls : Noticed(c)
        BY DEF RecordInv, RecordOf
      <3> QED
        BY <3>1 DEF Noticed, ExecutionNoticed
    <2> QED
      BY <2>1, <2>2 DEF RecordFaithful, RecordComplete, RecordInv, IInv
  <1> QED
    BY <1>1, InitIInv, InitRecord, Inductive, RecordInductive, PTL DEF Spec
=============================================================================
