------------------------------ MODULE CodeGate ------------------------------
(***************************************************************************)
(* What the code gate of SafeAgent promises, without saying how: a tool    *)
(* call owes one obligation for each resource it names, an obligation is   *)
(* discharged by an Allow decision that the audit trail has accepted, and  *)
(* the tool runs only when nothing is owed any more.  A refused call is    *)
(* finished: it is never granted and never runs.                           *)
(*                                                                         *)
(* design/architecture.md, "The Code Gate": there is exactly one path from *)
(* a tool call to execute(), and it goes through the evaluator.            *)
(***************************************************************************)

CONSTANTS Calls,        \* tool calls
          Obligations   \* what a call may owe

VARIABLES stage,        \* how far the call has come
          owed,         \* the obligations of the call
          discharged    \* those met by a recorded Allow decision

gateVars == <<stage, owed, discharged>>

Stages == {"new", "pending", "running", "ran", "refused"}

TypeOK ==
  /\ stage \in [Calls -> Stages]
  /\ owed \in [Calls -> SUBSET Obligations]
  /\ discharged \in [Calls -> SUBSET Obligations]

Init ==
  /\ stage = [c \in Calls |-> "new"]
  /\ owed = [c \in Calls |-> {}]
  /\ discharged = [c \in Calls |-> {}]

(* A call arrives and owes the non-empty set O.                            *)
Submit(c, O) ==
  /\ stage[c] = "new"
  /\ O # {}
  /\ stage' = [stage EXCEPT ![c] = "pending"]
  /\ owed' = [owed EXCEPT ![c] = O]
  /\ UNCHANGED discharged

(* An Allow decision for the obligation o of c reaches the audit trail.    *)
Discharge(c, o) ==
  /\ stage[c] = "pending"
  /\ o \in owed[c]
  /\ discharged' = [discharged EXCEPT ![c] = @ \cup {o}]
  /\ UNCHANGED <<stage, owed>>

(* The tool starts: nothing may be owed.                                   *)
Run(c) ==
  /\ stage[c] = "pending"
  /\ owed[c] = discharged[c]
  /\ stage' = [stage EXCEPT ![c] = "running"]
  /\ UNCHANGED <<owed, discharged>>

(* The tool has answered, failed, or been cancelled.                       *)
Finish(c) ==
  /\ stage[c] = "running"
  /\ stage' = [stage EXCEPT ![c] = "ran"]
  /\ UNCHANGED <<owed, discharged>>

(* The call ends without running, whatever has been discharged so far.     *)
Refuse(c) ==
  /\ stage[c] \in {"new", "pending"}
  /\ stage' = [stage EXCEPT ![c] = "refused"]
  /\ UNCHANGED <<owed, discharged>>

Next ==
  \E c \in Calls :
    \/ \E O \in SUBSET Obligations : Submit(c, O)
    \/ \E o \in Obligations : Discharge(c, o)
    \/ Run(c)
    \/ Finish(c)
    \/ Refuse(c)

Spec == Init /\ [][Next]_gateVars
=============================================================================
