---------------------------- MODULE SerialTurns -----------------------------
(***************************************************************************)
(* What the gateway promises its callers: each turn is for one session,    *)
(* and the turns of a session are answered one after the other.            *)
(***************************************************************************)
CONSTANTS Turns, Ids, NoId

VARIABLES stage,   \* where a turn is: new, accepted, active, over
          session  \* the session it is for

vars == <<stage, session>>

Init ==
  /\ stage = [t \in Turns |-> "new"]
  /\ session = [t \in Turns |-> NoId]

(* A turn for an unknown session is over at once.                          *)
Refuse(t) ==
  /\ stage[t] = "new"
  /\ stage' = [stage EXCEPT ![t] = "over"]
  /\ UNCHANGED session

Accept(t, s) ==
  /\ stage[t] = "new"
  /\ stage' = [stage EXCEPT ![t] = "accepted"]
  /\ session' = [session EXCEPT ![t] = s]

Idle(s) == \A u \in Turns : session[u] = s => stage[u] # "active"

Begin(t) ==
  /\ stage[t] = "accepted"
  /\ Idle(session[t])
  /\ stage' = [stage EXCEPT ![t] = "active"]
  /\ UNCHANGED session

(* A turn ends, and another one of the session may begin at once.          *)
End(t) ==
  /\ stage[t] \in {"accepted", "active"}
  /\ UNCHANGED session
  /\ \/ stage' = [stage EXCEPT ![t] = "over"]
     \/ \E u \in Turns \ {t} :
          /\ stage[t] = "active"
          /\ session[u] = session[t]
          /\ stage[u] = "accepted"
          /\ \A v \in Turns \ {t} : session[v] = session[t] => stage[v] # "active"
          /\ stage' = [stage EXCEPT ![t] = "over", ![u] = "active"]

Next ==
  \E t \in Turns :
    \/ Refuse(t)
    \/ \E s \in Ids : Accept(t, s)
    \/ Begin(t)
    \/ End(t)

Spec == Init /\ [][Next]_vars
=============================================================================
