----------------------------- MODULE SshProofs ------------------------------
(***************************************************************************)
(* For any number of hosts, calls and connections: the limit is exceeded   *)
(* by less than the number of calls in flight, no connection is leaked but *)
(* by calls that connect to one host at a time, and a command keeps its    *)
(* connection for as long as the idle time-out.                            *)
(***************************************************************************)
EXTENDS SshSessions, FiniteSetTheorems, TLAPS

Session == [conn : Conns, used : 0..MaxTime, user : Users] \cup {NoSession}

(* No connection is that of two hosts.                                     *)
Distinct ==
  \A g, h \in Stored : session[g].conn = session[h].conn => g = h

(* A running command began before now, ...                                 *)
Busy == \A c \in Calls : pc[c] \in Tools => since[c] <= now

(* ... and its session has been used since.                                *)
Fresh ==
  \A c \in Calls, h \in Stored :
    pc[c] \in Tools /\ session[h].conn = conn[c] => since[c] <= session[h].used

UsesPast == \A h \in Stored : session[h].used <= now

(* While a call connects, the session of its host is not open, or was made *)
(* since by another that connected, too.                                   *)
Raced ==
  \A c \in Connecting :
    host[c] \in Stored /\ session[host[c]].conn \in open => session[host[c]].conn \in raced

-----------------------------------------------------------------------------
LEMMA NoSessionShape ==
  /\ NoSession.conn = NoConn
  /\ NoSession \in Session
  /\ \A r \in Session : r.conn # NoConn => r \in [conn : Conns, used : 0..MaxTime, user : Users]
BY SshAssumption DEF NoSession, Session

(* The sessions after some of them are forgotten.                          *)
LEMMA ForgetShape ==
  ASSUME session \in [Hosts -> Session], NEW S
  PROVE  /\ Forget(S) \in [Hosts -> Session]
         /\ \A h \in Hosts \ S : Forget(S)[h] = session[h]
         /\ \A h \in Hosts \cap S : Forget(S)[h] = NoSession
BY NoSessionShape DEF Forget

(* A session that is used again is a session.                              *)
LEMMA TouchType ==
  ASSUME NEW f \in [Hosts -> Session], NEW h \in Hosts, now \in 0..MaxTime,
         f[h] \in [conn : Conns, used : 0..MaxTime, user : Users]
  PROVE  [f EXCEPT ![h].used = now] \in [Hosts -> Session]
<1>1. [f[h] EXCEPT !.used = now] \in Session
  BY DEF Session
<1> QED BY <1>1

LEMMA InitType == Init => TypeOK
BY SshAssumption DEF Init, TypeOK, Tools

(* A call that returns leaves its fields empty.                            *)
LEMMA IdleAgainType ==
  ASSUME TypeOK, NEW c \in Calls, IdleAgain(c)
  PROVE  /\ pc' \in [Calls -> {"idle", "connecting"} \cup Tools]
         /\ host' \in [Calls -> Hosts \cup {NoHost}]
         /\ user' \in [Calls -> Users \cup {NoUser}]
         /\ conn' \in [Calls -> Conns \cup {NoConn}]
         /\ since' \in [Calls -> 0..MaxTime]
         /\ \A d \in Calls : /\ pc'[d] = "idle" <=> host'[d] = NoHost
                             /\ pc'[d] = "connecting" <=> user'[d] # NoUser
                             /\ pc'[d] \in Tools <=> conn'[d] # NoConn
BY DEF TypeOK, IdleAgain, Tools

LEMMA TypeStep == TypeOK /\ [Next]_vars => TypeOK'
<1> SUFFICES ASSUME TypeOK, [Next]_vars PROVE TypeOK'
  OBVIOUS
<1> DEFINE CallsOK == 
         /\ pc' \in [Calls -> {"idle", "connecting"} \cup Tools]
         /\ host' \in [Calls -> Hosts \cup {NoHost}]
         /\ user' \in [Calls -> Users \cup {NoUser}]
         /\ conn' \in [Calls -> Conns \cup {NoConn}]
         /\ since' \in [Calls -> 0..MaxTime]
         /\ \A d \in Calls : /\ pc'[d] = "idle" <=> host'[d] = NoHost
                             /\ pc'[d] = "connecting" <=> user'[d] # NoUser
                             /\ pc'[d] \in Tools <=> conn'[d] # NoConn
<1>0. /\ session \in [Hosts -> Session]
      /\ now \in 0..MaxTime
      /\ open \subseteq Conns
  BY DEF TypeOK, Session
<1>f. \A S : Forget(S) \in [Hosts -> Session]
  BY <1>0, ForgetShape
<1>a. UNCHANGED call => CallsOK
  BY DEF TypeOK, call
<1>b. \A c \in Calls : IdleAgain(c) => CallsOK
  BY IdleAgainType
<1> HIDE DEF CallsOK
<1>r. raced' \subseteq Conns
  <2>1. raced \subseteq Conns
    BY DEF TypeOK
  <2>2. ASSUME NEW c \in Calls, NEW k \in Conns, Connected(c, k) PROVE raced' \subseteq Conns
    BY <2>1, <2>2 DEF Connected
  <2>3. ASSUME NEW c \in Calls, NEW h \in Hosts,
               AlreadyConnected(c, h) \/ Refused(c, h) \/ NotConnected(c, h)
                 \/ (\E u \in Users : Connect(c, h, u)) \/ (\E tool \in Tools : Begin(c, h, tool))
        PROVE  raced' \subseteq Conns
    BY <2>1, <2>3 DEF AlreadyConnected, Refused, NotConnected, Connect, Begin
  <2>4. ASSUME NEW c \in Calls,
               ConnectFails(c) \/ CommandEnds(c) \/ PushEnds(c) \/ CommandFails(c)
        PROVE  raced' \subseteq Conns
    BY <2>1, <2>4 DEF ConnectFails, CommandEnds, PushEnds, CommandFails
  <2>5. CloseAll \/ Tick \/ (\E k \in Conns : Drop(k)) \/ UNCHANGED vars => raced' \subseteq Conns
    BY <2>1 DEF CloseAll, Tick, Drop, vars
  <2> QED
    BY <2>2, <2>3, <2>4, <2>5 DEF Next
<1>q. CallsOK /\ now' \in 0..MaxTime /\ session' \in [Hosts -> Session] /\ open' \subseteq Conns
      => TypeOK'
  BY <1>r DEF CallsOK, TypeOK, Session, NoSession
<1>1. ASSUME NEW c \in Calls, NEW h \in Hosts, AlreadyConnected(c, h) PROVE TypeOK'
  <2>1. session[h] \in [conn : Conns, used : 0..MaxTime, user : Users]
    BY <1>0, <1>1, NoSessionShape DEF AlreadyConnected, Stored
  <2>3. session' \in [Hosts -> Session]
    BY <1>0, <1>1, <2>1, TouchType DEF AlreadyConnected
  <2> QED BY <1>0, <1>1, <1>a, <1>q, <2>3 DEF AlreadyConnected
<1>2. ASSUME NEW c \in Calls, NEW h \in Hosts, Refused(c, h) PROVE TypeOK'
  BY <1>0, <1>2, <1>a, <1>q DEF Refused
<1>3. ASSUME NEW c \in Calls, NEW h \in Hosts, NotConnected(c, h) PROVE TypeOK'
  BY <1>0, <1>3, <1>a, <1>q, <1>f DEF NotConnected
<1>4. ASSUME NEW c \in Calls, NEW h \in Hosts, NEW u \in Users, Connect(c, h, u)
      PROVE TypeOK'
  <2>1. CallsOK
    BY <1>4, SshAssumption DEF Connect, CallsOK, TypeOK, Tools
  <2> QED BY <1>0, <1>4, <1>q, <2>1 DEF Connect
<1>5. ASSUME NEW c \in Calls, NEW h \in Hosts, NEW tool \in Tools, Begin(c, h, tool)
      PROVE TypeOK'
  <2>1. h \in Hosts \ Expired /\ session[h] \in [conn : Conns, used : 0..MaxTime, user : Users]
    BY <1>0, <1>5, NoSessionShape DEF Begin, Usable, Stored
  <2>2. CallsOK
    BY <1>0, <1>5, <2>1, SshAssumption DEF Begin, CallsOK, TypeOK, Tools
  <2>3. Forget(Expired)[h] = session[h] /\ Forget(Expired) \in [Hosts -> Session]
    BY <1>0, <2>1, ForgetShape
  <2>5. session' \in [Hosts -> Session]
    BY <1>0, <1>5, <2>1, <2>3, TouchType DEF Begin
  <2> QED BY <1>0, <1>5, <1>q, <2>2, <2>5 DEF Begin
<1>6. ASSUME NEW c \in Calls, NEW k \in Conns, Connected(c, k) PROVE TypeOK'
  <2>1. host[c] \in Hosts /\ user[c] \in Users
    BY <1>6 DEF Connected, TypeOK
  <2>2. session' \in [Hosts -> Session]
    BY <1>0, <1>6, <2>1 DEF Connected, Session
  <2> QED BY <1>0, <1>6, <1>b, <1>q, <2>2 DEF Connected
<1>7. ASSUME NEW c \in Calls, ConnectFails(c) PROVE TypeOK'
  BY <1>0, <1>7, <1>b, <1>q DEF ConnectFails
<1>8. ASSUME NEW c \in Calls, CommandEnds(c) PROVE TypeOK'
  BY <1>0, <1>8, <1>b, <1>q DEF CommandEnds
<1>9. ASSUME NEW c \in Calls, PushEnds(c) PROVE TypeOK'
  BY <1>0, <1>9, <1>b, <1>q DEF PushEnds
<1>10. ASSUME NEW c \in Calls, CommandFails(c) PROVE TypeOK'
  BY <1>0, <1>10, <1>b, <1>q DEF CommandFails
<1>11. CASE CloseAll
  BY <1>0, <1>11, <1>a, <1>q, <1>f DEF CloseAll
<1>12. CASE Tick
  BY <1>0, <1>12, <1>a, <1>q, SshAssumption DEF Tick
<1>13. ASSUME NEW k \in Conns, Drop(k) PROVE TypeOK'
  BY <1>0, <1>13, <1>a, <1>q DEF Drop
<1>14. CASE UNCHANGED vars
  BY <1>0, <1>14, <1>a, <1>q DEF vars, call
<1> QED
  BY <1>1, <1>2, <1>3, <1>4, <1>5, <1>6, <1>7, <1>8, <1>9, <1>10, <1>11, <1>12,
     <1>13, <1>14 DEF Next

(* What is stored has its user, and a call in flight all it needs.         *)
THEOREM TypeCorrect == Spec => []TypeOK
BY InitType, TypeStep, PTL DEF Spec

-----------------------------------------------------------------------------
(* What a step does to the sessions and connections, whichever it is.      *)
LEMMA StoredAfterForget ==
  ASSUME session \in [Hosts -> Session], NEW S, session' = Forget(S)
  PROVE  /\ Stored' = Stored \ S
         /\ \A h \in Stored \ S : session'[h] = session[h]
BY ForgetShape, NoSessionShape DEF Stored

LEMMA StoredAfterTouch ==
  ASSUME session \in [Hosts -> Session], NEW S, NEW h \in Stored \ S,
         session' = [Forget(S) EXCEPT ![h].used = now]
  PROVE  /\ Stored' = Stored \ S
         /\ \A g \in Stored \ S : session'[g].conn = session[g].conn
         /\ \A g \in (Stored \ S) \ {h} : session'[g] = session[g]
         /\ session'[h].used = now
<1>1. h \in Hosts /\ h \notin S /\ Stored \subseteq Hosts
  BY DEF Stored
<1>2. /\ Forget(S) \in [Hosts -> Session]
      /\ \A g \in Hosts \ S : Forget(S)[g] = session[g]
      /\ \A g \in Hosts \cap S : Forget(S)[g] = NoSession
  BY ForgetShape
<1>3. session[h] \in [conn : Conns, used : 0..MaxTime, user : Users]
  BY NoSessionShape DEF Stored
<1>4. /\ session'[h].conn = session[h].conn
      /\ session'[h].used = now
  BY <1>1, <1>2, <1>3
<1>5. \A g \in Hosts \ {h} : session'[g] = Forget(S)[g]
  BY <1>1, <1>2
<1> QED BY <1>1, <1>2, <1>4, <1>5, NoSessionShape DEF Stored

LEMMA StoredAfterConnect ==
  ASSUME session \in [Hosts -> Session], NEW g \in Hosts, NEW k \in Conns, NEW u,
         session' = [session EXCEPT ![g] = [conn |-> k, used |-> now, user |-> u]]
  PROVE  /\ Stored' = Stored \cup {g}
         /\ session'[g].conn = k /\ session'[g].used = now
         /\ \A h \in Hosts \ {g} : session'[h] = session[h]
BY SshAssumption DEF Stored
-----------------------------------------------------------------------------
(* The invariant behind OnlyLongCommandsCut.                               *)
Inv == TypeOK /\ Distinct /\ Busy /\ Fresh /\ UsesPast

LEMMA InitInv == Init => Inv
BY InitType, SshAssumption
   DEF Init, Inv, Distinct, Busy, Fresh, UsesPast, Stored, NoSession, Tools

LEMMA Typed ==
  ASSUME TypeOK
  PROVE  /\ session \in [Hosts -> Session]
         /\ now \in Nat /\ now \in 0..MaxTime
         /\ Stored \subseteq Hosts
         /\ \A h \in Stored : session[h].used \in Nat /\ session[h].conn \in Conns
         /\ \A c \in Calls : since[c] \in Nat
         /\ pc \in [Calls -> {"idle", "connecting"} \cup Tools]
         /\ conn \in [Calls -> Conns \cup {NoConn}]
         /\ since \in [Calls -> 0..MaxTime]
<1>1. session \in [Hosts -> Session]
  BY DEF TypeOK, Session
<1>2. \A h \in Stored : session[h] \in [conn : Conns, used : 0..MaxTime, user : Users]
  BY <1>1, NoSessionShape DEF Stored
<1> QED BY <1>1, <1>2, SshAssumption DEF TypeOK, Stored

(* A call that returns, or starts to connect, needs no session.            *)
LEMMA CallFrame ==
  ASSUME Inv, NEW c \in Calls, UNCHANGED <<now, session>>,
         \A d \in Calls \ {c} : pc'[d] = pc[d] /\ conn'[d] = conn[d] /\ since'[d] = since[d],
         pc'[c] \notin Tools
  PROVE  Distinct' /\ Busy' /\ Fresh' /\ UsesPast'
BY DEF Inv, Distinct, Busy, Fresh, UsesPast, Stored

LEMMA ReturnFrame ==
  ASSUME Inv, NEW c \in Calls, IdleAgain(c)
  PROVE  /\ \A d \in Calls \ {c} :
              pc'[d] = pc[d] /\ conn'[d] = conn[d] /\ since'[d] = since[d]
         /\ pc'[c] \notin Tools
BY Typed DEF Inv, IdleAgain, Tools

LEMMA ForgetFrame ==
  ASSUME Inv, NEW S, session' = Forget(S), UNCHANGED <<now, call>>
  PROVE  Distinct' /\ Busy' /\ Fresh' /\ UsesPast'
<1>1. /\ Stored' = Stored \ S
      /\ \A h \in Stored \ S : session'[h] = session[h]
  BY StoredAfterForget, Typed DEF Inv
<1>2. UNCHANGED <<pc, conn, since>>
  BY DEF call
<1> QED BY <1>1, <1>2 DEF Inv, Distinct, Busy, Fresh, UsesPast

LEMMA InvStep == Inv /\ [Next]_vars => Inv'
<1> SUFFICES ASSUME Inv, [Next]_vars PROVE Distinct' /\ Busy' /\ Fresh' /\ UsesPast'
  BY TypeStep DEF Inv
<1>0. TypeOK
  BY DEF Inv
<1>a. UNCHANGED <<now, session, call>> => Distinct' /\ Busy' /\ Fresh' /\ UsesPast'
  BY DEF Inv, call, Distinct, Busy, Fresh, UsesPast, Stored
<1>1. ASSUME NEW c \in Calls, NEW h \in Hosts, AlreadyConnected(c, h)
      PROVE  Distinct' /\ Busy' /\ Fresh' /\ UsesPast'
  <2>1. Forget({}) = session
    BY <1>0, Typed DEF Forget
  <2>2. /\ Stored' = Stored
        /\ \A g \in Stored : session'[g].conn = session[g].conn
        /\ \A g \in Stored \ {h} : session'[g] = session[g]
        /\ session'[h].used = now
    <3>1. session' = [Forget({}) EXCEPT ![h].used = now] /\ h \in Stored \ {}
      BY <1>1, <2>1 DEF AlreadyConnected
    <3>2. Stored \ {} = Stored
      OBVIOUS
    <3>3. /\ Stored' = Stored \ {}
          /\ \A g \in Stored \ {} : session'[g].conn = session[g].conn
          /\ \A g \in (Stored \ {}) \ {h} : session'[g] = session[g]
          /\ session'[h].used = now
      BY <1>0, <3>1, Typed, StoredAfterTouch
    <3> QED BY <3>2, <3>3
  <2>3. UNCHANGED <<now, pc, conn, since>>
    BY <1>1 DEF AlreadyConnected, call
  <2> QED BY <1>0, <2>2, <2>3, Typed DEF Inv, Distinct, Busy, Fresh, UsesPast
<1>2. ASSUME NEW c \in Calls, NEW h \in Hosts, Refused(c, h)
      PROVE  Distinct' /\ Busy' /\ Fresh' /\ UsesPast'
  BY <1>2, <1>a DEF Refused
<1>3. ASSUME NEW c \in Calls, NEW h \in Hosts, NotConnected(c, h)
      PROVE  Distinct' /\ Busy' /\ Fresh' /\ UsesPast'
  BY <1>3, ForgetFrame DEF NotConnected
<1>4. ASSUME NEW c \in Calls, NEW h \in Hosts, NEW u \in Users, Connect(c, h, u)
      PROVE  Distinct' /\ Busy' /\ Fresh' /\ UsesPast'
  BY <1>0, <1>4, CallFrame, Typed DEF Connect, Tools
<1>5. ASSUME NEW c \in Calls, NEW h \in Hosts, NEW tool \in Tools, Begin(c, h, tool)
      PROVE  Distinct' /\ Busy' /\ Fresh' /\ UsesPast'
  <2>1. h \in Stored \ Expired
    BY <1>5 DEF Begin, Usable
  <2>2. /\ Stored' = Stored \ Expired
        /\ \A g \in Stored \ Expired : session'[g].conn = session[g].conn
        /\ \A g \in (Stored \ Expired) \ {h} : session'[g] = session[g]
        /\ session'[h].used = now
    BY <1>0, <1>5, <2>1, Typed, StoredAfterTouch DEF Begin
  <2>3. /\ now' = now
        /\ \A d \in Calls \ {c} : /\ pc'[d] = pc[d] /\ conn'[d] = conn[d]
                                  /\ since'[d] = since[d]
        /\ conn'[c] = session[h].conn /\ since'[c] = now
    BY <1>0, <1>5, Typed DEF Begin
  <2>4. Distinct' /\ UsesPast'
    BY <1>0, <2>1, <2>2, <2>3, Typed DEF Inv, Distinct, UsesPast
  <2>5. Busy'
    BY <1>0, <2>3, Typed, SshAssumption DEF Inv, Busy
  <2>6. Fresh'
    BY <1>0, <2>1, <2>2, <2>3, Typed DEF Inv, Distinct, Busy, Fresh
  <2> QED BY <2>4, <2>5, <2>6
<1>6. ASSUME NEW c \in Calls, NEW k \in Conns, Connected(c, k)
      PROVE  Distinct' /\ Busy' /\ Fresh' /\ UsesPast'
  <2>1. host[c] \in Hosts
    BY <1>6 DEF Connected, Inv, TypeOK
  <2>2. /\ Stored' = Stored \cup {host[c]}
        /\ session'[host[c]].conn = k /\ session'[host[c]].used = now
        /\ \A h \in Hosts \ {host[c]} : session'[h] = session[h]
    BY <1>0, <1>6, <2>1, Typed, StoredAfterConnect DEF Connected
  <2>3. /\ now' = now
        /\ \A d \in Calls \ {c} : /\ pc'[d] = pc[d] /\ conn'[d] = conn[d]
                                  /\ since'[d] = since[d]
        /\ pc'[c] \notin Tools
    BY <1>6, ReturnFrame DEF Connected
  <2>4. /\ \A h \in Stored : session[h].conn # k
        /\ \A d \in Calls : conn[d] # k
    BY <1>6 DEF Connected, Unused, ConnsOf
  <2>5. Distinct' /\ UsesPast'
    BY <1>0, <2>1, <2>2, <2>3, <2>4, Typed DEF Inv, Distinct, UsesPast
  <2>6. Busy' /\ Fresh'
    BY <1>0, <2>1, <2>2, <2>3, <2>4, Typed DEF Inv, Busy, Fresh
  <2> QED BY <2>5, <2>6
<1>7. ASSUME NEW c \in Calls, ConnectFails(c)
      PROVE  Distinct' /\ Busy' /\ Fresh' /\ UsesPast'
  BY <1>7, ReturnFrame, CallFrame DEF ConnectFails
<1>8. ASSUME NEW c \in Calls, CommandEnds(c)
      PROVE  Distinct' /\ Busy' /\ Fresh' /\ UsesPast'
  BY <1>8, ReturnFrame, CallFrame DEF CommandEnds
<1>9. ASSUME NEW c \in Calls, PushEnds(c)
      PROVE  Distinct' /\ Busy' /\ Fresh' /\ UsesPast'
  BY <1>9, ReturnFrame, CallFrame DEF PushEnds
<1>10. ASSUME NEW c \in Calls, CommandFails(c)
       PROVE  Distinct' /\ Busy' /\ Fresh' /\ UsesPast'
  BY <1>10, ReturnFrame, CallFrame DEF CommandFails
<1>11. CASE CloseAll
  BY <1>11, ForgetFrame DEF CloseAll
<1>12. CASE Tick
  <2>1. now' = now + 1 /\ UNCHANGED <<session, pc, conn, since>>
    BY <1>12 DEF Tick, call
  <2>2. \A c \in Calls : pc[c] \in Tools => now - since[c] < CommandTime
    BY <1>12 DEF Tick
  <2>3. Busy'
    BY <1>0, <2>1, <2>2, Typed, SshAssumption DEF Inv, Busy
  <2>4. Distinct' /\ Fresh' /\ UsesPast'
    BY <1>0, <2>1, Typed DEF Inv, Distinct, Fresh, UsesPast, Stored
  <2> QED BY <2>3, <2>4
<1>13. ASSUME NEW k \in Conns, Drop(k)
       PROVE  Distinct' /\ Busy' /\ Fresh' /\ UsesPast'
  BY <1>13, <1>a DEF Drop
<1>14. CASE UNCHANGED vars
  BY <1>14, <1>a DEF vars, call
<1> QED
  BY <1>1, <1>2, <1>3, <1>4, <1>5, <1>6, <1>7, <1>8, <1>9, <1>10, <1>11, <1>12,
     <1>13, <1>14 DEF Next
(* An expired session was last used long ago; a command on its connection  *)
(* began no later.                                                         *)
LEMMA InUseIsLong ==
  ASSUME Inv, NEW c \in Calls, pc[c] \in Tools, conn[c] \in ConnsOf(Expired)
  PROVE  IdleTimeout > 0 /\ now - since[c] > IdleTimeout
<1>1. PICK h \in Expired : session[h].conn = conn[c]
  BY DEF ConnsOf
<1>2. h \in Stored /\ IdleTimeout > 0 /\ now - session[h].used > IdleTimeout
  BY DEF Expired
<1>3. since[c] <= session[h].used
  BY <1>1, <1>2 DEF Inv, Fresh
<1>4. now \in Nat /\ session[h].used \in Nat /\ since[c] \in Nat /\ IdleTimeout \in Nat
  BY <1>2, Typed, SshAssumption DEF Inv
<1> QED BY <1>2, <1>3, <1>4

(* remote_ssh.py:542-577: whatever the limits are, cleaning up closes a    *)
(* connection in use only under a command that has been running for longer *)
(* than the idle time-out.                                                 *)
THEOREM OnlyLongCommandsCutHolds == Spec => OnlyLongCommandsCut
<1>1. ASSUME Inv, [Next]_vars, NEW c \in Calls, pc[c] \in Tools,
             conn[c] \in open, conn[c] \notin open', conn[c] \notin ConnsOf(Expired)
      PROVE  CloseAll \/ \E k \in Conns : Drop(k)
  <2>2. open' # open /\ open' # open \ ConnsOf(Expired) /\ \A k : open' # open \cup {k}
    BY <1>1
  <2>3. ASSUME NEW d \in Calls
        PROVE  /\ \A h \in Hosts : ~AlreadyConnected(d, h) /\ ~Refused(d, h) /\ ~NotConnected(d, h)
               /\ \A h \in Hosts, u \in Users : ~Connect(d, h, u)
               /\ \A h \in Hosts, tool \in Tools : ~Begin(d, h, tool)
               /\ \A k \in Conns : ~Connected(d, k)
    BY <2>2 DEF AlreadyConnected, Refused, NotConnected, Connect, Begin, Connected
  <2>4. ASSUME NEW d \in Calls
        PROVE  ~ConnectFails(d) /\ ~CommandEnds(d) /\ ~PushEnds(d) /\ ~CommandFails(d)
    BY <2>2 DEF ConnectFails, CommandEnds, PushEnds, CommandFails
  <2>5. ~Tick /\ ~UNCHANGED vars
    BY <2>2 DEF Tick, vars
  <2> QED BY <1>1, <2>3, <2>4, <2>5 DEF Next
<1>2. Inv /\ [Next]_vars => ClosesLong
  BY <1>1, InUseIsLong DEF ClosesLong
<1> QED BY <1>2, InitInv, InvStep, PTL DEF Spec, OnlyLongCommandsCut

-----------------------------------------------------------------------------
(* The same for the sum of what is stored and what is being opened.        *)
LEMMA Finite ==
  /\ IsFiniteSet(Stored) /\ IsFiniteSet(Connecting)
  /\ Cardinality(Stored) \in Nat /\ Cardinality(Connecting) \in Nat
  /\ Cardinality(Calls) \in Nat \ {0}
  /\ Cardinality(Connecting) <= Cardinality(Calls)
<1>1. Stored \subseteq Hosts /\ Connecting \subseteq Calls
  BY DEF Stored, Connecting
<1>2. IsFiniteSet(Hosts) /\ IsFiniteSet(Calls) /\ Calls # {}
  BY SshAssumption
<1> QED BY <1>1, <1>2, FS_Subset, FS_CardinalityType, FS_EmptySet

LEMMA NoMore ==
  ASSUME OvershootBounded, Stored' \subseteq Stored, Connecting' \subseteq Connecting
  PROVE  OvershootBounded'
<1>1. /\ Cardinality(Stored') <= Cardinality(Stored) /\ Cardinality(Stored') \in Nat
      /\ Cardinality(Connecting') <= Cardinality(Connecting) /\ Cardinality(Connecting') \in Nat
  BY Finite, FS_Subset, FS_CardinalityType
<1> QED BY <1>1, Finite, SshAssumption DEF OvershootBounded
LEMMA InitBounded == Init => OvershootBounded
<1> SUFFICES ASSUME Init PROVE OvershootBounded
  OBVIOUS
<1>1. Stored = {} /\ Connecting = {}
  BY DEF Init, Stored, Connecting, NoSession
<1> QED BY <1>1, Finite, FS_EmptySet, SshAssumption DEF OvershootBounded

LEMMA BoundedStep ==
  TypeOK /\ OvershootBounded /\ [Next]_vars => OvershootBounded'
<1> SUFFICES ASSUME TypeOK, OvershootBounded, [Next]_vars PROVE OvershootBounded'
  OBVIOUS
<1>a. UNCHANGED pc => Connecting' = Connecting
  BY DEF Connecting
<1>b. \A c \in Calls : IdleAgain(c) => Connecting' = Connecting \ {c}
  BY Typed DEF Connecting, IdleAgain
<1>c. UNCHANGED session => Stored' = Stored
  BY DEF Stored
<1>1. ASSUME NEW c \in Calls, NEW h \in Hosts, AlreadyConnected(c, h)
      PROVE  OvershootBounded'
  <2>1. Forget({}) = session
    BY Typed DEF Forget
  <2>2. session' = [Forget({}) EXCEPT ![h].used = now] /\ h \in Stored \ {}
    BY <1>1, <2>1 DEF AlreadyConnected
  <2>3. Stored' = Stored \ {}
    BY <2>2, Typed, StoredAfterTouch
  <2> QED BY <1>1, <1>a, <2>3, NoMore DEF AlreadyConnected, call
<1>2. ASSUME NEW c \in Calls, NEW h \in Hosts, Refused(c, h)
      PROVE  OvershootBounded'
  BY <1>2, <1>a, <1>c, NoMore DEF Refused, call
<1>3. ASSUME NEW c \in Calls, NEW h \in Hosts, NotConnected(c, h)
      PROVE  OvershootBounded'
  <2>1. Stored' = Stored \ (Expired \cup {h})
    BY <1>3, Typed, StoredAfterForget DEF NotConnected
  <2> QED BY <1>3, <1>a, <2>1, NoMore DEF NotConnected, call
<1>4. ASSUME NEW c \in Calls, NEW h \in Hosts, NEW u \in Users, Connect(c, h, u)
      PROVE  OvershootBounded'
  <2>1. Stored' = Stored /\ Cardinality(Stored) < MaxSessions
    BY <1>4, <1>c DEF Connect
  <2>2. Connecting' \subseteq Calls
    BY DEF Connecting
  <2>3. /\ Cardinality(Connecting') <= Cardinality(Calls)
        /\ Cardinality(Connecting') \in Nat
    BY <2>2, FS_Subset, FS_CardinalityType, SshAssumption
  <2> QED BY <2>1, <2>3, Finite, SshAssumption DEF OvershootBounded
<1>5. ASSUME NEW c \in Calls, NEW h \in Hosts, NEW tool \in Tools, Begin(c, h, tool)
      PROVE  OvershootBounded'
  <2>1. h \in Stored \ Expired
    BY <1>5 DEF Begin, Usable
  <2>2. Stored' = Stored \ Expired
    BY <1>5, <2>1, Typed, StoredAfterTouch DEF Begin
  <2>3. Connecting' \subseteq Connecting
    BY <1>5, Typed DEF Begin, Connecting, Tools
  <2> QED BY <2>2, <2>3, NoMore
<1>6. ASSUME NEW c \in Calls, NEW k \in Conns, Connected(c, k)
      PROVE  OvershootBounded'
  <2>1. host[c] \in Hosts /\ c \in Connecting
    BY <1>6 DEF Connected, TypeOK, Connecting
  <2>2. Stored' = Stored \cup {host[c]}
    BY <1>6, <2>1, Typed, StoredAfterConnect DEF Connected
  <2>3. Connecting' = Connecting \ {c}
    BY <1>6, <1>b DEF Connected
  <2>4. Cardinality(Stored') \in Nat /\ Cardinality(Stored') <= Cardinality(Stored) + 1
    <3>1. IsFiniteSet(Stored) /\ Cardinality(Stored) \in Nat
      BY Finite
    <3>2. IsFiniteSet(Stored') /\ (Cardinality(Stored') = Cardinality(Stored)
                                  \/ Cardinality(Stored') = Cardinality(Stored) + 1)
      BY <2>2, <3>1, FS_AddElement
    <3> QED BY <3>1, <3>2
  <2>5. Cardinality(Connecting') = Cardinality(Connecting) - 1
    BY <2>1, <2>3, Finite, FS_RemoveElement
  <2> QED BY <2>4, <2>5, Finite, SshAssumption DEF OvershootBounded
<1>7. ASSUME NEW c \in Calls, ConnectFails(c) PROVE OvershootBounded'
  BY <1>7, <1>b, <1>c, NoMore DEF ConnectFails
<1>8. ASSUME NEW c \in Calls, CommandEnds(c) PROVE OvershootBounded'
  BY <1>8, <1>b, <1>c, NoMore DEF CommandEnds
<1>9. ASSUME NEW c \in Calls, PushEnds(c) PROVE OvershootBounded'
  BY <1>9, <1>b, <1>c, NoMore DEF PushEnds
<1>10. ASSUME NEW c \in Calls, CommandFails(c) PROVE OvershootBounded'
  BY <1>10, <1>b, <1>c, NoMore DEF CommandFails
<1>11. CASE CloseAll
  <2>1. Stored' = Stored \ Stored
    BY <1>11, Typed, StoredAfterForget DEF CloseAll
  <2> QED BY <1>11, <1>a, <2>1, NoMore DEF CloseAll, call
<1>12. CASE Tick
  BY <1>12, <1>a, <1>c, NoMore DEF Tick, call
<1>13. ASSUME NEW k \in Conns, Drop(k) PROVE OvershootBounded'
  BY <1>13, <1>a, <1>c, NoMore DEF Drop, call
<1>14. CASE UNCHANGED vars
  BY <1>14, <1>a, <1>c, NoMore DEF vars
<1> QED
  BY <1>1, <1>2, <1>3, <1>4, <1>5, <1>6, <1>7, <1>8, <1>9, <1>10, <1>11, <1>12,
     <1>13, <1>14 DEF Next

(* remote_ssh.py:294 and :352: the limit that is checked before the        *)
(* connection is opened is exceeded by less than the calls in flight, and  *)
(* is exact with one call at a time.                                       *)
THEOREM OvershootBoundedHolds == Spec => []OvershootBounded
BY InitType, TypeStep, InitBounded, BoundedStep, PTL DEF Spec

(* The same with the types.                                                *)
THEOREM SessionsBoundedHolds == Spec => []SessionsBounded
<1>1. TypeOK /\ OvershootBounded => SessionsBounded
  BY DEF SessionsBounded
<1> QED BY <1>1, TypeCorrect, OvershootBoundedHolds, PTL

-----------------------------------------------------------------------------
(* And for the connections.                                                *)
LInv == Raced /\ LostToRaces

LEMMA InitRaced == Init => LInv
BY DEF Init, LInv, Raced, LostToRaces, Connecting

(* Sessions may go with their connections, and connections on their own,   *)
(* as long as no call starts to connect.                                   *)
LEMMA RacedFrame ==
  ASSUME LInv, Connecting' \subseteq Connecting,
         \A c \in Connecting' : host'[c] = host[c],
         Stored' \subseteq Stored,
         \A h \in Stored' : session'[h].conn = session[h].conn,
         open' \subseteq open,
         \A h \in Stored \ Stored' : session[h].conn \notin open',
         raced' = raced
  PROVE  LInv'
<1>1. Raced'
  BY DEF LInv, Raced
<1>2. LostToRaces'
  BY DEF LInv, LostToRaces, ConnsOf
<1> QED BY <1>1, <1>2 DEF LInv

LEMMA RacedStep ==
  TypeOK /\ LInv /\ [Next]_vars => LInv'
<1> SUFFICES ASSUME TypeOK, LInv, [Next]_vars PROVE LInv'
  OBVIOUS
<1>a. UNCHANGED <<pc, host>> => Connecting' = Connecting /\ \A c \in Connecting' : host'[c] = host[c]
  BY DEF Connecting
<1>b. \A c \in Calls : IdleAgain(c) =>
        Connecting' = Connecting \ {c} /\ \A d \in Connecting' : host'[d] = host[d]
  BY Typed DEF Connecting, IdleAgain, TypeOK
<1>c. UNCHANGED session => Stored' = Stored /\ \A h \in Stored' : session'[h].conn = session[h].conn
  BY DEF Stored
<1>1. ASSUME NEW c \in Calls, NEW h \in Hosts, AlreadyConnected(c, h) PROVE LInv'
  <2>1. Forget({}) = session
    BY Typed DEF Forget
  <2>2. session' = [Forget({}) EXCEPT ![h].used = now] /\ h \in Stored \ {}
    BY <1>1, <2>1 DEF AlreadyConnected
  <2>3. Stored' = Stored \ {} /\ \A g \in Stored \ {} : session'[g].conn = session[g].conn
    BY <2>2, Typed, StoredAfterTouch
  <2>4. Stored' = Stored /\ UNCHANGED <<pc, host, open, raced>>
    BY <1>1, <2>3 DEF AlreadyConnected, call
  <2> QED BY <1>a, <2>3, <2>4, RacedFrame
<1>2. ASSUME NEW c \in Calls, NEW h \in Hosts, Refused(c, h) PROVE LInv'
  <2>1. UNCHANGED <<pc, host, open, session, raced>>
    BY <1>2 DEF Refused, call
  <2> QED BY <1>a, <1>c, <2>1, RacedFrame
<1>3. ASSUME NEW c \in Calls, NEW h \in Hosts, NotConnected(c, h) PROVE LInv'
  <2>1. /\ Stored' = Stored \ (Expired \cup {h})
        /\ \A g \in Stored' : session'[g] = session[g]
    BY <1>3, Typed, StoredAfterForget DEF NotConnected
  <2>2. UNCHANGED <<pc, host, raced>> /\ open' = open \ ConnsOf(Expired)
    BY <1>3 DEF NotConnected, call
  <2>3. \A g \in Stored \ Stored' : session[g].conn \notin open'
    BY <1>3, <2>1, <2>2 DEF NotConnected, Usable, ConnsOf
  <2> QED BY <1>a, <2>1, <2>2, <2>3, RacedFrame
<1>4. ASSUME NEW c \in Calls, NEW h \in Hosts, NEW u \in Users, Connect(c, h, u)
      PROVE  LInv'
  <2>1. /\ h \in Stored => session[h].conn \notin open
        /\ UNCHANGED <<open, session, raced>>
    BY <1>4 DEF Connect
  <2>2. /\ Connecting' = Connecting \cup {c}
        /\ host'[c] = h
        /\ \A d \in Connecting : d # c /\ host'[d] = host[d]
    BY <1>4, Typed DEF Connect, Connecting, TypeOK
  <2>3. Raced'
    BY <1>c, <2>1, <2>2 DEF LInv, Raced
  <2>4. LostToRaces'
    BY <1>c, <2>1 DEF LInv, LostToRaces, ConnsOf
  <2> QED BY <2>3, <2>4 DEF LInv
<1>5. ASSUME NEW c \in Calls, NEW h \in Hosts, NEW tool \in Tools, Begin(c, h, tool)
      PROVE  LInv'
  <2>1. h \in Stored \ Expired
    BY <1>5 DEF Begin, Usable
  <2>2. /\ Stored' = Stored \ Expired
        /\ \A g \in Stored \ Expired : session'[g].conn = session[g].conn
    BY <1>5, <2>1, Typed, StoredAfterTouch DEF Begin
  <2>3. Connecting' \subseteq Connecting /\ \A d \in Connecting' : host'[d] = host[d]
    BY <1>5, Typed DEF Begin, Connecting, Tools, TypeOK
  <2>4. open' = open \ ConnsOf(Expired) /\ raced' = raced
    BY <1>5 DEF Begin
  <2>5. \A g \in Stored \ Stored' : session[g].conn \notin open'
    BY <2>2, <2>4 DEF ConnsOf
  <2> QED BY <2>2, <2>3, <2>4, <2>5, RacedFrame
<1>6. ASSUME NEW c \in Calls, NEW k \in Conns, Connected(c, k) PROVE LInv'
  <2>1. host[c] \in Hosts /\ c \in Connecting
    BY <1>6 DEF Connected, TypeOK, Connecting
  <2>2. /\ Stored' = Stored \cup {host[c]}
        /\ session'[host[c]].conn = k
        /\ \A h \in Hosts \ {host[c]} : session'[h] = session[h]
    BY <1>6, <2>1, Typed, StoredAfterConnect DEF Connected
  <2>3. Connecting' = Connecting \ {c} /\ \A d \in Connecting' : host'[d] = host[d]
    BY <1>6, <1>b DEF Connected
  <2>4. open' = open \cup {k} /\ \A h \in Stored : session[h].conn # k
    BY <1>6 DEF Connected, Unused, ConnsOf
  <2>5. /\ raced \ {k} \subseteq raced'
        /\ \A d \in Connecting' : host[d] = host[c] => k \in raced'
    BY <1>6, <2>3 DEF Connected, Rivals
  <2>6. Stored \subseteq Hosts /\ k \notin open
    BY <1>6, Typed DEF Connected, Unused
  <2>7. Raced'
    <3> SUFFICES ASSUME NEW d \in Connecting', host'[d] \in Stored', session'[host'[d]].conn \in open'
                 PROVE  session'[host'[d]].conn \in raced'
      BY DEF Raced
    <3>1. d \in Connecting /\ host'[d] = host[d]
      BY <2>3
    <3>2. CASE host[d] = host[c]
      BY <2>2, <2>5, <3>1, <3>2
    <3>3. CASE host[d] # host[c]
      <4>1. host[d] \in Stored /\ session'[host[d]] = session[host[d]]
        BY <2>2, <2>6, <3>1, <3>3
      <4>2. session[host[d]].conn \in open /\ session[host[d]].conn # k
        BY <2>4, <3>1, <4>1
      <4> QED BY <2>5, <3>1, <4>1, <4>2 DEF LInv, Raced
    <3> QED BY <3>2, <3>3
  <2>8. host[c] \in Stored /\ session[host[c]].conn \in open => session[host[c]].conn \in raced
    BY <2>1 DEF LInv, Raced
  <2>9. LostToRaces'
    <3>1. ASSUME NEW x \in open, x \notin raced PROVE x \in ConnsOf(Stored)'
      <4>1. PICK g \in Stored : session[g].conn = x
        BY <3>1 DEF LInv, LostToRaces, ConnsOf
      <4>2. g # host[c]
        BY <2>8, <3>1, <4>1
      <4> QED BY <2>2, <2>6, <4>1, <4>2 DEF ConnsOf
    <3>2. k \in ConnsOf(Stored)'
      BY <2>2 DEF ConnsOf
    <3>3. \A x \in open : x \in raced => x \in raced'
      BY <2>5, <2>6
    <3> QED BY <2>4, <3>1, <3>2, <3>3 DEF LostToRaces
  <2> QED BY <2>7, <2>9 DEF LInv
<1>7. ASSUME NEW c \in Calls, \/ ConnectFails(c) \/ CommandEnds(c)
                               \/ PushEnds(c) \/ CommandFails(c)
      PROVE  LInv'
  <2>1. IdleAgain(c) /\ UNCHANGED <<session, open, raced>>
    BY <1>7 DEF ConnectFails, CommandEnds, PushEnds, CommandFails
  <2>2. Connecting' \subseteq Connecting /\ \A d \in Connecting' : host'[d] = host[d]
    BY <1>b, <2>1
  <2> QED BY <1>c, <2>1, <2>2, RacedFrame
<1>8. CASE CloseAll
  <2>0. Stored' = Stored \ Stored
    BY <1>8, Typed, StoredAfterForget DEF CloseAll
  <2>1. Stored' = {} /\ UNCHANGED <<pc, host, raced>> /\ open' = open \ ConnsOf(Stored)
    BY <1>8, <2>0 DEF CloseAll, call
  <2>2. \A g \in Stored \ Stored' : session[g].conn \notin open'
    BY <2>1 DEF ConnsOf
  <2> QED BY <1>a, <2>1, <2>2, RacedFrame
<1>9. CASE Tick
  <2>1. UNCHANGED <<pc, host, open, session, raced>>
    BY <1>9 DEF Tick, call
  <2> QED BY <1>a, <1>c, <2>1, RacedFrame
<1>10. ASSUME NEW k \in Conns, Drop(k) PROVE LInv'
  <2>1. UNCHANGED <<pc, host, session, raced>> /\ open' \subseteq open
    BY <1>10 DEF Drop, call
  <2> QED BY <1>a, <1>c, <2>1, RacedFrame
<1>11. CASE UNCHANGED vars
  <2>1. UNCHANGED <<pc, host, open, session, raced>>
    BY <1>11 DEF vars
  <2> QED BY <1>a, <1>c, <2>1, RacedFrame
<1> QED
  BY <1>1, <1>2, <1>3, <1>4, <1>5, <1>6, <1>7, <1>8, <1>9, <1>10, <1>11 DEF Next

(* remote_ssh.py:291-354: every open connection is that of a session, or   *)
(* was made while another call connected to the same host.                 *)
THEOREM LostToRacesHolds == Spec => []LostToRaces
<1>1. LInv => LostToRaces
  BY DEF LInv
<1> QED BY InitType, TypeStep, InitRaced, RacedStep, <1>1, PTL DEF Spec
=============================================================================
