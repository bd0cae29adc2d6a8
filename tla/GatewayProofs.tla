--------------------------- MODULE GatewayProofs ----------------------------
(***************************************************************************)
(* Proofs about Gateway: the locks of a session, the queues of the locks,  *)
(* and that the gateway implements SerialTurns.  Except for the queues the *)
(* results are about a manager that no thread calls.                       *)
(*                                                                         *)
(* TurnsExclusive is not inductive: that two turns of a session share a    *)
(* lock depends on what the lock map says and on who is still tracked.  A  *)
(* turn that is inside has the lock the map holds for its session or, when *)
(* the map holds none, a session that is gone for good; a turn between     *)
(* get() and setdefault() has a session that is tracked.                   *)
(***************************************************************************)
EXTENDS Gateway, SequenceTheorems, TLAPS

(* What the proofs need of the manager.                                    *)
Known ==
  /\ used \subseteq Ids
  /\ tracked \subseteq used
  /\ released \in [Ids -> Nat]

Typed ==
  /\ pc \in [Turns -> PCs]
  /\ session \in [Turns -> Ids \cup {NoId}]
  /\ lock \in [Turns -> Turns \cup {NoLock}]
  /\ locks \in [Ids -> Turns \cup {NoLock}]

Routed ==
  \A t \in Turns :
    /\ pc[t] = "routed" => session[t] \in tracked
    /\ pc[t] = "inside" => session[t] \in used

(* The lock of a turn inside is that of the map, or nobody can come to the *)
(* session any more.                                                       *)
Held ==
  \A t \in Turns :
    pc[t] = "inside" =>
      IF locks[session[t]] = NoLock
      THEN session[t] \notin tracked
      ELSE lock[t] = locks[session[t]]

Shared ==
  \A t, u \in Turns :
    pc[t] = "inside" /\ pc[u] = "inside" /\ session[t] = session[u]
      => lock[t] = lock[u]

Inv == Known /\ Typed /\ LocksFollowSessions /\ Routed /\ Held /\ Shared

(* What any operation of the manager does to the sessions: identifiers are *)
(* used once, and the callback is called for exactly those that went.      *)
ManagerMoves ==
  /\ Known'
  /\ used \subseteq used'
  /\ tracked' \subseteq tracked \cup (used' \ used)
  /\ \A s \in Ids : released'[s] # released[s] <=> s \in tracked \ tracked'

-----------------------------------------------------------------------------
LEMMA CreateMoves ==
  ASSUME NEW s \in Ids, Known, Manager!Create(s)
  PROVE  ManagerMoves /\ s \in tracked' /\ s \notin used
<1> PICK V \in SUBSET Manager!Live :
       /\ Manager!Evict(Manager!Expired \cup V)
       /\ tracked' = (Manager!Live \ V) \cup {s}
  BY DEF Manager!Create
<1>1. s \notin used /\ used' = used \cup {s}
  BY DEF Manager!Create
<1>2. Manager!Expired \subseteq tracked /\ Manager!Live = tracked \ Manager!Expired
  BY DEF Manager!Expired, Manager!Live
<1>3. released' = [r \in Ids |-> IF r \in Manager!Expired \cup V
                                 THEN released[r] + 1 ELSE released[r]]
  BY DEF Manager!Evict
<1>4. \A r \in Ids : released'[r] # released[r] <=> r \in Manager!Expired \cup V
  BY <1>3 DEF Known
<1>5. released' \in [Ids -> Nat]
  BY <1>3 DEF Known
<1> QED BY <1>1, <1>2, <1>4, <1>5 DEF ManagerMoves, Known

LEMMA GetMoves ==
  ASSUME NEW s \in Ids, Known, Manager!GetFound(s)
  PROVE  ManagerMoves /\ s \in tracked' /\ s \in tracked
<1>1. tracked' = Manager!Live /\ used' = used /\ s \in Manager!Live
  BY DEF Manager!GetFound
<1>2. Manager!Expired \subseteq tracked /\ Manager!Live = tracked \ Manager!Expired
  BY DEF Manager!Expired, Manager!Live
<1>3. released' = [r \in Ids |-> IF r \in Manager!Expired
                                 THEN released[r] + 1 ELSE released[r]]
  BY DEF Manager!GetFound, Manager!Evict
<1>4. \A r \in Ids : released'[r] # released[r] <=> r \in Manager!Expired
  BY <1>3 DEF Known
<1>5. released' \in [Ids -> Nat]
  BY <1>3 DEF Known
<1> QED BY <1>1, <1>2, <1>4, <1>5 DEF ManagerMoves, Known

LEMMA CleanupMoves ==
  ASSUME Known, Manager!Cleanup
  PROVE  ManagerMoves
<1>1. tracked' = Manager!Live /\ used' = used
  BY DEF Manager!Cleanup
<1>2. Manager!Expired \subseteq tracked /\ Manager!Live = tracked \ Manager!Expired
  BY DEF Manager!Expired, Manager!Live
<1>3. released' = [r \in Ids |-> IF r \in Manager!Expired
                                 THEN released[r] + 1 ELSE released[r]]
  BY DEF Manager!Cleanup, Manager!Evict
<1>4. \A r \in Ids : released'[r] # released[r] <=> r \in Manager!Expired
  BY <1>3 DEF Known
<1>5. released' \in [Ids -> Nat]
  BY <1>3 DEF Known
<1> QED BY <1>1, <1>2, <1>4, <1>5 DEF ManagerMoves, Known

LEMMA CloseMoves ==
  ASSUME NEW s \in Ids, Known, Manager!Close(s)
  PROVE  ManagerMoves
<1>1. tracked' = Manager!Live \ {s} /\ used' = used /\ s \in tracked
  BY DEF Manager!Close
<1>2. Manager!Expired \subseteq tracked /\ Manager!Live = tracked \ Manager!Expired
  BY DEF Manager!Expired, Manager!Live
<1>3. released' = [r \in Ids |-> IF r \in Manager!Expired \cup {s}
                                 THEN released[r] + 1 ELSE released[r]]
  BY DEF Manager!Close, Manager!Evict
<1>4. \A r \in Ids : released'[r] # released[r] <=> r \in Manager!Expired \cup {s}
  BY <1>3 DEF Known
<1>5. released' \in [Ids -> Nat]
  BY <1>3 DEF Known
<1> QED BY <1>1, <1>2, <1>4, <1>5 DEF ManagerMoves, Known

-----------------------------------------------------------------------------
(* The lock map follows the manager, and turns that stay where they are    *)
(* keep what they rely on.  Nobody is between get() and setdefault().      *)
LEMMA ReleaseStep ==
  ASSUME Inv, ManagerMoves, ReleaseLocks, LoopFree
  PROVE  /\ Known' /\ LocksFollowSessions'
         /\ locks' \in [Ids -> Turns \cup {NoLock}]
         /\ \A t \in Turns : pc[t] = "inside" =>
              /\ session[t] \in used'
              /\ IF locks'[session[t]] = NoLock
                 THEN session[t] \notin tracked'
                 ELSE lock[t] = locks'[session[t]]
<1>1. \A s \in Ids :
        locks'[s] = IF s \in tracked \ tracked' THEN NoLock ELSE locks[s]
  BY DEF ReleaseLocks, ManagerMoves
<1>2. locks' \in [Ids -> Turns \cup {NoLock}]
  BY DEF ReleaseLocks, Inv, Typed
<1>3. LocksFollowSessions'
  BY <1>1 DEF Inv, LocksFollowSessions
<1>4. ASSUME NEW t \in Turns, pc[t] = "inside"
      PROVE  /\ session[t] \in used'
             /\ IF locks'[session[t]] = NoLock
                THEN session[t] \notin tracked'
                ELSE lock[t] = locks'[session[t]]
  <2>1. session[t] \in used /\ session[t] \in Ids
    BY <1>4 DEF Inv, Routed, Known
  <2>2. session[t] \in tracked' => session[t] \in tracked
    BY <2>1 DEF ManagerMoves
  <2> QED BY <1>1, <1>4, <2>1, <2>2 DEF Inv, Held, ManagerMoves
<1> QED BY <1>2, <1>3, <1>4 DEF ManagerMoves

(* The manager is used by somebody else.                                   *)
LEMMA ElsewhereStep ==
  ASSUME Inv, ManagerMoves, Elsewhere, ~ManagerThreads
  PROVE  Inv'
<1>1. ReleaseLocks /\ LoopFree /\ UNCHANGED <<pc, session, lock, queue>>
  BY DEF Elsewhere
<1>2. \A t \in Turns : pc[t] # "routed"
  BY <1>1 DEF LoopFree
<1> QED BY <1>1, <1>2, ReleaseStep DEF Inv, Typed, Routed, Held, Shared

(* A turn is routed to a session that is tracked.                          *)
LEMMA RouteStep ==
  ASSUME Inv, NEW t \in Turns, NEW s \in Ids, ManagerMoves, Route(t, s),
         s \in tracked'
  PROVE  Inv'
<1>1. /\ ReleaseLocks /\ LoopFree /\ UNCHANGED <<lock, queue>>
      /\ pc' = [pc EXCEPT ![t] = "routed"]
      /\ session' = [session EXCEPT ![t] = s]
  BY DEF Route
<1>2. \A u \in Turns : pc[u] # "routed"
  BY <1>1 DEF LoopFree
<1>3. \A u \in Turns \ {t} : pc'[u] = pc[u] /\ session'[u] = session[u]
  BY <1>1 DEF Inv, Typed
<1>4. pc'[t] = "routed" /\ session'[t] = s
  BY <1>1 DEF Inv, Typed
<1>5. Typed'
  BY <1>1, ReleaseStep DEF Inv, Typed, PCs
<1>6. Routed' /\ Held'
  BY <1>1, <1>2, <1>3, <1>4, ReleaseStep DEF Routed, Held
<1>7. Shared'
  BY <1>1, <1>3, <1>4 DEF Inv, Shared
<1> QED BY <1>1, <1>5, <1>6, <1>7, ReleaseStep DEF Inv

(* setdefault(): when the map holds no lock for the session, nobody is     *)
(* inside it, for it is tracked.                                           *)
LEMMA EnterStep ==
  ASSUME Inv, NEW t \in Turns, Enter(t)
  PROVE  Inv'
<1> DEFINE s == session[t]
           l == TheLock(t)
<1>1. /\ pc[t] = "routed" /\ UNCHANGED manager /\ UNCHANGED session
      /\ pc' = [pc EXCEPT ![t] = "inside"]
      /\ lock' = [lock EXCEPT ![t] = l]
      /\ locks' = [locks EXCEPT ![s] = l]
  BY DEF Enter
<1>2. s \in tracked /\ s \in Ids /\ s \in used
  BY <1>1 DEF Inv, Routed, Known
<1>3. l \in Turns /\ l # NoLock
  BY <1>2, TurnsAssumption DEF TheLock, Inv, Typed
<1>4. \A u \in Turns : pc[u] = "inside" /\ session[u] = s => lock[u] = l
  BY <1>2 DEF Inv, Held, TheLock
<1> HIDE DEF l, s
<1>5. \A u \in Turns \ {t} : pc'[u] = pc[u] /\ lock'[u] = lock[u]
  BY <1>1 DEF Inv, Typed
<1>6. pc'[t] = "inside" /\ lock'[t] = l
  BY <1>1 DEF Inv, Typed
<1>7. \A r \in Ids : locks'[r] = IF r = s THEN l ELSE locks[r]
  BY <1>1 DEF Inv, Typed
<1>8. Known' /\ UNCHANGED <<tracked, used>>
  BY <1>1 DEF manager, Known, Inv
<1>9. Typed'
  BY <1>1, <1>3 DEF Inv, Typed, PCs
<1>10. LocksFollowSessions'
  BY <1>2, <1>7, <1>8 DEF Inv, LocksFollowSessions
<1>11. Routed'
  BY <1>1, <1>2, <1>5, <1>6, <1>8 DEF Inv, Routed, s
<1>12. Held'
  <2> SUFFICES ASSUME NEW u \in Turns, pc'[u] = "inside"
               PROVE  IF locks'[session[u]] = NoLock
                      THEN session[u] \notin tracked
                      ELSE lock'[u] = locks'[session[u]]
    BY <1>1, <1>8 DEF Held
  <2>1. session[u] \in Ids
    BY <1>1, <1>2, <1>5 DEF Inv, Routed, Known, s
  <2>2. CASE session[u] = s
    BY <1>2, <1>3, <1>4, <1>5, <1>6, <1>7, <2>2
  <2>3. CASE session[u] # s
    BY <1>5, <1>7, <2>1, <2>3 DEF Inv, Held, s
  <2> QED BY <2>2, <2>3
<1>13. Shared'
  BY <1>1, <1>4, <1>5, <1>6 DEF Inv, Shared, s
<1> QED BY <1>8, <1>9, <1>10, <1>11, <1>12, <1>13 DEF Inv

(* A turn that leaves takes nothing from the others.                       *)
LEMMA LeaveStep ==
  ASSUME Inv, NEW t \in Turns, NEW how \in {"answered", "gave_up"}, Leave(t, how)
  PROVE  Inv'
<1>1. /\ UNCHANGED <<manager, session, lock, locks>>
      /\ pc' = [pc EXCEPT ![t] = how]
  BY DEF Leave
<1>2. \A u \in Turns : pc'[u] \in {"routed", "inside"} => pc'[u] = pc[u]
  BY <1>1 DEF Inv, Typed
<1>3. Typed'
  BY <1>1 DEF Inv, Typed, PCs
<1>4. Known' /\ LocksFollowSessions'
  BY <1>1 DEF Inv, Known, LocksFollowSessions, manager
<1>5. UNCHANGED <<tracked, used, session, lock, locks>>
  BY <1>1 DEF manager
<1>6. Routed'
  BY <1>2, <1>5 DEF Inv, Routed
<1>7. Held'
  BY <1>2, <1>5 DEF Inv, Held
<1>8. Shared'
  BY <1>2, <1>5 DEF Inv, Shared
<1> QED BY <1>3, <1>4, <1>6, <1>7, <1>8 DEF Inv

(* What changes neither sessions nor turns.                                *)
LEMMA StandStill ==
  ASSUME Inv, UNCHANGED <<tracked, released, used, pc, session, lock, locks>>
  PROVE  Inv'
BY DEF Inv, Known, Typed, LocksFollowSessions, Routed, Held, Shared

-----------------------------------------------------------------------------
LEMMA Initial == Init => Inv
BY DEF Init, Manager!Init, Inv, Known, Typed, LocksFollowSessions, Routed, Held,
       Shared, PCs

LEMMA Step ==
  ASSUME ~ManagerThreads, Inv, [Next]_vars
  PROVE  Inv'
<1>0. Known
  BY DEF Inv
<1>1. ASSUME NEW t \in Turns, NEW s \in Ids, SubmitNew(t, s) PROVE Inv'
  BY <1>0, <1>1, CreateMoves, RouteStep DEF SubmitNew
<1>2. ASSUME NEW t \in Turns, NEW s \in Ids, SubmitTo(t, s) PROVE Inv'
  BY <1>0, <1>2, GetMoves, RouteStep DEF SubmitTo
<1>3. ASSUME NEW t \in Turns, SubmitUnknown(t) PROVE Inv'
  <2>1. ManagerMoves
    <3>1. CASE Manager!Expired = {}
      <4>1. UNCHANGED manager
        BY <1>3, <3>1 DEF SubmitUnknown
      <4> QED BY <1>0, <4>1 DEF ManagerMoves, Known, manager
    <3>2. CASE Manager!Expired # {}
      BY <1>0, <1>3, <3>2, CleanupMoves DEF SubmitUnknown
    <3> QED BY <3>1, <3>2
  <2>2. /\ ReleaseLocks /\ LoopFree /\ UNCHANGED <<session, lock>>
        /\ pc' = [pc EXCEPT ![t] = "unknown"]
    BY <1>3 DEF SubmitUnknown
  <2>3. \A u \in Turns : pc'[u] # "routed"
                         /\ (pc'[u] = "inside" => pc[u] = "inside")
    BY <2>2 DEF LoopFree, Inv, Typed
  <2>4. Typed'
    BY <2>1, <2>2, ReleaseStep DEF Inv, Typed, PCs
  <2> QED BY <2>1, <2>2, <2>3, <2>4, ReleaseStep DEF Inv, Routed, Held, Shared
<1>4. ASSUME NEW t \in Turns, Enter(t) PROVE Inv'
  BY <1>4, EnterStep
<1>5. ASSUME NEW t \in Turns, Answer(t) \/ GiveUp(t) PROVE Inv'
  BY <1>5, LeaveStep DEF Answer, GiveUp
<1>6. ASSUME NEW s \in Ids,
             CreateElsewhere(s) \/ GetElsewhere(s) \/ CloseElsewhere(s)
      PROVE  Inv'
  BY <1>0, <1>6, CreateMoves, GetMoves, CloseMoves, ElsewhereStep
     DEF CreateElsewhere, GetElsewhere, CloseElsewhere
<1>7. CASE CleanupElsewhere
  BY <1>0, <1>7, CleanupMoves, ElsewhereStep DEF CleanupElsewhere
<1>8. CASE Tick
  BY <1>8, StandStill DEF Tick, Manager!Tick
<1>9. CASE UNCHANGED vars
  BY <1>9, StandStill DEF vars
<1> QED BY <1>1, <1>2, <1>3, <1>4, <1>5, <1>6, <1>7, <1>8, <1>9 DEF Next

-----------------------------------------------------------------------------
(* When only coroutines call the manager, the turns of a session never     *)
(* overlap, whatever is evicted, closed or created while they run          *)
(* (event_loop.py:184-185).                                                *)
THEOREM TurnsExclusiveHolds ==
  ASSUME ~ManagerThreads PROVE Spec => []TurnsExclusive
<1>1. Inv => TurnsExclusive
  BY DEF Inv, Shared, TurnsExclusive, Active
<1>2. Inv /\ [Next]_vars => Inv'
  BY Step
<1> QED BY <1>1, <1>2, Initial, PTL DEF Spec

(* When only coroutines call the manager, the event loop keeps no lock for *)
(* a session that is gone (event_loop.py:148-149).                         *)
THEOREM LocksFollowSessionsHolds ==
  ASSUME ~ManagerThreads PROVE Spec => []LocksFollowSessions
<1>1. Inv => LocksFollowSessions
  BY DEF Inv
<1>2. Inv /\ [Next]_vars => Inv'
  BY Step
<1> QED BY <1>1, <1>2, Initial, PTL DEF Spec

(* Both: when only coroutines call the manager, the locks of the event     *)
(* loop do what they are there for.                                        *)
THEOREM LocksExcludeHolds ==
  ASSUME ~ManagerThreads PROVE Spec => []LocksExclude
<1>1. Inv => LocksExclude
  BY DEF Inv, Shared, TurnsExclusive, Active, LocksExclude
<1>2. Inv /\ [Next]_vars => Inv'
  BY Step
<1> QED BY <1>1, <1>2, Initial, PTL DEF Spec

-----------------------------------------------------------------------------
(* The queues.  A turn that has not come to its lock has created none, so  *)
(* no queue is named after it; the map names locks of the session only;    *)
(* the queue of a lock holds the turns inside that took it, each once, and *)
(* all are for the session of the turn that created it.                    *)
Early == {"new", "routed", "unknown"}

Unnamed == \A t \in Turns : pc[t] \in Early => queue[t] = <<>>

Named ==
  \A s \in Ids :
    locks[s] # NoLock => session[locks[s]] = s /\ pc[locks[s]] \notin Early

Queued ==
  \A t \in Turns :
    pc[t] = "inside" =>
      lock[t] \in Turns /\ \E i \in DOMAIN queue[lock[t]] : queue[lock[t]][i] = t

Belongs ==
  \A l \in Turns : \A i \in DOMAIN queue[l] :
    /\ pc[queue[l][i]] = "inside"
    /\ lock[queue[l][i]] = l
    /\ session[queue[l][i]] = session[l]

Once ==
  \A l \in Turns : \A i, j \in DOMAIN queue[l] : queue[l][i] = queue[l][j] => i = j

QueueInv == TypeOK /\ Unnamed /\ Named /\ Queued /\ Belongs /\ Once

(* Taking a place out of a sequence.                                       *)
LEMMA RemoveAtIs ==
  ASSUME NEW q \in Seq(Turns), NEW i \in 1..Len(q)
  PROVE  /\ RemoveAt(q, i) \in Seq(Turns)
         /\ Len(RemoveAt(q, i)) = Len(q) - 1
         /\ \A j \in 1..(Len(q) - 1) :
              RemoveAt(q, i)[j] = IF j < i THEN q[j] ELSE q[j + 1]
<1> DEFINE a == SubSeq(q, 1, i - 1)
           b == SubSeq(q, i + 1, Len(q))
<1>1. /\ Len(q) \in Nat /\ \A k \in 1..Len(q) : q[k] \in Turns
      /\ i \in Nat /\ 1 <= i /\ i <= Len(q)
  OBVIOUS
<1>2. a \in Seq(Turns) /\ Len(a) = i - 1 /\ \A j \in 1..(i - 1) : a[j] = q[j]
  BY <1>1
<1>3. /\ b \in Seq(Turns) /\ Len(b) = Len(q) - i
      /\ \A j \in 1..(Len(q) - i) : b[j] = q[i + j]
  BY <1>1
<1> HIDE DEF a, b
<1>4. a \o b \in Seq(Turns) /\ Len(a \o b) = Len(q) - 1
  <2>1. a \in Seq(Turns) /\ b \in Seq(Turns)
    BY <1>2, <1>3
  <2>2. a \o b \in Seq(Turns) /\ Len(a \o b) = Len(a) + Len(b)
    BY <2>1, ConcatProperties
  <2>3. Len(a) = i - 1 /\ Len(b) = Len(q) - i
    BY <1>2, <1>3
  <2> QED BY <1>1, <2>2, <2>3
<1>5. \A j \in 1..(Len(q) - 1) : (a \o b)[j] = IF j < i THEN q[j] ELSE q[j + 1]
  <2> SUFFICES ASSUME NEW j \in 1..(Len(q) - 1)
               PROVE  (a \o b)[j] = IF j < i THEN q[j] ELSE q[j + 1]
    OBVIOUS
  <2>1. CASE j < i
    BY <1>1, <1>2, <1>3, <2>1
  <2>2. CASE j >= i
    <3>1. (a \o b)[j] = b[j - (i - 1)]
      BY <1>1, <1>2, <1>3, <2>2
    <3>2. j - (i - 1) \in 1..(Len(q) - i) /\ i + (j - (i - 1)) = j + 1
      BY <1>1, <2>2
    <3>3. b[j - (i - 1)] = q[j + 1]
      BY <1>3, <3>2
    <3>4. ~(j < i)
      BY <1>1, <2>2
    <3> QED BY <3>1, <3>3, <3>4
  <2>3. j < i \/ j >= i
    BY <1>1
  <2> QED BY <2>1, <2>2, <2>3
<1> QED BY <1>4, <1>5 DEF RemoveAt, a, b

(* Who leaves a queue leaves the others in it, in their order.             *)
LEMMA WithoutIs ==
  ASSUME NEW q \in Seq(Turns), NEW t \in Turns,
         \E i \in DOMAIN q : q[i] = t,
         \A i, j \in DOMAIN q : q[i] = q[j] => i = j
  PROVE  /\ QueueWithout(q, t) \in Seq(Turns)
         /\ \A j \in DOMAIN QueueWithout(q, t) :
              /\ QueueWithout(q, t)[j] # t
              /\ \E k \in DOMAIN q : q[k] = QueueWithout(q, t)[j]
         /\ \A k \in DOMAIN q :
              q[k] # t => \E j \in DOMAIN QueueWithout(q, t) : QueueWithout(q, t)[j] = q[k]
         /\ \A j, k \in DOMAIN QueueWithout(q, t) :
              QueueWithout(q, t)[j] = QueueWithout(q, t)[k] => j = k
         /\ Head(q) # t => Head(QueueWithout(q, t)) = Head(q)
<1> DEFINE r == QueueWithout(q, t)
<1>1. PICK i \in DOMAIN q : q[i] = t /\ r = RemoveAt(q, i)
  BY DEF QueueWithout
<1> HIDE DEF r
<1>2. Len(q) \in Nat /\ DOMAIN q = 1..Len(q) /\ i \in 1..Len(q)
  OBVIOUS
<1>3. /\ r \in Seq(Turns) /\ Len(r) = Len(q) - 1 /\ DOMAIN r = 1..(Len(q) - 1)
      /\ \A j \in 1..(Len(q) - 1) : r[j] = IF j < i THEN q[j] ELSE q[j + 1]
  <2>1. /\ r \in Seq(Turns) /\ Len(r) = Len(q) - 1
        /\ \A j \in 1..(Len(q) - 1) : r[j] = IF j < i THEN q[j] ELSE q[j + 1]
    <3>1. /\ RemoveAt(q, i) \in Seq(Turns)
          /\ Len(RemoveAt(q, i)) = Len(q) - 1
          /\ \A j \in 1..(Len(q) - 1) :
               RemoveAt(q, i)[j] = IF j < i THEN q[j] ELSE q[j + 1]
      BY <1>2, RemoveAtIs
    <3> QED BY <1>1, <3>1
  <2> QED BY <2>1
<1>4. \A j \in DOMAIN r :
        /\ (IF j < i THEN j ELSE j + 1) \in DOMAIN q \ {i}
        /\ r[j] = q[IF j < i THEN j ELSE j + 1]
  BY <1>2, <1>3
<1>5. \A j \in DOMAIN r : r[j] # t /\ \E k \in DOMAIN q : q[k] = r[j]
  BY <1>1, <1>2, <1>4
<1>6. ASSUME NEW k \in DOMAIN q, q[k] # t
      PROVE  \E j \in DOMAIN r : r[j] = q[k]
  <2>1. k # i
    BY <1>1, <1>6
  <2>2. CASE k < i
    BY <1>2, <1>3, <2>2
  <2>3. CASE k > i
    <3>1. k - 1 \in DOMAIN r /\ r[k - 1] = q[k]
      BY <1>2, <1>3, <2>3
    <3> QED BY <3>1
  <2> QED BY <1>2, <2>1, <2>2, <2>3
<1>7. ASSUME NEW j \in DOMAIN r, NEW k \in DOMAIN r, r[j] = r[k]
      PROVE  j = k
  <2>1. (IF j < i THEN j ELSE j + 1) = (IF k < i THEN k ELSE k + 1)
    BY <1>4, <1>7
  <2> QED BY <1>2, <1>3, <2>1
<1>8. ASSUME Head(q) # t
      PROVE  Head(r) = Head(q)
  <2>1. Head(q) = q[1] /\ i # 1 /\ Len(q) >= 2
    BY <1>1, <1>2, <1>8
  <2>2. r[1] = q[1]
    BY <1>2, <1>3, <2>1
  <2> QED BY <1>3, <2>1, <2>2
<1> QED BY <1>3, <1>5, <1>6, <1>7, <1>8 DEF r

-----------------------------------------------------------------------------
(* The manager keeps its types, and no identifier is taken back.           *)
LEMMA ManagerTypes ==
  ASSUME Manager!TypeOK,
         \/ \E s \in Ids : Manager!Create(s) \/ Manager!GetFound(s) \/ Manager!Close(s)
         \/ Manager!Cleanup
         \/ Manager!Tick
         \/ UNCHANGED manager
  PROVE  Manager!TypeOK' /\ used \subseteq used'
<1> USE DEF Manager!TypeOK, Manager!Live, Manager!Expired
<1>1. ASSUME NEW s \in Ids, Manager!Create(s)
      PROVE  Manager!TypeOK' /\ used \subseteq used'
  <2> PICK V \in SUBSET Manager!Live :
         /\ Manager!Evict(Manager!Expired \cup V)
         /\ tracked' = (Manager!Live \ V) \cup {s}
         /\ older' = Manager!MovedToEnd(s, Manager!Live \ V)
    BY <1>1 DEF Manager!Create
  <2>1. /\ used' = used \cup {s} /\ UNCHANGED <<clock, closed>>
        /\ lastAccessed' = [lastAccessed EXCEPT ![s] = clock]
    BY <1>1 DEF Manager!Create
  <2>2. older' \subseteq Ids \X Ids
    BY DEF Manager!MovedToEnd
  <2>3. released' \in [Ids -> Nat]
    BY DEF Manager!Evict
  <2> QED BY <2>1, <2>2, <2>3
<1>2. ASSUME NEW s \in Ids, Manager!GetFound(s)
      PROVE  Manager!TypeOK' /\ used \subseteq used'
  <2>1. older' \subseteq Ids \X Ids
    BY <1>2 DEF Manager!GetFound, Manager!MovedToEnd
  <2>2. released' \in [Ids -> Nat]
    BY <1>2 DEF Manager!GetFound, Manager!Evict
  <2> QED BY <1>2, <2>1, <2>2 DEF Manager!GetFound
<1>3. ASSUME NEW s \in Ids, Manager!Close(s)
      PROVE  Manager!TypeOK' /\ used \subseteq used'
  <2>1. older' \subseteq Ids \X Ids
    BY <1>3 DEF Manager!Close, Manager!Without
  <2>2. released' \in [Ids -> Nat]
    BY <1>3 DEF Manager!Close, Manager!Evict
  <2> QED BY <1>3, <2>1, <2>2 DEF Manager!Close
<1>4. CASE Manager!Cleanup
  <2>1. older' \subseteq Ids \X Ids
    BY <1>4 DEF Manager!Cleanup, Manager!Without
  <2>2. released' \in [Ids -> Nat]
    BY <1>4 DEF Manager!Cleanup, Manager!Evict
  <2> QED BY <1>4, <2>1, <2>2 DEF Manager!Cleanup
<1>5. CASE Manager!Tick
  BY <1>5 DEF Manager!Tick
<1>6. CASE UNCHANGED manager
  BY <1>6 DEF manager
<1> QED BY <1>1, <1>2, <1>3, <1>4, <1>5, <1>6

(* The session manager moves, no turn does.                                *)
LEMMA QueuesElsewhere ==
  ASSUME QueueInv, Manager!TypeOK', used \subseteq used',
         UNCHANGED <<pc, session, lock, queue>>,
         ReleaseLocks \/ UNCHANGED locks
  PROVE  QueueInv'
<1>1. \A s \in Ids : locks'[s] \in {NoLock, locks[s]}
  BY DEF ReleaseLocks
<1>2. locks' \in [Ids -> Turns \cup {NoLock}]
  BY DEF ReleaseLocks, QueueInv, TypeOK
<1>3. TypeOK'
  BY <1>2 DEF QueueInv, TypeOK
<1>4. Named'
  BY <1>1 DEF QueueInv, Named
<1> QED BY <1>3, <1>4 DEF QueueInv, Unnamed, Queued, Belongs, Once

(* A new turn is routed, or turned away: it is in no queue.                *)
LEMMA QueuesRoute ==
  ASSUME QueueInv, Manager!TypeOK', used \subseteq used', NEW t \in Turns, pc[t] = "new",
         ReleaseLocks, UNCHANGED <<lock, queue>>,
         \/ pc' = [pc EXCEPT ![t] = "unknown"] /\ UNCHANGED session
         \/ /\ pc' = [pc EXCEPT ![t] = "routed"]
            /\ \E s \in used' : s \in Ids /\ session' = [session EXCEPT ![t] = s]
  PROVE  QueueInv'
<1>1. \A u \in Turns \ {t} : pc'[u] = pc[u] /\ session'[u] = session[u]
  BY DEF QueueInv, TypeOK
<1>2. pc'[t] \in {"unknown", "routed"}
  BY DEF QueueInv, TypeOK
<1>3. \A s \in Ids : locks'[s] \in {NoLock, locks[s]}
  BY DEF ReleaseLocks
<1>4. TypeOK'
  <2>1. locks' \in [Ids -> Turns \cup {NoLock}]
    BY DEF ReleaseLocks, QueueInv, TypeOK
  <2>2. pc' \in [Turns -> PCs] /\ session' \in [Turns -> Ids \cup {NoId}]
    BY DEF QueueInv, TypeOK, PCs
  <2>3. \A u \in Turns : pc'[u] \notin {"new", "unknown"} => session'[u] \in used'
    <3>1. pc'[t] # "unknown" => session'[t] \in used'
      BY DEF QueueInv, TypeOK
    <3> QED BY <1>1, <3>1 DEF QueueInv, TypeOK
  <2> QED BY <2>1, <2>2, <2>3 DEF QueueInv, TypeOK
<1>5. Unnamed'
  BY <1>1 DEF QueueInv, Unnamed, Early
<1>6. Named'
  <2> SUFFICES ASSUME NEW s \in Ids, locks'[s] # NoLock
               PROVE  session'[locks'[s]] = s /\ pc'[locks'[s]] \notin Early
    BY DEF Named
  <2>1. /\ locks'[s] = locks[s] /\ locks[s] \in Turns
        /\ session[locks[s]] = s /\ pc[locks[s]] \notin Early
    BY <1>3 DEF QueueInv, TypeOK, Named
  <2>2. locks[s] # t
    BY <2>1 DEF Early
  <2> QED BY <1>1, <2>1, <2>2
<1>7. Queued'
  BY <1>1, <1>2 DEF QueueInv, Queued
<1>8. Belongs'
  <2> SUFFICES ASSUME NEW l \in Turns, NEW i \in DOMAIN queue[l]
               PROVE  /\ pc'[queue[l][i]] = "inside"
                      /\ lock[queue[l][i]] = l
                      /\ session'[queue[l][i]] = session'[l]
    BY DEF Belongs
  <2>1. /\ pc[queue[l][i]] = "inside" /\ lock[queue[l][i]] = l
        /\ session[queue[l][i]] = session[l]
    BY DEF QueueInv, Belongs
  <2>2. queue[l][i] \in Turns \ {t}
    <3>1. queue[l] \in Seq(Turns)
      BY DEF QueueInv, TypeOK
    <3> QED BY <2>1, <3>1
  <2>3. l # t
    BY DEF QueueInv, Unnamed, Early
  <2> QED BY <1>1, <2>1, <2>2, <2>3
<1> QED BY <1>4, <1>5, <1>6, <1>7, <1>8 DEF QueueInv, Once

(* setdefault(), and the place at the end of the queue.                    *)
LEMMA QueuesEnter ==
  ASSUME QueueInv, NEW t \in Turns, Enter(t)
  PROVE  QueueInv'
<1>1. /\ pc[t] = "routed" /\ UNCHANGED manager /\ UNCHANGED session
      /\ session[t] \in Ids /\ session[t] \in used
  BY DEF Enter, QueueInv, TypeOK, Manager!TypeOK
<1>2. PICK l \in Turns :
        /\ l = TheLock(t)
        /\ session[l] = session[t]
        /\ IF l = t THEN queue[l] = <<>> ELSE pc[l] \notin Early
  <2>1. CASE locks[session[t]] = NoLock
    BY <1>1, <2>1 DEF TheLock, QueueInv, Unnamed, Early
  <2>2. CASE locks[session[t]] # NoLock
    <3>1. /\ locks[session[t]] \in Turns /\ TheLock(t) = locks[session[t]]
          /\ session[locks[session[t]]] = session[t]
          /\ pc[locks[session[t]]] \notin Early
      BY <1>1, <2>2 DEF TheLock, QueueInv, TypeOK, Named
    <3> QED BY <1>1, <3>1 DEF Early
  <2> QED BY <2>1, <2>2
<1>3. /\ pc' = [pc EXCEPT ![t] = "inside"]
      /\ lock' = [lock EXCEPT ![t] = l]
      /\ locks' = [locks EXCEPT ![session[t]] = l]
      /\ queue' = [queue EXCEPT ![l] = Append(queue[l], t)]
  BY <1>2 DEF Enter
<1>4. /\ pc'[t] = "inside" /\ lock'[t] = l
      /\ \A u \in Turns \ {t} : pc'[u] = pc[u] /\ lock'[u] = lock[u]
      /\ \A m \in Turns \ {l} : queue'[m] = queue[m]
  BY <1>3 DEF QueueInv, TypeOK
<1>5. /\ queue'[l] \in Seq(Turns) /\ queue[l] \in Seq(Turns) /\ Len(queue[l]) \in Nat
      /\ DOMAIN queue[l] = 1..Len(queue[l])
      /\ DOMAIN queue'[l] = 1..(Len(queue[l]) + 1)
      /\ \A i \in DOMAIN queue[l] : queue'[l][i] = queue[l][i]
      /\ queue'[l][Len(queue[l]) + 1] = t
  <2>1. queue[l] \in Seq(Turns) /\ queue'[l] = Append(queue[l], t)
    BY <1>3 DEF QueueInv, TypeOK
  <2> QED BY <2>1
<1>6. \A m \in Turns : \A i \in DOMAIN queue[m] : queue[m][i] \in Turns \ {t}
  <2> SUFFICES ASSUME NEW m \in Turns, NEW i \in DOMAIN queue[m]
               PROVE  queue[m][i] \in Turns \ {t}
    OBVIOUS
  <2>1. pc[queue[m][i]] = "inside"
    BY DEF QueueInv, Belongs
  <2>2. queue[m] \in Seq(Turns)
    BY DEF QueueInv, TypeOK
  <2> QED BY <1>1, <2>1, <2>2
<1>7. TypeOK'
  <2>1. queue' \in [Turns -> Seq(Turns)]
    BY <1>3, <1>5 DEF QueueInv, TypeOK
  <2>2. /\ pc' \in [Turns -> PCs] /\ lock' \in [Turns -> Turns \cup {NoLock}]
        /\ locks' \in [Ids -> Turns \cup {NoLock}]
    BY <1>2, <1>3 DEF QueueInv, TypeOK, PCs
  <2>3. Manager!TypeOK' /\ used' = used
    BY <1>1, ManagerTypes DEF QueueInv, TypeOK, manager
  <2>4. \A u \in Turns : pc'[u] \notin {"new", "unknown"} => session[u] \in used
    BY <1>1, <1>4 DEF QueueInv, TypeOK
  <2> QED BY <1>1, <2>1, <2>2, <2>3, <2>4 DEF QueueInv, TypeOK
<1>8. Unnamed'
  <2> SUFFICES ASSUME NEW u \in Turns, pc'[u] \in Early
               PROVE  queue'[u] = <<>>
    BY DEF Unnamed
  <2>1. u # t /\ pc[u] \in Early
    BY <1>4 DEF Early
  <2>2. u # l
    BY <1>2, <2>1
  <2> QED BY <1>4, <2>1, <2>2 DEF QueueInv, Unnamed
<1>9. Named'
  <2> SUFFICES ASSUME NEW s \in Ids, locks'[s] # NoLock
               PROVE  session[locks'[s]] = s /\ pc'[locks'[s]] \notin Early
    BY <1>1 DEF Named
  <2>1. CASE s = session[t]
    <3>1. locks'[s] = l /\ pc'[l] \notin Early
      BY <1>1, <1>2, <1>3, <1>4, <2>1 DEF QueueInv, TypeOK, Early
    <3> QED BY <1>2, <2>1, <3>1
  <2>2. CASE s # session[t]
    <3>1. locks'[s] = locks[s] /\ locks[s] \in Turns
      BY <1>3, <2>2 DEF QueueInv, TypeOK
    <3>2. session[locks[s]] = s /\ pc[locks[s]] \notin Early
      BY <3>1 DEF QueueInv, Named
    <3> QED BY <1>1, <1>4, <3>1, <3>2 DEF Early
  <2> QED BY <2>1, <2>2
<1>10. Queued'
  <2> SUFFICES ASSUME NEW u \in Turns, pc'[u] = "inside"
               PROVE  /\ lock'[u] \in Turns
                      /\ \E i \in DOMAIN queue'[lock'[u]] : queue'[lock'[u]][i] = u
    BY DEF Queued
  <2>1. CASE u = t
    BY <1>4, <1>5, <2>1
  <2>2. CASE u # t
    <3>1. PICK i \in DOMAIN queue[lock[u]] : queue[lock[u]][i] = u
      BY <1>4, <2>2 DEF QueueInv, Queued
    <3>2. lock'[u] = lock[u] /\ lock[u] \in Turns
      BY <1>4, <2>2 DEF QueueInv, Queued
    <3>3. CASE lock[u] = l
      BY <1>5, <3>1, <3>2, <3>3
    <3>4. CASE lock[u] # l
      <4>1. queue'[lock[u]] = queue[lock[u]]
        BY <1>3, <3>4 DEF QueueInv, TypeOK
      <4> QED BY <3>1, <3>2, <4>1
    <3> QED BY <3>3, <3>4
  <2> QED BY <2>1, <2>2
<1>11. Belongs'
  <2> SUFFICES ASSUME NEW m \in Turns, NEW i \in DOMAIN queue'[m]
               PROVE  /\ pc'[queue'[m][i]] = "inside"
                      /\ lock'[queue'[m][i]] = m
                      /\ session[queue'[m][i]] = session[m]
    BY <1>1 DEF Belongs
  <2>1. CASE i \in DOMAIN queue[m] /\ queue'[m][i] = queue[m][i]
    <3>1. /\ pc[queue[m][i]] = "inside" /\ lock[queue[m][i]] = m
          /\ session[queue[m][i]] = session[m]
      BY <2>1 DEF QueueInv, Belongs
    <3> QED BY <1>4, <1>6, <2>1, <3>1
  <2>2. CASE m = l /\ i = Len(queue[l]) + 1
    BY <1>2, <1>4, <1>5, <2>2
  <2>3. CASE m # l
    <3>1. queue'[m] = queue[m]
      BY <1>4, <2>3
    <3> QED BY <2>1, <3>1
  <2>4. CASE m = l
    <3>1. i \in DOMAIN queue[l] \/ i = Len(queue[l]) + 1
      BY <1>5, <2>4
    <3>2. i \in DOMAIN queue[l] => queue'[l][i] = queue[l][i]
      BY <1>5
    <3> QED BY <2>1, <2>2, <2>4, <3>1, <3>2
  <2> QED BY <2>3, <2>4
<1>12. Once'
  <2> SUFFICES ASSUME NEW m \in Turns, NEW i \in DOMAIN queue'[m],
                      NEW j \in DOMAIN queue'[m], queue'[m][i] = queue'[m][j]
               PROVE  i = j
    BY DEF Once
  <2>1. CASE m # l
    BY <1>4, <2>1 DEF QueueInv, Once
  <2>2. CASE m = l
    <3>1. \A k \in DOMAIN queue'[l] :
            k \in DOMAIN queue[l] \/ (k = Len(queue[l]) + 1 /\ queue'[l][k] = t)
      BY <1>5
    <3>2. \A k \in DOMAIN queue[l] : queue[l][k] # t /\ queue'[l][k] = queue[l][k]
      BY <1>5, <1>6
    <3>3. CASE i \in DOMAIN queue[l] /\ j \in DOMAIN queue[l]
      BY <2>2, <3>2, <3>3 DEF QueueInv, Once
    <3>4. CASE ~(i \in DOMAIN queue[l] /\ j \in DOMAIN queue[l])
      BY <2>2, <3>1, <3>2, <3>4
    <3> QED BY <3>3, <3>4
  <2> QED BY <2>1, <2>2
<1> QED BY <1>7, <1>8, <1>9, <1>10, <1>11, <1>12 DEF QueueInv

(* A turn leaves its queue; those behind it move up.                       *)
LEMMA QueuesLeave ==
  ASSUME QueueInv, NEW t \in Turns, NEW how \in {"answered", "gave_up"}, Leave(t, how)
  PROVE  QueueInv'
<1>1. /\ pc[t] = "inside" /\ UNCHANGED manager /\ UNCHANGED <<session, lock, locks>>
      /\ pc' = [pc EXCEPT ![t] = how]
  BY DEF Leave
<1>2. PICK l \in Turns : l = lock[t]
  BY <1>1 DEF QueueInv, Queued
<1>3. l = lock[t] /\ \E i \in DOMAIN queue[l] : queue[l][i] = t
  BY <1>1, <1>2 DEF QueueInv, Queued
<1>4. \A u \in Turns \ {t} : pc'[u] = pc[u]
  BY <1>1 DEF QueueInv, TypeOK
<1>5. pc'[t] \notin Early /\ pc'[t] # "inside" /\ pc[t] \notin Early
  BY <1>1 DEF QueueInv, TypeOK, Early
<1>6. queue[l] \in Seq(Turns) /\ queue'[l] = QueueWithout(queue[l], t)
      /\ \A m \in Turns \ {l} : queue'[m] = queue[m]
  BY <1>3 DEF Leave, QueueInv, TypeOK
<1>7. PICK r \in Seq(Turns) :
      /\ r = queue'[l]
      /\ \A j \in DOMAIN r : r[j] # t /\ \E k \in DOMAIN queue[l] : queue[l][k] = r[j]
      /\ \A k \in DOMAIN queue[l] :
           queue[l][k] # t => \E j \in DOMAIN r : r[j] = queue[l][k]
      /\ \A j, k \in DOMAIN r : r[j] = r[k] => j = k
  <2>1. /\ \E k \in DOMAIN queue[l] : queue[l][k] = t
        /\ \A j, k \in DOMAIN queue[l] : queue[l][j] = queue[l][k] => j = k
    BY <1>3 DEF QueueInv, Once
  <2> QED BY <1>6, <2>1, WithoutIs
<1>8. TypeOK'
  <2>1. queue' \in [Turns -> Seq(Turns)]
    BY <1>3, <1>7 DEF Leave, QueueInv, TypeOK
  <2>2. Manager!TypeOK' /\ used' = used
    BY <1>1, ManagerTypes DEF QueueInv, TypeOK, manager
  <2>3. pc' \in [Turns -> PCs]
    BY <1>1 DEF QueueInv, TypeOK, PCs
  <2> QED BY <1>1, <1>4, <2>1, <2>2, <2>3 DEF QueueInv, TypeOK
<1>9. Unnamed'
  <2> SUFFICES ASSUME NEW u \in Turns, pc'[u] \in Early
               PROVE  queue'[u] = <<>>
    BY DEF Unnamed
  <2>1. u # t /\ pc[u] \in Early
    BY <1>4, <1>5
  <2>2. u # l
    <3>1. queue[u] = <<>>
      BY <2>1 DEF QueueInv, Unnamed
    <3> QED BY <1>3, <3>1
  <2> QED BY <1>6, <2>1, <2>2 DEF QueueInv, Unnamed
<1>10. Named'
  BY <1>1, <1>4, <1>5 DEF QueueInv, TypeOK, Named
<1>11. Queued'
  <2> SUFFICES ASSUME NEW u \in Turns, pc'[u] = "inside"
               PROVE  /\ lock[u] \in Turns
                      /\ \E j \in DOMAIN queue'[lock[u]] : queue'[lock[u]][j] = u
    BY <1>1 DEF Queued
  <2>1. u # t /\ pc[u] = "inside"
    BY <1>4, <1>5
  <2>2. PICK m \in Turns : m = lock[u]
    BY <2>1 DEF QueueInv, Queued
  <2>3. m = lock[u] /\ \E k \in DOMAIN queue[m] : queue[m][k] = u
    BY <2>1, <2>2 DEF QueueInv, Queued
  <2>4. \E j \in DOMAIN queue'[m] : queue'[m][j] = u
    <3>1. CASE m = l
      BY <1>7, <2>1, <2>3, <3>1
    <3>2. CASE m # l
      BY <1>6, <2>3, <3>2
    <3> QED BY <3>1, <3>2
  <2> QED BY <2>3, <2>4
<1>12. Belongs'
  <2> SUFFICES ASSUME NEW m \in Turns, NEW j \in DOMAIN queue'[m]
               PROVE  /\ pc'[queue'[m][j]] = "inside"
                      /\ lock[queue'[m][j]] = m
                      /\ session[queue'[m][j]] = session[m]
    BY <1>1 DEF Belongs
  <2>1. \E k \in DOMAIN queue[m] : queue[m][k] = queue'[m][j]
    BY <1>6, <1>7
  <2>2. /\ pc[queue'[m][j]] = "inside" /\ lock[queue'[m][j]] = m
        /\ session[queue'[m][j]] = session[m]
    BY <2>1 DEF QueueInv, Belongs
  <2>3. queue'[m][j] \in Turns
    BY <1>8 DEF TypeOK
  <2>4. queue'[m][j] # t
    BY <1>3, <1>7, <2>2
  <2> QED BY <1>4, <2>2, <2>3, <2>4
<1>13. Once'
  BY <1>6, <1>7 DEF QueueInv, Once
<1> QED BY <1>8, <1>9, <1>10, <1>11, <1>12, <1>13 DEF QueueInv

LEMMA QueuesInit == Init => QueueInv
BY DEF Init, Manager!Init, QueueInv, TypeOK, Manager!TypeOK, PCs, Unnamed, Named, Queued,
       Belongs, Once

LEMMA QueuesStep == QueueInv /\ [Next]_vars => QueueInv'
<1> SUFFICES ASSUME QueueInv, [Next]_vars PROVE QueueInv'
  OBVIOUS
<1>0. Manager!TypeOK
  BY DEF QueueInv, TypeOK
<1>1. ASSUME NEW t \in Turns, NEW s \in Ids, SubmitNew(t, s) \/ SubmitTo(t, s)
      PROVE  QueueInv'
  <2>1. Manager!TypeOK' /\ used \subseteq used'
    BY <1>0, <1>1, ManagerTypes DEF SubmitNew, SubmitTo
  <2>2. s \in used' /\ Route(t, s)
    BY <1>0, <1>1 DEF SubmitNew, SubmitTo, Manager!Create, Manager!GetFound, Manager!Live,
                      Manager!TypeOK
  <2> QED BY <2>1, <2>2, QueuesRoute DEF Route
<1>2. ASSUME NEW t \in Turns, SubmitUnknown(t) PROVE QueueInv'
  <2>1. Manager!TypeOK' /\ used \subseteq used'
    BY <1>0, <1>2, ManagerTypes DEF SubmitUnknown
  <2> QED BY <1>2, <2>1, QueuesRoute DEF SubmitUnknown
<1>3. ASSUME NEW t \in Turns, Enter(t) PROVE QueueInv'
  BY <1>3, QueuesEnter
<1>4. ASSUME NEW t \in Turns, Answer(t) \/ GiveUp(t) PROVE QueueInv'
  BY <1>4, QueuesLeave DEF Answer, GiveUp
<1>5. ASSUME NEW s \in Ids,
             CreateElsewhere(s) \/ GetElsewhere(s) \/ CloseElsewhere(s)
      PROVE  QueueInv'
  BY <1>0, <1>5, ManagerTypes, QueuesElsewhere
     DEF CreateElsewhere, GetElsewhere, CloseElsewhere, Elsewhere
<1>6. CASE CleanupElsewhere
  BY <1>0, <1>6, ManagerTypes, QueuesElsewhere DEF CleanupElsewhere, Elsewhere
<1>7. CASE Tick
  BY <1>0, <1>7, ManagerTypes, QueuesElsewhere DEF Tick
<1>8. CASE UNCHANGED vars
  BY <1>0, <1>8, ManagerTypes, QueuesElsewhere DEF vars, manager
<1> QED BY <1>1, <1>2, <1>3, <1>4, <1>5, <1>6, <1>7, <1>8 DEF Next

LEMMA QueuesAlways == Spec => []QueueInv
BY QueuesInit, QueuesStep, PTL DEF Spec

(* A turn waits behind turns of its own session only, and once; and the    *)
(* variables have their types.  This needs no assumption on who calls the  *)
(* manager: what a thread can break is that the session has one lock.      *)
THEOREM QueuesSoundHolds == Spec => []QueuesSound
<1>1. QueueInv => QueuesSound
  <2> SUFFICES ASSUME QueueInv, NEW l \in Turns,
                      NEW i \in DOMAIN queue[l], NEW j \in DOMAIN queue[l]
               PROVE  /\ session[queue[l][i]] = session[queue[l][j]]
                      /\ queue[l][i] = queue[l][j] => i = j
    BY DEF QueuesSound, QueuesApart, QueueInv
  <2> QED BY DEF QueueInv, Belongs, Once
<1> QED BY <1>1, QueuesAlways, PTL

-----------------------------------------------------------------------------
(* The refinement.  A turn begins when it is first in the queue of its     *)
(* lock: at once, or when the one before it leaves.                        *)
serialView == <<Stage, session>>

(* Who is inside waits for, or holds, a lock whose queue is not empty.     *)
LEMMA InQueue ==
  ASSUME QueueInv, NEW t \in Turns, pc[t] = "inside"
  PROVE  \E l \in Turns :
           /\ l = lock[t]
           /\ queue[l] \in Seq(Turns) /\ queue[l] # <<>>
           /\ \E i \in DOMAIN queue[l] : queue[l][i] = t
<1>1. PICK l \in Turns : l = lock[t]
  BY DEF QueueInv, Queued
<1>2. \E i \in DOMAIN queue[l] : queue[l][i] = t
  BY <1>1 DEF QueueInv, Queued
<1>3. queue[l] \in Seq(Turns)
  BY DEF QueueInv, TypeOK
<1> QED BY <1>1, <1>2, <1>3

(* Nobody moves.                                                           *)
LEMMA SerialStill ==
  ASSUME UNCHANGED <<pc, session, lock, queue>>
  PROVE  UNCHANGED serialView
BY DEF serialView, Stage, Active

(* A new turn is accepted, or turned away.                                 *)
LEMMA SerialRoute ==
  ASSUME QueueInv, NEW t \in Turns, pc[t] = "new", UNCHANGED <<lock, queue>>
  PROVE  /\ pc' = [pc EXCEPT ![t] = "unknown"] /\ UNCHANGED session => Serial!Refuse(t)
         /\ \A s \in Ids : /\ pc' = [pc EXCEPT ![t] = "routed"]
                           /\ session' = [session EXCEPT ![t] = s]
                           => Serial!Accept(t, s)
<1>1. Stage[t] = "new"
  BY DEF Stage
<1>2. ASSUME pc' = [pc EXCEPT ![t] = "unknown"], UNCHANGED session
      PROVE  Serial!Refuse(t)
  <2>1. pc'[t] = "unknown" /\ \A u \in Turns \ {t} : pc'[u] = pc[u]
    BY <1>2 DEF QueueInv, TypeOK
  <2>2. Stage' = [Stage EXCEPT ![t] = "over"]
    BY <2>1 DEF Stage, Active
  <2> QED BY <1>1, <1>2, <2>2 DEF Serial!Refuse
<1>3. ASSUME NEW s \in Ids, pc' = [pc EXCEPT ![t] = "routed"],
             session' = [session EXCEPT ![t] = s]
      PROVE  Serial!Accept(t, s)
  <2>1. pc'[t] = "routed" /\ \A u \in Turns \ {t} : pc'[u] = pc[u]
    BY <1>3 DEF QueueInv, TypeOK
  <2>2. Stage' = [Stage EXCEPT ![t] = "accepted"]
    BY <2>1 DEF Stage, Active
  <2> QED BY <1>1, <1>3, <2>2 DEF Serial!Accept
<1> QED BY <1>2, <1>3

(* A turn that finds the queue of its lock empty begins; no other turn of  *)
(* its session is active, for it would be in that queue.                   *)
LEMMA SerialEnter ==
  ASSUME Inv, QueueInv, NEW t \in Turns, Enter(t)
  PROVE  Serial!Begin(t) \/ UNCHANGED serialView
<1>1. /\ pc[t] = "routed" /\ UNCHANGED session
      /\ session[t] \in Ids /\ session[t] \in tracked
  BY DEF Enter, Inv, Routed, Known
<1>2. PICK l \in Turns : l = TheLock(t)
  BY <1>1 DEF TheLock, Inv, Typed
<1>3. /\ pc' = [pc EXCEPT ![t] = "inside"]
      /\ lock' = [lock EXCEPT ![t] = l]
      /\ queue' = [queue EXCEPT ![l] = Append(queue[l], t)]
  BY <1>2 DEF Enter
<1>4. /\ pc'[t] = "inside" /\ lock'[t] = l
      /\ \A u \in Turns \ {t} : pc'[u] = pc[u] /\ lock'[u] = lock[u]
      /\ \A m \in Turns \ {l} : queue'[m] = queue[m]
      /\ queue'[l] = Append(queue[l], t) /\ queue[l] \in Seq(Turns)
  BY <1>3 DEF QueueInv, TypeOK
<1>5. /\ queue[l] # <<>> => Head(queue'[l]) = Head(queue[l])
      /\ queue[l] = <<>> => Head(queue'[l]) = t
  BY <1>4
<1>6. ASSUME NEW u \in Turns \ {t}
      PROVE  Stage'[u] = Stage[u]
  <2>1. CASE pc[u] = "inside"
    <3>1. PICK m \in Turns : m = lock[u] /\ queue[m] # <<>>
      BY <2>1, InQueue
    <3>2. Head(queue'[m]) = Head(queue[m])
      BY <1>4, <1>5, <3>1
    <3> QED BY <1>4, <2>1, <3>1, <3>2 DEF Stage, Active
  <2>2. CASE pc[u] # "inside"
    BY <1>4, <2>2 DEF Stage
  <2> QED BY <2>1, <2>2
<1>7. Stage[t] = "accepted"
  BY <1>1 DEF Stage
<1>8. CASE queue[l] = <<>>
  <2>1. Stage'[t] = "active"
    BY <1>4, <1>5, <1>8 DEF Stage, Active
  <2>2. Stage' = [Stage EXCEPT ![t] = "active"]
    BY <1>6, <2>1 DEF Stage
  <2>3. ASSUME NEW u \in Turns, session[u] = session[t], Stage[u] = "active"
        PROVE  FALSE
    <3>1. pc[u] = "inside"
      BY <2>3 DEF Stage
    <3>2. lock[u] = l
      BY <1>1, <1>2, <2>3, <3>1 DEF Inv, Held, TheLock
    <3> QED BY <1>8, <3>1, <3>2, InQueue
  <2> QED BY <1>1, <1>7, <2>2, <2>3 DEF Serial!Begin, Serial!Idle
<1>9. CASE queue[l] # <<>>
  <2>1. Head(queue[l]) # t
    <3>1. queue[l][1] \in Turns /\ pc[queue[l][1]] = "inside" /\ Head(queue[l]) = queue[l][1]
      BY <1>4, <1>9 DEF QueueInv, Belongs
    <3> QED BY <1>1, <3>1
  <2>2. Stage'[t] = "accepted"
    BY <1>4, <1>5, <1>9, <2>1 DEF Stage, Active
  <2> QED BY <1>1, <1>6, <1>7, <2>2 DEF serialView, Stage
<1> QED BY <1>8, <1>9

(* A turn ends; when it was first in its queue, the next one begins.       *)
LEMMA SerialLeave ==
  ASSUME Inv, QueueInv, NEW t \in Turns, NEW how \in {"answered", "gave_up"}, Leave(t, how)
  PROVE  Serial!End(t)
<1>1. pc[t] = "inside" /\ UNCHANGED <<session, lock>> /\ pc' = [pc EXCEPT ![t] = how]
  BY DEF Leave
<1>2. pc'[t] = how /\ \A u \in Turns \ {t} : pc'[u] = pc[u]
  BY <1>1 DEF QueueInv, TypeOK
<1>3. PICK l \in Turns :
        /\ l = lock[t]
        /\ queue[l] \in Seq(Turns) /\ queue[l] # <<>>
        /\ \E i \in DOMAIN queue[l] : queue[l][i] = t
  BY <1>1, InQueue
<1>4. /\ queue'[l] = QueueWithout(queue[l], t)
      /\ \A m \in Turns \ {l} : queue'[m] = queue[m]
  BY <1>3 DEF Leave, QueueInv, TypeOK
<1>5. PICK r \in Seq(Turns) :
        /\ r = queue'[l]
        /\ \A j \in DOMAIN r : r[j] # t /\ \E k \in DOMAIN queue[l] : queue[l][k] = r[j]
        /\ \A k \in DOMAIN queue[l] :
             queue[l][k] # t => \E j \in DOMAIN r : r[j] = queue[l][k]
        /\ Head(queue[l]) # t => Head(r) = Head(queue[l])
  <2>1. \A j, k \in DOMAIN queue[l] : queue[l][j] = queue[l][k] => j = k
    BY DEF QueueInv, Once
  <2> QED BY <1>3, <1>4, <2>1, WithoutIs
<1>6. Stage'[t] = "over" /\ Stage[t] \in {"accepted", "active"}
  BY <1>1, <1>2 DEF Stage
<1>7. \A u \in Turns \ {t} : pc[u] # "inside" \/ lock[u] # l => Stage'[u] = Stage[u]
  <2> SUFFICES ASSUME NEW u \in Turns \ {t}, pc[u] # "inside" \/ lock[u] # l
               PROVE  Stage'[u] = Stage[u]
    OBVIOUS
  <2>1. CASE pc[u] # "inside"
    BY <1>2, <2>1 DEF Stage
  <2>2. CASE pc[u] = "inside"
    <3>1. PICK m \in Turns : m = lock[u]
      BY <2>2, InQueue
    <3>2. queue'[m] = queue[m]
      BY <1>4, <2>2, <3>1
    <3> QED BY <1>1, <1>2, <2>2, <3>1, <3>2 DEF Stage, Active
  <2> QED BY <2>1, <2>2
<1>8. \A u \in Turns \ {t} : pc[u] = "inside" /\ lock[u] = l =>
        /\ Stage[u] = IF Head(queue[l]) = u THEN "active" ELSE "accepted"
        /\ Stage'[u] = IF Head(r) = u THEN "active" ELSE "accepted"
  BY <1>1, <1>2, <1>5 DEF Stage, Active
<1>9. CASE Head(queue[l]) # t
  <2>1. \A u \in Turns \ {t} : Stage'[u] = Stage[u]
    BY <1>5, <1>7, <1>8, <1>9
  <2>2. Stage' = [Stage EXCEPT ![t] = "over"]
    BY <1>6, <2>1 DEF Stage
  <2> QED BY <1>1, <1>6, <2>2 DEF Serial!End
<1>10. CASE Head(queue[l]) = t /\ r = <<>>
  <2>1. \A u \in Turns \ {t} : ~(pc[u] = "inside" /\ lock[u] = l)
    <3> SUFFICES ASSUME NEW u \in Turns \ {t}, pc[u] = "inside", lock[u] = l
                 PROVE  FALSE
      OBVIOUS
    <3>1. \E k \in DOMAIN queue[l] : queue[l][k] = u
      BY InQueue
    <3> QED BY <1>5, <1>10, <3>1
  <2>2. Stage' = [Stage EXCEPT ![t] = "over"]
    BY <1>6, <1>7, <2>1 DEF Stage
  <2> QED BY <1>1, <1>6, <2>2 DEF Serial!End
<1>11. CASE Head(queue[l]) = t /\ r # <<>>
  <2>1. PICK u \in Turns : u = Head(r) /\ u # t /\ \E k \in DOMAIN queue[l] : queue[l][k] = u
    <3>1. Head(r) = r[1] /\ 1 \in DOMAIN r /\ r[1] \in Turns
      BY <1>11
    <3> QED BY <1>5, <3>1
  <2>2. pc[u] = "inside" /\ lock[u] = l /\ session[u] = session[l]
    BY <2>1 DEF QueueInv, Belongs
  <2>3. session[t] = session[l]
    BY <1>3 DEF QueueInv, Belongs
  <2>4. Stage[t] = "active" /\ Stage[u] = "accepted" /\ Stage'[u] = "active"
    <3>1. Stage[t] = "active"
      BY <1>1, <1>3, <1>11 DEF Stage, Active
    <3> QED BY <1>8, <1>11, <2>1, <2>2, <3>1
  <2>5. \A v \in Turns \ {t, u} : Stage'[v] = Stage[v]
    BY <1>7, <1>8, <1>11, <2>1
  <2>6. Stage' = [Stage EXCEPT ![t] = "over", ![u] = "active"]
    <3>1. \A v \in Turns :
            Stage'[v] = IF v = u THEN "active" ELSE IF v = t THEN "over" ELSE Stage[v]
      BY <1>6, <2>1, <2>4, <2>5
    <3>2. DOMAIN Stage = Turns /\ Stage' = [v \in Turns |-> Stage'[v]]
      BY DEF Stage
    <3>3. Stage = [v \in Turns |-> Stage[v]]
      BY DEF Stage
    <3> QED BY <2>1, <3>1, <3>2, <3>3
  <2>7. ASSUME NEW v \in Turns \ {t}, session[v] = session[t], Stage[v] = "active"
        PROVE  FALSE
    <3>1. pc[v] = "inside" /\ Active(v)
      BY <2>7 DEF Stage
    <3>2. lock[v] = l
      BY <1>1, <1>3, <2>7, <3>1 DEF Inv, Shared
    <3> QED BY <1>11, <3>1, <3>2 DEF Active
  <2> QED BY <1>1, <1>6, <2>1, <2>2, <2>3, <2>4, <2>6, <2>7 DEF Serial!End
<1> QED BY <1>9, <1>10, <1>11

LEMMA SerialInit == Init => Serial!Init
BY DEF Init, Serial!Init, Stage

LEMMA SerialStep ==
  ASSUME Inv, QueueInv, [Next]_vars
  PROVE  [Serial!Next]_serialView
<1>1. ASSUME NEW t \in Turns, NEW s \in Ids, SubmitNew(t, s) \/ SubmitTo(t, s)
      PROVE  Serial!Next
  BY <1>1, SerialRoute DEF SubmitNew, SubmitTo, Route, Serial!Next
<1>2. ASSUME NEW t \in Turns, SubmitUnknown(t) PROVE Serial!Next
  BY <1>2, SerialRoute DEF SubmitUnknown, Serial!Next
<1>3. ASSUME NEW t \in Turns, Enter(t) PROVE Serial!Next \/ UNCHANGED serialView
  BY <1>3, SerialEnter DEF Serial!Next
<1>4. ASSUME NEW t \in Turns, Answer(t) \/ GiveUp(t) PROVE Serial!Next
  BY <1>4, SerialLeave DEF Answer, GiveUp, Serial!Next
<1>5. ASSUME NEW s \in Ids,
             CreateElsewhere(s) \/ GetElsewhere(s) \/ CloseElsewhere(s)
      PROVE  UNCHANGED serialView
  BY <1>5, SerialStill DEF CreateElsewhere, GetElsewhere, CloseElsewhere, Elsewhere
<1>6. CASE CleanupElsewhere \/ Tick \/ UNCHANGED vars
  BY <1>6, SerialStill DEF CleanupElsewhere, Elsewhere, Tick, vars
<1> QED BY <1>1, <1>2, <1>3, <1>4, <1>5, <1>6 DEF Next

(* When only coroutines call the manager, every behaviour of the gateway   *)
(* is one in which each turn is for one session and the turns of a session *)
(* are active one after the other, whatever is evicted, closed, created or *)
(* cancelled meanwhile (gateway.py:69-70 over event_loop.py:184-193).      *)
THEOREM ImplementsSerialHolds ==
  ASSUME ~ManagerThreads PROVE Spec => ImplementsSerial
<1>1. Inv /\ [Next]_vars => Inv'
  BY Step
<1>2. Inv /\ QueueInv /\ [Next]_vars => [Serial!Next]_serialView
  BY SerialStep
<1> QED BY <1>1, <1>2, Initial, SerialInit, QueuesInit, QueuesStep, PTL
        DEF Spec, ImplementsSerial, Serial!Spec, serialView, Serial!vars
=============================================================================
