------------------------------ MODULE Gateway -------------------------------
(***************************************************************************)
(* Gateway.submit (core/gateway.py) over the session manager and the locks *)
(* of the event loop: which session a message goes to, and which lock its  *)
(* turn takes.  What happens in a turn is in Turns; here a turn is in the  *)
(* queue of a lock until it ends.                                          *)
(*                                                                         *)
(* EventLoop._session_async_locks maps a session to its lock.  A lock is   *)
(* named after the turn that created it in setdefault().  The eviction     *)
(* callback of the manager drops the lock of a session; those who hold it  *)
(* or wait for it keep it.                                                 *)
(*                                                                         *)
(* submit() and process_turn() run without suspension up to the lock: no   *)
(* other coroutine comes between get() and setdefault(), but a thread does.*)
(***************************************************************************)
EXTENDS Naturals, SequencesExt

CONSTANTS Turns,           \* calls of submit()
          Ids,             \* sessions
          NoId,            \* the session of a turn that has none yet
          NoLock,          \* no lock
          ManagerThreads,  \* whether OS threads call the manager as well
          MaxSessions, TTL, MaxClock

ASSUME TurnsAssumption == NoLock \notin Turns /\ NoId \notin Ids

ASSUME ThreadsAssumption == ManagerThreads \in BOOLEAN

VARIABLES clock, tracked, older, lastAccessed, released, used, closed,
          pc,        \* where a turn is
          session,   \* the session it was routed to
          lock,      \* the lock it holds or waits for
          locks,     \* _session_async_locks
          queue      \* of a lock: its holder first, then who waits

manager == <<clock, tracked, older, lastAccessed, released, used, closed>>

vars == <<clock, tracked, older, lastAccessed, released, used, closed,
          pc, session, lock, locks, queue>>

Manager == INSTANCE Sessions WITH
  Threads <- {}, MaxMessages <- 1, MaxAdded <- 0,
  messages <- [s \in Ids |-> <<>>], added <- [s \in Ids |-> 0],
  appending <- <<>>

PCs == {"new", "routed", "inside", "answered", "gave_up", "unknown"}

-----------------------------------------------------------------------------
Init ==
  /\ Manager!Init
  /\ pc = [t \in Turns |-> "new"]
  /\ session = [t \in Turns |-> NoId]
  /\ lock = [t \in Turns |-> NoLock]
  /\ locks = [s \in Ids |-> NoLock]
  /\ queue = [l \in Turns |-> <<>>]

(* Slip: the callback is not wired.                                        *)
KeepLocks == UNCHANGED locks

(* The eviction callback: release_session for every session that went.     *)
ReleaseLocks ==
  locks' = [s \in Ids |-> IF released'[s] # released[s] THEN NoLock ELSE locks[s]]

(* No coroutine is between get() and setdefault().                         *)
LoopFree == \A t \in Turns : pc[t] # "routed"

Route(t, s) ==
  /\ pc[t] = "new"
  /\ LoopFree
  /\ pc' = [pc EXCEPT ![t] = "routed"]
  /\ session' = [session EXCEPT ![t] = s]
  /\ ReleaseLocks
  /\ UNCHANGED <<lock, queue>>

(* submit() without a session: a new one.                                  *)
SubmitNew(t, s) == Manager!Create(s) /\ Route(t, s)

(* Slip: the answer of get() is not looked at.                             *)
SubmitToMissing(t, s) == UNCHANGED manager /\ Route(t, s)

SubmitTo(t, s) == Manager!GetFound(s) /\ Route(t, s)

(* get() finds nothing, after it has cleaned up: KeyError.                 *)
SubmitUnknown(t) ==
  /\ pc[t] = "new"
  /\ LoopFree
  /\ IF Manager!Expired = {} THEN UNCHANGED manager ELSE Manager!Cleanup
  /\ ReleaseLocks
  /\ pc' = [pc EXCEPT ![t] = "unknown"]
  /\ UNCHANGED <<session, lock, queue>>

(* Slip: every turn has a lock of its own.                                 *)
LockFor(t) == t

(* Slip: one lock for all sessions.                                        *)
LockForAll(t) == CHOOSE l \in Turns : TRUE

(* setdefault(): the lock of the session, or a new one.                    *)
TheLock(t) == IF locks[session[t]] = NoLock THEN t ELSE locks[session[t]]

(* The lock is entered, or waited for.                                     *)
Enter(t) ==
  /\ pc[t] = "routed"
  /\ pc' = [pc EXCEPT ![t] = "inside"]
  /\ LET l == TheLock(t)
     IN  /\ lock' = [lock EXCEPT ![t] = l]
         /\ locks' = [locks EXCEPT ![session[t]] = l]
         /\ queue' = [queue EXCEPT ![l] = Append(@, t)]
  /\ UNCHANGED <<manager, session>>

Active(t) == pc[t] = "inside" /\ Head(queue[lock[t]]) = t

(* The queue of a lock without the turn that leaves it.                    *)
QueueWithout(q, t) == RemoveAt(q, CHOOSE i \in DOMAIN q : q[i] = t)

(* Slip: a turn that ends drops the lock of its session.                   *)
LeaveReleasing(t, how) ==
  /\ pc[t] = "inside"
  /\ LoopFree
  /\ pc' = [pc EXCEPT ![t] = how]
  /\ queue' = [queue EXCEPT ![lock[t]] = QueueWithout(@, t)]
  /\ locks' = [locks EXCEPT ![session[t]] = NoLock]
  /\ UNCHANGED <<manager, session, lock>>

Leave(t, how) ==
  /\ pc[t] = "inside"
  /\ LoopFree
  /\ pc' = [pc EXCEPT ![t] = how]
  /\ queue' = [queue EXCEPT ![lock[t]] = QueueWithout(@, t)]
  /\ UNCHANGED <<manager, session, lock, locks>>

(* The turn that holds the lock ends with an answer; a turn is cancelled,  *)
(* or the model fails it.                                                  *)
Answer(t) == Active(t) /\ Leave(t, "answered")

GiveUp(t) == Leave(t, "gave_up")

-----------------------------------------------------------------------------
(* The manager is used by others: coroutines, when the loop is free, and   *)
(* threads.                                                                *)
Elsewhere ==
  /\ LoopFree \/ ManagerThreads
  /\ ReleaseLocks
  /\ UNCHANGED <<pc, session, lock, queue>>

CreateElsewhere(s) == Manager!Create(s) /\ Elsewhere

GetElsewhere(s) == Manager!GetFound(s) /\ Elsewhere

CloseElsewhere(s) == Manager!Close(s) /\ Elsewhere

CleanupElsewhere == Manager!Cleanup /\ Elsewhere

Tick ==
  /\ Manager!Tick
  /\ UNCHANGED <<pc, session, lock, locks, queue>>

Next ==
  \/ \E t \in Turns :
       \/ \E s \in Ids : SubmitNew(t, s) \/ SubmitTo(t, s)
       \/ SubmitUnknown(t)
       \/ Enter(t)
       \/ Answer(t)
       \/ GiveUp(t)
  \/ \E s \in Ids : CreateElsewhere(s) \/ GetElsewhere(s) \/ CloseElsewhere(s)
  \/ CleanupElsewhere
  \/ Tick

Spec == Init /\ [][Next]_vars

-----------------------------------------------------------------------------
(* Type invariant.                                                         *)
TypeOK ==
  /\ Manager!TypeOK
  /\ pc \in [Turns -> PCs]
  /\ session \in [Turns -> Ids \cup {NoId}]
  /\ \A t \in Turns : pc[t] \notin {"new", "unknown"} => session[t] \in used
  /\ lock \in [Turns -> Turns \cup {NoLock}]
  /\ locks \in [Ids -> Turns \cup {NoLock}]
  /\ queue \in [Turns -> Seq(Turns)]

(* event_loop.py:184-185 "only one process_turn coroutine is active per    *)
(* session", whatever is evicted, closed or created while it runs.         *)
TurnsExclusive ==
  \A t, u \in Turns :
    Active(t) /\ Active(u) /\ session[t] = session[u] => t = u

(* event_loop.py:148-149: release_session is called "so per-session locks  *)
(* do not accumulate": the event loop keeps no lock for a session that the *)
(* manager does not know.                                                  *)
LocksFollowSessions == \A s \in Ids : locks[s] # NoLock => s \in tracked

(* gateway.py:55: the session identifier is returned "so callers can       *)
(* continue the conversation": a session that was not closed is there when *)
(* its turn is answered.                                                   *)
ContinuesAfterAnswer ==
  [][\A t \in Turns :
       pc[t] = "inside" /\ pc'[t] = "answered"
         => session[t] \in tracked \cup closed]_vars

(* A turn waits behind turns of its own session only.                      *)
QueuesApart ==
  \A l \in Turns : \A i, j \in DOMAIN queue[l] :
    /\ session[queue[l][i]] = session[queue[l][j]]
    /\ queue[l][i] = queue[l][j] => i = j

-----------------------------------------------------------------------------
(* The gateway serves each session serially.                               *)
Stage ==
  [t \in Turns |->
     IF pc[t] = "new" THEN "new"
     ELSE IF pc[t] = "routed" THEN "accepted"
     ELSE IF pc[t] # "inside" THEN "over"
     ELSE IF Active(t) THEN "active" ELSE "accepted"]

Serial == INSTANCE SerialTurns WITH stage <- Stage

ImplementsSerial == Serial!Spec

(* The locks do what they are there for (event_loop.py:184-185): at most   *)
(* one turn of a session is inside, and a lock goes with its session.      *)
LocksExclude == TurnsExclusive /\ LocksFollowSessions

(* Nobody waits for the lock of another session, or twice for one; and the *)
(* variables have their types.                                             *)
QueuesSound == TypeOK /\ QueuesApart
=============================================================================
