------------------------------ MODULE Sessions ------------------------------
(***************************************************************************)
(* SessionManager (core/session.py): the sessions in memory, evicted when  *)
(* they have been idle for longer than session_ttl, when there are         *)
(* max_sessions of them and one more is created, and when they are closed. *)
(* Operations come from any OS thread.  Each is atomic under _lock, except *)
(* add_message, which touches the session under _lock and appends under    *)
(* the message lock of the session, when it may already be gone.           *)
(*                                                                         *)
(* The OrderedDict is the set "tracked" with its order "older": <<r, s>>   *)
(* is in it when r comes before s.  The eviction callback is counted per   *)
(* session.                                                                *)
(***************************************************************************)
EXTENDS Naturals, Sequences, FiniteSets

CONSTANTS Ids,          \* session identifiers (uuid4, never used twice)
          Threads,      \* OS threads that add messages
          NoId,         \* a thread that is not appending
          MaxSessions,  \* max_sessions
          MaxMessages,  \* max_messages
          TTL,          \* session_ttl
          MaxClock,     \* bound of the model: the clock stops here
          MaxAdded      \* bound of the model: messages added to a session

ASSUME LimitsAssumption ==
  /\ MaxSessions \in Nat \ {0}
  /\ MaxMessages \in Nat \ {0}
  /\ TTL \in Nat
  /\ MaxClock \in Nat
  /\ MaxAdded \in Nat

ASSUME NoIdAssumption == NoId \notin Ids

VARIABLES clock,         \* time.monotonic()
          tracked,       \* keys of _sessions
          older,         \* their order
          lastAccessed,  \* session.last_accessed
          messages,      \* session.messages: the numbers of its messages
          added,         \* how many messages a session was given
          released,      \* how often _on_evict was called for a session
          appending,     \* the session a thread in add_message holds
          used,          \* identifiers handed out
          closed         \* those close() was called for while tracked

vars == <<clock, tracked, older, lastAccessed, messages, added, released,
          appending, used, closed>>

-----------------------------------------------------------------------------
Idle(s) == clock - lastAccessed[s]

Expired == {s \in tracked : Idle(s) > TTL}

Live == tracked \ Expired

(* The order of the dict without the sessions in gone.                     *)
Without(gone) == {p \in older : p[1] \notin gone /\ p[2] \notin gone}

(* The order of the dict when only rest is left and s is moved to the end. *)
MovedToEnd(s, rest) ==
  {p \in older : p[1] \in rest \ {s} /\ p[2] \in rest \ {s}}
  \cup {<<r, s>> : r \in rest \ {s}}

(* _evict_session: the sessions leave, each with one call of _on_evict.    *)
Evict(gone) ==
  released' = [s \in Ids |-> IF s \in gone THEN released[s] + 1 ELSE released[s]]

(* Slip: the loop stops when the manager is full.                          *)
VictimsLate(V) ==
  /\ V \subseteq Live
  /\ \A p \in older : p[1] \in Live /\ p[2] \in V => p[1] \in V
  /\ Cardinality(Live \ V) <= MaxSessions
  /\ V # {} => Cardinality(Live \ V) = MaxSessions

(* Slip: popitem() without last=False.                                     *)
VictimsFromTheEnd(V) ==
  /\ V \subseteq Live
  /\ \A p \in older : p[2] \in Live /\ p[1] \in V => p[2] \in V
  /\ Cardinality(Live \ V) < MaxSessions
  /\ V # {} => Cardinality(Live \ V) = MaxSessions - 1

(* What _evict_lru takes in create()'s loop: from the oldest on, as many   *)
(* as it takes to leave room for one.                                      *)
Victims(V) ==
  /\ V \subseteq Live
  /\ \A p \in older : p[1] \in Live /\ p[2] \in V => p[1] \in V
  /\ Cardinality(Live \ V) < MaxSessions
  /\ V # {} => Cardinality(Live \ V) = MaxSessions - 1

-----------------------------------------------------------------------------
Init ==
  /\ clock = 0
  /\ tracked = {}
  /\ older = {}
  /\ lastAccessed = [s \in Ids |-> 0]
  /\ messages = [s \in Ids |-> <<>>]
  /\ added = [s \in Ids |-> 0]
  /\ released = [s \in Ids |-> 0]
  /\ appending = [t \in Threads |-> NoId]
  /\ used = {}
  /\ closed = {}

(* Expired sessions first, then the least recently used ones.              *)
Create(s) ==
  /\ s \notin used
  /\ used' = used \cup {s}
  /\ \E V \in SUBSET Live :
       /\ Victims(V)
       /\ Evict(Expired \cup V)
       /\ tracked' = (Live \ V) \cup {s}
       /\ older' = MovedToEnd(s, Live \ V)
  /\ lastAccessed' = [lastAccessed EXCEPT ![s] = clock]
  /\ UNCHANGED <<clock, messages, added, appending, closed>>

(* Slip: a session that is not there is put there.                         *)
GetOrPut(s) ==
  /\ Evict(Expired)
  /\ tracked' = Live \cup {s}
  /\ older' = MovedToEnd(s, Live)
  /\ lastAccessed' = [lastAccessed EXCEPT ![s] = clock]
  /\ UNCHANGED <<clock, messages, added, appending, used, closed>>

(* get: a session that is there after the cleanup becomes the most recent. *)
GetFound(s) ==
  /\ s \in Live
  /\ Evict(Expired)
  /\ tracked' = Live
  /\ older' = MovedToEnd(s, Live)
  /\ lastAccessed' = [lastAccessed EXCEPT ![s] = clock]
  /\ UNCHANGED <<clock, messages, added, appending, used, closed>>

(* get of a session that is not there, list_active and count: all they do  *)
(* is clean up.                                                            *)
Cleanup ==
  /\ Expired # {}
  /\ Evict(Expired)
  /\ tracked' = Live
  /\ older' = Without(Expired)
  /\ UNCHANGED <<clock, lastAccessed, messages, added, appending, used,
                 closed>>

(* Slip: only eviction by the manager calls the callback.                  *)
CloseSilently(s) ==
  /\ s \in tracked
  /\ Evict(Expired \ {s})
  /\ tracked' = Live \ {s}
  /\ older' = Without(Expired \cup {s})
  /\ closed' = closed \cup {s}
  /\ UNCHANGED <<clock, lastAccessed, messages, added, appending, used>>

Close(s) ==
  /\ s \in tracked
  /\ Evict(Expired \cup {s})
  /\ tracked' = Live \ {s}
  /\ older' = Without(Expired \cup {s})
  /\ closed' = closed \cup {s}
  /\ UNCHANGED <<clock, lastAccessed, messages, added, appending, used>>

(* Slip: the session is stamped but keeps its place.                       *)
AddMessageInPlace(t, s) ==
  /\ appending[t] = NoId
  /\ s \in tracked
  /\ lastAccessed' = [lastAccessed EXCEPT ![s] = clock]
  /\ appending' = [appending EXCEPT ![t] = s]
  /\ UNCHANGED <<clock, tracked, older, messages, added, released, used, closed>>

(* add_message, under _lock: no cleanup; whatever is tracked is touched.   *)
AddMessage(t, s) ==
  /\ appending[t] = NoId
  /\ s \in tracked
  /\ lastAccessed' = [lastAccessed EXCEPT ![s] = clock]
  /\ older' = MovedToEnd(s, tracked)
  /\ appending' = [appending EXCEPT ![t] = s]
  /\ UNCHANGED <<clock, tracked, messages, added, released, used, closed>>

(* Slip: the wrong end is deleted.                                         *)
Oldest(q) == IF Len(q) > MaxMessages THEN SubSeq(q, 1, MaxMessages) ELSE q

(* add_message, under the message lock: append and, with trim, keep the    *)
(* newest MaxMessages.                                                     *)
Newest(q) ==
  IF Len(q) > MaxMessages THEN SubSeq(q, Len(q) - MaxMessages + 1, Len(q)) ELSE q

AppendMessage(t, trim) ==
  /\ appending[t] # NoId
  /\ LET s == appending[t]
         q == Append(messages[s], added[s] + 1)
     IN  /\ added[s] < MaxAdded
         /\ added' = [added EXCEPT ![s] = @ + 1]
         /\ messages' = [messages EXCEPT ![s] = IF trim THEN Newest(q) ELSE q]
  /\ appending' = [appending EXCEPT ![t] = NoId]
  /\ UNCHANGED <<clock, tracked, older, lastAccessed, released, used, closed>>

Tick ==
  /\ clock < MaxClock
  /\ clock' = clock + 1
  /\ UNCHANGED <<tracked, older, lastAccessed, messages, added, released,
                 appending, used, closed>>

Next ==
  \/ \E s \in Ids : Create(s) \/ GetFound(s) \/ Close(s)
  \/ Cleanup
  \/ \E t \in Threads, s \in Ids : AddMessage(t, s)
  \/ \E t \in Threads, trim \in BOOLEAN : AppendMessage(t, trim)
  \/ Tick

Spec == Init /\ [][Next]_vars

-----------------------------------------------------------------------------
(* Type invariant.                                                         *)
TypeOK ==
  /\ clock \in Nat
  /\ used \subseteq Ids
  /\ tracked \subseteq used
  /\ closed \subseteq used
  /\ older \subseteq Ids \X Ids
  /\ lastAccessed \in [Ids -> Nat]
  /\ messages \in [Ids -> Seq(Nat)]
  /\ added \in [Ids -> Nat]
  /\ released \in [Ids -> Nat]
  /\ appending \in [Threads -> Ids \cup {NoId}]

(* session.py:77 "max_sessions: Maximum number of concurrent sessions".    *)
Capacity == Cardinality(tracked) <= MaxSessions

(* o is a strict total order of T.                                         *)
IsOrder(T, o) ==
  /\ o \subseteq T \X T
  /\ \A r \in T : <<r, r>> \notin o
  /\ \A r, s \in T : r # s => (<<r, s>> \in o <=> <<s, r>> \notin o)
  /\ \A r, s, u \in T : <<r, s>> \in o /\ <<s, u>> \in o => <<r, u>> \in o

(* The order of the dict is a total order of the sessions in it, and it is *)
(* the order of their last use: _evict_lru, which looks at the order only, *)
(* and _cleanup_expired, which looks at last_accessed only, agree on who   *)
(* is oldest.                                                              *)
OrderIsAge ==
  /\ IsOrder(tracked, older)
  /\ \A p \in older : lastAccessed[p[1]] <= lastAccessed[p[2]]
  /\ \A s \in tracked : lastAccessed[s] <= clock

(* The eviction callback, which frees what the event loop keeps for a      *)
(* session, is called once for every session that is gone and for no       *)
(* session that is still there, whichever way a session goes.              *)
ReleasedOnce ==
  \A s \in Ids : released[s] = IF s \in used \ tracked THEN 1 ELSE 0

(* A session leaves because it is closed, because it was idle for longer   *)
(* than the TTL, or because the manager was full of sessions that were     *)
(* not: then no session that stays was used longer ago than it, and no     *)
(* place was left empty.                                                   *)
EvictedForCause ==
  [][\A s \in tracked \ tracked' :
       \/ Idle(s) > TTL
       \/ s \in closed'
       \/ /\ used' # used
          /\ \A r \in tracked' \cap tracked :
               lastAccessed[s] <= lastAccessed[r] /\ Idle(r) <= TTL
          /\ Cardinality(tracked') = MaxSessions]_vars

(* The history of a session is what it was given last: its messages are in *)
(* the order they were appended in, none in the middle is missing, and     *)
(* trimming drops no more than what is over max_messages.                  *)
HistoryIsSuffix ==
  \A s \in Ids :
    /\ \A i \in DOMAIN messages[s] : messages[s][i] = added[s] - Len(messages[s]) + i
    /\ Len(messages[s]) >= IF added[s] < MaxMessages THEN added[s] ELSE MaxMessages

(* session.py:76 "session_ttl: Maximum idle time before a session is       *)
(* evicted": a session that has been idle for longer than that is not used *)
(* again, by whatever operation finds it.                                  *)
NoRevival ==
  [][\A s \in tracked \cap tracked' :
       lastAccessed'[s] # lastAccessed[s] => Idle(s) <= TTL]_vars

(* The manager keeps its sessions in order of age and no more of them than *)
(* fit; and the variables have their types.                                *)
KeptInOrder == TypeOK /\ Capacity /\ OrderIsAge
=============================================================================
