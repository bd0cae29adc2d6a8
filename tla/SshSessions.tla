---------------------------- MODULE SshSessions -----------------------------
(***************************************************************************)
(* RemoteSSHModule (modules/security/remote_ssh.py): connections that stay *)
(* open between calls, one for each host name.  Calls of the module run on *)
(* one event loop; _session_lock is never held over an await that          *)
(* suspends, so a call is interleaved with others only while it waits for  *)
(* asyncssh: to connect, or for a command to end.                          *)
(***************************************************************************)
EXTENDS Naturals, FiniteSets

CONSTANTS Hosts,
          Users,
          Credentials,   \* user names of _credentials, NoUser where it has none
          Calls,         \* calls in flight
          Conns,         \* bound of the model: connections at one time
          NoConn, NoHost, NoUser,
          MaxSessions,   \* _max_sessions
          IdleTimeout,   \* _session_idle_timeout
          CommandTime,   \* the longest a command takes: _max_timeout + 1
          MaxTime        \* bound of the model: the clock stops here

ASSUME SshAssumption ==
  /\ Credentials \in [Hosts -> Users \cup {NoUser}]
  /\ IsFiniteSet(Hosts) /\ IsFiniteSet(Calls) /\ Calls # {}
  /\ NoConn \notin Conns /\ NoHost \notin Hosts /\ NoUser \notin Users
  /\ MaxSessions \in Nat /\ IdleTimeout \in Nat /\ CommandTime \in Nat
  /\ MaxTime \in Nat

Tools == {"execute_command", "push_config"}

VARIABLES now,      \* time.monotonic()
          session,  \* _sessions: connection, last use and user of a host
          open,     \* connections that are not closed
          pc,       \* idle, connecting or the tool whose command runs
          host,     \* the host a call in flight is for
          user,     \* the user name a call connects with
          conn,     \* the connection a command runs on
          since,    \* when it began
          answer,   \* what a call returned last
          raced     \* history: connections made while another call connected
                    \* to the same host

call == <<pc, host, user, conn, since>>
vars == <<now, session, open, pc, host, user, conn, since, answer, raced>>

-----------------------------------------------------------------------------
NoSession == [conn |-> NoConn, used |-> 0, user |-> NoUser]

Stored == {h \in Hosts : session[h].conn # NoConn}

Connecting == {c \in Calls : pc[c] = "connecting"}

(* Other calls that connect to the host of c.                              *)
Rivals(c) == {d \in Connecting \ {c} : host[d] = host[c]}

(* _cleanup_expired_sessions: nothing expires when the timeout is 0.       *)
Expired == {h \in Stored : IdleTimeout > 0 /\ now - session[h].used > IdleTimeout}

Forget(S) == [h \in Hosts |-> IF h \in S THEN NoSession ELSE session[h]]

ConnsOf(S) == {session[h].conn : h \in S}

Usable(h) == h \in Stored \ Expired /\ session[h].conn \in open

Unused == Conns \ (open \cup ConnsOf(Stored) \cup {conn[c] : c \in Calls})

Say(c, what) == answer' = [answer EXCEPT ![c] = what]

IdleAgain(c) ==
  /\ pc' = [pc EXCEPT ![c] = "idle"]
  /\ host' = [host EXCEPT ![c] = NoHost]
  /\ user' = [user EXCEPT ![c] = NoUser]
  /\ conn' = [conn EXCEPT ![c] = NoConn]
  /\ UNCHANGED since

Init ==
  /\ now = 0
  /\ session = [h \in Hosts |-> NoSession]
  /\ open = {}
  /\ pc = [c \in Calls |-> "idle"]
  /\ host = [c \in Calls |-> NoHost]
  /\ user = [c \in Calls |-> NoUser]
  /\ conn = [c \in Calls |-> NoConn]
  /\ since = [c \in Calls |-> 0]
  /\ answer = [c \in Calls |-> "none"]
  /\ raced = {}

-----------------------------------------------------------------------------
(* connect: the session of the host is open, whoever it belongs to.        *)
AlreadyConnected(c, h) ==
  /\ pc[c] = "idle"
  /\ h \in Stored
  /\ session[h].conn \in open
  /\ session' = [session EXCEPT ![h].used = now]
  /\ Say(c, "already_connected")
  /\ UNCHANGED <<now, open, call, raced>>

(* ... there are too many sessions, dead and expired ones included.        *)
Refused(c, h) ==
  /\ pc[c] = "idle"
  /\ h \in Stored => session[h].conn \notin open
  /\ Cardinality(Stored) >= MaxSessions
  /\ Say(c, "limit")
  /\ UNCHANGED <<now, session, open, call, raced>>

(* Slip: the limit is compared with > instead of >=.                       *)
ConnectOneMore(c, h, u) ==
  /\ pc[c] = "idle"
  /\ h \in Stored => session[h].conn \notin open
  /\ Cardinality(Stored) <= MaxSessions
  /\ pc' = [pc EXCEPT ![c] = "connecting"]
  /\ host' = [host EXCEPT ![c] = h]
  /\ user' = [user EXCEPT ![c] = u]
  /\ UNCHANGED <<now, session, open, conn, since, answer, raced>>

(* ... or a connection is opened, and the lock released meanwhile.         *)
Connect(c, h, u) ==
  /\ pc[c] = "idle"
  /\ h \in Stored => session[h].conn \notin open
  /\ Cardinality(Stored) < MaxSessions
  /\ pc' = [pc EXCEPT ![c] = "connecting"]
  /\ host' = [host EXCEPT ![c] = h]
  /\ user' = [user EXCEPT ![c] = u]
  /\ UNCHANGED <<now, session, open, conn, since, answer, raced>>

(* The connection is stored over whatever is there.                        *)
Connected(c, k) ==
  /\ pc[c] = "connecting"
  /\ k \in Unused
  /\ open' = open \cup {k}
  /\ session' = [session EXCEPT ![host[c]] =
                   [conn |-> k, used |-> now, user |-> user[c]]]
  /\ raced' = IF Rivals(c) = {} THEN raced \ {k} ELSE raced \cup {k}
  /\ IdleAgain(c)
  /\ Say(c, "connected")
  /\ UNCHANGED now

(* A time-out, an error of asyncssh or a cancellation.                     *)
ConnectFails(c) ==
  /\ pc[c] = "connecting"
  /\ IdleAgain(c)
  /\ Say(c, "failed")
  /\ UNCHANGED <<now, session, open, raced>>

(* Slip: what has expired is forgotten and stays open.                     *)
NotConnectedUnclosed(c, h) ==
  /\ pc[c] = "idle"
  /\ ~Usable(h)
  /\ session' = Forget(Expired \cup {h})
  /\ Say(c, "no_session")
  /\ UNCHANGED <<now, open, call, raced>>

(* _get_session() of execute_command and push_config closes and forgets    *)
(* the sessions that have expired, forgets that of the host when it is     *)
(* dead, ...                                                               *)
NotConnected(c, h) ==
  /\ pc[c] = "idle"
  /\ ~Usable(h)
  /\ session' = Forget(Expired \cup {h})
  /\ open' = open \ ConnsOf(Expired)
  /\ Say(c, "no_session")
  /\ UNCHANGED <<now, call, raced>>

(* Slip: the session keeps the time of its last use.                       *)
BeginUntouched(c, h, tool) ==
  /\ pc[c] = "idle"
  /\ Usable(h)
  /\ session' = Forget(Expired)
  /\ open' = open \ ConnsOf(Expired)
  /\ pc' = [pc EXCEPT ![c] = tool]
  /\ host' = [host EXCEPT ![c] = h]
  /\ conn' = [conn EXCEPT ![c] = session[h].conn]
  /\ since' = [since EXCEPT ![c] = now]
  /\ UNCHANGED <<now, user, answer, raced>>

(* Slip: the session is put back without its user.                         *)
BeginUserless(c, h, tool) ==
  /\ pc[c] = "idle"
  /\ Usable(h)
  /\ session' = [Forget(Expired) EXCEPT ![h].used = now, ![h].user = NoUser]
  /\ open' = open \ ConnsOf(Expired)
  /\ pc' = [pc EXCEPT ![c] = tool]
  /\ host' = [host EXCEPT ![c] = h]
  /\ conn' = [conn EXCEPT ![c] = session[h].conn]
  /\ since' = [since EXCEPT ![c] = now]
  /\ UNCHANGED <<now, user, answer, raced>>

(* ... or marks it as used and runs the command on it.                     *)
Begin(c, h, tool) ==
  /\ pc[c] = "idle"
  /\ Usable(h)
  /\ session' = [Forget(Expired) EXCEPT ![h].used = now]
  /\ open' = open \ ConnsOf(Expired)
  /\ pc' = [pc EXCEPT ![c] = tool]
  /\ host' = [host EXCEPT ![c] = h]
  /\ conn' = [conn EXCEPT ![c] = session[h].conn]
  /\ since' = [since EXCEPT ![c] = now]
  /\ UNCHANGED <<now, user, answer, raced>>

(* The command ends.  A command that exits with an error has run, a        *)
(* configuration that does has failed.                                     *)
CommandEnds(c) ==
  /\ pc[c] = "execute_command"
  /\ conn[c] \in open
  /\ IdleAgain(c)
  /\ Say(c, "ran")
  /\ UNCHANGED <<now, session, open, raced>>

PushEnds(c) ==
  /\ pc[c] = "push_config"
  /\ conn[c] \in open
  /\ IdleAgain(c)
  /\ \E ok \in BOOLEAN : Say(c, IF ok THEN "ran" ELSE "failed")
  /\ UNCHANGED <<now, session, open, raced>>

(* A time-out, a closed connection or a cancellation.                      *)
CommandFails(c) ==
  /\ pc[c] \in Tools
  /\ IdleAgain(c)
  /\ Say(c, "failed")
  /\ UNCHANGED <<now, session, open, raced>>

(* close_all_sessions, whatever commands are running.                      *)
CloseAll ==
  /\ Stored # {}
  /\ open' = open \ ConnsOf(Stored)
  /\ session' = Forget(Stored)
  /\ UNCHANGED <<now, call, answer, raced>>

(* The other end closes a connection.                                      *)
Drop(k) ==
  /\ k \in open
  /\ open' = open \ {k}
  /\ UNCHANGED <<now, session, call, answer, raced>>

(* wait_for(): no command takes longer than CommandTime.                   *)
Tick ==
  /\ now < MaxTime
  /\ \A c \in Calls : pc[c] \in Tools => now - since[c] < CommandTime
  /\ now' = now + 1
  /\ UNCHANGED <<session, open, call, answer, raced>>

Next ==
  \/ \E c \in Calls, h \in Hosts :
       \/ AlreadyConnected(c, h) \/ Refused(c, h) \/ NotConnected(c, h)
       \/ \E u \in Users : Connect(c, h, u)
       \/ \E tool \in Tools : Begin(c, h, tool)
  \/ \E c \in Calls :
       \/ \E k \in Conns : Connected(c, k)
       \/ ConnectFails(c) \/ CommandEnds(c) \/ PushEnds(c) \/ CommandFails(c)
  \/ CloseAll \/ Tick
  \/ \E k \in Conns : Drop(k)

Spec == Init /\ [][Next]_vars

(* resolve_conditions(): remote_ssh:Username of a call that names no user. *)
DerivedUser(h) == Credentials[h]

-----------------------------------------------------------------------------
(* Type invariant: what is stored has a user, and a call in flight has all *)
(* it needs to go on.                                                      *)
TypeOK ==
  /\ now \in 0..MaxTime
  /\ session \in [Hosts -> [conn : Conns, used : 0..MaxTime, user : Users]
                           \cup {NoSession}]
  /\ open \subseteq Conns
  /\ pc \in [Calls -> {"idle", "connecting"} \cup Tools]
  /\ host \in [Calls -> Hosts \cup {NoHost}]
  /\ user \in [Calls -> Users \cup {NoUser}]
  /\ conn \in [Calls -> Conns \cup {NoConn}]
  /\ since \in [Calls -> 0..MaxTime]
  /\ raced \subseteq Conns
  /\ \A c \in Calls : /\ pc[c] = "idle" <=> host[c] = NoHost
                      /\ pc[c] = "connecting" <=> user[c] # NoUser
                      /\ pc[c] \in Tools <=> conn[c] # NoConn

(* remote_ssh.py:294: the limit is looked at before the connection is      *)
(* opened; what is opened meanwhile can exceed it by no more than the      *)
(* other calls in flight.                                                  *)
OvershootBounded ==
  Cardinality(Stored) + Cardinality(Connecting) < MaxSessions + Cardinality(Calls)

(* The idle time-out and close_all_sessions() reach every open connection  *)
(* but those that were overwritten (:354).  That takes two calls which     *)
(* connect to one host at a time: nothing checks for a connection again    *)
(* after the lock was released (:301), and one that a later call finds is  *)
(* never replaced, forgotten or dropped from the map while it is open.     *)
LostToRaces == open \ ConnsOf(Stored) \subseteq raced

(* remote_ssh.py:591 "Close all active SSH sessions.", and :66 "Session    *)
(* idle timeout with automatic cleanup": there is no connection that they  *)
(* do not find.                                                            *)
NoneLeaked == open \subseteq ConnsOf(Stored)

(* A connection a command runs on is closed by the module only when the    *)
(* command has been running for longer than the idle time-out: whatever    *)
(* the other calls do, a command keeps its connection for that long.  With *)
(* the defaults a command may take a second more (:74, :76, :389).         *)
ClosesLong ==
  \A c \in Calls :
    pc[c] \in Tools /\ conn[c] \in open /\ conn[c] \notin open'
      => \/ IdleTimeout > 0 /\ now - since[c] > IdleTimeout
         \/ CloseAll \/ \E k \in Conns : Drop(k)

OnlyLongCommandsCut == [][ClosesLong]_vars

(* remote_ssh.py:559 "Close and remove sessions that have been idle too    *)
(* long": a connection a command runs on is never closed by the module,    *)
(* but by close_all_sessions().                                            *)
ClosesUnused ==
  (\E c \in Calls : pc[c] \in Tools /\ conn[c] \in open /\ conn[c] \notin open')
    => CloseAll \/ \E k \in Conns : Drop(k)

UsedNotClosed == [][ClosesUnused]_vars

(* remote_ssh.py:90 "Maximum number of concurrent SSH sessions allowed".   *)
WithinLimit == Cardinality(Stored) <= MaxSessions

(* The same line: a call is refused only when there are that many.         *)
RefusedAtLimit ==
  [][\A c \in Calls : answer[c] # "limit" /\ answer'[c] = "limit"
       => Cardinality(open) >= MaxSessions]_vars

(* remote_ssh.py:198 "remote_ssh:Username from username parameter or       *)
(* stored session": a command is authorised for the user it runs as.       *)
UsernameIsSessions ==
  \A h \in Stored : DerivedUser(h) = session[h].user

(* What the check of the limit (remote_ssh.py:294) comes to when calls     *)
(* overlap; and the variables have their types.                            *)
SessionsBounded == TypeOK /\ OvershootBounded
=============================================================================
