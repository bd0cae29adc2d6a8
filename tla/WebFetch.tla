------------------------------ MODULE WebFetch ------------------------------
(***************************************************************************)
(* The HTTP tools web_api:http_request (modules/web/api.py) and            *)
(* web_browse:fetch_page and :summarize_page (modules/web/browse.py).  The *)
(* calls of a module share one httpx client, whose pool of connections is  *)
(* bounded.  A call holds a connection from the moment it sends until the  *)
(* response is closed.  It reads the body in chunks, up to a limit.        *)
(*                                                                         *)
(* httpx, which is external, puts the chunks together from the pieces that *)
(* the network gives it, and reads the body of a redirection it follows    *)
(* to its end, without a limit.  It is given the timeout of a call and     *)
(* applies it to every wait anew: for a connection, for the head of the    *)
(* response and for each piece of a body.  Time is counted in ticks; the   *)
(* server may answer, send and stall as it likes.                          *)
(***************************************************************************)
EXTENDS Integers, FiniteSets

CONSTANTS Fetches,            \* calls of execute()
          FollowRedirects,  \* follow_redirects: always of web_browse
          MaxConnections,   \* of the pool of the client
          MaxRedirects,     \* the client follows so many
          MaxResponseSize,  \* max_response_size
          ChunkSize,        \* chunk_size of aiter_bytes()
          WaitTimeout,          \* of a call, in ticks
          Pieces            \* sizes of a piece of a body, once decoded

ASSUME FetchAssumption ==
  /\ FollowRedirects \in BOOLEAN
  /\ MaxConnections \in Nat \ {0}
  /\ MaxRedirects \in Nat
  /\ MaxResponseSize \in Nat \ {0}
  /\ ChunkSize \in Nat \ {0}
  /\ WaitTimeout \in Nat \ {0}
  /\ Pieces \subseteq Nat

VARIABLES phase,      \* idle, queued for a connection, sent, redirecting,
                      \* reading or answered
          busy,       \* the connections in use, known by their calls
          closed,     \* close() was called
          idle,       \* ticks since the current wait of a call began
          elapsed,    \* ticks since the call began, up to one past its timeout
          redirects,  \* redirections followed
          kept,       \* bytes kept of the body: those of whole chunks
          sent,       \* bytes of the body that have arrived
          reply       \* what the call returned

fetchVars == <<phase, busy, closed, idle, elapsed, redirects, kept, sent, reply>>

Reply(ok, bytes, truncated) == [ok |-> ok, bytes |-> bytes, truncated |-> truncated]
Failure == Reply(FALSE, 0, FALSE)

FetchInit ==
  /\ phase = [c \in Fetches |-> "idle"]
  /\ busy = {}
  /\ closed = FALSE
  /\ idle = [c \in Fetches |-> 0]
  /\ elapsed = [c \in Fetches |-> 0]
  /\ redirects = [c \in Fetches |-> 0]
  /\ kept = [c \in Fetches |-> 0]
  /\ sent = [c \in Fetches |-> 0]
  /\ reply = [c \in Fetches |-> Failure]

Connected == {"sent", "redirecting", "reading"}
UnderWay(c) == phase[c] \in Connected \cup {"queued"}

(* A call ends with a; its response, if there is one, is closed, which     *)
(* gives the connection back.                                              *)
End(c, a) ==
  /\ phase' = [phase EXCEPT ![c] = "answered"]
  /\ busy' = busy \ {c}
  /\ reply' = [reply EXCEPT ![c] = a]

(* A call begins to wait for something else.                               *)
Waits(c, for) ==
  /\ phase' = [phase EXCEPT ![c] = for]
  /\ idle' = [idle EXCEPT ![c] = 0]

-----------------------------------------------------------------------------
(* The parameters are not what they should be, or the client is closed.    *)
RejectFetch(c) ==
  /\ phase[c] = "idle"
  /\ End(c, Failure)
  /\ UNCHANGED <<closed, idle, elapsed, redirects, kept, sent>>

Request(c) ==
  /\ phase[c] = "idle"
  /\ ~closed
  /\ Waits(c, "queued")
  /\ UNCHANGED <<busy, closed, elapsed, redirects, kept, sent, reply>>

(* A connection is free, or can be made: the request is sent.              *)
SendRequest(c) ==
  /\ phase[c] = "queued"
  /\ Cardinality(busy) < MaxConnections
  /\ busy' = busy \cup {c}
  /\ Waits(c, "sent")
  /\ UNCHANGED <<closed, elapsed, redirects, kept, sent, reply>>

(* The head of the response is there; connecting, sending and waiting for  *)
(* it count as one wait.  Whatever its status, the body is read.           *)
Respond(c) ==
  /\ phase[c] = "sent"
  /\ Waits(c, "reading")
  /\ UNCHANGED <<busy, closed, elapsed, redirects, kept, sent, reply>>

(* It is a redirection to follow: before that, all of its body is read,    *)
(* however much that is.                                                   *)
Redirect(c) ==
  /\ FollowRedirects
  /\ phase[c] = "sent"
  /\ Waits(c, "redirecting")
  /\ UNCHANGED <<busy, closed, elapsed, redirects, kept, sent, reply>>

RedirectPiece(c) ==
  /\ phase[c] = "redirecting"
  /\ Waits(c, "redirecting")
  /\ UNCHANGED <<busy, closed, elapsed, redirects, kept, sent, reply>>

(* Then this response is done with, and the request is made elsewhere.     *)
Redirected(c) ==
  /\ phase[c] = "redirecting"
  /\ redirects[c] < MaxRedirects
  /\ redirects' = [redirects EXCEPT ![c] = @ + 1]
  /\ busy' = busy \ {c}
  /\ Waits(c, "queued")
  /\ UNCHANGED <<closed, elapsed, kept, sent, reply>>

TooManyRedirects(c) ==
  /\ phase[c] = "redirecting"
  /\ redirects[c] = MaxRedirects
  /\ End(c, Failure)
  /\ UNCHANGED <<closed, idle, elapsed, redirects, kept, sent>>

-----------------------------------------------------------------------------
(* _read_response_with_limit().                                            *)
Available(c) == MaxResponseSize - kept[c]

(* A mutant of Exceeds: what reaches the limit is cut.                     *)
ExceedsEarly(c, n) == n >= Available(c)

(* Reading ends where a chunk exceeds the limit.                           *)
Exceeds(c, n) == n > Available(c)

Cut(c) ==
  /\ kept' = [kept EXCEPT ![c] = MaxResponseSize]
  /\ End(c, Reply(TRUE, MaxResponseSize, TRUE))

(* What has arrived makes so many whole chunks; the rest waits for more.   *)
InChunks(n) == n - (n % ChunkSize)

(* A piece of n bytes arrives.  What is left of it by the decoding may be  *)
(* nothing.                                                                *)
ReadPiece(c, n) ==
  /\ phase[c] = "reading"
  /\ sent' = [sent EXCEPT ![c] = @ + n]
  /\ LET chunks == InChunks((sent[c] + n) - kept[c]) IN
       IF Exceeds(c, chunks)
         THEN Cut(c) /\ UNCHANGED idle
         ELSE /\ kept' = [kept EXCEPT ![c] = @ + chunks]
              /\ Waits(c, "reading")
              /\ UNCHANGED <<busy, reply>>
  /\ UNCHANGED <<closed, elapsed, redirects>>

(* The body is at its end: the rest is the last chunk.                     *)
ReadEnd(c) ==
  /\ phase[c] = "reading"
  /\ IF Exceeds(c, sent[c] - kept[c])
       THEN Cut(c)
       ELSE /\ kept' = [kept EXCEPT ![c] = sent[c]]
            /\ End(c, Reply(TRUE, sent[c], FALSE))
  /\ UNCHANGED <<closed, idle, elapsed, redirects, sent>>

(* The connection cannot be made, or breaks.                               *)
Break(c) ==
  /\ phase[c] \in Connected
  /\ End(c, Failure)
  /\ UNCHANGED <<closed, idle, elapsed, redirects, kept, sent>>

(* A mutant of WaitTimesOut: the response is not closed.                   *)
WaitTimesOutOpen(c) ==
  /\ UnderWay(c)
  /\ idle[c] = WaitTimeout
  /\ phase' = [phase EXCEPT ![c] = "answered"]
  /\ UNCHANGED <<busy, closed, idle, elapsed, redirects, kept, sent, reply>>

(* A mutant of WaitTimesOut: the timeout is that of reading only.          *)
WaitTimesOutReading(c) ==
  /\ phase[c] = "reading"
  /\ idle[c] = WaitTimeout
  /\ End(c, Failure)
  /\ UNCHANGED <<closed, idle, elapsed, redirects, kept, sent>>

(* A wait has lasted as long as it may.                                    *)
WaitTimesOut(c) ==
  /\ UnderWay(c)
  /\ idle[c] = WaitTimeout
  /\ End(c, Failure)
  /\ UNCHANGED <<closed, idle, elapsed, redirects, kept, sent>>

(* The call is cancelled from outside.                                     *)
CancelFetch(c) ==
  /\ UnderWay(c)
  /\ End(c, Failure)
  /\ UNCHANGED <<closed, idle, elapsed, redirects, kept, sent>>

(* close(): the connections are closed under the calls that use them.  A   *)
(* call that is queued is not told.                                        *)
CloseClient ==
  /\ ~closed
  /\ closed' = TRUE
  /\ phase' = [c \in Fetches |-> IF phase[c] \in Connected THEN "answered" ELSE phase[c]]
  /\ busy' = {}
  /\ UNCHANGED <<idle, elapsed, redirects, kept, sent, reply>>

WaitOn(c) ==
  /\ UnderWay(c)
  /\ idle[c] < WaitTimeout
  /\ idle' = [idle EXCEPT ![c] = @ + 1]
  /\ elapsed' = [elapsed EXCEPT ![c] = IF @ <= WaitTimeout THEN @ + 1 ELSE @]
  /\ UNCHANGED <<phase, busy, closed, redirects, kept, sent, reply>>

FetchNext ==
  \/ \E c \in Fetches :
       \/ RejectFetch(c) \/ Request(c) \/ SendRequest(c)
       \/ Respond(c) \/ Redirect(c) \/ RedirectPiece(c) \/ Redirected(c) \/ TooManyRedirects(c)
       \/ \E n \in Pieces : ReadPiece(c, n)
       \/ ReadEnd(c) \/ Break(c) \/ WaitTimesOut(c) \/ CancelFetch(c) \/ WaitOn(c)
  \/ CloseClient

(* Time passes, and a timeout that is due is raised.  Nothing else can be  *)
(* counted on: neither a free connection nor the server.                   *)
FetchFairness == \A c \in Fetches : WF_fetchVars(WaitOn(c)) /\ WF_fetchVars(WaitTimesOut(c))

FetchSpec == FetchInit /\ [][FetchNext]_fetchVars /\ FetchFairness

-----------------------------------------------------------------------------
(* What the variables hold; no more connections are used than there are.   *)
FetchTypes ==
  /\ phase \in [Fetches -> Connected \cup {"idle", "queued", "answered"}]
  /\ busy \subseteq Fetches /\ Cardinality(busy) <= MaxConnections
  /\ closed \in BOOLEAN
  /\ idle \in [Fetches -> 0..WaitTimeout]
  /\ elapsed \in [Fetches -> 0..(WaitTimeout + 1)]
  /\ redirects \in [Fetches -> 0..MaxRedirects]
  /\ kept \in [Fetches -> 0..MaxResponseSize]
  /\ sent \in [Fetches -> Nat]
  /\ reply \in [Fetches -> [ok : BOOLEAN, bytes : 0..MaxResponseSize, truncated : BOOLEAN]]

(* However a call ends, its connection goes back to the pool, and a call   *)
(* that waits for the server has one: no response is left open for others  *)
(* to wait for.                                                            *)
ConnectionsReturned == busy = {c \in Fetches : phase[c] \in Connected}

(* A body that is answered is what the server has sent, all of it; or it   *)
(* is exactly what the limit allows, and "truncated" is said.  A body of   *)
(* just that size is not truncated.                                        *)
WholeOrTold ==
  \A c \in Fetches : reply[c].ok =>
    IF reply[c].truncated
      THEN reply[c].bytes = MaxResponseSize /\ sent[c] > MaxResponseSize
      ELSE reply[c].bytes = sent[c]

(* The limit is not tested before a chunk is whole: what is taken from the *)
(* server of a body that is not a redirection's exceeds it by less than a  *)
(* chunk, and by the piece that ended it.                                  *)
TakenBounded ==
  \A c \in Fetches :
    \E n \in Pieces \cup {0} : sent[c] < MaxResponseSize + ChunkSize + n

(* A call that has begun ends, though all connections be in use and        *)
(* whatever other calls are sent, unless the server goes on sending to it: *)
(* each piece of a body, be it empty or that of a redirection, starts the  *)
(* time-out anew.                                                          *)
Fed(c) == RedirectPiece(c) \/ \E n \in Pieces : ReadPiece(c, n)

CallsEnd ==
  \A c \in Fetches :
    <>[][~Fed(c)]_fetchVars => (phase[c] = "queued" ~> phase[c] = "answered")

(* "Use _MAX_TIMEOUT seconds total": the timeout is that of the call.      *)
TimeoutIsTotal == \A c \in Fetches : elapsed[c] <= WaitTimeout

(* The timeout, or the limit, ends a call, whatever the server does.       *)
EveryCallEnds == \A c \in Fetches : phase[c] = "queued" ~> phase[c] = "answered"

(* Calls hold no connection they do not use; and the variables have their  *)
(* types.                                                                  *)
PoolSound == FetchTypes /\ ConnectionsReturned

(* Neither a connection nor a piece of a body is lost without a word, and  *)
(* no more is read of a body than its limit and the chunks allow.          *)
FetchSound == PoolSound /\ WholeOrTold /\ TakenBounded
=============================================================================
