----------------------------- MODULE ToolProofs -----------------------------
(***************************************************************************)
(* What the tools that call out promise, for any number of calls and any   *)
(* limits: the HTTP tools (WebFetch), source control (ScmProvider), and    *)
(* the shell and git (Commands, which extends ShellRun); and what the      *)
(* audit trail and the tool that queries it do (AuditLog).  They share     *)
(* nothing, and no theorem is about two of them.                           *)
(***************************************************************************)
EXTENDS WebFetch, ScmProvider, Commands, AuditLog, FiniteSetTheorems, SequenceTheorems,
        WellFoundedInduction, TLAPS

-----------------------------------------------------------------------------
(* The HTTP tools.  Nothing is answered before the end; there is no body   *)
(* before the head; and what is kept of a body lags behind what has        *)
(* arrived by less than a chunk.                                           *)
InOrder(c) ==
  /\ phase[c] # "answered" => ~reply[c].ok
  /\ phase[c] \in {"idle", "queued", "sent", "redirecting"} => kept[c] = 0 /\ sent[c] = 0
  /\ phase[c] = "reading" => kept[c] <= sent[c] /\ sent[c] - kept[c] < ChunkSize

FetchInv ==
  /\ FetchSound
  /\ IsFiniteSet(busy)
  /\ \A c \in Fetches : InOrder(c)

Answers == [ok : BOOLEAN, bytes : 0..MaxResponseSize, truncated : BOOLEAN]

(* What one call contributes to WholeOrTold and to TakenBounded: the       *)
(* answer a to a body of which s bytes have arrived.                       *)
TellsOf(a, s) ==
  a.ok => IF a.truncated THEN a.bytes = MaxResponseSize /\ s > MaxResponseSize
                         ELSE a.bytes = s

Bounded(s) == \E n \in Pieces \cup {0} : s < MaxResponseSize + ChunkSize + n

(* The whole chunks of a number of bytes leave less than a chunk.          *)
LEMMA ChunksOf ==
  ASSUME NEW n \in Nat
  PROVE  InChunks(n) \in Nat /\ InChunks(n) <= n /\ n - InChunks(n) < ChunkSize
<1>1. ChunkSize \in Nat /\ ChunkSize > 0
  BY FetchAssumption
<1>2. n % ChunkSize \in 0..(ChunkSize - 1)
  BY <1>1
<1>3. n % ChunkSize <= n
  BY <1>1, Z3
<1>4. QED
  BY <1>1, <1>2, <1>3 DEF InChunks

LEMMA FetchInvInit == ASSUME FetchInit PROVE FetchInv
<1>1. IsFiniteSet({}) /\ Cardinality({}) = 0
  BY FS_EmptySet
<1>2. /\ MaxConnections \in Nat /\ MaxRedirects \in Nat /\ MaxResponseSize \in Nat
      /\ MaxResponseSize > 0 /\ WaitTimeout \in Nat /\ ChunkSize \in Nat
  BY FetchAssumption
<1>3. FetchTypes
  <2>1. Failure \in [ok : BOOLEAN, bytes : 0..MaxResponseSize, truncated : BOOLEAN]
    BY <1>2 DEF Failure, Reply
  <2>2. idle \in [Fetches -> 0..WaitTimeout] /\ elapsed \in [Fetches -> 0..(WaitTimeout + 1)]
    BY <1>2 DEF FetchInit
  <2>3. redirects \in [Fetches -> 0..MaxRedirects] /\ kept \in [Fetches -> 0..MaxResponseSize]
    BY <1>2 DEF FetchInit
  <2>4. reply \in [Fetches -> [ok : BOOLEAN, bytes : 0..MaxResponseSize, truncated : BOOLEAN]]
    BY <2>1 DEF FetchInit
  <2>5. busy \subseteq Fetches /\ Cardinality(busy) <= MaxConnections
    BY <1>1, <1>2 DEF FetchInit
  <2>6. /\ phase \in [Fetches -> Connected \cup {"idle", "queued", "answered"}]
        /\ closed \in BOOLEAN /\ sent \in [Fetches -> Nat]
    BY DEF FetchInit
  <2>7. QED
    BY <2>2, <2>3, <2>4, <2>5, <2>6 DEF FetchTypes
<1>4. \A c \in Fetches : InOrder(c)
  BY DEF FetchInit, InOrder, Failure, Reply
<1>5. TakenBounded
  <2>1. 0 < MaxResponseSize + ChunkSize + 0
    BY <1>2
  <2>2. \A c \in Fetches : sent[c] = 0
    BY DEF FetchInit
  <2>3. QED
    BY <2>1, <2>2 DEF TakenBounded
<1>6. WholeOrTold /\ ConnectionsReturned
  BY DEF FetchInit, WholeOrTold, ConnectionsReturned, Failure, Reply, Connected
<1>7. QED
  BY <1>1, <1>3, <1>4, <1>5, <1>6 DEF FetchInv, FetchSound, PoolSound, FetchInit

(* A set of connections stays within its bound when some are given back.   *)
LEMMA GivenBack ==
  ASSUME FetchInv, NEW S, S \subseteq busy
  PROVE  IsFiniteSet(S) /\ S \subseteq Fetches /\ Cardinality(S) <= MaxConnections
<1>1. IsFiniteSet(busy) /\ busy \subseteq Fetches /\ Cardinality(busy) <= MaxConnections
  BY DEF FetchInv, FetchSound, PoolSound, FetchTypes
<1>2. IsFiniteSet(S) /\ Cardinality(S) <= Cardinality(busy)
  BY <1>1, FS_Subset
<1>3. Cardinality(S) \in Nat /\ Cardinality(busy) \in Nat /\ MaxConnections \in Nat
  BY <1>1, <1>2, FS_CardinalityType, FetchAssumption
<1>4. QED
  BY <1>1, <1>2, <1>3

(* Any step of a call preserves the invariant if it puts the call in a     *)
(* phase p with the answer a, k bytes kept and s bytes sent, and what the  *)
(* invariant says of one call holds of them.                               *)
LEMMA CallSteps ==
  ASSUME FetchInv, NEW c \in Fetches,
         NEW p \in Connected \cup {"idle", "queued", "answered"}, NEW a \in Answers,
         NEW k \in 0..MaxResponseSize, NEW s \in Nat,
         phase' = [phase EXCEPT ![c] = p], reply' = [reply EXCEPT ![c] = a],
         kept' = [kept EXCEPT ![c] = k], sent' = [sent EXCEPT ![c] = s],
         busy' = IF p \in Connected THEN busy \cup {c} ELSE busy \ {c},
         IsFiniteSet(busy'), Cardinality(busy') <= MaxConnections,
         closed' \in BOOLEAN, idle' \in [Fetches -> 0..WaitTimeout],
         elapsed' \in [Fetches -> 0..(WaitTimeout + 1)],
         redirects' \in [Fetches -> 0..MaxRedirects],
         TellsOf(a, s), Bounded(s), InOrder(c)'
  PROVE  FetchInv'
<1>1. FetchTypes
  BY DEF FetchInv, FetchSound, PoolSound
<1>2. FetchTypes'
  BY <1>1 DEF FetchTypes, Answers
<1>3. ConnectionsReturned'
  BY <1>1 DEF ConnectionsReturned, FetchInv, FetchSound, PoolSound, FetchTypes
<1>4. ASSUME NEW d \in Fetches, d # c
      PROVE  /\ phase'[d] = phase[d] /\ reply'[d] = reply[d]
             /\ kept'[d] = kept[d] /\ sent'[d] = sent[d]
  BY <1>1, <1>4 DEF FetchTypes
<1>5. phase'[c] = p /\ reply'[c] = a /\ kept'[c] = k /\ sent'[c] = s
  BY <1>1 DEF FetchTypes
<1>6. WholeOrTold'
  BY <1>4, <1>5 DEF WholeOrTold, TellsOf, FetchInv, FetchSound
<1>7. TakenBounded'
  <2>1. \A d \in Fetches : Bounded(sent'[d])
    BY <1>4, <1>5 DEF TakenBounded, Bounded, FetchInv, FetchSound
  <2>2. QED
    BY <2>1 DEF TakenBounded, Bounded
<1>8. \A d \in Fetches : InOrder(d)'
  BY <1>4 DEF InOrder, FetchInv
<1>9. QED
  BY <1>2, <1>3, <1>6, <1>7, <1>8 DEF FetchInv, FetchSound, PoolSound

LEMMA FetchInvNext ==
  ASSUME FetchInv, [FetchNext]_fetchVars
  PROVE  FetchInv'
<1>1. /\ MaxConnections \in Nat /\ MaxRedirects \in Nat /\ MaxResponseSize \in Nat
      /\ WaitTimeout \in Nat /\ ChunkSize \in Nat /\ ChunkSize > 0
      /\ \A n \in Pieces : n \in Nat
  BY FetchAssumption
<1>2. FetchTypes
  BY DEF FetchInv, FetchSound, PoolSound
<1>3. ASSUME NEW c \in Fetches
      PROVE  /\ reply[c] \in Answers /\ kept[c] \in 0..MaxResponseSize /\ sent[c] \in Nat
             /\ TellsOf(reply[c], sent[c]) /\ Bounded(sent[c]) /\ InOrder(c)
             /\ phase = [phase EXCEPT ![c] = phase[c]] /\ reply = [reply EXCEPT ![c] = reply[c]]
             /\ kept = [kept EXCEPT ![c] = kept[c]] /\ sent = [sent EXCEPT ![c] = sent[c]]
  <2>1. TellsOf(reply[c], sent[c]) /\ Bounded(sent[c]) /\ InOrder(c)
    BY DEF FetchInv, FetchSound, WholeOrTold, TakenBounded, TellsOf, Bounded
  <2>2. reply[c] \in Answers /\ kept[c] \in 0..MaxResponseSize /\ sent[c] \in Nat
    BY <1>2 DEF FetchTypes, Answers
  <2>3. /\ phase = [phase EXCEPT ![c] = phase[c]] /\ reply = [reply EXCEPT ![c] = reply[c]]
        /\ kept = [kept EXCEPT ![c] = kept[c]] /\ sent = [sent EXCEPT ![c] = sent[c]]
    BY <1>2 DEF FetchTypes
  <2>4. QED
    BY <2>1, <2>2, <2>3
<1>4. ASSUME NEW c \in Fetches
      PROVE  /\ IsFiniteSet(busy) /\ Cardinality(busy) <= MaxConnections
             /\ IsFiniteSet(busy \ {c}) /\ Cardinality(busy \ {c}) <= MaxConnections
             /\ phase[c] \in Connected <=> c \in busy
  BY GivenBack DEF FetchInv, FetchSound, PoolSound, ConnectionsReturned
<1>5. ASSUME NEW c \in Fetches,
             \/ RejectFetch(c) \/ TooManyRedirects(c) \/ Break(c)
             \/ WaitTimesOut(c) \/ CancelFetch(c)
      PROVE  FetchInv'
  <2>1. Failure \in Answers /\ ~Failure.ok
    BY <1>1 DEF Failure, Reply, Answers
  <2>2. End(c, Failure) /\ UNCHANGED <<closed, idle, elapsed, redirects, kept, sent>>
    BY <1>5 DEF RejectFetch, TooManyRedirects, Break, WaitTimesOut, CancelFetch
  <2>3. InOrder(c)'
    BY <1>2, <2>2 DEF InOrder, End, FetchTypes
  <2>4. TellsOf(Failure, sent[c])
    BY <2>1 DEF TellsOf
  <2>5. "answered" \notin Connected
    BY DEF Connected
  <2> HIDE DEF Failure
  <2>6. QED
    BY <1>2, <1>3, <1>4, <2>1, <2>2, <2>3, <2>4, <2>5, CallSteps DEF End, FetchTypes
<1>6. ASSUME NEW c \in Fetches, ReadEnd(c)
      PROVE  FetchInv'
  <2>1. /\ kept[c] \in 0..MaxResponseSize /\ sent[c] \in Nat /\ kept[c] <= sent[c]
        /\ sent[c] - kept[c] < ChunkSize
    BY <1>3, <1>6 DEF ReadEnd, InOrder
  <2>2. PICK k \in 0..MaxResponseSize, a \in Answers :
          /\ TellsOf(a, sent[c])
          /\ kept' = [kept EXCEPT ![c] = k] /\ End(c, a)
    <3>1. CASE Exceeds(c, sent[c] - kept[c])
      <4> DEFINE b == Reply(TRUE, MaxResponseSize, TRUE)
      <4>1. b \in Answers /\ TellsOf(b, sent[c])
        BY <1>1, <2>1, <3>1 DEF Reply, Answers, TellsOf, Exceeds, Available
      <4>2. kept' = [kept EXCEPT ![c] = MaxResponseSize] /\ End(c, b)
        BY <1>6, <3>1 DEF ReadEnd, Cut
      <4>3. MaxResponseSize \in 0..MaxResponseSize
        BY <1>1
      <4> HIDE DEF b
      <4>4. QED
        BY <4>1, <4>2, <4>3
    <3>2. CASE ~Exceeds(c, sent[c] - kept[c])
      <4> DEFINE b == Reply(TRUE, sent[c], FALSE)
      <4>1. b \in Answers /\ TellsOf(b, sent[c]) /\ sent[c] \in 0..MaxResponseSize
        BY <1>1, <2>1, <3>2 DEF Reply, Answers, TellsOf, Exceeds, Available
      <4>2. kept' = [kept EXCEPT ![c] = sent[c]] /\ End(c, b)
        BY <1>6, <3>2 DEF ReadEnd
      <4> HIDE DEF b
      <4>3. QED
        BY <4>1, <4>2
    <3>3. QED
      BY <3>1, <3>2
  <2>3. UNCHANGED <<closed, idle, elapsed, redirects, sent>>
    BY <1>6 DEF ReadEnd
  <2>4. InOrder(c)'
    BY <1>2, <2>2 DEF InOrder, End, FetchTypes
  <2>5. "answered" \notin Connected
    BY DEF Connected
  <2>6. QED
    BY <1>2, <1>3, <1>4, <2>2, <2>3, <2>4, <2>5, CallSteps DEF End, FetchTypes
<1>7. ASSUME NEW c \in Fetches, Respond(c) \/ Redirect(c) \/ RedirectPiece(c)
      PROVE  FetchInv'
  <2>1. /\ phase[c] \in {"sent", "redirecting"}
        /\ UNCHANGED <<busy, closed, elapsed, redirects, kept, sent, reply>>
    BY <1>7 DEF Respond, Redirect, RedirectPiece
  <2>2. PICK p \in {"reading", "redirecting"} : Waits(c, p)
    BY <1>7 DEF Respond, Redirect, RedirectPiece
  <2>3. idle' \in [Fetches -> 0..WaitTimeout]
    BY <1>1, <1>2, <2>2 DEF Waits, FetchTypes
  <2>4. busy = busy \cup {c} /\ p \in Connected
    BY <1>4, <2>1 DEF Connected
  <2>5. InOrder(c)'
    BY <1>1, <1>2, <1>3, <2>1, <2>2 DEF InOrder, Waits, FetchTypes
  <2>6. QED
    BY <1>2, <1>3, <1>4, <2>1, <2>2, <2>3, <2>4, <2>5, CallSteps DEF Waits, FetchTypes
<1>8. ASSUME NEW c \in Fetches, Request(c)
      PROVE  FetchInv'
  <2>1. idle' \in [Fetches -> 0..WaitTimeout]
    BY <1>1, <1>2, <1>8 DEF Request, Waits, FetchTypes
  <2>2. busy = busy \ {c} /\ "queued" \notin Connected
    BY <1>4, <1>8 DEF Request, Connected
  <2>3. InOrder(c)'
    BY <1>2, <1>3, <1>8 DEF InOrder, Request, Waits, FetchTypes
  <2>4. QED
    BY <1>2, <1>3, <1>4, <1>8, <2>1, <2>2, <2>3, CallSteps DEF Request, Waits, FetchTypes
<1>9. ASSUME NEW c \in Fetches, Redirected(c)
      PROVE  FetchInv'
  <2>1. idle' \in [Fetches -> 0..WaitTimeout] /\ redirects' \in [Fetches -> 0..MaxRedirects]
    BY <1>1, <1>2, <1>9 DEF Redirected, Waits, FetchTypes
  <2>2. "queued" \notin Connected
    BY DEF Connected
  <2>3. InOrder(c)'
    BY <1>2, <1>3, <1>9 DEF InOrder, Redirected, Waits, FetchTypes
  <2>4. QED
    BY <1>2, <1>3, <1>4, <1>9, <2>1, <2>2, <2>3, CallSteps DEF Redirected, Waits, FetchTypes
<1>10. ASSUME NEW c \in Fetches, SendRequest(c)
       PROVE  FetchInv'
  <2>1. IsFiniteSet(busy') /\ Cardinality(busy') <= MaxConnections
    <3>1. IsFiniteSet(busy) /\ Cardinality(busy) < MaxConnections /\ busy' = busy \cup {c}
      BY <1>10 DEF SendRequest, FetchInv
    <3>2. Cardinality(busy) \in Nat
      BY <3>1, FS_CardinalityType
    <3>3. /\ IsFiniteSet(busy \cup {c})
          /\ Cardinality(busy \cup {c})
               = IF c \in busy THEN Cardinality(busy) ELSE Cardinality(busy) + 1
      BY <3>1, FS_AddElement
    <3>4. QED
      BY <1>1, <3>1, <3>2, <3>3
  <2>2. idle' \in [Fetches -> 0..WaitTimeout]
    BY <1>1, <1>2, <1>10 DEF SendRequest, Waits, FetchTypes
  <2>3. InOrder(c)'
    BY <1>2, <1>3, <1>10 DEF InOrder, SendRequest, Waits, FetchTypes
  <2>4. "sent" \in Connected
    BY DEF Connected
  <2>5. QED
    BY <1>2, <1>3, <1>10, <2>1, <2>2, <2>3, <2>4, CallSteps DEF SendRequest, Waits, FetchTypes
<1>11. ASSUME NEW c \in Fetches, NEW n \in Pieces, ReadPiece(c, n)
       PROVE  FetchInv'
  <2> DEFINE s == sent[c] + n
             chunks == InChunks(s - kept[c])
  <2>1. /\ n \in Nat /\ phase[c] = "reading" /\ ~reply[c].ok
        /\ kept[c] \in 0..MaxResponseSize /\ sent[c] \in Nat /\ kept[c] <= sent[c]
        /\ sent[c] - kept[c] < ChunkSize
    BY <1>1, <1>3, <1>11 DEF ReadPiece, InOrder
  <2>2. s \in Nat /\ s - kept[c] \in Nat
    BY <2>1
  <2>3. chunks \in Nat /\ chunks <= s - kept[c] /\ (s - kept[c]) - chunks < ChunkSize
    BY <2>2, ChunksOf
  <2>4. s < MaxResponseSize + ChunkSize + n
    BY <1>1, <2>1
  <2>5. Bounded(s)
    BY <2>4 DEF Bounded
  <2>6. UNCHANGED <<closed, elapsed, redirects>> /\ sent' = [sent EXCEPT ![c] = s]
    BY <1>11 DEF ReadPiece
  <2>7. CASE Exceeds(c, chunks)
    <3> DEFINE a == Reply(TRUE, MaxResponseSize, TRUE)
    <3>1. kept' = [kept EXCEPT ![c] = MaxResponseSize] /\ End(c, a) /\ UNCHANGED idle
      BY <1>11, <2>7, Zenon DEF ReadPiece, Cut
    <3>2. s > MaxResponseSize
      BY <1>1, <2>1, <2>2, <2>3, <2>7 DEF Exceeds, Available
    <3>3. a \in Answers /\ TellsOf(a, s)
      BY <1>1, <3>2 DEF Reply, Answers, TellsOf
    <3>4. "answered" \notin Connected /\ MaxResponseSize \in 0..MaxResponseSize
      BY <1>1 DEF Connected
    <3>5. InOrder(c)'
      BY <1>2, <3>1 DEF InOrder, End, FetchTypes
    <3> HIDE DEF a, s
    <3>6. QED
      BY <1>2, <1>4, <2>2, <2>5, <2>6, <3>1, <3>3, <3>4, <3>5, CallSteps DEF End, FetchTypes
  <2>8. CASE ~Exceeds(c, chunks)
    <3>1. /\ kept' = [kept EXCEPT ![c] = kept[c] + chunks] /\ Waits(c, "reading")
          /\ UNCHANGED <<busy, reply>>
      BY <1>11, <2>8, Zenon DEF ReadPiece
    <3> DEFINE k == kept[c] + chunks
    <3>2. k \in 0..MaxResponseSize /\ k <= s /\ s - k < ChunkSize
      BY <1>1, <2>1, <2>2, <2>3, <2>8 DEF Exceeds, Available
    <3>3. TellsOf(reply[c], s)
      BY <2>1 DEF TellsOf
    <3>4. busy = busy \cup {c} /\ "reading" \in Connected
      BY <1>4, <2>1 DEF Connected
    <3>5. kept' = [kept EXCEPT ![c] = k]
      BY <3>1
    <3> HIDE DEF k, s, chunks
    <3>6. InOrder(c)'
      BY <1>2, <2>1, <2>6, <3>1, <3>2, <3>5 DEF InOrder, Waits, FetchTypes
    <3>7. idle' \in [Fetches -> 0..WaitTimeout]
      BY <1>1, <1>2, <3>1 DEF Waits, FetchTypes
    <3>8. QED
      BY <1>2, <1>3, <1>4, <2>2, <2>5, <2>6, <3>1, <3>2, <3>3, <3>4, <3>5, <3>6, <3>7,
         CallSteps DEF Waits, FetchTypes
  <2>9. QED
    BY <2>7, <2>8
<1>12. ASSUME NEW c \in Fetches, WaitOn(c)
       PROVE  FetchInv'
  <2>1. /\ elapsed' \in [Fetches -> 0..(WaitTimeout + 1)]
        /\ idle' \in [Fetches -> 0..WaitTimeout]
    BY <1>1, <1>2, <1>12 DEF WaitOn, FetchTypes
  <2>2. UNCHANGED <<phase, busy, closed, redirects, kept, sent, reply>>
    BY <1>12 DEF WaitOn
  <2>3. QED
    BY <2>1, <2>2 DEF FetchInv, FetchSound, PoolSound, FetchTypes, ConnectionsReturned,
       WholeOrTold, TakenBounded, InOrder
<1>13. CASE CloseClient
  <2>1. (IsFiniteSet(busy) /\ FetchTypes)'
    BY <1>2, <1>13, GivenBack DEF CloseClient, FetchInv, FetchTypes
  <2>2. (ConnectionsReturned)'
    BY <1>2, <1>13 DEF CloseClient, ConnectionsReturned, FetchTypes, Connected
  <2>3. (WholeOrTold /\ TakenBounded)'
    BY <1>13 DEF CloseClient, FetchInv, FetchSound, WholeOrTold, TakenBounded
  <2>4. (\A d \in Fetches : InOrder(d))'
    BY <1>2, <1>13 DEF CloseClient, FetchInv, InOrder, FetchTypes
  <2>5. QED
    BY <2>1, <2>2, <2>3, <2>4 DEF FetchInv, FetchSound, PoolSound
<1>14. CASE UNCHANGED fetchVars
  BY <1>14 DEF fetchVars, FetchInv, FetchSound, PoolSound, FetchTypes,
     ConnectionsReturned, WholeOrTold, TakenBounded, InOrder
<1>15. QED
  BY <1>5, <1>6, <1>7, <1>8, <1>9, <1>10, <1>11, <1>12, <1>13, <1>14 DEF FetchNext

(* A connection that a call used goes back to the pool however the call    *)
(* ends; a body that is answered is all that was sent, or is cut at the    *)
(* limit and says so; and no more is taken of a body than the limit, a     *)
(* chunk and the last piece (_make_request, _read_response_with_limit and  *)
(* their like in browse.py), for any number of calls, any size of the pool *)
(* of the chunks and of the pieces, and any limits.  How long a call lasts *)
(* is not bounded: see CallsEnd.                                           *)
THEOREM FetchSoundHolds == FetchSpec => []FetchSound
<1>1. FetchInit => FetchInv
  BY FetchInvInit
<1>2. FetchInv /\ [FetchNext]_fetchVars => FetchInv'
  BY FetchInvNext
<1>3. FetchInv => FetchSound
  BY DEF FetchInv
<1>4. QED
  BY <1>1, <1>2, <1>3, PTL DEF FetchSpec

-----------------------------------------------------------------------------
(* Source control.  A call that is not answered, and a write of it that is *)
(* yet to be done.                                                         *)
Active(c) == pc[c] \in {"sent", "backing_off"}
Due(c) == Active(c) /\ Writes(c) /\ ~(pc[c] = "sent" /\ served[c])

(* What was done has a lost attempt to account for it while another is due;*)
(* a call that only reads does nothing.                                    *)
Deeds(c) ==
  /\ done[c] + late[c] <= lost[c] + 1
  /\ late[c] <= lost[c]
  /\ pc[c] = "idle" => done[c] = 0 /\ lost[c] = 0 /\ step[c] = 1
  /\ Due(c) => done[c] + late[c] <= lost[c]
  /\ Requests(tool[c])[1] = "GET" => done[c] = 0 /\ lost[c] = 0
  /\ pc[c] = "backing_off" => attempt[c] < MaxRetries

(* What a call says, and what it will be able to say.                      *)
Said(c) ==
  /\ answer[c] = "ok" /\ Writing(tool[c]) /\ ~moved[c] => done[c] > 0
  /\ answer[c] = "refused" /\ lost[c] = 0 /\ step[c] = 1 => done[c] = 0
  /\ pc[c] # "answered" => answer[c] = "none"
  /\ pc[c] = "sent" /\ served[c] /\ Writes(c) => done[c] > 0
  /\ step[c] > 1 /\ ~moved[c] => done[c] > 0

(* A client that is closed and not forgotten is being closed, or the call  *)
(* that closed it failed; as long as no two calls of close() meet, one     *)
(* call at most closes, and no client is open meanwhile.                   *)
Shared ==
  /\ client # NoClient /\ client \notin open /\ client \notin stuck =>
       \E k \in Closers : closing[k] = client
  /\ ~overlap =>
       \A k \in Closers : closing[k] # NoClient =>
         /\ closing[k] = client /\ client \notin open
         /\ \A l \in Closers : closing[l] # NoClient => l = k

(* A call that may come upon a closed client has seen close(), or a close()*)
(* of that client failed.                                                  *)
Cause(c) ==
  /\ answer[c] = "closed" => sawClose[c] \/ using[c] \in stuck
  /\ Active(c) =>
       /\ client # NoClient /\ client \notin open => sawClose[c] \/ client \in stuck
       /\ using[c] \notin open => sawClose[c] \/ using[c] \in stuck

ScmInv ==
  /\ ScmTypes /\ NoneLeaked /\ Shared
  /\ \A c \in Calls : Deeds(c) /\ Said(c) /\ Cause(c)

(* What a tool asks for: one read, one write, or a write and then a read.  *)
LEMMA RequestsOf ==
  ASSUME NEW t \in Tools
  PROVE  /\ Len(Requests(t)) \in {1, 2}
         /\ DOMAIN Requests(t) = 1..Len(Requests(t))
         /\ 1 \in DOMAIN Requests(t)
         /\ DOMAIN Requests(t) \subseteq {1, 2}
         /\ Requests(t)[1] \in {"GET", "POST"}
         /\ Len(Requests(t)) = 2 => Requests(t)[1] = "POST" /\ Requests(t)[2] = "GET"
         /\ Writing(t) <=> Requests(t)[1] = "POST"
<1>1. Requests(t) \in {<<"GET">>, <<"POST">>, <<"POST", "GET">>}
  BY ScmAssumption DEF Requests, Reading, Creating, Approving
<1>2. CASE Requests(t) = <<"GET">>
  BY <1>2 DEF Writing
<1>3. CASE Requests(t) = <<"POST">>
  BY <1>3 DEF Writing
<1>4. CASE Requests(t) = <<"POST", "GET">>
  BY <1>4 DEF Writing
<1>5. QED
  BY <1>1, <1>2, <1>3, <1>4

LEMMA ScmInvInit == ASSUME ScmInit PROVE ScmInv
<1>1. MaxRetries \in Nat /\ MaxClients \in Nat /\ NoClient = 0
  BY ScmAssumption DEF NoClient
<1>2. \A c \in Calls : tool[c] \in Tools /\ 1 \in DOMAIN Requests(tool[c])
  <2>1. TAKE c \in Calls
  <2>2. tool[c] \in Tools
    BY DEF ScmInit
  <2>3. 1 \in DOMAIN Requests(tool[c])
    BY <2>2, RequestsOf
  <2>4. QED
    BY <2>2, <2>3
<1>3. ScmTypes
  <2>1. client \in 0..made /\ made \in 0..MaxClients /\ open \subseteq 1..made
    BY <1>1 DEF ScmInit
  <2>2. closing \in [Closers -> 0..made] /\ using \in [Calls -> 0..made]
    BY <1>1 DEF ScmInit
  <2>3. attempt \in [Calls -> 0..MaxRetries]
    BY <1>1 DEF ScmInit
  <2>4. \A c \in Calls : step[c] \in DOMAIN Requests(tool[c])
    BY <1>2 DEF ScmInit
  <2>5. QED
    BY <2>1, <2>2, <2>3, <2>4 DEF ScmInit, ScmTypes
<1>4. NoneLeaked /\ Shared
  BY <1>1 DEF ScmInit, NoneLeaked, Shared
<1>5. \A c \in Calls : Deeds(c) /\ Said(c) /\ Cause(c)
  BY <1>1 DEF ScmInit, Deeds, Said, Cause, Due, Active
<1>6. QED
  BY <1>3, <1>4, <1>5 DEF ScmInv

(* A call that a step does not touch stays as it was, if the clients do.   *)
CallSame(d) ==
  /\ pc'[d] = pc[d] /\ tool'[d] = tool[d] /\ step'[d] = step[d] /\ attempt'[d] = attempt[d]
  /\ using'[d] = using[d] /\ served'[d] = served[d] /\ done'[d] = done[d]
  /\ lost'[d] = lost[d] /\ late'[d] = late[d] /\ moved'[d] = moved[d]
  /\ answer'[d] = answer[d]

LEMMA OthersDeeds ==
  ASSUME NEW d \in Calls, Deeds(d), Said(d), CallSame(d)
  PROVE  Deeds(d)' /\ Said(d)'
BY DEF CallSame, Deeds, Said, Due, Active, Writes

(* A step of one call that leaves the clients and close() alone.           *)
LEMMA ScmQuiet ==
  ASSUME ScmInv, NEW c \in Calls, (ScmTypes)',
         UNCHANGED <<client, made, open, closing, overlap, stuck, sawClose>>,
         \A d \in Calls \ {c} : CallSame(d),
         (Deeds(c) /\ Said(c) /\ Cause(c))'
  PROVE  ScmInv'
<1>1. (NoneLeaked /\ Shared)'
  BY DEF ScmInv, NoneLeaked, Shared
<1>2. (\A d \in Calls : Deeds(d) /\ Said(d))'
  BY OthersDeeds DEF ScmInv
<1>3. (\A d \in Calls \ {c} : Cause(d))'
  BY DEF ScmInv, CallSame, Cause, Active
<1>4. QED
  BY <1>1, <1>2, <1>3 DEF ScmInv

(* The request a call is at is one its tool makes: a write comes first.     *)
AtStep(c) ==
  /\ step[c] \in {1, 2}
  /\ Requests(tool[c])[step[c]] \in {"GET", "POST"}
  /\ step[c] = 2 => Requests(tool[c])[step[c]] = "GET"
  /\ step[c] # Len(Requests(tool[c])) =>
       /\ step[c] = 1 /\ 2 \in DOMAIN Requests(tool[c])
       /\ Requests(tool[c])[1] = "POST" /\ Requests(tool[c])[2] = "GET"
  /\ Writing(tool[c]) <=> Requests(tool[c])[1] = "POST"
  /\ Writes(c) => step[c] = 1 /\ Requests(tool[c])[1] = "POST"

LEMMA AtStepHolds ==
  ASSUME ScmTypes, NEW c \in Calls
  PROVE  AtStep(c)
<1> DEFINE r == Requests(tool[c])
<1>1. tool[c] \in Tools /\ step[c] \in DOMAIN r
  BY DEF ScmTypes
<1>2. /\ Len(r) \in {1, 2} /\ DOMAIN r = 1..Len(r) /\ r[1] \in {"GET", "POST"}
      /\ Len(r) = 2 => r[1] = "POST" /\ r[2] = "GET"
      /\ Writing(tool[c]) <=> r[1] = "POST"
  BY <1>1, RequestsOf
<1>3. Writes(c) => r[step[c]] = "POST"
  BY DEF Writes
<1> HIDE DEF r
<1>4. CASE Len(r) = 1
  <2>1. step[c] = 1
    BY <1>1, <1>2, <1>4
  <2>2. QED
    BY <1>2, <1>3, <1>4, <2>1 DEF AtStep, r
<1>5. CASE Len(r) = 2
  <2>1. step[c] \in {1, 2} /\ 2 \in DOMAIN r
    BY <1>1, <1>2, <1>5
  <2>2. QED
    BY <1>2, <1>3, <1>5, <2>1 DEF AtStep, r
<1>6. QED
  BY <1>2, <1>4, <1>5

(* A call gets a client: the one there is, or a new one, which is open.    *)
LEMMA GetsClient ==
  ASSUME ScmInv, GetClient, UNCHANGED <<closing, overlap, stuck>>
  PROVE  /\ client' \in 1..made' /\ made' \in 0..MaxClients /\ 0..made \subseteq 0..made'
         /\ open \subseteq open' /\ open' \subseteq 1..made'
         /\ client' \notin open' => client' = client /\ open' = open
         /\ stuck' \subseteq 1..made'
         /\ (NoneLeaked /\ Shared)'
<1>1. MaxRetries \in Nat /\ MaxClients \in Nat /\ NoClient = 0
  BY ScmAssumption DEF NoClient
<1>2. /\ client \in 0..made /\ made \in 0..MaxClients /\ open \subseteq 1..made
      /\ stuck \subseteq 1..made /\ NoneLeaked /\ Shared
  BY DEF ScmInv, ScmTypes
<1>3. CASE client # NoClient /\ UNCHANGED <<client, made, open>>
  BY <1>1, <1>2, <1>3 DEF NoneLeaked, Shared
<1>4. CASE /\ client = NoClient /\ made < MaxClients /\ client' = made + 1
           /\ made' = made + 1 /\ open' = open \cup {made + 1}
  <2>1. client \notin open
    BY <1>1, <1>2, <1>4
  <2>2. open' \subseteq 1..made' /\ client' \in 1..made' /\ 0..made \subseteq 0..made'
    BY <1>1, <1>2, <1>4
  <2>6. stuck' \subseteq 1..made'
    BY <1>1, <1>2, <1>4
  <2>3. (NoneLeaked)'
    BY <1>1, <1>2, <1>4, <2>1 DEF NoneLeaked
  <2>4. Shared'
    BY <1>1, <1>2, <1>4 DEF Shared
  <2>5. QED
    BY <1>1, <1>2, <1>4, <2>2, <2>3, <2>4, <2>6
<1>5. QED
  BY <1>3, <1>4 DEF GetClient, provider

LEMMA ScmInvNext ==
  ASSUME ScmInv, [ScmNext]_scmVars
  PROVE  ScmInv'
<1> USE DEF provider, closers, request, server, Answer
<1>1. MaxRetries \in Nat /\ MaxClients \in Nat /\ NoClient = 0
  BY ScmAssumption DEF NoClient
<1>2. ScmTypes /\ NoneLeaked /\ Shared
  BY DEF ScmInv
<1>3. \A c \in Calls : Deeds(c) /\ Said(c) /\ Cause(c) /\ AtStep(c)
  BY <1>2, AtStepHolds DEF ScmInv
<1>4. ASSUME NEW c \in Calls, Reject(c)
      PROVE  ScmInv'
  <2> USE <1>4 DEF Reject
  <2>0. Deeds(c) /\ Said(c) /\ Cause(c) /\ AtStep(c)
    BY <1>3
  <2>1. (ScmTypes)'
    BY <1>1, <1>2 DEF ScmTypes
  <2>2. \A d \in Calls \ {c} : CallSame(d)
    BY <1>2 DEF ScmTypes, CallSame
  <2>3. Deeds(c)'
    BY <1>1, <1>2, <2>0 DEF ScmTypes, AtStep, Deeds, Due, Active, Writes
  <2>4. Said(c)'
    BY <1>1, <1>2, <2>0 DEF ScmTypes, AtStep, Deeds, Said, Due, Active, Writes
  <2>5. Cause(c)'
    BY <1>2, <2>0 DEF ScmTypes, Cause, Active
  <2>6. QED
    BY <2>1, <2>2, <2>3, <2>4, <2>5, ScmQuiet
<1>5. ASSUME NEW c \in Calls, Serve(c)
      PROVE  ScmInv'
  <2> USE <1>5 DEF Serve
  <2>0. Deeds(c) /\ Said(c) /\ Cause(c) /\ AtStep(c)
    BY <1>3
  <2>1. (ScmTypes)'
    BY <1>1, <1>2 DEF ScmTypes
  <2>2. \A d \in Calls \ {c} : CallSame(d)
    BY <1>2 DEF ScmTypes, CallSame
  <2>3. Deeds(c)'
    <3>1. /\ pc[c] = "sent" /\ ~served[c] /\ served'[c]
          /\ done'[c] = (IF Writes(c) THEN done[c] + 1 ELSE done[c])
          /\ UNCHANGED <<pc, tool, step, attempt, using, lost, late, moved>>
      BY <1>2 DEF ScmTypes
    <3>2. done[c] \in Nat /\ late[c] \in Nat /\ lost[c] \in Nat
      BY <1>2 DEF ScmTypes
    <3>3. Writes(c) => step[c] = 1 /\ Requests(tool[c])[1] = "POST"
      BY <2>0 DEF AtStep
    <3>4. Deeds(c)
      BY <2>0
    <3> HIDE <1>5
    <3>5. CASE Writes(c)
      BY <3>1, <3>2, <3>3, <3>4, <3>5 DEF Deeds, Due, Active, Writes
    <3>6. CASE ~Writes(c)
      BY <3>1, <3>2, <3>4, <3>6 DEF Deeds, Due, Active, Writes
    <3>7. QED
      BY <3>5, <3>6
  <2>4. Said(c)'
    BY <1>1, <1>2, <2>0 DEF ScmTypes, AtStep, Deeds, Said, Due, Active, Writes
  <2>5. Cause(c)'
    BY <1>2, <2>0 DEF ScmTypes, Cause, Active
  <2>6. QED
    BY <2>1, <2>2, <2>3, <2>4, <2>5, ScmQuiet
<1>6. ASSUME NEW c \in Calls, ServeLate(c)
      PROVE  ScmInv'
  <2> USE <1>6 DEF ServeLate
  <2>0. Deeds(c) /\ Said(c) /\ Cause(c) /\ AtStep(c)
    BY <1>3
  <2>1. (ScmTypes)'
    BY <1>1, <1>2 DEF ScmTypes
  <2>2. \A d \in Calls \ {c} : CallSame(d)
    BY <1>2 DEF ScmTypes, CallSame
  <2>3. Deeds(c)'
    BY <1>1, <1>2, <2>0 DEF ScmTypes, AtStep, Deeds, Due, Active, Writes
  <2>4. Said(c)'
    <3>1. /\ done'[c] = done[c] + 1 /\ lost[c] > 0
          /\ UNCHANGED <<pc, tool, step, served, lost, moved, answer>>
      BY <1>2, <2>0 DEF ScmTypes, Deeds
    <3>2. done[c] \in Nat /\ Said(c)
      BY <1>2, <2>0 DEF ScmTypes
    <3> HIDE <1>6
    <3>3. QED
      BY <3>1, <3>2 DEF Said, Writes
  <2>5. Cause(c)'
    BY <1>2, <2>0 DEF ScmTypes, Cause, Active
  <2>6. QED
    BY <2>1, <2>2, <2>3, <2>4, <2>5, ScmQuiet
<1>7. ASSUME NEW c \in Calls, Refuse(c)
      PROVE  ScmInv'
  <2> USE <1>7 DEF Refuse
  <2>0. Deeds(c) /\ Said(c) /\ Cause(c) /\ AtStep(c)
    BY <1>3
  <2>1. (ScmTypes)'
    BY <1>1, <1>2 DEF ScmTypes
  <2>2. \A d \in Calls \ {c} : CallSame(d)
    BY <1>2 DEF ScmTypes, CallSame
  <2>3. Deeds(c)'
    BY <1>1, <1>2, <2>0 DEF ScmTypes, AtStep, Deeds, Due, Active, Writes
  <2>4. Said(c)'
    BY <1>1, <1>2, <2>0 DEF ScmTypes, AtStep, Deeds, Said, Due, Active, Writes
  <2>5. Cause(c)'
    BY <1>2, <2>0 DEF ScmTypes, Cause, Active
  <2>6. QED
    BY <2>1, <2>2, <2>3, <2>4, <2>5, ScmQuiet
<1>8. ASSUME NEW c \in Calls, Garble(c)
      PROVE  ScmInv'
  <2> USE <1>8 DEF Garble
  <2>0. Deeds(c) /\ Said(c) /\ Cause(c) /\ AtStep(c)
    BY <1>3
  <2>1. (ScmTypes)'
    BY <1>1, <1>2 DEF ScmTypes
  <2>2. \A d \in Calls \ {c} : CallSame(d)
    BY <1>2 DEF ScmTypes, CallSame
  <2>3. Deeds(c)'
    BY <1>1, <1>2, <2>0 DEF ScmTypes, AtStep, Deeds, Due, Active, Writes
  <2>4. Said(c)'
    BY <1>1, <1>2, <2>0 DEF ScmTypes, AtStep, Deeds, Said, Due, Active, Writes
  <2>5. Cause(c)'
    BY <1>2, <2>0 DEF ScmTypes, Cause, Active
  <2>6. QED
    BY <2>1, <2>2, <2>3, <2>4, <2>5, ScmQuiet
<1>9. ASSUME NEW c \in Calls, ServerError(c)
      PROVE  ScmInv'
  <2> USE <1>9 DEF ServerError, Retry
  <2>0. Deeds(c) /\ Said(c) /\ Cause(c) /\ AtStep(c)
    BY <1>3
  <2>1. (ScmTypes)'
    BY <1>1, <1>2 DEF ScmTypes
  <2>2. \A d \in Calls \ {c} : CallSame(d)
    BY <1>2 DEF ScmTypes, CallSame
  <2>3. Deeds(c)'
    <3>1. /\ pc[c] = "sent"
          /\ pc'[c] \in {"backing_off", "answered"}
          /\ pc'[c] = "backing_off" => attempt[c] < MaxRetries
          /\ lost'[c] = (IF Writes(c) THEN lost[c] + 1 ELSE lost[c])
          /\ UNCHANGED <<tool, step, attempt, using, served, done, late, moved>>
      BY <1>2 DEF ScmTypes, Active
    <3>2. done[c] \in Nat /\ late[c] \in Nat /\ lost[c] \in Nat
      BY <1>2 DEF ScmTypes
    <3>3. Writes(c) => step[c] = 1 /\ Requests(tool[c])[1] = "POST"
      BY <2>0 DEF AtStep
    <3>4. Deeds(c)
      BY <2>0
    <3> HIDE <1>9
    <3>5. CASE Writes(c)
      BY <3>1, <3>2, <3>3, <3>4, <3>5 DEF Deeds, Due, Active, Writes
    <3>6. CASE ~Writes(c)
      BY <3>1, <3>2, <3>4, <3>6 DEF Deeds, Due, Active, Writes
    <3>7. QED
      BY <3>5, <3>6
  <2>4. Said(c)'
    BY <1>1, <1>2, <2>0 DEF ScmTypes, AtStep, Deeds, Said, Due, Active, Writes
  <2>5. Cause(c)'
    BY <1>2, <2>0 DEF ScmTypes, Cause, Active
  <2>6. QED
    BY <2>1, <2>2, <2>3, <2>4, <2>5, ScmQuiet
<1>10. ASSUME NEW c \in Calls, TimesOut(c)
      PROVE  ScmInv'
  <2> USE <1>10 DEF TimesOut, Retry, Abandoned
  <2>0. Deeds(c) /\ Said(c) /\ Cause(c) /\ AtStep(c)
    BY <1>3
  <2>1. (ScmTypes)'
    <3>1. lost' \in [Calls -> Nat] /\ late' \in [Calls -> Nat]
      BY <1>2 DEF ScmTypes
    <3>2. /\ pc' \in [Calls -> {"idle", "sent", "backing_off", "answered"}]
          /\ answer' \in [Calls -> {"none", "ok", "rejected", "refused", "error", "closed",
                                    "cancelled"}]
      BY <1>2 DEF ScmTypes
    <3>3. UNCHANGED <<client, made, open, closing, overlap, stuck, tool, step, attempt,
                      using, served, done, moved, sawClose>>
      OBVIOUS
    <3> HIDE <1>10
    <3>4. QED
      BY <1>2, <3>1, <3>2, <3>3 DEF ScmTypes
  <2>2. \A d \in Calls \ {c} : CallSame(d)
    BY <1>2 DEF ScmTypes, CallSame
  <2>3. Deeds(c)'
    <3>1. /\ pc[c] = "sent"
          /\ pc'[c] \in {"backing_off", "answered"}
          /\ pc'[c] = "backing_off" => attempt[c] < MaxRetries
          /\ lost'[c] = (IF Writes(c) THEN lost[c] + 1 ELSE lost[c])
          /\ late'[c] = (IF Writes(c) /\ ~served[c] THEN late[c] + 1 ELSE late[c])
          /\ UNCHANGED <<tool, step, attempt, using, served, done, moved>>
      BY <1>2 DEF ScmTypes, Active
    <3>2. done[c] \in Nat /\ late[c] \in Nat /\ lost[c] \in Nat
      BY <1>2 DEF ScmTypes
    <3>3. Writes(c) => step[c] = 1 /\ Requests(tool[c])[1] = "POST"
      BY <2>0 DEF AtStep
    <3>4. Deeds(c)
      BY <2>0
    <3> HIDE <1>10
    <3>5. CASE Writes(c)
      BY <3>1, <3>2, <3>3, <3>4, <3>5 DEF Deeds, Due, Active, Writes
    <3>6. CASE ~Writes(c)
      BY <3>1, <3>2, <3>4, <3>6 DEF Deeds, Due, Active, Writes
    <3>7. QED
      BY <3>5, <3>6
  <2>4. Said(c)'
    BY <1>1, <1>2, <2>0 DEF ScmTypes, AtStep, Deeds, Said, Due, Active, Writes
  <2>5. Cause(c)'
    BY <1>2, <2>0 DEF ScmTypes, Cause, Active
  <2>6. QED
    BY <2>1, <2>2, <2>3, <2>4, <2>5, ScmQuiet
<1>11. ASSUME NEW c \in Calls, Cancel(c)
      PROVE  ScmInv'
  <2> USE <1>11 DEF Cancel, Abandoned
  <2>0. Deeds(c) /\ Said(c) /\ Cause(c) /\ AtStep(c)
    BY <1>3
  <2>1. (ScmTypes)'
    BY <1>1, <1>2 DEF ScmTypes
  <2>2. \A d \in Calls \ {c} : CallSame(d)
    BY <1>2 DEF ScmTypes, CallSame
  <2>3. Deeds(c)'
    <3>1. /\ Active(c)
          /\ pc'[c] = "answered"
          /\ lost'[c] = (IF pc[c] = "sent" /\ Writes(c) THEN lost[c] + 1 ELSE lost[c])
          /\ late'[c] = (IF pc[c] = "sent" /\ Writes(c) /\ ~served[c] THEN late[c] + 1
                        ELSE late[c])
          /\ UNCHANGED <<tool, step, attempt, using, served, done, moved>>
      BY <1>2 DEF ScmTypes, Active
    <3>2. done[c] \in Nat /\ late[c] \in Nat /\ lost[c] \in Nat
      BY <1>2 DEF ScmTypes
    <3>3. Writes(c) => step[c] = 1 /\ Requests(tool[c])[1] = "POST"
      BY <2>0 DEF AtStep
    <3>4. Deeds(c)
      BY <2>0
    <3> HIDE <1>11
    <3>5. CASE Writes(c)
      BY <3>1, <3>2, <3>3, <3>4, <3>5 DEF Deeds, Due, Active, Writes
    <3>6. CASE ~Writes(c)
      BY <3>1, <3>2, <3>4, <3>6 DEF Deeds, Due, Active, Writes
    <3>7. QED
      BY <3>5, <3>6
  <2>4. Said(c)'
    BY <1>1, <1>2, <2>0 DEF ScmTypes, AtStep, Deeds, Said, Due, Active, Writes
  <2>5. Cause(c)'
    BY <1>2, <2>0 DEF ScmTypes, Cause, Active
  <2>6. QED
    BY <2>1, <2>2, <2>3, <2>4, <2>5, ScmQuiet
<1>12. ASSUME NEW c \in Calls, Resend(c)
       PROVE  ScmInv'
  <2> USE <1>12 DEF Resend, Send
  <2>0. Deeds(c) /\ Said(c) /\ Cause(c) /\ AtStep(c)
    BY <1>3
  <2>1. (ScmTypes)'
    BY <1>1, <1>2, <2>0 DEF ScmTypes, Deeds
  <2>2. \A d \in Calls \ {c} : CallSame(d)
    BY <1>2 DEF ScmTypes, CallSame
  <2>3. Deeds(c)'
    BY <1>1, <1>2, <2>0 DEF ScmTypes, AtStep, Deeds, Due, Active, Writes
  <2>4. Said(c)'
    BY <1>1, <1>2, <2>0 DEF ScmTypes, AtStep, Deeds, Said, Due, Active, Writes
  <2>5. Cause(c)'
    BY <1>2, <2>0 DEF ScmTypes, Cause, Active
  <2>6. QED
    BY <2>1, <2>2, <2>3, <2>4, <2>5, ScmQuiet
<1>13. ASSUME NEW k \in Closers, Close(k) \/ Closed(k) \/ CloseFails(k)
       PROVE  ScmInv'
  <2>1. UNCHANGED <<pc, tool, step, attempt, using, served, done, lost, late, moved, answer>>
    BY <1>13 DEF Close, Closed, CloseFails
  <2>2. (\A d \in Calls : Deeds(d) /\ Said(d))'
    BY <2>1, <1>3, OthersDeeds DEF CallSame
  <2>3. CASE Close(k) /\ client \in open
    <3>1. /\ open' = open \ {client} /\ closing' = [closing EXCEPT ![k] = client]
          /\ UNCHANGED <<client, stuck, made>>
          /\ overlap' = (overlap \/ \E l \in Closers : closing[l] # NoClient)
          /\ sawClose' = [c \in Calls |-> sawClose[c] \/ c \in Pending]
          /\ client # NoClient
      BY <2>3 DEF Close
    <3>2. (ScmTypes)'
      BY <1>1, <1>2, <2>1, <3>1 DEF ScmTypes
    <3>3. (NoneLeaked)'
      BY <1>2, <3>1 DEF NoneLeaked
    <3>4. closing'[k] = client /\ \A l \in Closers \ {k} : closing'[l] = closing[l]
      BY <1>2, <3>1 DEF ScmTypes
    <3>5. Shared'
      BY <1>2, <2>3, <3>1, <3>4 DEF Shared
    <3>6. (\A d \in Calls : Cause(d))'
      BY <1>3, <2>1, <3>1 DEF Cause, Active, Pending
    <3>7. QED
      BY <2>2, <3>2, <3>3, <3>5, <3>6 DEF ScmInv
  <2>4. CASE Close(k) /\ client \notin open
    <3>1. /\ client' = NoClient
          /\ overlap' = (overlap \/ \E l \in Closers : closing[l] # NoClient)
          /\ UNCHANGED <<open, closing, stuck, made>>
          /\ sawClose' = [c \in Calls |-> sawClose[c] \/ c \in Pending]
      BY <2>4 DEF Close
    <3>2. (ScmTypes)'
      BY <1>1, <1>2, <2>1, <3>1 DEF ScmTypes
    <3>3. (NoneLeaked /\ Shared)'
      BY <1>2, <2>4, <3>1 DEF NoneLeaked, Shared
    <3>4. (\A d \in Calls : Cause(d))'
      BY <1>3, <2>1, <3>1 DEF Cause, Active, Pending
    <3>5. QED
      BY <2>2, <3>2, <3>3, <3>4 DEF ScmInv
  <2>5. CASE Closed(k)
    <3>1. /\ client' = NoClient /\ closing[k] # NoClient
          /\ closing' = [closing EXCEPT ![k] = NoClient]
          /\ UNCHANGED <<open, overlap, stuck, made, sawClose>>
      BY <2>5 DEF Closed
    <3>2. (ScmTypes)'
      BY <1>1, <1>2, <2>1, <3>1 DEF ScmTypes
    <3>3. (NoneLeaked)'
      BY <1>1, <1>2, <3>1 DEF NoneLeaked, Shared, ScmTypes
    <3>4. /\ closing'[k] = NoClient
          /\ \A l \in Closers \ {k} : closing'[l] = closing[l]
      BY <1>2, <3>1 DEF ScmTypes
    <3>5. Shared'
      BY <1>2, <3>1, <3>4 DEF Shared
    <3>6. (\A d \in Calls : Cause(d))'
      BY <1>3, <2>1, <3>1 DEF Cause, Active
    <3>7. QED
      BY <2>2, <3>2, <3>3, <3>5, <3>6 DEF ScmInv
  <2>6. CASE CloseFails(k)
    <3>1. /\ closing[k] # NoClient /\ closing' = [closing EXCEPT ![k] = NoClient]
          /\ stuck' = stuck \cup {closing[k]}
          /\ UNCHANGED <<client, open, overlap, made, sawClose>>
      BY <2>6 DEF CloseFails, provider
    <3>2. (ScmTypes)'
      <4>1. closing[k] \in 1..made
        BY <1>1, <1>2, <3>1 DEF ScmTypes
      <4>2. stuck' \subseteq 1..made
        BY <1>2, <3>1, <4>1 DEF ScmTypes
      <4>3. closing' \in [Closers -> 0..made]
        BY <1>1, <1>2, <3>1 DEF ScmTypes
      <4>4. QED
        BY <1>1, <1>2, <2>1, <3>1, <4>2, <4>3 DEF ScmTypes
    <3>3. (NoneLeaked)'
      BY <1>2, <3>1 DEF NoneLeaked
    <3>4. /\ closing'[k] = NoClient
          /\ \A l \in Closers \ {k} : closing'[l] = closing[l]
      BY <1>2, <3>1 DEF ScmTypes
    <3>5. Shared'
      BY <1>2, <3>1, <3>4 DEF Shared
    <3>6. (\A d \in Calls : Cause(d))'
      BY <1>3, <2>1, <3>1 DEF Cause, Active
    <3>7. QED
      BY <2>2, <3>2, <3>3, <3>5, <3>6 DEF ScmInv
  <2>7. QED
    BY <1>13, <2>3, <2>4, <2>5, <2>6
<1>14. CASE UNCHANGED scmVars
  <2> USE <1>14 DEF scmVars
  <2>1. (ScmTypes /\ NoneLeaked /\ Shared)'
    BY <1>2 DEF ScmTypes, NoneLeaked, Shared
  <2>2. (\A d \in Calls : Deeds(d) /\ Said(d))'
    BY <1>3, OthersDeeds DEF CallSame
  <2>3. (\A d \in Calls : Cause(d))'
    BY <1>3 DEF Cause, Active
  <2>4. QED
    BY <2>1, <2>2, <2>3 DEF ScmInv
<1>15. ASSUME NEW c \in Calls, Execute(c)
       PROVE  ScmInv'
  <2>0. Deeds(c) /\ Said(c) /\ Cause(c) /\ AtStep(c)
    BY <1>3
  <2>1. /\ GetClient
        /\ UNCHANGED <<closing, overlap, stuck, tool, step, attempt, done, lost, late, moved>>
        /\ sawClose' = [sawClose EXCEPT ![c] = \E k \in Closers : closing[k] # NoClient]
        /\ served' = [served EXCEPT ![c] = FALSE] /\ using' = [using EXCEPT ![c] = client']
        /\ pc' = [pc EXCEPT ![c] = IF client' \in open' THEN "sent" ELSE "answered"]
        /\ answer' = [answer EXCEPT ![c] = IF client' \in open' THEN @ ELSE "closed"]
        /\ pc[c] = "idle"
    BY <1>2, <1>15 DEF Execute, Send, ScmTypes
  <2>2. /\ client' \in 1..made' /\ made' \in 0..MaxClients /\ 0..made \subseteq 0..made'
        /\ open \subseteq open' /\ open' \subseteq 1..made'
        /\ client' \notin open' => client' = client /\ open' = open
        /\ stuck' \subseteq 1..made'
        /\ (NoneLeaked /\ Shared)'
    BY <2>1, GetsClient
  <2> HIDE DEF provider, closers, request, server, Answer
  <2>3. (ScmTypes)'
    <3>1. /\ closing' \in [Closers -> 0..made'] /\ using' \in [Calls -> 0..made']
          /\ client' \in 0..made'
      <4>1. client' \in 0..made' /\ 0..made \subseteq 0..made'
        BY <2>2
      <4>2. closing \in [Closers -> 0..made] /\ using \in [Calls -> 0..made]
            /\ closing' = closing /\ using' = [using EXCEPT ![c] = client']
        BY <1>2, <2>1 DEF ScmTypes
      <4>3. QED
        BY ONLY <4>1, <4>2
    <3>2. /\ sawClose' \in [Calls -> BOOLEAN] /\ served' \in [Calls -> BOOLEAN]
          /\ pc' \in [Calls -> {"idle", "sent", "backing_off", "answered"}]
          /\ answer' \in [Calls -> {"none", "ok", "rejected", "refused", "error", "closed",
                                    "cancelled"}]
      BY <1>2, <2>1 DEF ScmTypes
    <3>3. QED
      BY <1>2, <2>1, <2>2, <3>1, <3>2 DEF ScmTypes
  <2>4. \A d \in Calls \ {c} : CallSame(d)
    BY <1>2, <2>1 DEF ScmTypes, CallSame
  <2>5. (Deeds(c) /\ Said(c))'
    <3>1. /\ pc'[c] \in {"sent", "answered"} /\ served'[c] = FALSE /\ pc[c] = "idle"
          /\ answer'[c] \in {answer[c], "closed"}
          /\ pc'[c] = "sent" => answer'[c] = answer[c]
          /\ UNCHANGED <<tool, step, attempt, done, lost, late, moved>>
      BY <1>2, <2>1 DEF ScmTypes
    <3>2. done[c] \in Nat /\ lost[c] \in Nat /\ late[c] \in Nat
      BY <1>2 DEF ScmTypes
    <3>3. QED
      BY <2>0, <3>1, <3>2 DEF Deeds, Said, Due, Active
  <2>6. (\A d \in Calls : Deeds(d) /\ Said(d))'
    BY <2>4, <2>5, <1>3, OthersDeeds
  <2>7. Cause(c)'
    <3>1. /\ pc'[c] = "sent" <=> client' \in open'
          /\ pc'[c] \in {"sent", "answered"}
          /\ answer'[c] = "closed" => client' \notin open'
          /\ using'[c] = client'
          /\ sawClose'[c] <=> \E k \in Closers : closing[k] # NoClient
      BY <1>2, <2>0, <2>1 DEF ScmTypes, Said
    <3>2. client' \notin open' => sawClose'[c] \/ client' \in stuck
      BY <1>1, <1>2, <2>2, <3>1 DEF Shared
    <3>3. QED
      BY <2>1, <3>1, <3>2 DEF Cause, Active
  <2>8. (\A d \in Calls \ {c} : Cause(d))'
    <3>1. \A d \in Calls \ {c} : sawClose'[d] = sawClose[d]
      BY <1>2, <2>1 DEF ScmTypes
    <3>2. SUFFICES ASSUME NEW d \in Calls \ {c} PROVE Cause(d)'
      OBVIOUS
    <3>3. Cause(d) /\ CallSame(d) /\ sawClose'[d] = sawClose[d] /\ stuck' = stuck
      BY <1>3, <2>1, <2>4, <3>1
    <3>4. QED
      BY <2>2, <3>3 DEF CallSame, Cause, Active
  <2>9. QED
    BY <2>2, <2>3, <2>6, <2>7, <2>8 DEF ScmInv
<1>16. ASSUME NEW c \in Calls, RespondOk(c), step[c] = Len(Requests(tool[c]))
       PROVE  ScmInv'
  <2>0. Deeds(c) /\ Said(c) /\ Cause(c) /\ AtStep(c)
    BY <1>3
  <2>1. /\ pc[c] = "sent" /\ pc' = [pc EXCEPT ![c] = "answered"]
        /\ answer' = [answer EXCEPT ![c] = "ok"]
        /\ moved' = [moved EXCEPT ![c] = @ \/ ~served[c]]
        /\ UNCHANGED <<client, made, open, closing, overlap, stuck, tool, step, attempt,
                       using, served, done, lost, late, sawClose>>
    BY <1>16 DEF RespondOk
  <2> HIDE DEF provider, closers, request, server, Answer
  <2>2. (ScmTypes)'
    BY <1>2, <2>1 DEF ScmTypes
  <2>3. \A d \in Calls \ {c} : CallSame(d)
    BY <1>2, <2>1 DEF ScmTypes, CallSame
  <2>4. /\ pc'[c] = "answered" /\ answer'[c] = "ok" /\ moved'[c] = (moved[c] \/ ~served[c])
        /\ done[c] \in Nat /\ lost[c] \in Nat /\ late[c] \in Nat
    BY <1>2, <2>1 DEF ScmTypes
  <2>5. Deeds(c)'
    BY <2>0, <2>1, <2>4 DEF Deeds, Due, Active
  <2>6. Said(c)'
    <3>1. ~moved'[c] => ~moved[c] /\ served[c]
      BY <1>2, <2>4 DEF ScmTypes
    <3>2. step[c] = 1 /\ Writing(tool[c]) => Writes(c)
      BY <2>0, <2>1 DEF AtStep, Writes
    <3>3. Writing(tool[c]) /\ ~moved'[c] => done[c] > 0
      <4>1. CASE step[c] = 1
        BY <2>0, <2>1, <3>1, <3>2, <4>1 DEF Said
      <4>2. CASE step[c] = 2
        BY <2>0, <3>1, <4>2 DEF Said
      <4>3. QED
        BY <2>0, <4>1, <4>2 DEF AtStep
    <3>4. step[c] > 1 /\ ~moved'[c] => done[c] > 0
      BY <2>0, <3>1 DEF Said
    <3>5. QED
      BY <2>1, <2>4, <3>3, <3>4 DEF Said
  <2>7. Cause(c)'
    BY <2>1, <2>4 DEF Cause, Active
  <2>8. QED
    BY <2>1, <2>2, <2>3, <2>5, <2>6, <2>7, ScmQuiet
<1>17. ASSUME NEW c \in Calls, RespondOk(c), step[c] # Len(Requests(tool[c]))
       PROVE  ScmInv'
  <2>0. Deeds(c) /\ Said(c) /\ Cause(c) /\ AtStep(c)
    BY <1>3
  <2>1. /\ GetClient /\ UNCHANGED <<closing, overlap, stuck, tool, done, lost, late, sawClose>>
        /\ moved' = [moved EXCEPT ![c] = @ \/ ~served[c]]
        /\ step' = [step EXCEPT ![c] = @ + 1] /\ attempt' = [attempt EXCEPT ![c] = 0]
        /\ served' = [served EXCEPT ![c] = FALSE] /\ using' = [using EXCEPT ![c] = client']
        /\ pc' = [pc EXCEPT ![c] = IF client' \in open' THEN "sent" ELSE "answered"]
        /\ answer' = [answer EXCEPT ![c] = IF client' \in open' THEN @ ELSE "closed"]
        /\ pc[c] = "sent"
    BY <1>2, <1>17 DEF RespondOk, Send, ScmTypes
  <2>2. /\ client' \in 1..made' /\ made' \in 0..MaxClients /\ 0..made \subseteq 0..made'
        /\ open \subseteq open' /\ open' \subseteq 1..made'
        /\ client' \notin open' => client' = client /\ open' = open
        /\ stuck' \subseteq 1..made'
        /\ (NoneLeaked /\ Shared)'
    BY <2>1, GetsClient
  <2> HIDE DEF provider, closers, request, server, Answer
  <2>3. /\ step[c] = 1 /\ 2 \in DOMAIN Requests(tool[c])
        /\ Requests(tool[c])[1] = "POST" /\ Requests(tool[c])[2] = "GET"
    BY <1>17, <2>0 DEF AtStep
  <2>4. /\ pc'[c] \in {"sent", "answered"}
        /\ pc'[c] = "sent" <=> client' \in open'
        /\ answer'[c] = (IF client' \in open' THEN answer[c] ELSE "closed")
        /\ served'[c] = FALSE /\ using'[c] = client' /\ attempt'[c] = 0
        /\ step'[c] = 2 /\ moved'[c] = (moved[c] \/ ~served[c])
        /\ done[c] \in Nat /\ lost[c] \in Nat /\ late[c] \in Nat
    BY <1>2, <2>1, <2>3 DEF ScmTypes
  <2>5. (ScmTypes)'
    <3>1. /\ closing' \in [Closers -> 0..made'] /\ using' \in [Calls -> 0..made']
          /\ client' \in 0..made' /\ attempt' \in [Calls -> 0..MaxRetries]
      <4>1. client' \in 0..made' /\ 0..made \subseteq 0..made'
        BY <2>2
      <4>2. closing \in [Closers -> 0..made] /\ using \in [Calls -> 0..made]
            /\ closing' = closing /\ using' = [using EXCEPT ![c] = client']
        BY <1>2, <2>1 DEF ScmTypes
      <4>3. attempt' \in [Calls -> 0..MaxRetries]
        BY <1>1, <1>2, <2>1 DEF ScmTypes
      <4>4. closing' \in [Closers -> 0..made'] /\ using' \in [Calls -> 0..made']
        BY ONLY <4>1, <4>2
      <4>5. QED
        BY <4>1, <4>3, <4>4
    <3>2. /\ moved' \in [Calls -> BOOLEAN] /\ served' \in [Calls -> BOOLEAN]
          /\ pc' \in [Calls -> {"idle", "sent", "backing_off", "answered"}]
          /\ answer' \in [Calls -> {"none", "ok", "rejected", "refused", "error", "closed",
                                    "cancelled"}]
      BY <1>2, <2>1 DEF ScmTypes
    <3>3. step' \in [Calls -> Nat]
      BY <1>2, <2>1 DEF ScmTypes
    <3>4. \A d \in Calls : step'[d] \in DOMAIN Requests(tool'[d])
      BY <1>2, <2>1, <2>3, <2>4 DEF ScmTypes
    <3>5. QED
      BY <1>2, <2>1, <2>2, <3>1, <3>2, <3>3, <3>4 DEF ScmTypes
  <2>6. \A d \in Calls \ {c} : CallSame(d)
    BY <1>2, <2>1 DEF ScmTypes, CallSame
  <2>7. Deeds(c)'
    BY <2>0, <2>1, <2>3, <2>4 DEF Deeds, Due, Active, Writes
  <2>8. Said(c)'
    BY <2>0, <2>1, <2>3, <2>4 DEF Said, Writes
  <2>9. (\A d \in Calls : Deeds(d) /\ Said(d))'
    BY <2>6, <2>7, <2>8, <1>3, OthersDeeds
  <2>10. Cause(c)'
    <3>1. client' \notin open' => sawClose'[c] \/ client' \in stuck
      BY <1>1, <2>0, <2>1, <2>2 DEF Cause, Active
    <3>2. answer[c] = "none" /\ stuck' = stuck
      BY <1>17, <2>0, <2>1 DEF Said
    <3>3. answer'[c] = "closed" => client' \notin open'
      BY <2>4, <3>2
    <3>4. using'[c] = client'
      BY <2>4
    <3>5. QED
      BY <3>1, <3>2, <3>3, <3>4 DEF Cause, Active
  <2>11. (\A d \in Calls \ {c} : Cause(d))'
    <3>1. SUFFICES ASSUME NEW d \in Calls \ {c} PROVE Cause(d)'
      OBVIOUS
    <3>2. Cause(d) /\ CallSame(d) /\ sawClose'[d] = sawClose[d] /\ stuck' = stuck
      BY <1>3, <2>1, <2>6
    <3>3. QED
      BY <2>2, <3>2 DEF CallSame, Cause, Active
  <2>12. QED
    BY <2>2, <2>5, <2>9, <2>10, <2>11 DEF ScmInv
<1>18. QED
  BY <1>4, <1>5, <1>6, <1>7, <1>8, <1>9, <1>10, <1>11, <1>12, <1>13, <1>14, <1>15, <1>16,
     <1>17 DEF ScmNext, Responds

(* A write is done more often than once only if an attempt of it had an    *)
(* outcome nobody knew; a call that succeeds has done what it was to do    *)
(* unless it was redirected, and so has one that ends after its first      *)
(* request; one that is refused has done nothing unless an attempt was     *)
(* lost (_request of both providers), for any number of calls, any tools   *)
(* of the module and any number of retries.                                *)
THEOREM DeedsAccountedHolds == ScmSpec => []DeedsAccounted
<1>1. ScmInit => ScmInv
  BY ScmInvInit
<1>2. ScmInv /\ [ScmNext]_scmVars => ScmInv'
  BY ScmInvNext
<1>3. ScmInv => DeedsAccounted
  BY DEF ScmInv, Deeds, Said, DeedsAccounted, RetriesAccounted,
         DuplicatesAccounted, AnswerTells
<1>4. QED
  BY <1>1, <1>2, <1>3, PTL DEF ScmSpec

(* The client that the calls share: none is left open that close() could   *)
(* no longer find, unless two calls of it met, and a call fails for a      *)
(* closed client only if it saw close() or a close() of that client failed *)
(* (_get_client, close), for any number of calls of either.                *)
THEOREM ClientsAccountedHolds == ScmSpec => []ClientsAccounted
<1>1. ScmInit => ScmInv
  BY ScmInvInit
<1>2. ScmInv /\ [ScmNext]_scmVars => ScmInv'
  BY ScmInvNext
<1>3. ScmInv => ClientsAccounted
  BY DEF ScmInv, Cause, ClientsAccounted, ClosedForCause
<1>4. QED
  BY <1>1, <1>2, <1>3, PTL DEF ScmSpec

-----------------------------------------------------------------------------
(* The shell and git.  What the variables hold, whichever tool it is, but  *)
(* for what a call has read and answers, ...                               *)
RunTypes ==
  /\ called \in {"shell", "git"} /\ code \in Codes
  /\ now \in 0..MaxTime
  /\ process \in {"none", "running", "killed", "dead"}
  /\ child \in BOOLEAN /\ shut \subseteq Streams /\ broken \subseteq Streams
  /\ written \in [Streams -> 0..MaxWritten] /\ pipe \in [Streams -> 0..PipeSize]
  /\ reader \in [Streams -> {"none", "created", "reading", "done"}]
  /\ cut \in [Streams -> BOOLEAN] /\ limitHit \in BOOLEAN
  /\ main \in {"new", "reading", "waiting", "draining", "returned", "cancelled"}
  /\ until \in 0..(MaxTime + Timeout)

(* ... and that: the shell keeps both streams to one limit as it reads,    *)
(* git each to the limit when it answers.                                  *)
Sized ==
  /\ called = "shell" =>
       /\ got \in [Streams -> 0..MaxOutput] /\ Total <= MaxOutput
       /\ result \in {"none", "ok", "error", "timed_out"}
  /\ called = "git" =>
       /\ got \in [Streams -> 0..MaxWritten]
       /\ result \in {"none", "ok", "failed", "error", "timed_out"}
       /\ result \in {"ok", "failed"} => got \in [Streams -> 0..MaxOutput]

(* Nothing more can come from a stream: it has been read, the process is   *)
(* dead or has closed it, and no child holds it.                           *)
Ended(s) == pipe[s] = 0 /\ ~child /\ (process = "dead" \/ s \in shut)

(* As long as nothing was cut a stream is done when it has ended, or, for  *)
(* the shell, when its pipe broke; and what was written has been read or is*)
(* in the pipe.                                                            *)
Flow(s) ==
  /\ cut[s] => reader[s] = "done" /\ (called = "shell" => limitHit)
  /\ ~limitHit /\ reader[s] = "done" =>
       (Ended(s) /\ s \notin broken) \/ (called = "shell" /\ s \in broken)
  /\ ~limitHit /\ result = "none" => got[s] + pipe[s] = written[s]

Unstarted ==
  main = "new" =>
    /\ process = "none" /\ ~child /\ ~limitHit
    /\ \A s \in Streams : reader[s] = "none" /\ got[s] = 0

(* What the call has come to, and what it says of the output.              *)
Verdict ==
  /\ main \in {"draining", "returned"} => process # "running"
  /\ limitHit => called = "shell" /\ \E s \in Streams : cut[s]
  /\ main = "waiting" => called = "shell" /\ ~limitHit /\ \A s \in Streams : reader[s] = "done"
  /\ result # "none" => main = "returned"
  /\ result \in {"ok", "failed"} /\ ~limitHit =>
       \A s \in Streams :
         /\ reader[s] = "done"
         /\ IF cut[s] THEN got[s] = MaxOutput /\ written[s] > MaxOutput
            ELSE /\ got[s] + pipe[s] = written[s]
                 /\ (pipe[s] = 0 /\ s \notin broken) \/ (called = "shell" /\ s \in broken)
  /\ called = "git" /\ result \in {"ok", "failed"} => process = "dead"

RunInv == RunTypes /\ Sized /\ (\A s \in Streams : Flow(s)) /\ Unstarted /\ Verdict

LEMMA RunInvInit == ASSUME CommandInit PROVE RunInv
<1>1. MaxTime \in Nat /\ Timeout \in Nat /\ MaxWritten \in Nat /\ PipeSize \in Nat
      /\ MaxOutput \in Nat
  BY ShellAssumption
<1> USE DEF CommandInit, ShellInit, Each
<1>2. RunTypes
  <2>1. /\ written \in [Streams -> 0..MaxWritten] /\ pipe \in [Streams -> 0..PipeSize]
        /\ now \in 0..MaxTime /\ until \in 0..(MaxTime + Timeout)
    BY <1>1
  <2>2. QED
    BY <2>1 DEF RunTypes, Codes
<1>3. Sized
  BY <1>1 DEF Sized, Total, Streams
<1>4. \A s \in Streams : Flow(s)
  BY <1>1 DEF Flow
<1>5. Unstarted /\ Verdict
  BY DEF Unstarted, Verdict
<1>6. QED
  BY <1>2, <1>3, <1>4, <1>5 DEF RunInv

(* Steps of the process, of its child and of the clock; and the call is    *)
(* cancelled.                                                              *)
LEMMA QuietKeeps ==
  ASSUME RunInv,
         \/ Spawn \/ Exit \/ ChildExit
         \/ Reap \/ Tick \/ CancelRun,
         called' = called, code' = code
  PROVE  RunInv'
<1>1. /\ MaxTime \in Nat /\ Timeout \in Nat /\ MaxWritten \in Nat /\ PipeSize \in Nat
      /\ MaxOutput \in Nat
  BY ShellAssumption
<1>2. RunTypes /\ Sized /\ (\A o \in Streams : Flow(o)) /\ Unstarted /\ Verdict
  BY DEF RunInv
<1> USE DEF Spawn, Exit, ChildExit, Reap, Tick, CancelRun, world, task
<1>3. RunTypes'
  <2>1. now' \in 0..MaxTime
    BY <1>1, <1>2 DEF RunTypes
  <2>2. QED
    BY <1>2, <2>1 DEF RunTypes
<1>4. Sized'
  BY <1>1, <1>2 DEF RunTypes, Sized, Total, Streams
<1>5. (\A o \in Streams : Flow(o))'
  BY <1>1, <1>2 DEF RunTypes, Sized, Flow, Ended, Streams
<1>6. (Unstarted /\ Verdict)'
  BY <1>1, <1>2 DEF RunTypes, Unstarted, Verdict, Streams
<1>7. QED
  BY <1>3, <1>4, <1>5, <1>6 DEF RunInv

LEMMA WriteKeeps ==
  ASSUME RunInv, NEW s \in Streams, Write(s),
         called' = called, code' = code
  PROVE  RunInv'
<1>1. /\ MaxTime \in Nat /\ Timeout \in Nat /\ MaxWritten \in Nat /\ PipeSize \in Nat
      /\ MaxOutput \in Nat
  BY ShellAssumption
<1>2. RunTypes /\ Sized /\ (\A o \in Streams : Flow(o)) /\ Unstarted /\ Verdict
  BY DEF RunInv
<1> USE DEF Write, world, task
<1>3. RunTypes'
  BY <1>1, <1>2 DEF RunTypes, Unstarted
<1>4. Sized'
  BY <1>1, <1>2 DEF RunTypes, Sized, Total, Streams
<1>5. (\A o \in Streams : Flow(o))'
  BY <1>1, <1>2 DEF RunTypes, Sized, Flow, Ended, Streams
<1>6. (Unstarted /\ Verdict)'
  BY <1>1, <1>2 DEF RunTypes, Unstarted, Verdict, Flow, Ended
<1>7. QED
  BY <1>3, <1>4, <1>5, <1>6 DEF RunInv

LEMMA ShutKeeps ==
  ASSUME RunInv, NEW s \in Streams, Shut(s),
         called' = called, code' = code
  PROVE  RunInv'
<1>1. /\ MaxTime \in Nat /\ Timeout \in Nat /\ MaxWritten \in Nat /\ PipeSize \in Nat
      /\ MaxOutput \in Nat
  BY ShellAssumption
<1>2. RunTypes /\ Sized /\ (\A o \in Streams : Flow(o)) /\ Unstarted /\ Verdict
  BY DEF RunInv
<1> USE DEF Shut, world, task
<1>3. RunTypes'
  BY <1>1, <1>2 DEF RunTypes, Unstarted
<1>4. Sized'
  BY <1>1, <1>2 DEF RunTypes, Sized, Total, Streams
<1>5. (\A o \in Streams : Flow(o))'
  BY <1>1, <1>2 DEF RunTypes, Sized, Flow, Ended, Streams
<1>6. (Unstarted /\ Verdict)'
  BY <1>1, <1>2 DEF RunTypes, Unstarted, Verdict, Streams
<1>7. QED
  BY <1>3, <1>4, <1>5, <1>6 DEF RunInv

LEMMA ReadEOFKeeps ==
  ASSUME RunInv, NEW s \in Streams, ReadEOF(s),
         called' = called, code' = code
  PROVE  RunInv'
<1>1. /\ MaxTime \in Nat /\ Timeout \in Nat /\ MaxWritten \in Nat /\ PipeSize \in Nat
      /\ MaxOutput \in Nat
  BY ShellAssumption
<1>2. RunTypes /\ Sized /\ (\A o \in Streams : Flow(o)) /\ Unstarted /\ Verdict
  BY DEF RunInv
<1> USE DEF ReadEOF, world, task
<1>3. RunTypes'
  BY <1>1, <1>2 DEF RunTypes, Unstarted
<1>4. Sized'
  BY <1>1, <1>2 DEF RunTypes, Sized, Total, Streams
<1>5. (\A o \in Streams : Flow(o))'
  BY <1>1, <1>2 DEF RunTypes, Flow, Ended, AtEOF, Streams
<1>6. (Unstarted /\ Verdict)'
  BY <1>1, <1>2 DEF RunTypes, Unstarted, Verdict, Streams
<1>7. QED
  BY <1>3, <1>4, <1>5, <1>6 DEF RunInv

LEMMA ReadFailsKeeps ==
  ASSUME RunInv, NEW s \in Streams, ReadFails(s),
         called' = called, called = "shell", code' = code
  PROVE  RunInv'
<1>1. /\ MaxTime \in Nat /\ Timeout \in Nat /\ MaxWritten \in Nat /\ PipeSize \in Nat
      /\ MaxOutput \in Nat
  BY ShellAssumption
<1>2. RunTypes /\ Sized /\ (\A o \in Streams : Flow(o)) /\ Unstarted /\ Verdict
  BY DEF RunInv
<1> USE DEF ReadFails, world, task
<1>3. RunTypes'
  BY <1>1, <1>2 DEF RunTypes, Unstarted
<1>4. Sized'
  BY <1>1, <1>2 DEF RunTypes, Sized, Total, Streams
<1>5. (\A o \in Streams : Flow(o))'
  BY <1>1, <1>2 DEF RunTypes, Flow, Ended, AtEOF, Streams
<1>6. (Unstarted /\ Verdict)'
  BY <1>1, <1>2 DEF RunTypes, Unstarted, Verdict, Streams
<1>7. QED
  BY <1>3, <1>4, <1>5, <1>6 DEF RunInv

LEMMA PipeBreaksKeeps ==
  ASSUME RunInv, NEW s \in Streams, PipeBreaks(s),
         called' = called, code' = code
  PROVE  RunInv'
<1>1. /\ MaxTime \in Nat /\ Timeout \in Nat /\ MaxWritten \in Nat /\ PipeSize \in Nat
      /\ MaxOutput \in Nat
  BY ShellAssumption
<1>2. RunTypes /\ Sized /\ (\A o \in Streams : Flow(o)) /\ Unstarted /\ Verdict
  BY DEF RunInv
<1> USE DEF PipeBreaks, world, task
<1>3. RunTypes'
  BY <1>1, <1>2 DEF RunTypes, Unstarted
<1>4. Sized'
  BY <1>1, <1>2 DEF RunTypes, Sized, Total, Streams
<1>5. (\A o \in Streams : Flow(o))'
  BY <1>1, <1>2 DEF RunTypes, Flow, Ended, AtEOF, Streams
<1>6. (Unstarted /\ Verdict)'
  BY <1>1, <1>2 DEF RunTypes, Unstarted, Verdict, Streams
<1>7. QED
  BY <1>3, <1>4, <1>5, <1>6 DEF RunInv

LEMMA DrainedKeeps ==
  ASSUME RunInv, Drained,
         called' = called, code' = code
  PROVE  RunInv'
<1>1. /\ MaxTime \in Nat /\ Timeout \in Nat /\ MaxWritten \in Nat /\ PipeSize \in Nat
      /\ MaxOutput \in Nat
  BY ShellAssumption
<1>2. RunTypes /\ Sized /\ (\A o \in Streams : Flow(o)) /\ Unstarted /\ Verdict
  BY DEF RunInv
<1> USE DEF Drained, world, task, Each
<1>3. RunTypes'
  BY <1>1, <1>2 DEF RunTypes, Unstarted
<1>4. Sized'
  BY <1>1, <1>2 DEF RunTypes, Sized, Total, Streams
<1>5. (\A o \in Streams : Flow(o))'
  BY <1>1, <1>2 DEF RunTypes, Sized, Flow, Ended, Streams
<1>6. (Unstarted /\ Verdict)'
  BY <1>1, <1>2 DEF RunTypes, Unstarted, Verdict, Streams
<1>7. QED
  BY <1>3, <1>4, <1>5, <1>6 DEF RunInv

LEMMA DrainFailsKeeps ==
  ASSUME RunInv, DrainFails,
         called' = called, code' = code
  PROVE  RunInv'
<1>1. /\ MaxTime \in Nat /\ Timeout \in Nat /\ MaxWritten \in Nat /\ PipeSize \in Nat
      /\ MaxOutput \in Nat
  BY ShellAssumption
<1>2. RunTypes /\ Sized /\ (\A o \in Streams : Flow(o)) /\ Unstarted /\ Verdict
  BY DEF RunInv
<1> USE DEF DrainFails, world, task, Each
<1>3. RunTypes'
  BY <1>1, <1>2 DEF RunTypes, Unstarted
<1>4. Sized'
  BY <1>1, <1>2 DEF RunTypes, Sized, Total, Streams
<1>5. (\A o \in Streams : Flow(o))'
  BY <1>1, <1>2 DEF RunTypes, Sized, Flow, Ended, Streams
<1>6. (Unstarted /\ Verdict)'
  BY <1>1, <1>2 DEF RunTypes, Unstarted, Verdict, Streams
<1>7. QED
  BY <1>3, <1>4, <1>5, <1>6 DEF RunInv

LEMMA StartKeeps ==
  ASSUME RunInv, Start,
         called' = called, called = "shell", code' = code
  PROVE  RunInv'
<1>1. /\ MaxTime \in Nat /\ Timeout \in Nat /\ MaxWritten \in Nat /\ PipeSize \in Nat
      /\ MaxOutput \in Nat
  BY ShellAssumption
<1>2. RunTypes /\ Sized /\ (\A o \in Streams : Flow(o)) /\ Unstarted /\ Verdict
  BY DEF RunInv
<1> USE DEF Start, world, task, Each
<1>3. RunTypes'
  BY <1>1, <1>2 DEF RunTypes, Unstarted
<1>4. Sized'
  BY <1>1, <1>2 DEF RunTypes, Sized, Total, Streams
<1>5. (\A o \in Streams : Flow(o))'
  BY <1>1, <1>2 DEF RunTypes, Flow, Ended, Unstarted, Verdict
<1>6. (Unstarted /\ Verdict)'
  BY <1>1, <1>2 DEF RunTypes, Unstarted, Verdict, Streams
<1>7. QED
  BY <1>3, <1>4, <1>5, <1>6 DEF RunInv

LEMMA EnterKeeps ==
  ASSUME RunInv, NEW s \in Streams, Enter(s),
         called' = called, called = "shell", code' = code
  PROVE  RunInv'
<1>1. /\ MaxTime \in Nat /\ Timeout \in Nat /\ MaxWritten \in Nat /\ PipeSize \in Nat
      /\ MaxOutput \in Nat
  BY ShellAssumption
<1>2. RunTypes /\ Sized /\ (\A o \in Streams : Flow(o)) /\ Unstarted /\ Verdict
  BY DEF RunInv
<1> USE DEF Enter, world, task
<1>3. RunTypes'
  BY <1>1, <1>2 DEF RunTypes, Unstarted
<1>4. Sized'
  BY <1>1, <1>2 DEF RunTypes, Sized, Total, Streams
<1>5. (\A o \in Streams : Flow(o))'
  BY <1>1, <1>2 DEF RunTypes, Sized, Flow, Ended, Streams
<1>6. (Unstarted /\ Verdict)'
  BY <1>1, <1>2 DEF RunTypes, Unstarted, Verdict, Streams
<1>7. QED
  BY <1>3, <1>4, <1>5, <1>6 DEF RunInv

LEMMA TimesOutKeeps ==
  ASSUME RunInv, RunTimesOut,
         called' = called, called = "shell", code' = code
  PROVE  RunInv'
<1>1. /\ MaxTime \in Nat /\ Timeout \in Nat /\ MaxWritten \in Nat /\ PipeSize \in Nat
      /\ MaxOutput \in Nat
  BY ShellAssumption
<1>2. RunTypes /\ Sized /\ (\A o \in Streams : Flow(o)) /\ Unstarted /\ Verdict
  BY DEF RunInv
<1> USE DEF RunTimesOut, world, task, Killed
<1>3. RunTypes'
  BY <1>1, <1>2 DEF RunTypes, Unstarted
<1>4. Sized'
  BY <1>1, <1>2 DEF RunTypes, Sized, Total, Streams
<1>5. (\A o \in Streams : Flow(o))'
  BY <1>1, <1>2 DEF RunTypes, Flow, Ended
<1>6. (Unstarted /\ Verdict)'
  BY <1>1, <1>2 DEF RunTypes, Unstarted, Verdict
<1>7. QED
  BY <1>3, <1>4, <1>5, <1>6 DEF RunInv

LEMMA CutOffKeeps ==
  ASSUME RunInv, CutOff,
         called' = called, called = "shell", code' = code
  PROVE  RunInv'
<1>1. /\ MaxTime \in Nat /\ Timeout \in Nat /\ MaxWritten \in Nat /\ PipeSize \in Nat
      /\ MaxOutput \in Nat
  BY ShellAssumption
<1>2. RunTypes /\ Sized /\ (\A o \in Streams : Flow(o)) /\ Unstarted /\ Verdict
  BY DEF RunInv
<1> USE DEF CutOff, world, task, Killed
<1>3. RunTypes'
  BY <1>1, <1>2 DEF RunTypes, Unstarted
<1>4. Sized'
  BY <1>1, <1>2 DEF RunTypes, Sized, Total, Streams
<1>5. (\A o \in Streams : Flow(o))'
  BY <1>1, <1>2 DEF RunTypes, Flow, Ended
<1>6. (Unstarted /\ Verdict)'
  BY <1>1, <1>2 DEF RunTypes, Unstarted, Verdict
<1>7. QED
  BY <1>3, <1>4, <1>5, <1>6 DEF RunInv

LEMMA AwaitExitKeeps ==
  ASSUME RunInv, AwaitExit,
         called' = called, called = "shell", code' = code
  PROVE  RunInv'
<1>1. /\ MaxTime \in Nat /\ Timeout \in Nat /\ MaxWritten \in Nat /\ PipeSize \in Nat
      /\ MaxOutput \in Nat
  BY ShellAssumption
<1>2. RunTypes /\ Sized /\ (\A o \in Streams : Flow(o)) /\ Unstarted /\ Verdict
  BY DEF RunInv
<1> USE DEF AwaitExit, world, task
<1>3. RunTypes'
  BY <1>1, <1>2 DEF RunTypes, Unstarted
<1>4. Sized'
  BY <1>1, <1>2 DEF RunTypes, Sized, Total, Streams
<1>5. (\A o \in Streams : Flow(o))'
  BY <1>1, <1>2 DEF RunTypes, Sized, Flow, Ended, Streams
<1>6. (Unstarted /\ Verdict)'
  BY <1>1, <1>2 DEF RunTypes, Unstarted, Verdict, Streams
<1>7. QED
  BY <1>3, <1>4, <1>5, <1>6 DEF RunInv

LEMMA SucceedKeeps ==
  ASSUME RunInv, Succeed,
         called' = called, called = "shell", code' = code
  PROVE  RunInv'
<1>1. /\ MaxTime \in Nat /\ Timeout \in Nat /\ MaxWritten \in Nat /\ PipeSize \in Nat
      /\ MaxOutput \in Nat
  BY ShellAssumption
<1>2. RunTypes /\ Sized /\ (\A o \in Streams : Flow(o)) /\ Unstarted /\ Verdict
  BY DEF RunInv
<1> USE DEF Succeed, world, task
<1>3. RunTypes'
  BY <1>1, <1>2 DEF RunTypes, Unstarted
<1>4. Sized'
  BY <1>1, <1>2 DEF RunTypes, Sized, Total, Streams
<1>5. (\A o \in Streams : Flow(o))'
  BY <1>1, <1>2 DEF RunTypes, Sized, Flow, Ended, Streams
<1>6. (Unstarted /\ Verdict)'
  <2>1. /\ result = "none" /\ ~limitHit
        /\ \A o \in Streams : reader[o] = "done"
    BY <1>2 DEF Verdict
  <2>2. \A o \in Streams :
          /\ ~cut[o] /\ got[o] + pipe[o] = written[o]
          /\ (pipe[o] = 0 /\ o \notin broken) \/ o \in broken
    BY <1>2, <2>1 DEF Flow, Ended
  <2>3. /\ result' = "ok" /\ main' = "returned" /\ process = "dead" /\ called = "shell"
        /\ UNCHANGED <<called, process, limitHit, reader, cut, got, pipe, written, broken>>
    OBVIOUS
  <2>4. QED
    BY ONLY <2>1, <2>2, <2>3 DEF Unstarted, Verdict
<1>7. QED
  BY <1>3, <1>4, <1>5, <1>6 DEF RunInv

LEMMA RefuseKeeps ==
  ASSUME RunInv, RefuseRun,
         called' = called, code' = code
  PROVE  RunInv'
<1>1. /\ MaxTime \in Nat /\ Timeout \in Nat /\ MaxWritten \in Nat /\ PipeSize \in Nat
      /\ MaxOutput \in Nat
  BY ShellAssumption
<1>2. RunTypes /\ Sized /\ (\A o \in Streams : Flow(o)) /\ Unstarted /\ Verdict
  BY DEF RunInv
<1> USE DEF RefuseRun, world, task
<1>3. RunTypes'
  BY <1>1, <1>2 DEF RunTypes, Unstarted
<1>4. Sized'
  <2>1. \A o \in Streams : got[o] \in 0..MaxOutput
    BY <1>1, <1>2 DEF Unstarted
  <2>2. got' = got /\ result' = "error" /\ called' = called
    OBVIOUS
  <2>3. QED
    BY <1>2, <2>1, <2>2 DEF Sized, Total
<1>5. (\A o \in Streams : Flow(o))'
  BY <1>1, <1>2 DEF RunTypes, Sized, Flow, Ended, Streams
<1>6. (Unstarted /\ Verdict)'
  BY <1>1, <1>2 DEF RunTypes, Unstarted, Verdict, Streams
<1>7. QED
  BY <1>3, <1>4, <1>5, <1>6 DEF RunInv

LEMMA GitMissingKeeps ==
  ASSUME RunInv, GitMissing,
         called' = called, called = "git", code' = code
  PROVE  RunInv'
<1>1. /\ MaxTime \in Nat /\ Timeout \in Nat /\ MaxWritten \in Nat /\ PipeSize \in Nat
      /\ MaxOutput \in Nat
  BY ShellAssumption
<1>2. RunTypes /\ Sized /\ (\A o \in Streams : Flow(o)) /\ Unstarted /\ Verdict
  BY DEF RunInv
<1> USE DEF GitMissing, world, task
<1>3. RunTypes'
  BY <1>1, <1>2 DEF RunTypes, Unstarted
<1>4. Sized'
  <2>1. \A o \in Streams : got[o] \in 0..MaxOutput
    BY <1>1, <1>2 DEF Unstarted
  <2>2. got' = got /\ result' = "error" /\ called' = called
    OBVIOUS
  <2>3. QED
    BY <1>2, <2>1, <2>2 DEF Sized, Total
<1>5. (\A o \in Streams : Flow(o))'
  BY <1>1, <1>2 DEF RunTypes, Sized, Flow, Ended, Streams
<1>6. (Unstarted /\ Verdict)'
  BY <1>1, <1>2 DEF RunTypes, Unstarted, Verdict
<1>7. QED
  BY <1>3, <1>4, <1>5, <1>6 DEF RunInv

LEMMA GitReadKeeps ==
  ASSUME RunInv, NEW s \in Streams, GitRead(s),
         called' = called, called = "git"
  PROVE  RunInv'
<1>1. /\ MaxTime \in Nat /\ Timeout \in Nat /\ MaxWritten \in Nat /\ PipeSize \in Nat
      /\ MaxOutput \in Nat
  BY ShellAssumption
<1>2. RunTypes /\ Sized /\ (\A o \in Streams : Flow(o)) /\ Unstarted /\ Verdict
  BY DEF RunInv
<1> USE DEF GitRead, world, task
<1>3. RunTypes'
  BY <1>1, <1>2 DEF RunTypes
<1>4. Sized'
  <2>1. result = "none" /\ ~limitHit /\ got[s] + pipe[s] = written[s]
    BY <1>2 DEF Verdict, Flow
  <2>2. got'[s] \in 0..MaxWritten
    BY <1>1, <1>2, <2>1 DEF RunTypes, Sized
  <2>3. QED
    BY <1>2, <2>1, <2>2 DEF Sized
<1>5. (\A o \in Streams : Flow(o))'
  BY <1>1, <1>2 DEF RunTypes, Flow, Ended, Sized, Verdict
<1>6. (Unstarted /\ Verdict)'
  BY <1>1, <1>2 DEF RunTypes, Unstarted, Verdict, Streams
<1>7. QED
  BY <1>3, <1>4, <1>5, <1>6 DEF RunInv

LEMMA GitTimesOutKeeps ==
  ASSUME RunInv, GitTimesOut,
         called' = called, called = "git"
  PROVE  RunInv'
<1>1. /\ MaxTime \in Nat /\ Timeout \in Nat /\ MaxWritten \in Nat /\ PipeSize \in Nat
      /\ MaxOutput \in Nat
  BY ShellAssumption
<1>2. RunTypes /\ Sized /\ (\A o \in Streams : Flow(o)) /\ Unstarted /\ Verdict
  BY DEF RunInv
<1> USE DEF GitTimesOut, world, task, Killed
<1>3. RunTypes'
  BY <1>1, <1>2 DEF RunTypes, Unstarted
<1>4. Sized'
  BY <1>1, <1>2 DEF RunTypes, Sized, Total, Streams
<1>5. (\A o \in Streams : Flow(o))'
  BY <1>1, <1>2 DEF RunTypes, Flow, Ended
<1>6. (Unstarted /\ Verdict)'
  BY <1>1, <1>2 DEF RunTypes, Unstarted, Verdict
<1>7. QED
  BY <1>3, <1>4, <1>5, <1>6 DEF RunInv

LEMMA GitReadFailsKeeps ==
  ASSUME RunInv, GitReadFails,
         called' = called, called = "git"
  PROVE  RunInv'
<1>1. /\ MaxTime \in Nat /\ Timeout \in Nat /\ MaxWritten \in Nat /\ PipeSize \in Nat
      /\ MaxOutput \in Nat
  BY ShellAssumption
<1>2. RunTypes /\ Sized /\ (\A o \in Streams : Flow(o)) /\ Unstarted /\ Verdict
  BY DEF RunInv
<1> USE DEF GitReadFails, world, task, Killed
<1>3. RunTypes'
  BY <1>1, <1>2 DEF RunTypes, Unstarted
<1>4. Sized'
  BY <1>1, <1>2 DEF RunTypes, Sized, Total, Streams
<1>5. (\A o \in Streams : Flow(o))'
  BY <1>1, <1>2 DEF RunTypes, Flow, Ended
<1>6. (Unstarted /\ Verdict)'
  BY <1>1, <1>2 DEF RunTypes, Unstarted, Verdict
<1>7. QED
  BY <1>3, <1>4, <1>5, <1>6 DEF RunInv

LEMMA GitStartKeeps ==
  ASSUME RunInv, GitStart,
         called' = called, called = "git"
  PROVE  RunInv'
<1>1. /\ MaxTime \in Nat /\ Timeout \in Nat /\ MaxWritten \in Nat /\ PipeSize \in Nat
      /\ MaxOutput \in Nat
  BY ShellAssumption
<1>2. RunTypes /\ Sized /\ (\A o \in Streams : Flow(o)) /\ Unstarted /\ Verdict
  BY DEF RunInv
<1> USE DEF GitStart, world, task, Each
<1>3. RunTypes'
  BY <1>1, <1>2 DEF RunTypes, Unstarted
<1>4. Sized'
  BY <1>1, <1>2 DEF RunTypes, Sized, Total, Streams
<1>5. (\A o \in Streams : Flow(o))'
  BY <1>1, <1>2 DEF RunTypes, Flow, Ended, Unstarted, Verdict
<1>6. (Unstarted /\ Verdict)'
  BY <1>1, <1>2 DEF RunTypes, Unstarted, Verdict, Streams
<1>7. QED
  BY <1>3, <1>4, <1>5, <1>6 DEF RunInv

LEMMA ReadKeeps ==
  ASSUME RunInv, NEW s \in Streams, Read(s),
         called' = called, called = "shell", code' = code
  PROVE  RunInv'
<1>1. /\ MaxTime \in Nat /\ Timeout \in Nat /\ MaxWritten \in Nat /\ PipeSize \in Nat
      /\ MaxOutput \in Nat
  BY ShellAssumption
<1>2. RunTypes /\ Sized /\ (\A o \in Streams : Flow(o)) /\ Unstarted /\ Verdict
  BY DEF RunInv
<1> DEFINE room == MaxOutput - Total
<1> DEFINE over == pipe[s] > room
<1>3. /\ main = "reading" /\ reader[s] = "reading" /\ pipe[s] > 0
      /\ pipe' = [pipe EXCEPT ![s] = 0]
      /\ got' = [got EXCEPT ![s] = @ + (IF over THEN room ELSE pipe[s])]
      /\ cut' = [cut EXCEPT ![s] = over]
      /\ limitHit' = (limitHit \/ over)
      /\ reader' = [reader EXCEPT ![s] = IF over THEN "done" ELSE "reading"]
      /\ UNCHANGED <<now, process, child, shut, broken, written, main, until, result>>
  BY DEF Read, world
<1>4. Total \in 0..MaxOutput /\ room \in 0..MaxOutput
  BY <1>1, <1>2 DEF Sized, Total, Streams
<1>5. over \in BOOLEAN
  OBVIOUS
<1> HIDE DEF room, over
<1>6. RunTypes'
  BY <1>1, <1>2, <1>3, <1>5 DEF RunTypes
<1>7. PICK n \in Nat : /\ got' = [got EXCEPT ![s] = @ + n] /\ n <= room
                       /\ ~over => n = pipe[s]
  <2>1. CASE over
    <3>1. room \in Nat /\ got' = [got EXCEPT ![s] = @ + room]
      BY <1>1, <1>3, <1>4, <2>1
    <3>2. QED
      <4>1. room <= room
        BY <3>1
      <4>2. QED
        BY <2>1, <3>1, <4>1, Zenon
  <2>2. CASE ~over
    <3>1. got' = [got EXCEPT ![s] = @ + pipe[s]]
      BY <1>3, <2>2
    <3>2. pipe[s] \in Nat /\ pipe[s] <= room
      BY <1>1, <1>2, <1>4, <2>2 DEF over, RunTypes
    <3>3. QED
      BY <2>2, <3>1, <3>2
  <2>3. QED
    BY <2>1, <2>2
<1>8. Sized'
  BY <1>1, <1>2, <1>3, <1>4, <1>7 DEF Sized, Total, Streams, room
<1>9. CASE over
  <2>1. limitHit' /\ cut'[s] /\ reader'[s] = "done"
    BY <1>2, <1>3, <1>9 DEF RunTypes
  <2>2. (\A o \in Streams : Flow(o))'
    BY <1>2, <1>3, <2>1 DEF Flow, RunTypes
  <2>3. (Unstarted /\ Verdict)'
    BY <1>2, <1>3, <2>1 DEF Unstarted, Verdict
  <2>4. QED
    BY <1>6, <1>8, <2>2, <2>3 DEF RunInv
<1>10. CASE ~over
  <2>1. /\ limitHit' = limitHit /\ cut'[s] = FALSE /\ reader'[s] = "reading" /\ pipe'[s] = 0
        /\ got'[s] = got[s] + pipe[s] /\ result = "none"
        /\ \A o \in Streams \ {s} : /\ cut'[o] = cut[o] /\ reader'[o] = reader[o]
                                    /\ pipe'[o] = pipe[o] /\ got'[o] = got[o]
    BY <1>2, <1>3, <1>7, <1>10 DEF RunTypes, Sized, Verdict
  <2>2. (\A o \in Streams : Flow(o))'
    BY <1>1, <1>2, <1>3, <2>1 DEF Flow, Ended, RunTypes, Sized
  <2>3. (Unstarted /\ Verdict)'
    BY <1>2, <1>3, <2>1 DEF Unstarted, Verdict, Flow
  <2>4. QED
    BY <1>6, <1>8, <2>2, <2>3 DEF RunInv
<1>11. QED
  BY <1>9, <1>10

LEMMA GitAnswerKeeps ==
  ASSUME RunInv, GitAnswer, called' = called, called = "git"
  PROVE  RunInv'
<1>1. /\ MaxTime \in Nat /\ Timeout \in Nat /\ MaxWritten \in Nat /\ PipeSize \in Nat
      /\ MaxOutput \in Nat
  BY ShellAssumption
<1>2. RunTypes /\ Sized /\ (\A o \in Streams : Flow(o)) /\ Unstarted /\ Verdict
  BY DEF RunInv
<1>3. /\ main = "reading" /\ main' = "returned" /\ process = "dead"
      /\ \A o \in Streams : reader[o] = "done"
      /\ got' = [o \in Streams |-> IF got[o] > MaxOutput THEN MaxOutput ELSE got[o]]
      /\ cut' = [o \in Streams |-> got[o] > MaxOutput]
      /\ result' \in {"ok", "failed"}
      /\ UNCHANGED <<now, process, child, shut, broken, written, pipe, reader, limitHit,
                     until, code>>
  BY DEF GitAnswer, Communicated, world
<1>4. result = "none" /\ ~limitHit
  BY <1>2, <1>3 DEF Verdict
<1>5. \A o \in Streams : /\ got[o] = written[o] /\ Ended(o) /\ got[o] \in Nat
                         /\ pipe[o] = 0 /\ o \notin broken
  BY <1>2, <1>3, <1>4 DEF Flow, Ended, RunTypes, Sized
<1>6. RunTypes'
  BY <1>2, <1>3 DEF RunTypes
<1>7. Sized'
  BY <1>1, <1>2, <1>3, <1>5 DEF Sized
<1>8. (\A o \in Streams : Flow(o))'
  BY <1>3, <1>5 DEF Flow, Ended
<1>9. (Unstarted /\ Verdict)'
  <2>1. ASSUME NEW o \in Streams
        PROVE  /\ reader'[o] = "done" /\ pipe'[o] = 0 /\ o \notin broken'
               /\ IF cut'[o] THEN got'[o] = MaxOutput /\ written'[o] > MaxOutput
                  ELSE got'[o] + pipe'[o] = written'[o]
    <3>1. /\ (cut'[o] <=> got[o] > MaxOutput) /\ written'[o] = got[o] /\ pipe'[o] = 0
          /\ got'[o] = IF got[o] > MaxOutput THEN MaxOutput ELSE got[o]
          /\ reader'[o] = "done" /\ o \notin broken' /\ got[o] \in Nat
      BY <1>3, <1>5
    <3>2. QED
      BY <1>1, <3>1
  <2>2. /\ limitHit' = FALSE /\ main' = "returned" /\ process' = "dead"
        /\ result' \in {"ok", "failed"} /\ called' = "git"
    BY <1>2, <1>3, <1>4 DEF RunTypes
  <2>3. QED
    BY <2>1, <2>2 DEF Unstarted, Verdict
<1>10. QED
  BY <1>6, <1>7, <1>8, <1>9 DEF RunInv

LEMMA RunInvNext ==
  ASSUME RunInv, [CommandNext]_commandVars
  PROVE  RunInv'
<1>1. CASE CommandProgress /\ called = "shell"
  <2>1. Progress /\ code' = code /\ called' = called
    BY <1>1 DEF CommandProgress, ShellProgress
  <2>2. QED
    BY <1>1, <2>1, QuietKeeps, ReadEOFKeeps, ReadFailsKeeps, DrainedKeeps,
       DrainFailsKeeps, StartKeeps, EnterKeeps, ReadKeeps,
       TimesOutKeeps, CutOffKeeps, AwaitExitKeeps, SucceedKeeps DEF Progress
<1>2. CASE CommandProgress /\ called = "git"
  <2>1. GitProgress /\ called' = called
    BY <1>2 DEF CommandProgress
  <2>2. QED
    BY <1>2, <2>1, QuietKeeps, ReadEOFKeeps, DrainedKeeps, DrainFailsKeeps,
       GitStartKeeps, GitReadKeeps, GitTimesOutKeeps, GitReadFailsKeeps, GitAnswerKeeps DEF GitProgress
<1>3. CASE MayHappen
  <2>1. /\ called' = called
        /\ \/ (Environment \/ CancelRun \/ RefuseRun) /\ code' = code
           \/ called = "git" /\ (GitRefuse \/ GitMissing)
    BY <1>3 DEF MayHappen
  <2>2. CASE (Environment \/ CancelRun \/ RefuseRun) /\ code' = code
    BY <2>1, <2>2, QuietKeeps, WriteKeeps, ShutKeeps, PipeBreaksKeeps, RefuseKeeps
    DEF Environment
  <2>3. CASE called = "git" /\ GitRefuse
    BY <2>1, <2>3, RefuseKeeps DEF GitRefuse
  <2>4. CASE called = "git" /\ GitMissing
    <3>1. code' = code
      BY <2>4 DEF GitMissing
    <3>2. QED
      BY <2>1, <2>4, <3>1, GitMissingKeeps
  <2>5. QED
    BY <2>1, <2>2, <2>3, <2>4
<1>4. CASE UNCHANGED commandVars
  BY <1>4 DEF commandVars, shellVars, RunInv, RunTypes, Sized, Flow, Ended, Unstarted,
     Verdict, Total
<1>5. QED
  <2>1. called \in {"shell", "git"}
    BY DEF RunInv, RunTypes
  <2>2. QED
    BY <1>1, <1>2, <1>3, <1>4, <2>1 DEF CommandNext

LEMMA RunInvTells ==
  ASSUME RunInv
  PROVE  NothingLeftBehind /\ GitAnswerWhole
<1>1. RunTypes /\ Sized /\ (\A s \in Streams : Flow(s)) /\ Verdict
  BY DEF RunInv
<1>2. CommandTypes
  BY <1>1 DEF RunTypes, Sized, CommandTypes, ShellTypes
<1>3. LossIsTold
  <2>1. SUFFICES ASSUME result = "ok", \A o \in Streams : ~cut[o], NEW s \in Streams
                 PROVE  got[s] + Unread(s) = written[s]
    BY DEF LossIsTold
  <2>2. ~limitHit
    BY <1>1, <2>1 DEF Verdict
  <2>3. QED
    BY <1>1, <2>1, <2>2 DEF Verdict, Sized, Unread
<1>4. NoneLeftRunning
  BY <1>1 DEF Verdict, NoneLeftRunning
<1>5. GitAnswerWhole
  <2>1. SUFFICES ASSUME called = "git", result \in {"ok", "failed"}
                 PROVE  /\ process = "dead"
                        /\ \A s \in Streams :
                             IF cut[s] THEN got[s] = MaxOutput /\ written[s] > MaxOutput
                             ELSE got[s] = written[s]
    BY DEF GitAnswerWhole
  <2>2. ~limitHit /\ process = "dead"
    BY <1>1, <2>1 DEF Verdict
  <2>3. \A s \in Streams : ~cut[s] => got[s] + pipe[s] = written[s] /\ pipe[s] = 0
    BY <1>1, <2>1, <2>2 DEF Verdict
  <2>4. \A s \in Streams : got[s] \in Nat
    BY <1>1, ShellAssumption, <2>1 DEF Sized
  <2>5. \A s \in Streams : ~cut[s] => got[s] = written[s]
    BY <2>3, <2>4
  <2>6. \A s \in Streams : cut[s] => got[s] = MaxOutput /\ written[s] > MaxOutput
    BY <1>1, <2>1, <2>2 DEF Verdict
  <2>7. QED
    BY <2>2, <2>5, <2>6
<1>6. QED
  BY <1>2, <1>3, <1>4, <1>5 DEF NothingLeftBehind, OutputAccounted

(* A call of the shell or of git that succeeds returns all output or says  *)
(* that some is missing, but for what is in a pipe of the shell's that     *)
(* breaks before it is read, what it returns is within its limit, and no   *)
(* process of its own is left running when it returns (execute of          *)
(* shell.py, _run_git), whatever the process and its child do and wherever *)
(* the limits fall.                                                        *)
THEOREM NothingLeftBehindHolds == CommandSpec => []NothingLeftBehind
<1>1. CommandInit => RunInv
  BY RunInvInit
<1>2. RunInv /\ [CommandNext]_commandVars => RunInv'
  BY RunInvNext
<1>3. RunInv => NothingLeftBehind
  BY RunInvTells
<1>4. QED
  BY <1>1, <1>2, <1>3, PTL DEF CommandSpec

(* What git answers with its exit code is all it wrote, up to the limit of *)
(* each stream, and what was dropped is marked; the process is dead        *)
(* (_run_git).                                                             *)
THEOREM GitAnswerWholeHolds == CommandSpec => []GitAnswerWhole
<1>1. CommandInit => RunInv
  BY RunInvInit
<1>2. RunInv /\ [CommandNext]_commandVars => RunInv'
  BY RunInvNext
<1>3. RunInv => GitAnswerWhole
  BY RunInvTells
<1>4. QED
  BY <1>1, <1>2, <1>3, PTL DEF CommandSpec

-----------------------------------------------------------------------------
(* The audit trail.  A set of natural numbers has a least element.         *)
LEMMA Smallest ==
  ASSUME NEW T, T \subseteq Nat, T # {}
  PROVE  \E n \in T : \A m \in T : n <= m
<1> DEFINE R == OpToRel(<, Nat)
<1>1. IsWellFoundedOn(R, Nat)
  BY NatLessThanWellFounded
<1>2. \A x, y \in Nat : <<x, y>> \in R <=> x < y
  BY DEF OpToRel
<1> HIDE DEF R
<1>3. \E n \in T : \A m \in T : ~(<<m, n>> \in R)
  BY <1>1, WFMin, Zenon
<1>4. PICK n \in T : \A m \in T : ~(<<m, n>> \in R)
  BY <1>3
<1>5. \A m \in T : n \in Nat /\ m \in Nat /\ ~(m < n)
  BY <1>2, <1>4
<1>6. \A m \in T : n <= m
  BY <1>5
<1> QED BY <1>6

(* A finite function on places has a first part that is as long as is      *)
(* asked for, or else the whole.                                           *)
LEMMA FirstPart ==
  ASSUME NEW e, DOMAIN e \subseteq Nat, IsFiniteSet(DOMAIN e), NEW limit \in Nat
  PROVE  /\ DOMAIN FirstOf(e, limit) \subseteq DOMAIN e
         /\ \A i \in DOMAIN FirstOf(e, limit) : FirstOf(e, limit)[i] = e[i]
         /\ \A i \in DOMAIN e, j \in DOMAIN FirstOf(e, limit) : i < j => i \in DOMAIN FirstOf(e, limit)
         /\ Cardinality(DOMAIN FirstOf(e, limit)) <= limit
         /\ Cardinality(DOMAIN FirstOf(e, limit)) < limit => DOMAIN FirstOf(e, limit) = DOMAIN e
         /\ Cardinality(DOMAIN e) < limit => DOMAIN FirstOf(e, limit) = DOMAIN e
<1> DEFINE D == DOMAIN e
           rank == [i \in D |-> Cardinality(Upto(e, i))]
           F == {i \in D : rank[i] <= limit}
<1>1. FirstOf(e, limit) = [i \in F |-> e[i]]
  BY DEF FirstOf, Restrict
<1>2. \A i \in D : /\ i \in Upto(e, i) /\ Upto(e, i) \subseteq D /\ IsFiniteSet(Upto(e, i))
                   /\ rank[i] \in Nat /\ rank[i] <= Cardinality(D)
  <2> SUFFICES ASSUME NEW i \in D
               PROVE  /\ i \in Upto(e, i) /\ Upto(e, i) \subseteq D /\ IsFiniteSet(Upto(e, i))
                      /\ rank[i] \in Nat /\ rank[i] <= Cardinality(D)
    OBVIOUS
  <2>1. i \in Upto(e, i) /\ Upto(e, i) \subseteq D
    BY DEF Upto
  <2> QED BY <2>1, FS_Subset, FS_CardinalityType
<1>3. \A i, j \in D : i < j => rank[i] < rank[j]
  <2> SUFFICES ASSUME NEW i \in D, NEW j \in D, i < j PROVE rank[i] < rank[j]
    OBVIOUS
  <2>1. Upto(e, i) \subseteq Upto(e, j) /\ j \in Upto(e, j) /\ j \notin Upto(e, i)
    BY DEF Upto
  <2>2. Cardinality(Upto(e, i)) <= Cardinality(Upto(e, j)) /\ Cardinality(Upto(e, i)) # Cardinality(Upto(e, j))
    BY <1>2, <2>1, FS_Subset
  <2> QED BY <1>2, <2>2
<1>4. Cardinality(D) \in Nat /\ F \subseteq D /\ IsFiniteSet(F) /\ Cardinality(F) \in Nat
  BY FS_Subset, FS_CardinalityType
<1>5. \A i \in D, j \in F : i < j => i \in F
  BY <1>2, <1>3
<1>6. Cardinality(F) <= limit
  <2> DEFINE h == [i \in F |-> rank[i]]
  <2>0. \A i \in D : rank[i] >= 1
    <3> SUFFICES ASSUME NEW i \in D, rank[i] = 0 PROVE FALSE
      BY <1>2
    <3> QED BY <1>2, FS_EmptySet
  <2>1. h \in [F -> 1..limit]
    BY <1>2, <2>0
  <2>2. \A i, j \in F : i # j => h[i] # h[j]
    <3> SUFFICES ASSUME NEW i \in F, NEW j \in F, i # j PROVE h[i] # h[j]
      OBVIOUS
    <3>1. i < j \/ j < i
      OBVIOUS
    <3>2. rank[i] \in Nat /\ rank[j] \in Nat /\ (rank[i] < rank[j] \/ rank[j] < rank[i])
      BY <1>2, <1>3, <3>1
    <3> QED BY <3>2
  <2>3. h \in Injection(F, 1..limit)
    BY <2>1, <2>2 DEF Injection, IsInjective
  <2>4. IsFiniteSet(1..limit) /\ Cardinality(1..limit) = limit
    <3>1. Cardinality(1..limit) = IF 1 > limit THEN 0 ELSE limit - 1 + 1
      BY FS_Interval
    <3> QED BY <3>1, FS_Interval
  <2> QED BY <2>3, <2>4, FS_Injection
<1>7. ASSUME F # D PROVE Cardinality(F) >= limit
  <2> DEFINE T == D \ F
  <2>1. PICK n \in T : \A m \in T : n <= m
    BY <1>7, Smallest
  <2>2. rank[n] > limit /\ n \in D
    BY <1>2, <2>1
  <2>3. Upto(e, n) \ {n} \subseteq F
    <3> SUFFICES ASSUME NEW m \in Upto(e, n), m # n PROVE m \in F
      OBVIOUS
    <3>1. m \in D /\ m <= n /\ m \in Nat /\ n \in Nat
      BY <2>2 DEF Upto
    <3> QED BY <2>1, <3>1
  <2>4. Cardinality(Upto(e, n) \ {n}) = rank[n] - 1 /\ IsFiniteSet(Upto(e, n) \ {n})
    BY <1>2, <2>2, FS_RemoveElement
  <2>5. Cardinality(Upto(e, n) \ {n}) <= Cardinality(F)
    BY <1>4, <2>3, FS_Subset
  <2> QED BY <1>2, <1>4, <2>2, <2>4, <2>5
<1>8. ASSUME Cardinality(D) < limit PROVE F = D
  <2>1. \A i \in D : rank[i] \in Nat /\ rank[i] <= Cardinality(D)
    BY <1>2
  <2>2. \A i \in D : rank[i] <= limit
    BY <1>4, <1>8, <2>1
  <2> QED BY <2>2
<1>9. DOMAIN FirstOf(e, limit) = F
  BY <1>1
<1>10. \A i \in F : FirstOf(e, limit)[i] = e[i]
  BY <1>1
<1>11. Cardinality(F) < limit => F = D
  BY <1>4, <1>7
<1> HIDE DEF F, rank
<1> QED BY <1>4, <1>5, <1>6, <1>8, <1>9, <1>10, <1>11

-----------------------------------------------------------------------------
Lines == [of : Nat, part : Cuts \cup {"whole"}]

AuditTyped ==
  /\ file \in Seq(Lines) /\ \A i \in 1..Len(file) : file[i].of \in Entries
  /\ lock \in Sessions \cup {None}
  /\ writing \in [Sessions -> Nat] /\ \A s \in Sessions : writing[s] <= Len(stamped)
  /\ stamped \in Seq([session : Sessions, decision : Decisions])
  /\ logged \subseteq Entries
  /\ tears \in 0..MaxTears /\ faults \in 0..MaxFaults
  /\ asked = [c \in Queries |-> asked[c]] /\ found = [c \in Queries |-> found[c]]
  /\ \A c \in Queries : found[c] \in Findings

(* An entry has one line at most, and none before its session has the      *)
(* lock; two sessions do not write the same entry.                         *)
Single ==
  /\ \A i, j \in 1..Len(file) : file[i].of = file[j].of => i = j
  /\ \A s, t \in Sessions : writing[s] # 0 /\ writing[s] = writing[t] => s = t
  /\ \A s \in Sessions \ {lock} : writing[s] # 0 => \A i \in 1..Len(file) : file[i].of # writing[s]

(* Who holds the lock has begun the last line, and nothing else.           *)
Begun ==
  lock # None => /\ Len(file) > 0 /\ writing[lock] # 0
                 /\ file[Len(file)].of = writing[lock] /\ file[Len(file)].part # "whole"

(* What was logged has a whole line.                                       *)
HasLine == \A e \in logged : \E i \in 1..Len(file) : file[i].of = e /\ file[i].part = "whole"

(* Each line that was left without an end is a tear.                       *)
Torn == {i \in 1..Len(file) : file[i].part # "whole" /\ ~(lock # None /\ i = Len(file))}

TornCounted == Cardinality(Torn) <= tears

LinesInv == AuditTyped /\ Single /\ Begun /\ HasLine /\ TornCounted

LEMMA LineShape ==
  /\ \A e, c : Line(e, c).of = e /\ Line(e, c).part = c
  /\ \A e \in Nat, c \in Cuts \cup {"whole"} : Line(e, c) \in Lines
  /\ "whole" \notin Cuts
BY DEF Line, Lines, Cuts

LEMMA FileShape ==
  ASSUME AuditTyped
  PROVE  /\ Len(file) \in Nat /\ DOMAIN file = 1..Len(file) /\ Len(stamped) \in Nat
         /\ \A i \in 1..Len(file) : file[i] \in Lines /\ file[i].part \in Cuts \cup {"whole"} /\ file[i].of \in Nat
         /\ None \notin Sessions /\ tears \in Nat /\ faults \in Nat
<1>1. Len(file) \in Nat /\ DOMAIN file = 1..Len(file) /\ Len(stamped) \in Nat
  BY LenProperties DEF AuditTyped
<1>2. \A i \in 1..Len(file) : file[i] \in Lines
  BY ElementOfSeq DEF AuditTyped
<1>3. \A i \in 1..Len(file) : file[i].part \in Cuts \cup {"whole"} /\ file[i].of \in Nat
  BY <1>2 DEF Lines
<1>4. tears \in Nat /\ faults \in Nat /\ None \notin Sessions
  BY AuditAssumption DEF AuditTyped
<1> QED BY <1>1, <1>2, <1>3, <1>4

LEMMA TornFinite ==
  ASSUME AuditTyped
  PROVE  Torn \subseteq 1..Len(file) /\ IsFiniteSet(Torn) /\ Cardinality(Torn) \in Nat
<1>1. Len(file) \in Int /\ 1 \in Int
  BY FileShape
<1>2. IsFiniteSet(1..Len(file))
  BY <1>1, FS_Interval
<1>3. Torn \in SUBSET (1..Len(file))
  BY DEF Torn
<1> QED BY <1>2, <1>3, FS_Subset, FS_CardinalityType

(* A line is begun behind the others, or the last one is ended.            *)
LEMMA LineBegins ==
  ASSUME AuditTyped, NEW s \in Sessions, NEW c \in Cuts, WriteFirst(s, c)
  PROVE  /\ file' \in Seq(Lines) /\ Len(file') = Len(file) + 1
         /\ \A i \in 1..Len(file) : file'[i] = file[i]
         /\ file'[Len(file) + 1] = Line(writing[s], c)
<1>1. Line(writing[s], c) \in Lines
  BY LineShape DEF AuditTyped
<1> QED BY <1>1, AppendProperties DEF WriteFirst, AuditTyped

LEMMA LineEnds ==
  ASSUME AuditTyped, Begun, NEW s \in Sessions, WriteRest(s)
  PROVE  /\ file' \in Seq(Lines) /\ Len(file') = Len(file) /\ Len(file) \in 1..Len(file)
         /\ \A i \in 1..Len(file) : i # Len(file) => file'[i] = file[i]
         /\ file'[Len(file)].of = file[Len(file)].of /\ file'[Len(file)].part = "whole"
         /\ lock = s /\ lock # None /\ file[Len(file)].of = writing[s] /\ file[Len(file)].part # "whole"
<1>1. lock = s /\ lock # None
  BY FileShape DEF WriteRest
<1>2. Len(file) \in 1..Len(file) /\ file[Len(file)].of = writing[s] /\ file[Len(file)].part # "whole"
  BY <1>1, FileShape DEF Begun
<1>3. Line(writing[s], "whole") \in Lines
  BY LineShape DEF AuditTyped
<1>4. /\ file' = [file EXCEPT ![Len(file)] = Line(writing[s], "whole")]
  BY DEF WriteRest
<1>5. /\ file' \in Seq(Lines) /\ Len(file') = Len(file)
      /\ \A j \in 1..Len(file) : file'[j] = IF j = Len(file) THEN Line(writing[s], "whole") ELSE file[j]
  BY <1>2, <1>3, <1>4, ExceptSeq DEF AuditTyped
<1> QED BY <1>1, <1>2, <1>5, LineShape

-----------------------------------------------------------------------------
LEMMA LinesInit == AuditInit => LinesInv
<1> SUFFICES ASSUME AuditInit PROVE LinesInv
  OBVIOUS
<1>1. Len(file) = 0 /\ file \in Seq(Lines) /\ Len(stamped) = 0 /\ stamped \in Seq([session : Sessions, decision : Decisions])
  BY EmptySeq DEF AuditInit
<1>2. Torn = {}
  BY <1>1 DEF Torn
<1>3. \A c \in Queries : found[c] \in Findings
  BY DEF AuditInit, Findings, NotYet, Finding
<1>4. AuditTyped
  BY <1>1, <1>3, AuditAssumption DEF AuditInit, AuditTyped
<1> QED BY <1>1, <1>2, <1>4, FS_EmptySet DEF LinesInv, Single, Begun, HasLine, TornCounted, AuditInit

(* The file, the lock and the sessions stay.                               *)
LEMMA LinesQuiet ==
  ASSUME LinesInv, UNCHANGED <<file, lock, writing, stamped, logged, tears>>,
         faults' \in 0..MaxFaults,
         asked' = [c \in Queries |-> asked'[c]], found' = [c \in Queries |-> found'[c]],
         \A c \in Queries : found'[c] \in Findings
  PROVE  LinesInv'
<1>1. AuditTyped'
  BY DEF LinesInv, AuditTyped, Entries, Findings
<1>2. Torn' = Torn
  BY DEF Torn
<1> QED BY <1>1, <1>2 DEF LinesInv, Single, Begun, HasLine, TornCounted

LEMMA MakeLines ==
  ASSUME LinesInv, NEW s \in Sessions, NEW d \in Decisions, Make(s, d)
  PROVE  LinesInv'
<1> DEFINE n == Len(stamped) + 1
<1>0. AuditTyped /\ Len(stamped) \in Nat /\ Len(file) \in Nat
  BY FileShape DEF LinesInv
<1>1. /\ stamped' \in Seq([session : Sessions, decision : Decisions]) /\ Len(stamped') = n
  BY <1>0, AppendProperties DEF Make, AuditTyped
<1>2. Entries \subseteq Entries' /\ n \notin Entries
  BY <1>0, <1>1 DEF Entries
<1>3. writing' = [writing EXCEPT ![s] = n] /\ writing[s] = 0
  BY DEF Make
<1>4. writing' \in [Sessions -> Nat] /\ writing'[s] = n /\ \A t \in Sessions \ {s} : writing'[t] = writing[t]
  BY <1>0, <1>3 DEF AuditTyped
<1>5. UNCHANGED <<file, lock, logged, tears, faults, asked, found>>
  BY DEF Make, queries
<1>6. Findings \subseteq Findings'
  BY <1>2 DEF Findings
<1>7. AuditTyped'
  <2>1. \A t \in Sessions : writing'[t] <= Len(stamped')
    <3> SUFFICES ASSUME NEW t \in Sessions PROVE writing'[t] <= Len(stamped')
      OBVIOUS
    <3>1. writing[t] \in Nat /\ writing[t] <= Len(stamped)
      BY <1>0 DEF AuditTyped
    <3>2. writing'[t] = n \/ writing'[t] = writing[t]
      BY <1>4
    <3> QED BY <1>0, <1>1, <3>1, <3>2
  <2> QED BY <1>0, <1>1, <1>2, <1>4, <1>5, <1>6, <2>1 DEF AuditTyped
<1>8. Single'
  <2>1. \A i \in 1..Len(file) : file[i].of # n
    BY <1>0, <1>2 DEF AuditTyped
  <2>2. \A t \in Sessions : writing[t] # n
    BY <1>0 DEF AuditTyped
  <2>3. \A t, u \in Sessions : writing'[t] # 0 /\ writing'[t] = writing'[u] => t = u
    BY <1>4, <2>2 DEF LinesInv, Single
  <2>4. \A t \in Sessions \ {lock} : writing'[t] # 0 => \A i \in 1..Len(file) : file[i].of # writing'[t]
    BY <1>4, <2>1 DEF LinesInv, Single
  <2> QED BY <1>5, <2>3, <2>4 DEF LinesInv, Single
<1>9. Begun'
  <2> SUFFICES ASSUME lock # None
               PROVE  /\ Len(file) > 0 /\ writing'[lock] # 0
                      /\ file[Len(file)].of = writing'[lock] /\ file[Len(file)].part # "whole"
    BY <1>5 DEF Begun
  <2>1. lock \in Sessions /\ lock # s
    BY <1>0, <1>3 DEF AuditTyped, LinesInv, Begun
  <2> QED BY <1>4, <2>1 DEF LinesInv, Begun
<1>10. HasLine' /\ TornCounted'
  <2>1. Torn' = Torn
    BY <1>5 DEF Torn
  <2> QED BY <1>5, <2>1 DEF LinesInv, HasLine, TornCounted
<1> QED BY <1>7, <1>8, <1>9, <1>10 DEF LinesInv

LEMMA WriteFirstLines ==
  ASSUME LinesInv, NEW s \in Sessions, NEW c \in Cuts, WriteFirst(s, c)
  PROVE  LinesInv'
<1> DEFINE n == Len(file) + 1
<1>0. AuditTyped /\ Len(file) \in Nat /\ lock = None /\ lock' = s /\ s # None /\ writing[s] # 0
  BY FileShape DEF LinesInv, WriteFirst
<1>1. /\ file' \in Seq(Lines) /\ Len(file') = n /\ \A i \in 1..Len(file) : file'[i] = file[i]
      /\ file'[n].of = writing[s] /\ file'[n].part = c /\ c # "whole"
  BY <1>0, LineBegins, LineShape
<1>2. UNCHANGED <<writing, stamped, logged, tears, faults, asked, found>>
  BY DEF WriteFirst, queries
<1>3. \A i \in 1..n : i \in 1..Len(file) \/ i = n
  BY <1>0
<1>4. \A i \in 1..Len(file) : file[i].of # writing[s]
  BY <1>0, FileShape DEF LinesInv, Single
<1>5. AuditTyped'
  <2>1. writing[s] \in 1..Len(stamped)
    BY <1>0, FileShape DEF AuditTyped
  <2>2. \A i \in 1..n : file'[i].of \in Entries
    BY <1>0, <1>1, <1>3, <2>1 DEF AuditTyped, Entries
  <2>3. Entries' = Entries /\ Findings' = Findings
    BY <1>2 DEF Entries, Findings
  <2> QED BY <1>0, <1>1, <1>2, <2>2, <2>3 DEF AuditTyped
<1>6. Single'
  <2>1. \A i, j \in 1..n : file'[i].of = file'[j].of => i = j
    BY <1>1, <1>3, <1>4 DEF LinesInv, Single
  <2>2. \A t, u \in Sessions : writing[t] # 0 /\ writing[t] = writing[u] => t = u
    BY DEF LinesInv, Single
  <2>3. \A t \in Sessions \ {s} : writing[t] # 0 => \A i \in 1..n : file'[i].of # writing[t]
    BY <1>0, <1>1, <1>3, <2>2, FileShape DEF LinesInv, Single
  <2> QED BY <1>0, <1>1, <1>2, <2>1, <2>2, <2>3 DEF Single
<1>7. Begun'
  BY <1>0, <1>1, <1>2 DEF Begun
<1>8. HasLine'
  <2> SUFFICES ASSUME NEW e \in logged
               PROVE  \E i \in 1..n : file'[i].of = e /\ file'[i].part = "whole"
    BY <1>1, <1>2 DEF HasLine
  <2>1. PICK i \in 1..Len(file) : file[i].of = e /\ file[i].part = "whole"
    BY DEF LinesInv, HasLine
  <2> QED BY <1>0, <1>1, <2>1
<1>9. TornCounted'
  <2>1. Torn = {i \in 1..Len(file) : file[i].part # "whole"}
    BY <1>0 DEF Torn
  <2>2. Torn' = {i \in 1..n : file'[i].part # "whole" /\ i # n}
    BY <1>0, <1>1 DEF Torn
  <2>3. Torn' = Torn
    <3> HIDE DEF n
    <3>1. \A i : i \in Torn' <=> i \in 1..n /\ file'[i].part # "whole" /\ i # n
      BY <2>2
    <3>2. \A i : i \in Torn <=> i \in 1..Len(file) /\ file[i].part # "whole"
      BY <2>1
    <3>3. \A i : i \in 1..Len(file) <=> i \in 1..n /\ i # n
      BY <1>0 DEF n
    <3> QED BY <1>1, <3>1, <3>2, <3>3
  <2> QED BY <1>2, <2>3 DEF LinesInv, TornCounted
<1> QED BY <1>5, <1>6, <1>7, <1>8, <1>9 DEF LinesInv

LEMMA WriteRestLines ==
  ASSUME LinesInv, NEW s \in Sessions, WriteRest(s)
  PROVE  LinesInv'
<1> DEFINE n == Len(file)
<1>0. AuditTyped /\ Begun /\ n \in Nat /\ lock' = None /\ s # None /\ None \notin Sessions
  BY FileShape DEF LinesInv, WriteRest
<1>1. /\ file' \in Seq(Lines) /\ Len(file') = n /\ n \in 1..n
      /\ \A i \in 1..n : i # n => file'[i] = file[i]
      /\ file'[n].of = file[n].of /\ file'[n].part = "whole"
      /\ lock = s /\ lock # None /\ file[n].of = writing[s] /\ file[n].part # "whole"
  BY <1>0, LineEnds
<1>2. /\ UNCHANGED <<stamped, tears, faults, asked, found>>
      /\ logged' = logged \cup {writing[s]} /\ writing' = [writing EXCEPT ![s] = 0]
  BY DEF WriteRest, queries
<1>3. writing' \in [Sessions -> Nat] /\ writing'[s] = 0 /\ \A t \in Sessions \ {s} : writing'[t] = writing[t]
  BY <1>0, <1>2 DEF AuditTyped
<1>4. \A i \in 1..n : file'[i].of = file[i].of
  BY <1>1
<1>5. AuditTyped'
  <2>1. writing[s] \in Entries
    BY <1>0, <1>1 DEF AuditTyped
  <2>2. \A t \in Sessions : writing'[t] <= Len(stamped)
    <3> SUFFICES ASSUME NEW t \in Sessions PROVE writing'[t] <= Len(stamped)
      OBVIOUS
    <3>1. writing[t] <= Len(stamped) /\ Len(stamped) \in Nat
      BY <1>0, FileShape DEF AuditTyped
    <3>2. writing'[t] = 0 \/ writing'[t] = writing[t]
      BY <1>3
    <3> QED BY <3>1, <3>2
  <2>3. Entries' = Entries /\ Findings' = Findings
    BY <1>2 DEF Entries, Findings
  <2> QED BY <1>0, <1>1, <1>2, <1>3, <1>4, <2>1, <2>2, <2>3 DEF AuditTyped
<1>6. Single'
  <2>1. \A t \in Sessions : writing'[t] # 0 => t # s /\ writing'[t] = writing[t]
    BY <1>3
  <2> QED BY <1>0, <1>1, <1>4, <2>1 DEF LinesInv, Single
<1>7. Begun'
  BY <1>0 DEF Begun
<1>8. HasLine'
  <2> SUFFICES ASSUME NEW e \in logged'
               PROVE  \E i \in 1..n : file'[i].of = e /\ file'[i].part = "whole"
    BY <1>1 DEF HasLine
  <2>1. CASE e = writing[s]
    BY <1>1, <2>1
  <2>2. CASE e \in logged
    <3>1. PICK i \in 1..n : file[i].of = e /\ file[i].part = "whole"
      BY <2>2 DEF LinesInv, HasLine
    <3> QED BY <1>1, <3>1
  <2> QED BY <1>2, <2>1, <2>2
<1>9. TornCounted'
  <2>1. \A i : i \in Torn <=> i \in 1..n /\ file[i].part # "whole" /\ i # n
    BY <1>1 DEF Torn
  <2>2. \A i : i \in Torn' <=> i \in 1..n /\ file'[i].part # "whole"
    BY <1>0, <1>1 DEF Torn
  <2>3. Torn' = Torn
    BY <1>1, <2>1, <2>2
  <2> QED BY <1>2, <2>3 DEF LinesInv, TornCounted
<1> QED BY <1>5, <1>6, <1>7, <1>8, <1>9 DEF LinesInv

(* The lock is given back, with its line begun and not ended.              *)
LEMMA TearLines ==
  ASSUME LinesInv, lock' = None, UNCHANGED <<file, stamped, logged, faults, found>>,
         writing' \in [Sessions -> Nat],
         \A t \in Sessions : writing'[t] # 0 => t # lock /\ writing'[t] = writing[t],
         tears' = IF lock = None THEN tears ELSE tears + 1, tears' <= MaxTears,
         asked' = [c \in Queries |-> asked'[c]]
  PROVE  LinesInv'
<1>0. AuditTyped /\ Len(file) \in Nat /\ tears \in Nat /\ tears' \in 0..MaxTears /\ Len(stamped) \in Nat
  BY FileShape, AuditAssumption DEF LinesInv, AuditTyped
<1>1. AuditTyped'
  <2>1. \A t \in Sessions : writing'[t] <= Len(stamped)
    <3> SUFFICES ASSUME NEW t \in Sessions PROVE writing'[t] <= Len(stamped)
      OBVIOUS
    <3>1. writing[t] <= Len(stamped)
      BY <1>0 DEF AuditTyped
    <3>2. writing'[t] = 0 \/ writing'[t] = writing[t]
      OBVIOUS
    <3> QED BY <1>0, <3>1, <3>2
  <2>2. Entries' = Entries /\ Findings' = Findings
    BY DEF Entries, Findings
  <2> QED BY <1>0, <2>1, <2>2 DEF AuditTyped
<1>2. Single'
  BY DEF LinesInv, Single
<1>3. Begun' /\ HasLine'
  BY DEF LinesInv, Begun, HasLine
<1>4. TornCounted'
  <2>1. \A i : i \in Torn <=> i \in 1..Len(file) /\ file[i].part # "whole" /\ ~(lock # None /\ i = Len(file))
    BY DEF Torn
  <2>2. \A i : i \in Torn' <=> i \in 1..Len(file) /\ file[i].part # "whole"
    BY DEF Torn
  <2>3. CASE lock = None
    <3>1. Torn' = Torn
      BY <2>1, <2>2, <2>3
    <3> QED BY <2>3, <3>1 DEF LinesInv, TornCounted
  <2>4. CASE lock # None
    <3>1. Len(file) \in 1..Len(file) /\ file[Len(file)].part # "whole"
      BY <1>0, <2>4 DEF LinesInv, Begun
    <3>2. Torn' = Torn \cup {Len(file)} /\ Len(file) \notin Torn
      BY <2>1, <2>2, <2>4, <3>1
    <3>3. Cardinality(Torn') = Cardinality(Torn) + 1 /\ Cardinality(Torn) \in Nat
      BY <1>0, <3>2, TornFinite, FS_AddElement
    <3>4. Cardinality(Torn) <= tears
      BY DEF LinesInv, TornCounted
    <3> QED BY <1>0, <2>4, <3>3, <3>4 DEF TornCounted
  <2> QED BY <2>3, <2>4
<1> QED BY <1>1, <1>2, <1>3, <1>4 DEF LinesInv

(* What readers make of the file is made of its lines.                     *)
LEMMA ParsedIs ==
  ASSUME NEW f \in Seq(Lines)
  PROVE  /\ Len(f) \in Nat /\ DOMAIN f = 1..Len(f)
         /\ \A i : i \in DOMAIN Parsed(f) <=> i \in 1..Len(f) /\ IsRecord(f, i)
         /\ \A i \in DOMAIN Parsed(f) : Parsed(f)[i] = f[i].of
         /\ DOMAIN Parsed(f) \subseteq Nat /\ IsFiniteSet(DOMAIN Parsed(f))
<1>1. Len(f) \in Nat /\ DOMAIN f = 1..Len(f) /\ 1 \in Int /\ Len(f) \in Int
  BY LenProperties
<1>2. IsFiniteSet(1..Len(f))
  BY <1>1, FS_Interval
<1>3. \A i : i \in DOMAIN Parsed(f) <=> i \in 1..Len(f) /\ IsRecord(f, i)
  BY <1>1 DEF Parsed
<1>4. DOMAIN Parsed(f) \in SUBSET (1..Len(f))
  BY <1>3
<1> QED BY <1>1, <1>2, <1>3, <1>4, FS_Subset DEF Parsed

(* What was logged and cannot be read was behind a line without an end.    *)
LEMMA LostBehindTears ==
  ASSUME LinesInv
  PROVE  LossBounded /\ IsFiniteSet(logged \ InTrail) /\ Cardinality(logged \ InTrail) \in Nat
<1> DEFINE L == logged \ InTrail
<1>0. AuditTyped /\ IsFiniteSet(Torn) /\ Cardinality(Torn) \in Nat
  BY TornFinite DEF LinesInv
<1>1. ASSUME NEW e \in L
      PROVE  \E i \in Torn : i + 1 \in 1..Len(file) /\ file[i + 1].of = e
  <2>1. PICK j \in 1..Len(file) : file[j].of = e /\ file[j].part = "whole"
    BY DEF LinesInv, HasLine
  <2>2. ~IsRecord(file, j)
    <3>1. ASSUME IsRecord(file, j) PROVE FALSE
      <4>1. j \in DOMAIN Trail /\ Trail[j] = e
        BY <1>0, <2>1, <3>1, ParsedIs DEF AuditTyped, Trail
      <4> QED BY <4>1 DEF InTrail, Range
    <3> QED BY <3>1
  <2>3. j # 1 /\ file[j - 1].part # "whole"
    BY <2>1, <2>2 DEF IsRecord
  <2>4. j - 1 \in 1..Len(file) /\ j - 1 # Len(file) /\ (j - 1) + 1 = j
    BY <1>0, <2>3, FileShape
  <2>5. j - 1 \in Torn
    BY <2>3, <2>4 DEF Torn
  <2> QED BY <2>1, <2>4, <2>5
<1> DEFINE h == [e \in L |-> CHOOSE i \in Torn : i + 1 \in 1..Len(file) /\ file[i + 1].of = e]
<1>2. \A e \in L : h[e] \in Torn /\ file[h[e] + 1].of = e
  BY <1>1
<1>3. h \in [L -> Torn]
  BY <1>2
<1>4. h \in Injection(L, Torn)
  <2>1. \A d, e \in L : h[d] = h[e] => d = e
    BY <1>2
  <2> HIDE DEF h
  <2> QED BY <1>3, <2>1 DEF Injection, IsInjective
<1>5. IsFiniteSet(L) /\ Cardinality(L) <= Cardinality(Torn)
  BY <1>0, <1>4, FS_Injection
<1>6. Cardinality(L) \in Nat
  BY <1>5, FS_CardinalityType
<1>7. Cardinality(Torn) <= tears /\ tears \in Nat
  BY <1>0, FileShape DEF LinesInv, TornCounted
<1> HIDE DEF L
<1>8. Cardinality(L) <= tears
  BY <1>0, <1>5, <1>6, <1>7
<1> QED BY <1>5, <1>6, <1>8 DEF L, LossBounded

(* A function that is one to one has as many values as arguments.          *)
LEMMA RangeCounted ==
  ASSUME NEW f, IsFiniteSet(DOMAIN f), \A i, j \in DOMAIN f : f[i] = f[j] => i = j
  PROVE  IsFiniteSet(Range(f)) /\ Cardinality(Range(f)) = Cardinality(DOMAIN f)
<1> DEFINE D == DOMAIN f
           R == Range(f)
           g == [i \in D |-> f[i]]
<1>1. g \in [D -> R] /\ \A i \in D : g[i] = f[i]
  BY DEF Range
<1>2. \A y \in R : \E i \in D : g[i] = y
  BY DEF Range
<1> HIDE DEF g, R
<1>3. g \in Surjection(D, R) /\ g \in Injection(D, R)
  BY <1>1, <1>2 DEF Surjection, Injection, IsInjective
<1> HIDE DEF D
<1>4. IsFiniteSet(D)
  BY DEF D
<1> QED BY <1>3, <1>4, FS_Surjection DEF D, R

LEMMA LinesReadTrail ==
  ASSUME LinesInv
  PROVE  ReadsTheTrail
<1>0. AuditTyped /\ tears \in Nat /\ IsFiniteSet(Torn) /\ Cardinality(Torn) \in Nat
  BY TornFinite, FileShape DEF LinesInv
<1> SUFFICES ASSUME NEW limit \in Limits, lock = None
             PROVE  /\ Undecodable(file) => tears > 0
                    /\ Cardinality(Range(FirstOf(Trail, limit))) <= limit
                    /\ Cardinality(Range(FirstOf(Trail, limit))) < limit
                         => Cardinality(logged \ Range(FirstOf(Trail, limit))) <= tears
  BY DEF ReadsTheTrail, Reads
<1>1. Undecodable(file) => tears > 0
  <2> SUFFICES ASSUME Undecodable(file) PROVE tears > 0
    OBVIOUS
  <2>1. PICK i \in 1..Len(file) : file[i].part = "character"
    BY <1>0, FileShape DEF Undecodable
  <2>2. i \in Torn
    BY <2>1 DEF Torn
  <2>3. Cardinality(Torn) # 0
    BY <1>0, <2>2, FS_EmptySet
  <2>4. Cardinality(Torn) <= tears
    BY DEF LinesInv, TornCounted
  <2> QED BY <1>0, <2>3, <2>4
<1> DEFINE F == FirstOf(Trail, limit)
<1>2. limit \in Nat
  BY AuditAssumption
<1>3. DOMAIN Trail \subseteq Nat /\ IsFiniteSet(DOMAIN Trail)
  BY <1>0, ParsedIs DEF Trail, AuditTyped
<1>4. /\ DOMAIN F \subseteq DOMAIN Trail /\ \A i \in DOMAIN F : F[i] = Trail[i]
      /\ Cardinality(DOMAIN F) <= limit
      /\ Cardinality(DOMAIN F) < limit => DOMAIN F = DOMAIN Trail
  BY <1>2, <1>3, FirstPart
<1>5. IsFiniteSet(DOMAIN F)
  BY <1>3, <1>4, FS_Subset
<1>6. \A i, j \in DOMAIN F : F[i] = F[j] => i = j
  <2>1. \A i \in DOMAIN Trail : i \in 1..Len(file) /\ Trail[i] = file[i].of
    BY <1>0, ParsedIs DEF Trail, AuditTyped
  <2> QED BY <1>4, <2>1 DEF LinesInv, Single
<1> HIDE DEF F
<1>7. IsFiniteSet(Range(F)) /\ Cardinality(Range(F)) = Cardinality(DOMAIN F)
  BY <1>5, <1>6, RangeCounted
<1>8. Cardinality(Range(F)) <= limit
  BY <1>4, <1>7
<1>9. ASSUME Cardinality(Range(F)) < limit PROVE Cardinality(logged \ Range(F)) <= tears
  <2>1. DOMAIN F = DOMAIN Trail
    BY <1>4, <1>7, <1>9
  <2>2. Range(F) = Range(Trail)
    BY <1>4, <2>1 DEF Range
  <2> QED BY <2>2, LostBehindTears DEF LossBounded, InTrail
<1> QED BY <1>1, <1>8, <1>9 DEF F

-----------------------------------------------------------------------------
(* A query has, of what it came past, what it was asked for, but for the   *)
(* lines that it met before their end; those were not logged when it       *)
(* began.                                                                  *)
Known(c) == asked[c].what \in Asked /\ asked[c].had \subseteq logged

PlaceTyped(c) ==
  /\ reading[c] = PlaceOf(reading[c].at, reading[c].half, reading[c].got, reading[c].met)
  /\ reading[c].at \in 0..Len(file) /\ reading[c].half \in BOOLEAN
  /\ reading[c].got \subseteq Entries /\ reading[c].met \subseteq Entries
  /\ IsFiniteSet(reading[c].got)

(* The line it is at may yet be ended, but it is known to have been met.   *)
HalfMet(c) ==
  reading[c].at > 0 /\ file[reading[c].at].part # "whole" => file[reading[c].at].of \in reading[c].met

GotInv(c) ==
  /\ Cardinality(reading[c].got) <= LimitOf(asked[c].what)
  /\ \A e \in reading[c].got : /\ Matches(e, asked[c].what)
                               /\ \E j \in 1..reading[c].at : file[j].of = e

Passed(c) ==
  \A i \in 1..reading[c].at :
    /\ i = 1 \/ file[i - 1].part = "whole"
    /\ file[i].part = "whole"
    /\ Matches(file[i].of, asked[c].what)
    => file[i].of \in reading[c].got \cup reading[c].met

MetInv(c) == \A e \in reading[c].met : e \notin asked[c].had

ReadingInv(c) ==
  /\ PlaceTyped(c) /\ HalfMet(c)
  /\ asked[c] = NotAsked => reading[c] = Opened
  /\ asked[c] # NotAsked => Known(c) /\ GotInv(c) /\ Passed(c) /\ MetInv(c)

AnswerInv(c) ==
  found[c].state = "returned" =>
    /\ asked[c] # NotAsked
    /\ found[c].entries = reading[c].got
    /\ ~found[c].cut => \A e \in asked[c].had : \E i \in 1..reading[c].at : file[i].of = e

QueriesInv ==
  /\ reading = [c \in Queries |-> reading[c]]
  /\ \A c \in Queries : ReadingInv(c) /\ AnswerInv(c)

AuditInv == LinesInv /\ QueriesInv

(* What any step does to the file and to the entries.                      *)
Grows ==
  /\ Len(file) <= Len(file')
  /\ \A i \in 1..Len(file) :
       /\ file'[i].of = file[i].of
       /\ file'[i] = file[i] \/ (i = Len(file) /\ file[i].part # "whole" /\ file'[i].part = "whole")
  /\ logged \subseteq logged'
  /\ \A e \in logged' \ logged : \E i \in 1..Len(file) : file[i].of = e /\ file[i].part # "whole"
  /\ \A e \in Entries : e \in Entries' /\ stamped'[e] = stamped[e]

LEMMA QuietGrows ==
  ASSUME LinesInv, UNCHANGED <<file, logged>>,
         stamped' = stamped \/ \A e \in Entries : e \in Entries' /\ stamped'[e] = stamped[e]
  PROVE  Grows
<1>1. Len(file) \in Nat
  BY FileShape DEF LinesInv
<1>2. \A e \in Entries : e \in Entries' /\ stamped'[e] = stamped[e]
  BY DEF Entries
<1> QED BY <1>1, <1>2 DEF Grows

LEMMA StepGrows ==
  ASSUME LinesInv, [AuditNext]_auditVars
  PROVE  Grows
<1>0. AuditTyped /\ Len(file) \in Nat /\ Len(stamped) \in Nat /\ Begun
  BY FileShape DEF LinesInv
<1>1. ASSUME NEW s \in Sessions, NEW d \in Decisions, Make(s, d) PROVE Grows
  <2>1. /\ Len(stamped') = Len(stamped) + 1 /\ \A e \in 1..Len(stamped) : stamped'[e] = stamped[e]
    BY <1>0, <1>1, AppendProperties DEF Make, AuditTyped
  <2>2. \A e \in Entries : e \in Entries' /\ stamped'[e] = stamped[e]
    BY <1>0, <2>1 DEF Entries
  <2> QED BY <1>1, <2>2, QuietGrows DEF Make
<1>2. ASSUME NEW s \in Sessions, NEW c \in Cuts, WriteFirst(s, c) PROVE Grows
  BY <1>0, <1>2, LineBegins DEF WriteFirst, Grows, Entries
<1>3. ASSUME NEW s \in Sessions, WriteRest(s) PROVE Grows
  <2>1. logged' = logged \cup {writing[s]} /\ UNCHANGED stamped
    BY <1>3 DEF WriteRest
  <2>2. /\ Len(file') = Len(file) /\ Len(file) \in 1..Len(file)
        /\ \A i \in 1..Len(file) : i # Len(file) => file'[i] = file[i]
        /\ file'[Len(file)].of = file[Len(file)].of /\ file'[Len(file)].part = "whole"
        /\ file[Len(file)].of = writing[s] /\ file[Len(file)].part # "whole"
    BY <1>0, <1>3, LineEnds
  <2> QED BY <1>0, <2>1, <2>2 DEF Grows, Entries
<1>4. ASSUME NEW s \in Sessions, OpenFails(s) \/ WriteFails(s) PROVE Grows
  BY <1>4, QuietGrows DEF OpenFails, WriteFails
<1>5. CASE Crash
  BY <1>5, QuietGrows DEF Crash
<1>6. ASSUME NEW c \in Queries, \/ \E q \in Asked : Ask(c, q)
                                \/ ReadLine(c) \/ ReadRest(c) \/ ReadRaises(c) \/ Find(c) \/ FindFails(c)
      PROVE  Grows
  BY <1>6, QuietGrows DEF Ask, ReadLine, ReadRest, ReadRaises, Find, FindFails
<1>7. CASE UNCHANGED auditVars
  BY <1>7, QuietGrows DEF auditVars
<1> QED BY <1>1, <1>2, <1>3, <1>4, <1>5, <1>6, <1>7 DEF AuditNext

(* The trail, line by line.                                                *)
TrailByLine ==
  /\ \A i : i \in DOMAIN Trail <=>
              /\ i \in 1..Len(file)
              /\ i = 1 \/ file[i - 1].part = "whole"
              /\ file[i].part = "whole" \/ (i = Len(file) /\ file[i].part = "newline")
  /\ \A i \in DOMAIN Trail : Trail[i] = file[i].of
  /\ \A e : e \in InTrail <=> \E i \in DOMAIN Trail : Trail[i] = e

LEMMA TrailIs == AuditTyped => TrailByLine
<1> SUFFICES ASSUME AuditTyped PROVE TrailByLine
  OBVIOUS
<1>1. \A i : i \in DOMAIN Trail <=> i \in 1..Len(file) /\ IsRecord(file, i)
  BY ParsedIs DEF AuditTyped, Trail
<1>2. \A i \in DOMAIN Trail : Trail[i] = file[i].of
  BY ParsedIs DEF AuditTyped, Trail
<1>3. \A e : e \in InTrail <=> \E i \in DOMAIN Trail : Trail[i] = e
  BY DEF InTrail, Range
<1> QED BY <1>1, <1>2, <1>3 DEF IsRecord, TrailByLine

LEMMA TrailIsNext == AuditTyped' => TrailByLine'
BY TrailIs, PTL

-----------------------------------------------------------------------------
(* What was logged and can be read stays so, and nothing comes before it.  *)
LEMMA TrailOnlyGrows ==
  ASSUME LinesInv, LinesInv', Grows
  PROVE  Begins(Kept, Kept')
<1>0. AuditTyped /\ AuditTyped' /\ Len(file) \in Nat /\ Len(file') \in Nat
  BY FileShape DEF LinesInv, AuditTyped
<1>1. \A i : i \in DOMAIN Kept <=> i \in DOMAIN Trail /\ Trail[i] \in logged
  BY DEF Kept, Restrict
<1>2. \A i \in DOMAIN Kept : Kept[i] = Trail[i]
  BY DEF Kept, Restrict
<1>3. \A i : i \in DOMAIN Kept' <=> i \in DOMAIN Trail' /\ Trail'[i] \in logged'
  BY DEF Kept, Restrict
<1>4. \A i \in DOMAIN Kept' : Kept'[i] = Trail'[i]
  BY DEF Kept, Restrict
<1>5. ASSUME NEW i \in DOMAIN Kept
      PROVE  i \in DOMAIN Kept' /\ Kept'[i] = Kept[i] /\ file[i].part = "whole" /\ i \in 1..Len(file)
  <2>1. /\ i \in 1..Len(file) /\ Kept[i] = file[i].of /\ file[i].of \in logged
        /\ i = 1 \/ file[i - 1].part = "whole"
    BY <1>0, <1>1, <1>2, <1>5, TrailIs DEF TrailByLine
  <2>2. file[i].part = "whole"
    BY <2>1 DEF LinesInv, HasLine, Single
  <2>3. file'[i] = file[i] /\ i \in 1..Len(file')
    BY <1>0, <2>1, <2>2 DEF Grows
  <2>4. i = 1 \/ file'[i - 1].part = "whole"
    <3>1. i # 1 => i - 1 \in 1..Len(file)
      BY <1>0, <2>1
    <3> QED BY <2>1, <3>1 DEF Grows
  <2>5. i \in DOMAIN Trail' /\ Trail'[i] = file'[i].of
    BY <1>0, <2>2, <2>3, <2>4, TrailIsNext DEF TrailByLine
  <2>6. Trail'[i] \in logged'
    BY <2>1, <2>3, <2>5 DEF Grows
  <2> QED BY <1>3, <1>4, <2>1, <2>2, <2>3, <2>5, <2>6
<1>6. ASSUME NEW i \in DOMAIN Kept, NEW j \in DOMAIN Kept' \ DOMAIN Kept PROVE i < j
  <2>1. i \in 1..Len(file) /\ file[i].part = "whole"
    BY <1>5
  <2>2. /\ j \in 1..Len(file') /\ file'[j].of \in logged'
        /\ j = 1 \/ file'[j - 1].part = "whole"
    BY <1>0, <1>3, <1>6, TrailIsNext DEF TrailByLine
  <2>3. file'[j].part = "whole"
    BY <2>2 DEF LinesInv, HasLine, Single
  <2>4. CASE j > Len(file)
    BY <1>0, <2>1, <2>2, <2>4
  <2>5. CASE j \in 1..Len(file) /\ file[j].part # "whole"
    BY <1>0, <2>1, <2>3, <2>5 DEF Grows
  <2>6. CASE j \in 1..Len(file) /\ file[j].part = "whole"
    <3>1. file'[j].of = file[j].of
      BY <2>6 DEF Grows
    <3>2. file[j].of \in logged
      BY <2>2, <2>6, <3>1 DEF Grows, LinesInv, Single
    <3>3. j = 1 \/ file[j - 1].part = "whole"
      <4>1. j # 1 => j - 1 \in 1..Len(file) /\ j - 1 # Len(file)
        BY <1>0, <2>6
      <4> QED BY <2>2, <4>1 DEF Grows
    <3>4. j \in DOMAIN Trail /\ Trail[j] = file[j].of
      BY <1>0, <2>6, <3>3, TrailIs DEF TrailByLine
    <3> QED BY <1>1, <1>6, <3>2, <3>4
  <2> QED BY <1>0, <2>2, <2>4, <2>5, <2>6
<1> QED BY <1>5, <1>6 DEF Begins

-----------------------------------------------------------------------------
LEMMA FindingIs ==
  ASSUME NEW state \in {"none", "returned", "raised", "gave_up"}, NEW e \in SUBSET Entries, NEW b \in BOOLEAN
  PROVE  /\ Finding(state, e, b) \in Findings /\ Finding(state, e, b).state = state
         /\ Finding(state, e, b).entries = e /\ Finding(state, e, b).cut = b
BY DEF Finding, Findings

(* What a query asks for stays the same while the trail grows.             *)
LEMMA MatchesKept ==
  ASSUME Grows, NEW c \in Queries, asked'[c] = asked[c], NEW e \in Entries
  PROVE  Matches(e, asked[c].what)' <=> Matches(e, asked[c].what)
<1>1. stamped'[e] = stamped[e]
  BY DEF Grows
<1> QED BY <1>1 DEF Matches

LEMMA OpenedIs ==
  Opened.at = 0 /\ Opened.half = FALSE /\ Opened.got = {} /\ Opened.met = {}
BY DEF Opened, PlaceOf

LEMMA LimitIs ==
  ASSUME NEW q \in Asked
  PROVE  LimitOf(q) \in Nat /\ LimitOf(q) <= MaxResults
BY AuditAssumption DEF LimitOf

(* A query that has read nothing yet.                                      *)
LEMMA NothingRead ==
  ASSUME AuditTyped', NEW c \in Queries, reading'[c] = Opened,
         asked'[c] = NotAsked \/ Known(c)'
  PROVE  ReadingInv(c)'
<1>1. /\ reading'[c].at = 0 /\ reading'[c].half = FALSE /\ reading'[c].got = {} /\ reading'[c].met = {}
      /\ reading'[c] = PlaceOf(reading'[c].at, reading'[c].half, reading'[c].got, reading'[c].met)
  BY OpenedIs DEF Opened
<1>2. Len(file') \in Nat
  BY LenProperties DEF AuditTyped
<1>3. PlaceTyped(c)'
  <2>1. IsFiniteSet({})
    BY FS_EmptySet
  <2>2. reading'[c].at \in 0..Len(file')
    BY <1>1, <1>2
  <2> QED BY <1>1, <2>1, <2>2, Zenon DEF PlaceTyped
<1>4. HalfMet(c)' /\ Passed(c)' /\ MetInv(c)'
  BY <1>1 DEF HalfMet, Passed, MetInv
<1>5. Known(c)' => GotInv(c)'
  <2> SUFFICES ASSUME asked'[c].what \in Asked PROVE GotInv(c)'
    BY DEF Known
  <2>1. LimitOf(asked'[c].what) \in Nat /\ Cardinality({}) = 0
    BY LimitIs, FS_EmptySet
  <2>2. LimitOf(asked[c].what)' = LimitOf(asked'[c].what)
    BY DEF LimitOf
  <2> QED BY <1>1, <2>1, <2>2 DEF GotInv
<1> QED BY <1>3, <1>4, <1>5 DEF ReadingInv

(* What a query has read stays so while the file grows.                    *)
LEMMA ReadingKept ==
  ASSUME LinesInv, LinesInv', Grows, NEW c \in Queries, ReadingInv(c),
         asked'[c] = asked[c], reading'[c] = reading[c]
  PROVE  ReadingInv(c)'
<1> DEFINE r == reading[c]
<1>0. AuditTyped /\ AuditTyped' /\ Len(file) \in Nat /\ Len(file') \in Nat
  BY FileShape DEF LinesInv, AuditTyped
<1>1. PlaceTyped(c) /\ HalfMet(c) /\ r.at \in 0..Len(file)
  BY DEF ReadingInv, PlaceTyped
<1>2. \A i \in 1..r.at : i \in 1..Len(file) /\ i \in 1..Len(file') /\ file[i].of \in Entries
  BY <1>0, <1>1 DEF Grows, AuditTyped
<1>7. \A e \in Entries : Matches(e, asked[c].what)' <=> Matches(e, asked[c].what)
  BY MatchesKept
<1>3. PlaceTyped(c)'
  BY <1>0, <1>1 DEF PlaceTyped, Grows
<1>4. HalfMet(c)'
  <2> SUFFICES ASSUME r.at > 0, file'[r.at].part # "whole" PROVE file'[r.at].of \in r.met
    BY DEF HalfMet
  <2>1. r.at \in 1..Len(file)
    BY <1>0, <1>1
  <2>2. file'[r.at].of = file[r.at].of /\ file[r.at].part # "whole"
    BY <2>1 DEF Grows
  <2> QED BY <1>1, <2>2 DEF HalfMet
<1>5. ASSUME asked[c] # NotAsked PROVE (Known(c) /\ GotInv(c) /\ Passed(c) /\ MetInv(c))'
  <2>0. Known(c) /\ GotInv(c) /\ Passed(c) /\ MetInv(c)
    BY <1>5 DEF ReadingInv
  <2>1. Known(c)'
    BY <2>0 DEF Known, Grows
  <2>2. GotInv(c)'
    <3>1. LimitOf(asked[c].what)' = LimitOf(asked[c].what)
      BY DEF LimitOf
    <3>2. ASSUME NEW e \in r.got
          PROVE  Matches(e, asked[c].what)' /\ \E j \in 1..r.at : file'[j].of = e
      <4>1. e \in Entries
        BY <1>1 DEF PlaceTyped
      <4>2. Matches(e, asked[c].what) /\ \E j \in 1..r.at : file[j].of = e
        BY <2>0 DEF GotInv
      <4>3. PICK j \in 1..r.at : file[j].of = e
        BY <4>2
      <4>4. file'[j].of = e
        BY <1>2, <4>3 DEF Grows
      <4>5. Matches(e, asked[c].what)'
        BY <4>1, <4>2, MatchesKept
      <4> QED BY <4>4, <4>5
    <3> QED BY <2>0, <3>1, <3>2 DEF GotInv
  <2>3. Passed(c)'
    <3>0. \A i \in 1..r.at : i \in 1..Len(file) /\ file[i].of \in Entries /\ file'[i].of = file[i].of
      BY <1>2 DEF Grows
    <3> SUFFICES ASSUME NEW i \in 1..r.at, i = 1 \/ file'[i - 1].part = "whole",
                        file'[i].part = "whole", Matches(file[i].of, asked[c].what)
                 PROVE  file[i].of \in r.got \cup r.met
      BY <1>7, <3>0 DEF Passed
    <3>1. i \in 1..Len(file) /\ file'[i].of = file[i].of
      BY <3>0
    <3>2. Matches(file[i].of, asked[c].what)
      OBVIOUS
    <3>3. i = 1 \/ file[i - 1].part = "whole"
      <4>1. i # 1 => i - 1 \in 1..Len(file) /\ i - 1 # Len(file)
        BY <1>0, <3>1
      <4> QED BY <4>1 DEF Grows
    <3>4. CASE file[i].part = "whole"
      BY <2>0, <3>1, <3>2, <3>3, <3>4 DEF Passed
    <3>5. CASE file[i].part # "whole"
      <4>1. i = Len(file)
        BY <3>1, <3>5 DEF Grows
      <4>2. i = r.at /\ r.at > 0
        BY <1>0, <1>1, <4>1
      <4> QED BY <1>1, <3>1, <3>5, <4>2 DEF HalfMet
    <3> QED BY <3>4, <3>5
  <2>4. MetInv(c)'
    BY <2>0 DEF MetInv
  <2> QED BY <2>1, <2>2, <2>3, <2>4
<1>6. asked'[c] = NotAsked => reading'[c] = Opened
  BY DEF ReadingInv
<1> QED BY <1>3, <1>4, <1>5, <1>6 DEF ReadingInv

LEMMA AnswerKept ==
  ASSUME LinesInv, Grows, NEW c \in Queries, ReadingInv(c), AnswerInv(c),
         found'[c] = found[c], asked'[c] = asked[c], reading'[c] = reading[c]
  PROVE  AnswerInv(c)'
<1>1. Len(file) \in Nat /\ \A i \in 1..reading[c].at : i \in 1..Len(file)
  BY FileShape DEF LinesInv, ReadingInv, PlaceTyped
<1>2. \A i \in 1..reading[c].at : file'[i].of = file[i].of
  BY <1>1 DEF Grows
<1> QED BY <1>2 DEF AnswerInv

(* One more line of the text: the one line that may be a record is the     *)
(* last.                                                                   *)
LEMMA LineRead ==
  ASSUME LinesInv, NEW c \in Queries, reading = [d \in Queries |-> reading[d]],
         ReadingInv(c), ReadLine(c)
  PROVE  ReadingInv(c)'
<1> DEFINE r == reading[c]
<1>0. AuditTyped /\ Len(file) \in Nat /\ PlaceTyped(c) /\ HalfMet(c) /\ r.at \in Nat
      /\ UNCHANGED <<file, lock, writing, stamped, logged, tears, faults, asked, found>>
  BY FileShape DEF LinesInv, ReadingInv, PlaceTyped, ReadLine
<1>1. asked[c] # NotAsked /\ Known(c) /\ GotInv(c) /\ Passed(c) /\ MetInv(c) /\ ~Enough(c)
  BY DEF ReadLine, InQuery, ReadingInv
<1>2. PICK j \in Ahead(c, Len(file)) :
        /\ EndsAt(c, j)
        /\ reading' = [reading EXCEPT ![c] = PlaceOf(j, file[j].part # "whole",
             IF IsAlone(c, j) /\ Matches(file[j].of, asked[c].what) THEN r.got \cup {file[j].of} ELSE r.got,
             IF file[j].part = "whole" THEN r.met ELSE r.met \cup {file[j].of})]
  BY DEF ReadLine
<1> DEFINE e == file[j].of
           hits == IF IsAlone(c, j) /\ Matches(e, asked[c].what) THEN r.got \cup {e} ELSE r.got
           met == IF file[j].part = "whole" THEN r.met ELSE r.met \cup {e}
<1>3. /\ reading'[c].at = j /\ reading'[c].half = (file[j].part # "whole")
      /\ reading'[c].got = hits /\ reading'[c].met = met
      /\ reading'[c] = PlaceOf(reading'[c].at, reading'[c].half, reading'[c].got, reading'[c].met)
  <2>1. reading'[c] = PlaceOf(j, file[j].part # "whole", hits, met)
    BY <1>2
  <2> HIDE DEF hits, met
  <2> QED BY <2>1 DEF PlaceOf
<1>4. /\ j \in 1..Len(file) /\ r.at < j /\ e \in Entries
      /\ file[j].part = "whole" \/ j = Len(file)
      /\ \A i \in (r.at + 1)..(j - 1) : file[i].part # "whole"
  BY <1>0, <1>2 DEF Ahead, EndsAt, AuditTyped
<1>5. r.got \subseteq Entries /\ r.met \subseteq Entries /\ IsFiniteSet(r.got)
  BY <1>0 DEF PlaceTyped
<1>6. /\ hits \subseteq Entries /\ IsFiniteSet(hits)
      /\ Cardinality(hits) <= LimitOf(asked[c].what)
  <2>1. LimitOf(asked[c].what) \in Nat /\ Cardinality(r.got) \in Nat
    BY <1>1, <1>5, LimitIs, FS_CardinalityType DEF Known
  <2>2. Cardinality(r.got) < LimitOf(asked[c].what)
    BY <1>1, <2>1 DEF Enough
  <2>3. /\ IsFiniteSet(r.got \cup {e})
        /\ Cardinality(r.got \cup {e}) <= Cardinality(r.got) + 1
    <3> HIDE DEF e, r
    <3>1. /\ IsFiniteSet(r.got \cup {e})
          /\ Cardinality(r.got \cup {e}) =
               IF e \in r.got THEN Cardinality(r.got) ELSE Cardinality(r.got) + 1
      BY <1>5, FS_AddElement
    <3> QED BY <2>1, <3>1
  <2>4. Cardinality(r.got \cup {e}) \in Nat
    BY <2>3, FS_CardinalityType
  <2> QED BY <1>4, <1>5, <2>1, <2>2, <2>3, <2>4
<1>7. PlaceTyped(c)'
  <2>1. met \subseteq Entries /\ (file[j].part # "whole") \in BOOLEAN /\ j \in 0..Len(file)
    BY <1>0, <1>4, <1>5
  <2>2. Entries' = Entries /\ file' = file
    BY <1>0 DEF Entries
  <2> HIDE DEF hits, met
  <2> QED BY <1>3, <1>6, <2>1, <2>2 DEF PlaceTyped
<1>8. HalfMet(c)'
  BY <1>0, <1>3 DEF HalfMet
<1>9. Known(c)'
  BY <1>0, <1>1 DEF Known
<1>10. \A d \in Entries : Matches(d, asked[c].what)' <=> Matches(d, asked[c].what)
  BY <1>0 DEF Matches
<1>11. GotInv(c)'
  <2>1. LimitOf(asked[c].what)' = LimitOf(asked[c].what)
    BY <1>0 DEF LimitOf
  <2>2. ASSUME NEW d \in hits PROVE Matches(d, asked[c].what)' /\ \E i \in 1..j : file'[i].of = d
    <3>1. CASE d = e /\ Matches(e, asked[c].what)
      <4>1. j \in 1..j
        BY <1>4
      <4> QED BY <1>0, <1>4, <1>10, <3>1, <4>1
    <3>2. CASE d \in r.got
      <4>1. Matches(d, asked[c].what) /\ \E i \in 1..r.at : file[i].of = d
        BY <1>1, <3>2 DEF GotInv
      <4>2. PICK i \in 1..r.at : file[i].of = d
        BY <4>1
      <4>3. i \in 1..j
        BY <1>0, <1>4
      <4> QED BY <1>0, <1>5, <1>10, <3>2, <4>1, <4>2, <4>3
    <3> QED BY <2>2, <3>1, <3>2
  <2> HIDE DEF hits
  <2> QED BY <1>3, <1>6, <2>1, <2>2 DEF GotInv
<1>12. Passed(c)'
  <2> SUFFICES ASSUME NEW i \in 1..j, i = 1 \/ file[i - 1].part = "whole", file[i].part = "whole",
                      Matches(file[i].of, asked[c].what)
               PROVE  file[i].of \in hits \cup met
    <3>1. \A i \in 1..j : file[i].of \in Entries
      BY <1>0, <1>4 DEF AuditTyped
    <3> HIDE DEF hits, met
    <3> QED BY <1>0, <1>3, <1>10, <3>1 DEF Passed
  <2>1. CASE i <= r.at
    <3>1. i \in 1..r.at
      BY <1>0, <2>1
    <3>2. file[i].of \in r.got \cup r.met
      BY <1>1, <3>1 DEF Passed
    <3> QED BY <3>2
  <2>2. CASE i > r.at
    <3>1. i = j
      <4>1. i < j => i \in (r.at + 1)..(j - 1)
        BY <1>0, <1>4, <2>2
      <4> QED BY <1>4, <4>1
    <3>2. j = r.at + 1
      <4> SUFFICES ASSUME j # r.at + 1 PROVE FALSE
        OBVIOUS
      <4>1. j - 1 \in (r.at + 1)..(j - 1) /\ j # 1
        BY <1>0, <1>4
      <4> QED BY <1>4, <3>1, <4>1
    <3>3. IsAlone(c, j) /\ Matches(e, asked[c].what)
      BY <3>1, <3>2 DEF IsAlone
    <3> QED BY <3>1, <3>3
  <2> QED BY <1>0, <2>1, <2>2
<1>13. MetInv(c)'
  <2>1. file[j].part # "whole" => e \notin asked[c].had
    <3> SUFFICES ASSUME file[j].part # "whole", e \in logged PROVE FALSE
      BY <1>1 DEF Known
    <3>1. PICK k \in 1..Len(file) : file[k].of = e /\ file[k].part = "whole"
      BY DEF LinesInv, HasLine
    <3> QED BY <1>4, <3>1 DEF LinesInv, Single
  <2>2. \A d \in met : d \notin asked[c].had
    BY <1>1, <2>1 DEF MetInv
  <2> HIDE DEF met
  <2> QED BY <1>0, <1>3, <2>2 DEF MetInv
<1>14. asked'[c] # NotAsked
  BY <1>0, <1>1
<1> QED BY <1>7, <1>8, <1>9, <1>11, <1>12, <1>13, <1>14 DEF ReadingInv

(* The rest of a line changes nothing but where the query is in it.        *)
LEMMA RestRead ==
  ASSUME LinesInv, NEW c \in Queries, reading = [d \in Queries |-> reading[d]],
         ReadingInv(c), ReadRest(c)
  PROVE  ReadingInv(c)'
<1>1. asked[c] # NotAsked /\ PlaceTyped(c) /\ HalfMet(c) /\ Known(c) /\ GotInv(c) /\ Passed(c) /\ MetInv(c)
  BY DEF ReadRest, InQuery, ReadingInv
<1>2. UNCHANGED <<file, stamped, logged, asked>>
  BY DEF ReadRest
<1>3. /\ reading'[c].at = reading[c].at /\ reading'[c].got = reading[c].got
      /\ reading'[c].met = reading[c].met /\ reading'[c].half \in BOOLEAN
      /\ reading'[c] = PlaceOf(reading'[c].at, reading'[c].half, reading'[c].got, reading'[c].met)
  <2>1. reading'[c] = [reading[c] EXCEPT !.half = FALSE]
    BY DEF ReadRest
  <2>2. reading[c] = PlaceOf(reading[c].at, reading[c].half, reading[c].got, reading[c].met)
    BY <1>1 DEF PlaceTyped
  <2> QED BY <2>1, <2>2 DEF PlaceOf
<1>4. Entries' = Entries
  BY <1>2 DEF Entries
<1>5. PlaceTyped(c)' /\ HalfMet(c)'
  BY <1>1, <1>2, <1>3, <1>4 DEF PlaceTyped, HalfMet
<1>6. Known(c)' /\ MetInv(c)'
  BY <1>1, <1>2, <1>3 DEF Known, MetInv
<1>7. GotInv(c)' /\ Passed(c)'
  BY <1>1, <1>2, <1>3 DEF GotInv, Passed, Matches, LimitOf
<1> QED BY <1>1, <1>2, <1>5, <1>6, <1>7 DEF ReadingInv

(* A query that ends.                                                      *)
LEMMA FindAnswers ==
  ASSUME LinesInv, NEW c \in Queries, ReadingInv(c), Find(c)
  PROVE  /\ Results(reading[c].got, asked[c].what) \in Findings
         /\ AnswerInv(c)'
<1> DEFINE r == reading[c]
           q == asked[c].what
           b == Cardinality(r.got) >= LimitOf(q)
<1>0. /\ AuditTyped /\ Len(file) \in Nat /\ PlaceTyped(c) /\ asked[c] # NotAsked /\ Known(c)
      /\ UNCHANGED <<file, stamped, logged, asked, reading>>
      /\ Enough(c) \/ r.at = Len(file)
      /\ found' = [found EXCEPT ![c] = Results(r.got, q)]
  BY FileShape DEF LinesInv, ReadingInv, Find, InQuery
<1>1. /\ Results(r.got, q) \in Findings /\ Results(r.got, q).state = "returned"
      /\ Results(r.got, q).entries = r.got /\ Results(r.got, q).cut = b
  <2>1. r.got \in SUBSET Entries /\ b \in BOOLEAN
    BY <1>0 DEF PlaceTyped
  <2>2. Results(r.got, q) = Finding("returned", r.got, b)
    BY DEF Results
  <2> HIDE DEF b
  <2> QED BY <2>1, <2>2, FindingIs
<1>2. found'[c] = Results(r.got, q)
  BY <1>0 DEF AuditTyped
<1>3. ASSUME ~b, NEW e \in asked[c].had PROVE \E i \in 1..r.at : file[i].of = e
  <2>1. r.at = Len(file)
    BY <1>0, <1>3 DEF Enough
  <2>2. e \in logged
    BY <1>0 DEF Known
  <2> QED BY <2>1, <2>2 DEF LinesInv, HasLine
<1> HIDE DEF b
<1> QED BY <1>0, <1>1, <1>2, <1>3 DEF AnswerInv

-----------------------------------------------------------------------------
LEMMA AuditInvInit == AuditInit => AuditInv
<1> SUFFICES ASSUME AuditInit PROVE AuditInv
  OBVIOUS
<1>1. LinesInv
  BY LinesInit
<1>2. \A c \in Queries : asked[c] = NotAsked /\ found[c].state = "none" /\ reading[c] = Opened
  BY DEF AuditInit, NotYet, Finding
<1>3. \A c \in Queries : found[c].state # "returned"
  BY <1>2
<1>4. reading = [c \in Queries |-> reading[c]]
  BY DEF AuditInit
<1>5. ASSUME NEW c \in Queries PROVE ReadingInv(c)
  <2>1. /\ reading[c].at = 0 /\ reading[c].half = FALSE /\ reading[c].got = {} /\ reading[c].met = {}
        /\ reading[c] = PlaceOf(reading[c].at, reading[c].half, reading[c].got, reading[c].met)
    BY <1>2, OpenedIs DEF Opened
  <2>2. Len(file) \in Nat
    BY <1>1, FileShape DEF LinesInv
  <2>3. IsFiniteSet({})
    BY FS_EmptySet
  <2>4. reading[c].at \in 0..Len(file)
    BY <2>1, <2>2
  <2>5. PlaceTyped(c)
    BY <2>1, <2>3, <2>4, Zenon DEF PlaceTyped
  <2> QED BY <1>2, <2>1, <2>5 DEF ReadingInv, HalfMet
<1> QED BY <1>1, <1>3, <1>4, <1>5 DEF AuditInv, QueriesInv, AnswerInv

LEMMA ErrorIs == Error \in Findings /\ Error.state = "raised"
<1>1. FALSE \in BOOLEAN /\ {} \in SUBSET Entries /\ "raised" \in {"none", "returned", "raised", "gave_up"}
  OBVIOUS
<1> QED BY <1>1, FindingIs, Zenon DEF Error

LEMMA OpenFailsLines ==
  ASSUME LinesInv, NEW s \in Sessions, OpenFails(s)
  PROVE  LinesInv'
<1>0. AuditTyped /\ lock = None /\ faults \in Nat /\ tears \in Nat /\ MaxFaults \in Nat /\ Len(stamped) \in Nat
  BY FileShape, AuditAssumption DEF LinesInv, OpenFails
<1>1. /\ writing' = [writing EXCEPT ![s] = 0] /\ UNCHANGED <<file, lock, stamped, logged, tears, asked, found>>
      /\ faults' \in 0..MaxFaults
  BY <1>0 DEF OpenFails, queries
<1>2. writing' \in [Sessions -> Nat] /\ \A t \in Sessions : writing'[t] # 0 => writing'[t] = writing[t]
  BY <1>0, <1>1 DEF AuditTyped
<1>3. \A t \in Sessions : writing'[t] <= Len(stamped)
  <2> SUFFICES ASSUME NEW t \in Sessions PROVE writing'[t] <= Len(stamped)
    OBVIOUS
  <2>1. writing[t] <= Len(stamped)
    BY <1>0 DEF AuditTyped
  <2>2. writing'[t] = 0 \/ writing'[t] = writing[t]
    BY <1>2
  <2> QED BY <1>0, <2>1, <2>2
<1>4. Entries' = Entries /\ Findings' = Findings
  BY <1>1 DEF Entries, Findings
<1>5. AuditTyped'
  BY <1>0, <1>1, <1>2, <1>3, <1>4 DEF AuditTyped
<1>6. Torn' = Torn
  BY <1>1 DEF Torn
<1>7. Single'
  BY <1>1, <1>2 DEF LinesInv, Single
<1> QED BY <1>0, <1>1, <1>5, <1>6, <1>7 DEF LinesInv, Begun, HasLine, TornCounted

LEMMA LinesNext ==
  ASSUME AuditInv, [AuditNext]_auditVars
  PROVE  LinesInv'
<1>0. LinesInv /\ AuditTyped /\ tears \in Nat /\ faults \in Nat /\ MaxFaults \in Nat /\ MaxTears \in Nat
      /\ None \notin Sessions
  BY FileShape, AuditAssumption DEF AuditInv, LinesInv
<1>1. ASSUME NEW s \in Sessions, NEW d \in Decisions, Make(s, d) PROVE LinesInv'
  BY <1>0, <1>1, MakeLines
<1>2. ASSUME NEW s \in Sessions, NEW c \in Cuts, WriteFirst(s, c) PROVE LinesInv'
  BY <1>0, <1>2, WriteFirstLines
<1>3. ASSUME NEW s \in Sessions, WriteRest(s) PROVE LinesInv'
  BY <1>0, <1>3, WriteRestLines
<1>4. ASSUME NEW s \in Sessions, OpenFails(s) PROVE LinesInv'
  BY <1>0, <1>4, OpenFailsLines
<1>5. ASSUME NEW s \in Sessions, WriteFails(s) PROVE LinesInv'
  <2>1. lock = s /\ lock # None /\ lock' = None /\ tears' = tears + 1 /\ tears' <= MaxTears
    BY <1>0, <1>5 DEF WriteFails
  <2>2. writing' = [writing EXCEPT ![s] = 0] /\ UNCHANGED <<file, stamped, logged, faults, asked, found>>
    BY <1>5 DEF WriteFails, queries
  <2>3. writing' \in [Sessions -> Nat] /\ \A t \in Sessions : writing'[t] # 0 => t # s /\ writing'[t] = writing[t]
    BY <1>0, <2>2 DEF AuditTyped
  <2>4. asked' = [c \in Queries |-> asked'[c]]
    BY <1>0, <2>2 DEF AuditTyped
  <2> QED BY <1>0, <2>1, <2>2, <2>3, <2>4, TearLines
<1>6. CASE Crash
  <2>1. /\ lock' = None /\ tears' = IF lock = None THEN tears ELSE tears + 1
        /\ UNCHANGED <<file, stamped, logged, faults, found>> /\ \A t \in Sessions : writing'[t] = 0
        /\ writing' \in [Sessions -> Nat]
    BY <1>6 DEF Crash
  <2>2. tears' <= MaxTears
    BY <1>0, <1>6 DEF Crash, AuditTyped
  <2>3. asked' = [c \in Queries |-> asked'[c]]
    BY <1>6 DEF Crash
  <2> QED BY <1>0, <2>1, <2>2, <2>3, TearLines
<1>7. ASSUME NEW c \in Queries, NEW q \in Asked, Ask(c, q) PROVE LinesInv'
  <2>1. UNCHANGED <<file, lock, writing, stamped, logged, tears, faults>>
    BY <1>7 DEF Ask
  <2>2. Error \in Findings
    BY ErrorIs
  <2>3. \/ found' = [found EXCEPT ![c] = Error] /\ asked' = asked
        \/ found' = found /\ asked' = [asked EXCEPT ![c] = [what |-> q, had |-> logged]]
    BY <1>7 DEF Ask
  <2>4. /\ found' = [d \in Queries |-> found'[d]] /\ asked' = [d \in Queries |-> asked'[d]]
        /\ \A d \in Queries : found'[d] \in Findings
    BY <1>0, <2>2, <2>3 DEF AuditTyped
  <2> QED BY <1>0, <2>1, <2>4, LinesQuiet DEF AuditTyped
<1>8. ASSUME NEW c \in Queries, Find(c) \/ ReadRaises(c) PROVE LinesInv'
  <2>1. UNCHANGED <<file, lock, writing, stamped, logged, tears, faults, asked>>
    BY <1>8 DEF Find, ReadRaises
  <2>2. PICK r \in Findings : found' = [found EXCEPT ![c] = r]
    <3>1. CASE Find(c)
      <4>1. Results(reading[c].got, asked[c].what) \in Findings
        BY <1>0, <3>1, FindAnswers DEF AuditInv, QueriesInv
      <4> QED BY <3>1, <4>1 DEF Find
    <3>2. CASE ReadRaises(c)
      BY <3>2, ErrorIs DEF ReadRaises
    <3> QED BY <1>8, <3>1, <3>2
  <2>4. found' = [d \in Queries |-> found'[d]] /\ \A d \in Queries : found'[d] \in Findings
    BY <1>0, <2>2 DEF AuditTyped
  <2> QED BY <1>0, <2>1, <2>4, LinesQuiet DEF AuditTyped
<1>9. ASSUME NEW c \in Queries, FindFails(c) PROVE LinesInv'
  <2>1. UNCHANGED <<file, lock, writing, stamped, logged, tears, asked>> /\ faults' \in 0..MaxFaults
    BY <1>0, <1>9 DEF FindFails
  <2>2. Finding("gave_up", {}, FALSE) \in Findings
    <3>1. FALSE \in BOOLEAN /\ {} \in SUBSET Entries /\ "gave_up" \in {"none", "returned", "raised", "gave_up"}
      OBVIOUS
    <3> QED BY <3>1, FindingIs, Zenon
  <2>3. found' = [found EXCEPT ![c] = Finding("gave_up", {}, FALSE)]
    BY <1>9 DEF FindFails
  <2>4. found' = [d \in Queries |-> found'[d]] /\ \A d \in Queries : found'[d] \in Findings
    BY <1>0, <2>2, <2>3 DEF AuditTyped
  <2> QED BY <1>0, <2>1, <2>4, LinesQuiet DEF AuditTyped
<1>10. CASE UNCHANGED auditVars
  BY <1>0, <1>10, LinesQuiet DEF auditVars, AuditTyped
<1>11. ASSUME NEW c \in Queries, ReadLine(c) \/ ReadRest(c) PROVE LinesInv'
  <2>1. UNCHANGED <<file, lock, writing, stamped, logged, tears, faults, asked, found>>
    BY <1>11 DEF ReadLine, ReadRest
  <2> QED BY <1>0, <2>1, LinesQuiet DEF AuditTyped
<1> QED BY <1>1, <1>2, <1>3, <1>4, <1>5, <1>6, <1>7, <1>8, <1>9, <1>10, <1>11 DEF AuditNext

(* What a step may do to a query.                                          *)
LEMMA QuerySteps ==
  ASSUME AuditInv, [AuditNext]_auditVars, NEW c \in Queries
  PROVE  \/ UNCHANGED <<asked[c], reading[c], found[c]>>
         \/ asked'[c] = NotAsked /\ reading'[c] = Opened /\ found'[c].state = "none"
         \/ \E q \in Asked : Ask(c, q)
         \/ ReadLine(c) \/ ReadRest(c) \/ ReadRaises(c) \/ Find(c) \/ FindFails(c)
<1>0. AuditTyped /\ reading = [d \in Queries |-> reading[d]]
  BY DEF AuditInv, LinesInv, QueriesInv
<1>1. CASE Crash
  <2>1. /\ asked'[c] = (IF found[c] = NotYet THEN NotAsked ELSE asked[c]) /\ found' = found
        /\ reading'[c] = (IF found[c] = NotYet THEN Opened ELSE reading[c])
    BY <1>1 DEF Crash
  <2> QED BY <2>1 DEF NotYet, Finding
<1>2. ASSUME NEW d \in Queries, d # c, \E q \in Asked : Ask(d, q)
      PROVE  UNCHANGED <<asked[c], reading[c], found[c]>>
  BY <1>0, <1>2 DEF Ask, AuditTyped
<1>3. ASSUME NEW d \in Queries, d # c, ReadLine(d) \/ ReadRest(d)
      PROVE  UNCHANGED <<asked[c], reading[c], found[c]>>
  BY <1>0, <1>3 DEF ReadLine, ReadRest, AuditTyped
<1>4. ASSUME NEW d \in Queries, d # c, ReadRaises(d) \/ Find(d) \/ FindFails(d)
      PROVE  UNCHANGED <<asked[c], reading[c], found[c]>>
  BY <1>0, <1>4 DEF ReadRaises, Find, FindFails, AuditTyped
<1>5. ASSUME NEW s \in Sessions,
             \/ \E d \in Decisions : Make(s, d)
             \/ \E k \in Cuts : WriteFirst(s, k)
             \/ WriteRest(s) \/ OpenFails(s) \/ WriteFails(s)
      PROVE  UNCHANGED <<asked[c], reading[c], found[c]>>
  BY <1>5 DEF Make, WriteFirst, WriteRest, OpenFails, WriteFails, queries
<1>6. CASE UNCHANGED auditVars
  BY <1>6 DEF auditVars
<1> QED BY <1>1, <1>2, <1>3, <1>4, <1>5, <1>6 DEF AuditNext

LEMMA AuditInvNext ==
  ASSUME AuditInv, [AuditNext]_auditVars
  PROVE  AuditInv'
<1>0. LinesInv /\ LinesInv' /\ Grows /\ AuditTyped /\ AuditTyped'
      /\ reading = [c \in Queries |-> reading[c]]
  BY LinesNext, StepGrows DEF AuditInv, LinesInv, QueriesInv
<1>1. reading' = [c \in Queries |-> reading'[c]]
  <2>1. CASE reading' = reading
    BY <1>0, <2>1
  <2>2. CASE Crash
    BY <2>2 DEF Crash
  <2>3. ASSUME NEW c \in Queries, ReadLine(c) \/ ReadRest(c) PROVE reading' = [d \in Queries |-> reading'[d]]
    BY <1>0, <2>3 DEF ReadLine, ReadRest
  <2>4. ASSUME NEW c \in Queries,
               (\E q \in Asked : Ask(c, q)) \/ ReadRaises(c) \/ Find(c) \/ FindFails(c)
        PROVE  reading' = reading
    BY <2>4 DEF Ask, ReadRaises, Find, FindFails
  <2>5. ASSUME NEW s \in Sessions,
               \/ \E d \in Decisions : Make(s, d)
               \/ \E k \in Cuts : WriteFirst(s, k)
               \/ WriteRest(s) \/ OpenFails(s) \/ WriteFails(s)
        PROVE  reading' = reading
    BY <2>5 DEF Make, WriteFirst, WriteRest, OpenFails, WriteFails, queries
  <2>6. CASE UNCHANGED auditVars
    BY <1>0, <2>6 DEF auditVars
  <2> QED BY <2>1, <2>2, <2>3, <2>4, <2>5, <2>6 DEF AuditNext
<1> SUFFICES ASSUME NEW c \in Queries PROVE ReadingInv(c)' /\ AnswerInv(c)'
  BY <1>0, <1>1 DEF AuditInv, QueriesInv
<1>2. ReadingInv(c) /\ AnswerInv(c)
  BY DEF AuditInv, QueriesInv
<1>3. CASE UNCHANGED <<asked[c], reading[c], found[c]>>
  BY <1>0, <1>2, <1>3, ReadingKept, AnswerKept
<1>4. CASE asked'[c] = NotAsked /\ reading'[c] = Opened /\ found'[c].state = "none"
  BY <1>0, <1>4, NothingRead DEF AnswerInv
<1>5. ASSUME NEW q \in Asked, Ask(c, q) PROVE ReadingInv(c)' /\ AnswerInv(c)'
  <2>0. asked[c] = NotAsked /\ found[c] = NotYet /\ UNCHANGED <<reading, logged>> /\ reading[c] = Opened
    BY <1>2, <1>5 DEF Ask, ReadingInv
  <2>1. CASE found' = [found EXCEPT ![c] = Error] /\ UNCHANGED asked
    <3>1. found'[c].state = "raised" /\ asked'[c] = NotAsked
      BY <1>0, <2>0, <2>1, ErrorIs DEF AuditTyped
    <3> QED BY <1>0, <2>0, <3>1, NothingRead DEF AnswerInv
  <2>2. CASE asked' = [asked EXCEPT ![c] = [what |-> q, had |-> logged]] /\ UNCHANGED found
    <3>1. asked'[c] = [what |-> q, had |-> logged] /\ found'[c].state = "none"
      BY <1>0, <2>0, <2>2 DEF AuditTyped, NotYet, Finding
    <3>2. Known(c)'
      BY <2>0, <3>1 DEF Known
    <3> QED BY <1>0, <2>0, <3>1, <3>2, NothingRead DEF AnswerInv
  <2> QED BY <1>5, <2>1, <2>2 DEF Ask
<1>6. CASE ReadLine(c) \/ ReadRest(c)
  <2>1. found'[c].state = "none"
    BY <1>6 DEF ReadLine, ReadRest, InQuery, NotYet, Finding
  <2> QED BY <1>0, <1>2, <1>6, <2>1, LineRead, RestRead DEF AnswerInv
<1>7. CASE Find(c)
  <2>1. UNCHANGED <<asked[c], reading[c]>>
    BY <1>7 DEF Find
  <2> QED BY <1>0, <1>2, <1>7, <2>1, ReadingKept, FindAnswers
<1>8. CASE ReadRaises(c) \/ FindFails(c)
  <2>1. UNCHANGED <<asked[c], reading[c]>>
    BY <1>8 DEF ReadRaises, FindFails
  <2>2. found'[c] = Error \/ found'[c] = Finding("gave_up", {}, FALSE)
    BY <1>0, <1>8 DEF ReadRaises, FindFails, AuditTyped
  <2>3. found'[c].state # "returned"
    BY <2>2 DEF Error, Finding
  <2> QED BY <1>0, <1>2, <2>1, <2>3, ReadingKept DEF AnswerInv
<1> QED BY <1>3, <1>4, <1>5, <1>6, <1>7, <1>8, QuerySteps

LEMMA AlwaysAuditInv == AuditSpec => []AuditInv
BY AuditInvInit, AuditInvNext, PTL DEF AuditSpec

-----------------------------------------------------------------------------
(* What was logged is in the trail, but for one decision for each line     *)
(* that was torn, wherever the process died and however many sessions log; *)
(* read_entries() says so (core/audit.py:167-236).                         *)
THEOREM TrailSoundHolds == AuditSpec => []TrailSound
<1>1. AuditInv => TrailSound
  <2> SUFFICES ASSUME AuditInv PROVE TrailSound
    OBVIOUS
  <2>1. LinesInv /\ AuditTyped /\ Begun /\ Len(file) \in Nat /\ DOMAIN file = 1..Len(file)
        /\ Len(stamped) \in Nat
    BY FileShape DEF AuditInv, LinesInv
  <2>2. TypeOK
    <3>1. \A i \in DOMAIN file : file[i].of \in Entries /\ file[i].part \in Cuts \cup {"whole"}
      BY <2>1, FileShape DEF AuditTyped
    <3>2. \A s \in Sessions : writing[s] \in 0..Len(stamped)
      BY <2>1 DEF AuditTyped
    <3>3. writing \in [Sessions -> 0..Len(stamped)]
      BY <2>1, <3>2 DEF AuditTyped
    <3>4. lock # None => file # <<>> /\ Last(file).of = writing[lock] /\ Last(file).part # "whole"
      BY <2>1, EmptySeq DEF Begun, Last
    <3>5. \A c \in Queries :
            /\ found[c] \in Findings
            /\ reading[c].at \in 0..Len(file) /\ reading[c].half \in BOOLEAN
            /\ reading[c].got \subseteq Entries /\ reading[c].met \subseteq Entries
      BY <2>1 DEF AuditTyped, AuditInv, QueriesInv, ReadingInv, PlaceTyped
    <3> QED BY <2>1, <3>1, <3>3, <3>4, <3>5 DEF TypeOK, AuditTyped
  <2> QED BY <2>1, <2>2, LostBehindTears, LinesReadTrail DEF TrailSound
<1> QED BY <1>1, AlwaysAuditInv, PTL

(* What was logged and can be read is read ever after, in the same order.  *)
THEOREM TrailGrowsHolds == AuditSpec => TrailGrows
<1>1. AuditInv /\ AuditInv' /\ [AuditNext]_auditVars => [Begins(Kept, Kept')]_auditVars
  BY StepGrows, TrailOnlyGrows DEF AuditInv
<1> QED BY <1>1, AlwaysAuditInv, PTL DEF AuditSpec, TrailGrows

(* An answer of the query tool that does not say "truncated" has every     *)
(* decision asked for that was logged before and can be read; one that     *)
(* does has the oldest of them, within its limits; and though the file     *)
(* grows while it is read, line by line and without the lock, it leaves    *)
(* out between those it has only what was being written when it came to it *)
(* (modules/observability/audit.py:251-291).                               *)
THEOREM QuerySoundHolds == AuditSpec => []QuerySound
<1>1. AuditInv => QuerySound
  <2> SUFFICES ASSUME AuditInv, NEW c \in Queries, found[c].state = "returned"
               PROVE  /\ ~found[c].cut => \A e \in asked[c].had \cap InTrail :
                           Matches(e, asked[c].what) => e \in found[c].entries
                      /\ Cardinality(found[c].entries) <= MaxResults
                      /\ Cardinality(found[c].entries) <= LimitOf(asked[c].what)
                      /\ \A e \in found[c].entries : Matches(e, asked[c].what)
                      /\ \A i, j \in DOMAIN Trail :
                           i < j /\ Trail[j] \in found[c].entries /\ Matches(Trail[i], asked[c].what)
                             => Trail[i] \in found[c].entries \cup reading[c].met
                      /\ reading[c].met \cap asked[c].had = {}
    BY DEF QuerySound, Complete, NoGaps
  <2>0. /\ LinesInv /\ AuditTyped /\ Len(file) \in Nat /\ PlaceTyped(c) /\ Known(c) /\ GotInv(c)
        /\ Passed(c) /\ MetInv(c) /\ found[c].entries = reading[c].got
        /\ ~found[c].cut => \A e \in asked[c].had : \E i \in 1..reading[c].at : file[i].of = e
    BY FileShape DEF AuditInv, LinesInv, QueriesInv, ReadingInv, AnswerInv
  <2>1. Cardinality(reading[c].got) <= LimitOf(asked[c].what) /\ Cardinality(reading[c].got) <= MaxResults
    <3>1. /\ LimitOf(asked[c].what) \in Nat /\ LimitOf(asked[c].what) <= MaxResults
          /\ Cardinality(reading[c].got) \in Nat /\ MaxResults \in Nat
      BY <2>0, LimitIs, FS_CardinalityType, AuditAssumption DEF Known, PlaceTyped
    <3> QED BY <2>0, <3>1 DEF GotInv
  <2>2. reading[c].met \cap asked[c].had = {} /\ \A e \in reading[c].got : Matches(e, asked[c].what)
    BY <2>0 DEF MetInv, GotInv
  <2>3. ASSUME NEW i \in DOMAIN Trail, i \in 1..reading[c].at, file[i].part = "whole",
               Matches(Trail[i], asked[c].what)
        PROVE  Trail[i] \in reading[c].got \cup reading[c].met
    <3>1. (i = 1 \/ file[i - 1].part = "whole") /\ Trail[i] = file[i].of
      BY <2>0, TrailIs DEF TrailByLine
    <3> QED BY <2>0, <2>3, <3>1 DEF Passed
  <2>4. ASSUME ~found[c].cut, NEW e \in asked[c].had, e \in InTrail, Matches(e, asked[c].what)
        PROVE  e \in reading[c].got
    <3>1. PICK i \in DOMAIN Trail : Trail[i] = e
      BY <2>0, <2>4, TrailIs DEF TrailByLine
    <3>2. i \in 1..Len(file) /\ file[i].of = e
      BY <2>0, <3>1, TrailIs DEF TrailByLine
    <3>3. file[i].part = "whole"
      BY <2>0, <3>2 DEF LinesInv, HasLine, Single, Known
    <3>4. PICK k \in 1..reading[c].at : file[k].of = e
      BY <2>0, <2>4
    <3>5. k = i
      <4>1. k \in 1..Len(file)
        BY <2>0 DEF PlaceTyped
      <4> QED BY <2>0, <3>2, <3>4, <4>1 DEF LinesInv, Single
    <3>6. e \in reading[c].got \cup reading[c].met
      BY <2>3, <2>4, <3>1, <3>3, <3>5
    <3> QED BY <2>0, <3>6 DEF MetInv
  <2>5. ASSUME NEW i \in DOMAIN Trail, NEW j \in DOMAIN Trail, i < j, Trail[j] \in reading[c].got,
               Matches(Trail[i], asked[c].what)
        PROVE  Trail[i] \in reading[c].got \cup reading[c].met
    <3>1. /\ i \in 1..Len(file) /\ j \in 1..Len(file) /\ Trail[j] = file[j].of
          /\ file[i].part = "whole" \/ i = Len(file)
      BY <2>0, TrailIs DEF TrailByLine
    <3>2. PICK k \in 1..reading[c].at : file[k].of = Trail[j]
      BY <2>0, <2>5 DEF GotInv
    <3>3. k = j
      <4>1. k \in 1..Len(file)
        BY <2>0 DEF PlaceTyped
      <4> QED BY <2>0, <3>1, <3>2, <4>1 DEF LinesInv, Single
    <3>4. i \in 1..reading[c].at /\ file[i].part = "whole"
      BY <2>0, <2>5, <3>1, <3>3 DEF PlaceTyped
    <3> QED BY <2>3, <2>5, <3>4
  <2> QED BY <2>0, <2>1, <2>2, <2>4, <2>5
<1> QED BY <1>1, AlwaysAuditInv, PTL
=============================================================================
