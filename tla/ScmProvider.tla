---------------------------- MODULE ScmProvider -----------------------------
(***************************************************************************)
(* SCMModule.execute on a provider (modules/coding/scm.py): calls that     *)
(* share one HTTP client, which the first of them creates and close()      *)
(* takes away, and that send a request again when its outcome is unknown.  *)
(* All run on one event loop and come in between each other only where one *)
(* waits: for the server, for the end of a back-off, for aclose().         *)
(*                                                                         *)
(* The server is external: it performs a request, now or, when nobody      *)
(* waits for it any more, later, or never.                                 *)
(***************************************************************************)
EXTENDS Naturals, Sequences, FiniteSets

CONSTANTS Calls,       \* calls of execute()
          Tools,       \* the tools they call
          Closers,     \* calls of close()
          MaxRetries,  \* _max_retries
          MaxClients   \* bound of the model: HTTP clients ever made

(* What an agent can ask a provider for.                                   *)
Reading == {"ListRepos", "ListBranches"}
Creating == {"CreatePullRequest", "CreateIssue", "CreateRepo", "CreateFork",
             "CreateWebhook", "CommentOnPullRequest"}
Approving == {"ApprovePullRequest"}

ASSUME ScmAssumption ==
  /\ Tools \subseteq Reading \cup Creating \cup Approving
  /\ MaxRetries \in Nat
  /\ MaxClients \in Nat \ {0}

NoClient == 0  \* the None of _client

VARIABLES client,    \* _client
          made,      \* HTTP clients that were created: 1 to made
          open,      \* of which not closed
          closing,   \* the client a call of close() waits for
          overlap,   \* two calls of close() have been under way at a time
          stuck,     \* history: clients whose aclose() did not return
          pc,        \* idle, sent, backing_off or answered
          tool,      \* what a call is for
          step,      \* which of its requests a call is at
          attempt,   \* of which this attempt
          using,     \* the client of the request
          served,    \* the server has performed this attempt
          done,      \* how often the server has performed a write of a call
          lost,      \* attempts of a write with an unknown outcome
          late,      \* of which the server may still perform
          moved,     \* a redirection was taken for success
          sawClose,  \* close() was called before the call ended
          answer     \* what a call returned

provider == <<client, made, open>>
closers == <<closing, overlap, stuck>>
request == <<tool, step, attempt, using>>
server == <<served, done, lost, late, moved>>
scmVars == <<client, made, open, closing, overlap, stuck, pc, tool, step, attempt, using,
          served, done, lost, late, moved, sawClose, answer>>

(* The requests a tool makes, on GitHub as on GitLab: an approval is       *)
(* followed by a read of what was approved.                                *)
Requests(t) ==
  CASE t \in Reading -> <<"GET">>
    [] t \in Creating -> <<"POST">>
    [] t \in Approving -> <<"POST", "GET">>

Writes(c) == pc[c] # "idle" /\ Requests(tool[c])[step[c]] = "POST"

ScmInit ==
  /\ client = NoClient
  /\ made = 0 /\ open = {}
  /\ closing = [k \in Closers |-> NoClient]
  /\ overlap = FALSE
  /\ stuck = {}
  /\ pc = [c \in Calls |-> "idle"]
  /\ tool \in [Calls -> Tools]
  /\ step = [c \in Calls |-> 1]
  /\ attempt = [c \in Calls |-> 0]
  /\ using = [c \in Calls |-> NoClient]
  /\ served = [c \in Calls |-> FALSE]
  /\ done = [c \in Calls |-> 0]
  /\ lost = [c \in Calls |-> 0]
  /\ late = [c \in Calls |-> 0]
  /\ moved = [c \in Calls |-> FALSE]
  /\ sawClose = [c \in Calls |-> FALSE]
  /\ answer = [c \in Calls |-> "none"]

-----------------------------------------------------------------------------
(* _get_client(): a client is made if there is none.                       *)
GetClient ==
  \/ client # NoClient /\ UNCHANGED provider
  \/ /\ client = NoClient
     /\ made < MaxClients
     /\ client' = made + 1
     /\ made' = made + 1
     /\ open' = open \cup {made + 1}

Answer(c, a) ==
  /\ pc' = [pc EXCEPT ![c] = "answered"]
  /\ answer' = [answer EXCEPT ![c] = a]

(* A closed client raises RuntimeError at once, which nothing retries.     *)
Send(c, n) ==
  /\ served' = [served EXCEPT ![c] = FALSE]
  /\ using' = [using EXCEPT ![c] = n]
  /\ IF n \in open'
     THEN pc' = [pc EXCEPT ![c] = "sent"] /\ UNCHANGED answer
     ELSE Answer(c, "closed")

(* Parameters or a provider are missing: nothing is sent.                  *)
Reject(c) ==
  /\ pc[c] = "idle"
  /\ Answer(c, "rejected")
  /\ UNCHANGED <<provider, closers, request, server, sawClose>>

Execute(c) ==
  /\ pc[c] = "idle"
  /\ GetClient
  /\ Send(c, client')
  /\ sawClose' = [sawClose EXCEPT ![c] = \E k \in Closers : closing[k] # NoClient]
  /\ UNCHANGED <<closers, tool, step, attempt, done, lost, late, moved>>

(* The server performs what was sent.                                      *)
Serve(c) ==
  /\ pc[c] = "sent"
  /\ ~served[c]
  /\ served' = [served EXCEPT ![c] = TRUE]
  /\ done' = [done EXCEPT ![c] = IF Writes(c) THEN @ + 1 ELSE @]
  /\ UNCHANGED <<provider, closers, pc, request, lost, late, sawClose, answer, moved>>

ServeLate(c) ==
  /\ late[c] > 0
  /\ late' = [late EXCEPT ![c] = @ - 1]
  /\ done' = [done EXCEPT ![c] = @ + 1]
  /\ UNCHANGED <<provider, closers, pc, request, served, lost, sawClose, answer, moved>>

-----------------------------------------------------------------------------
(* What becomes of an attempt.  Below 400: the next request, or the end;   *)
(* also for a redirection, which the client does not follow.               *)
RespondOk(c) ==
  /\ pc[c] = "sent"
  /\ moved' = [moved EXCEPT ![c] = @ \/ ~served[c]]
  /\ IF step[c] = Len(Requests(tool[c]))
     THEN /\ Answer(c, "ok")
          /\ UNCHANGED <<provider, step, attempt, using, served>>
     ELSE /\ step' = [step EXCEPT ![c] = @ + 1]
          /\ attempt' = [attempt EXCEPT ![c] = 0]
          /\ GetClient
          /\ Send(c, client')
  /\ UNCHANGED <<closers, tool, done, lost, late, sawClose>>

(* Slip: 4xx is taken for 2xx.                                             *)
RefuseUnnoticed(c) ==
  /\ pc[c] = "sent"
  /\ ~served[c]
  /\ Answer(c, "ok")
  /\ UNCHANGED <<provider, closers, request, server, sawClose>>

(* 4xx, 429 among them: nothing was done, and nothing is sent again.       *)
Refuse(c) ==
  /\ pc[c] = "sent"
  /\ ~served[c]
  /\ Answer(c, "refused")
  /\ UNCHANGED <<provider, closers, request, server, sawClose>>

(* Slip: one attempt too many.                                             *)
RetryOneMore(c) ==
  IF attempt[c] <= MaxRetries
  THEN pc' = [pc EXCEPT ![c] = "backing_off"] /\ UNCHANGED answer
  ELSE Answer(c, "error")

Retry(c) ==
  IF attempt[c] < MaxRetries
  THEN pc' = [pc EXCEPT ![c] = "backing_off"] /\ UNCHANGED answer
  ELSE Answer(c, "error")

(* Slip: it is sent again.                                                 *)
GarbleRetried(c) ==
  /\ pc[c] = "sent"
  /\ Retry(c)
  /\ UNCHANGED <<provider, closers, request, server, sawClose>>

(* An answer that is no JSON or no such object raises, which nothing       *)
(* retries.                                                                *)
Garble(c) ==
  /\ pc[c] = "sent"
  /\ Answer(c, "error")
  /\ UNCHANGED <<provider, closers, request, server, sawClose>>

(* 5xx, whether or not the server has performed the request.               *)
ServerError(c) ==
  /\ pc[c] = "sent"
  /\ Retry(c)
  /\ lost' = [lost EXCEPT ![c] = IF Writes(c) THEN @ + 1 ELSE @]
  /\ UNCHANGED <<provider, closers, request, served, done, late, sawClose, moved>>

Abandoned(c) ==
  /\ lost' = [lost EXCEPT ![c] = IF Writes(c) THEN @ + 1 ELSE @]
  /\ late' = [late EXCEPT ![c] = IF Writes(c) /\ ~served[c] THEN @ + 1 ELSE @]

(* A time-out or a transport error: the server may perform it all the same.*)
TimesOut(c) ==
  /\ pc[c] = "sent"
  /\ Retry(c)
  /\ Abandoned(c)
  /\ UNCHANGED <<provider, closers, request, served, done, sawClose, moved>>

(* The end of the back-off: the same request, by the same client.          *)
Resend(c) ==
  /\ pc[c] = "backing_off"
  /\ UNCHANGED provider
  /\ Send(c, using[c])
  /\ attempt' = [attempt EXCEPT ![c] = @ + 1]
  /\ UNCHANGED <<closers, tool, step, done, lost, late, sawClose, moved>>

Cancel(c) ==
  /\ pc[c] \in {"sent", "backing_off"}
  /\ Answer(c, "cancelled")
  /\ IF pc[c] = "sent" THEN Abandoned(c) ELSE UNCHANGED <<lost, late>>
  /\ UNCHANGED <<provider, closers, request, served, done, sawClose, moved>>

-----------------------------------------------------------------------------
Pending == {c \in Calls : pc[c] \in {"sent", "backing_off"}}

(* Slip: close() forgets the client and does not close it.                 *)
CloseForgetting(k) ==
  /\ closing[k] = NoClient
  /\ client # NoClient
  /\ client' = NoClient
  /\ sawClose' = [c \in Calls |-> sawClose[c] \/ c \in Pending]
  /\ UNCHANGED <<made, open, closers, pc, request, server, answer>>

(* close(): the client is closed from the moment aclose() is called; only  *)
(* the first aclose() waits, any other returns at once.                    *)
Close(k) ==
  /\ closing[k] = NoClient
  /\ client # NoClient
  /\ sawClose' = [c \in Calls |-> sawClose[c] \/ c \in Pending]
  /\ overlap' = (overlap \/ \E l \in Closers : closing[l] # NoClient)
  /\ IF client \in open
     THEN /\ open' = open \ {client}
          /\ closing' = [closing EXCEPT ![k] = client]
          /\ UNCHANGED client
     ELSE client' = NoClient /\ UNCHANGED <<open, closing>>
  /\ UNCHANGED <<made, stuck, pc, request, server, answer>>

(* Slip: the closed client stays.                                          *)
ClosedKept(k) ==
  /\ closing[k] # NoClient
  /\ closing' = [closing EXCEPT ![k] = NoClient]
  /\ UNCHANGED <<provider, overlap, stuck, pc, request, server, sawClose, answer>>

(* aclose() returns; whatever _client is by now is forgotten.              *)
Closed(k) ==
  /\ closing[k] # NoClient
  /\ client' = NoClient
  /\ closing' = [closing EXCEPT ![k] = NoClient]
  /\ UNCHANGED <<made, open, overlap, stuck, pc, request, server, sawClose, answer>>

(* aclose() raises or is cancelled: nothing is forgotten.                  *)
CloseFails(k) ==
  /\ closing[k] # NoClient
  /\ closing' = [closing EXCEPT ![k] = NoClient]
  /\ stuck' = stuck \cup {closing[k]}
  /\ UNCHANGED <<provider, overlap, pc, request, server, sawClose, answer>>

Responds(c) ==
  RespondOk(c) \/ Refuse(c) \/ Garble(c) \/ ServerError(c) \/ TimesOut(c)

ScmNext ==
  \/ \E c \in Calls : \/ Reject(c) \/ Execute(c) \/ Serve(c) \/ ServeLate(c)
                      \/ Responds(c) \/ Resend(c) \/ Cancel(c)
  \/ \E k \in Closers : Close(k) \/ Closed(k) \/ CloseFails(k)

ScmSpec == ScmInit /\ [][ScmNext]_scmVars

-----------------------------------------------------------------------------
(* Type invariant.                                                         *)
ScmTypes ==
  /\ client \in 0..made /\ made \in 0..MaxClients
  /\ open \subseteq 1..made
  /\ closing \in [Closers -> 0..made]
  /\ overlap \in BOOLEAN
  /\ stuck \subseteq 1..made
  /\ pc \in [Calls -> {"idle", "sent", "backing_off", "answered"}]
  /\ tool \in [Calls -> Tools]
  /\ step \in [Calls -> Nat]
  /\ \A c \in Calls : step[c] \in DOMAIN Requests(tool[c])
  /\ attempt \in [Calls -> 0..MaxRetries]
  /\ using \in [Calls -> 0..made]
  /\ served \in [Calls -> BOOLEAN]
  /\ done \in [Calls -> Nat] /\ lost \in [Calls -> Nat] /\ late \in [Calls -> Nat]
  /\ moved \in [Calls -> BOOLEAN] /\ sawClose \in [Calls -> BOOLEAN]
  /\ answer \in [Calls -> {"none", "ok", "rejected", "refused", "error", "closed",
                           "cancelled"}]

(* A write is repeated only after an attempt whose outcome nobody knows:   *)
(* what is created more often than once is accounted for by time-outs and  *)
(* 5xx answers, also when the server performs a request late.              *)
DuplicatesAccounted == \A c \in Calls : done[c] + late[c] <= lost[c] + 1

Writing(t) == "POST" \in {Requests(t)[i] : i \in DOMAIN Requests(t)}

(* A call that succeeds has done what it was to do, unless it was          *)
(* redirected, and one that the server refuses has done nothing, but for a *)
(* request that was lost.  One that ends after its first request has done  *)
(* its write, whatever it answers: that an approval failed means that the  *)
(* read which follows it did.                                              *)
AnswerTells ==
  \A c \in Calls :
    /\ answer[c] = "ok" /\ Writing(tool[c]) /\ ~moved[c] => done[c] > 0
    /\ answer[c] = "refused" /\ lost[c] = 0 /\ step[c] = 1 => done[c] = 0
    /\ step[c] > 1 /\ ~moved[c] => done[c] > 0

(* base.py:93 "success: Whether the tool execution succeeded": a call that *)
(* succeeds has created what it was to create.                             *)
SuccessIsDone ==
  \A c \in Calls : answer[c] = "ok" /\ Writing(tool[c]) => done[c] > 0

(* close() is called to "release resources" (scm.py:293): no client is     *)
(* open that a later close() could not find, unless two calls of it meet.  *)
NoneLeaked == ~overlap => open \subseteq {client}

(* A call fails for a closed client only if close() was called before the  *)
(* call ended and was under way in it, or did not get to the end for that  *)
(* client (:366): the calls after a close() that returns are not affected. *)
ClosedForCause ==
  \A c \in Calls : answer[c] = "closed" => sawClose[c] \/ using[c] \in stuck

(* close() is there to "close the HTTP client" (:364): the next call is    *)
(* not affected.                                                           *)
NextUnaffected == \A c \in Calls : answer[c] = "closed" => sawClose[c]

(* Retries are bounded, and what they repeat is accounted for; and the     *)
(* variables have their types.                                             *)
RetriesAccounted == ScmTypes /\ DuplicatesAccounted

(* What a call has done at the server is what its retries and its answer   *)
(* allow.                                                                  *)
DeedsAccounted == RetriesAccounted /\ AnswerTells

(* The client that calls share comes and goes with close()                 *)
(* (scm.py:363-367): none is lost, and no call finds a closed one that did *)
(* not see close(), unless a close() of it failed.                         *)
ClientsAccounted == NoneLeaked /\ ClosedForCause
=============================================================================
