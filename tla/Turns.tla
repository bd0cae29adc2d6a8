------------------------------- MODULE Turns --------------------------------
(***************************************************************************)
(* EventLoop.process_turn (core/event_loop.py) on one session: coroutines  *)
(* that answer one user message each, one at a time under the lock of the  *)
(* session, while OS threads may add messages of their own with            *)
(* SessionManager.add_message.  A coroutine is suspended where it waits    *)
(* for the lock, for the model and for a tool; only there can it be        *)
(* cancelled.  Threads come in between any two sections under              *)
(* _message_lock.                                                          *)
(*                                                                         *)
(* A message names who appended it and in which round of the turn.  The    *)
(* role "calls" is an assistant message with tool_calls, as many as its n; *)
(* a "tool" message is the result of call number n of its round.           *)
(***************************************************************************)
EXTENDS Trim, FiniteSets, SequencesExt

CONSTANTS Turns,        \* calls of process_turn for the session
          Outside,      \* the author of what add_message appends
          MaxTurns,     \* max_turns
          MaxCalls,     \* bound of the model: tool calls in a response
          MaxAdded      \* bound of the model: messages added by threads

ASSUME LimitsAssumption ==
  /\ MaxTurns \in Nat \ {0}
  /\ MaxCalls \in Nat
  /\ MaxAdded \in Nat

ASSUME OutsideAssumption == Outside \notin Turns

VARIABLES pc,          \* where the coroutine of a turn is
          queue,       \* the lock: its holder first, then who waits for it
          transcript,  \* session.messages
          round,       \* turn_count
          sent,        \* the messages a turn sent to the model last
          chats,       \* how often a turn has called the model
          restored,    \* len(restored_calls) of the current round
          results,     \* len(tool_msgs) of the current round
          reply,       \* the message whose content a turn returned
          outside      \* how many messages threads have added

vars == <<pc, queue, transcript, round, sent, chats, restored, results,
          reply, outside>>

PCs == {"new", "waiting", "asking", "chatting", "dispatching", "asking_last",
        "chatting_last", "closing", "answered", "failed", "cancelled"}

Ended == {"answered", "failed", "cancelled"}

Roles == {"user", "assistant", "calls", "tool"}

Message(t, role, n) == [by |-> t, role |-> role, round |-> round[t], n |-> n]

NoMessage == [by |-> Outside, role |-> "user", round |-> 0, n |-> 0]

-----------------------------------------------------------------------------
Init ==
  /\ pc = [t \in Turns |-> "new"]
  /\ queue = <<>>
  /\ transcript = <<>>
  /\ round = [t \in Turns |-> 0]
  /\ sent = [t \in Turns |-> <<>>]
  /\ chats = [t \in Turns |-> 0]
  /\ restored = [t \in Turns |-> 0]
  /\ results = [t \in Turns |-> 0]
  /\ reply = [t \in Turns |-> NoMessage]
  /\ outside = 0

(* asyncio.Lock wakes its waiters in the order they came.                  *)
Arrive(t) ==
  /\ pc[t] = "new"
  /\ queue' = Append(queue, t)
  /\ pc' = [pc EXCEPT ![t] = "waiting"]
  /\ UNCHANGED <<transcript, round, sent, chats, restored, results, reply, outside>>

(* The turn ends and the lock, or the place in its queue, is given up.     *)
Leave(t, how) ==
  /\ pc' = [pc EXCEPT ![t] = how]
  /\ queue' = RemoveAt(queue, CHOOSE i \in DOMAIN queue : queue[i] = t)

(* Slip: the lock is not waited for.                                       *)
BeginUnlocked(t) ==
  /\ pc[t] = "waiting"
  /\ transcript' = Append(transcript, Message(t, "user", 0))
  /\ pc' = [pc EXCEPT ![t] = "asking"]
  /\ UNCHANGED <<queue, round, sent, chats, restored, results, reply, outside>>

Begin(t) ==
  /\ pc[t] = "waiting"
  /\ Head(queue) = t
  /\ transcript' = Append(transcript, Message(t, "user", 0))
  /\ pc' = [pc EXCEPT ![t] = "asking"]
  /\ UNCHANGED <<queue, round, sent, chats, restored, results, reply, outside>>

(* The snapshot, and the call of the model: with the tools, or, after      *)
(* max_turns rounds, without.                                              *)
Ask(t) ==
  /\ pc[t] \in {"asking", "asking_last"}
  /\ sent' = [sent EXCEPT ![t] = transcript]
  /\ chats' = [chats EXCEPT ![t] = @ + 1]
  /\ pc' = [pc EXCEPT ![t] = IF @ = "asking" THEN "chatting" ELSE "chatting_last"]
  /\ UNCHANGED <<queue, transcript, round, restored, results, reply, outside>>

-----------------------------------------------------------------------------
(* The model asks for n tools, with or without a text: two messages in one *)
(* section.                                                                *)
AnswerCalls(t, text, n) ==
  /\ pc[t] = "chatting"
  /\ transcript' =
       transcript \o (IF text THEN <<Message(t, "assistant", 0)>> ELSE <<>>)
                  \o <<Message(t, "calls", n)>>
  /\ restored' = [restored EXCEPT ![t] = n]
  /\ results' = [results EXCEPT ![t] = 0]
  /\ pc' = [pc EXCEPT ![t] = "dispatching"]
  /\ UNCHANGED <<queue, round, sent, chats, reply, outside>>

(* dispatch() answers or raises: either way the call has a result.         *)
DispatchEnds(t) ==
  /\ pc[t] = "dispatching"
  /\ results[t] < restored[t]
  /\ results' = [results EXCEPT ![t] = @ + 1]
  /\ UNCHANGED <<pc, queue, transcript, round, sent, chats, restored, reply,
                 outside>>

(* Slip: > for >=.                                                         *)
NextRoundOneMore(t) ==
  /\ round' = [round EXCEPT ![t] = @ + 1]
  /\ pc' = [pc EXCEPT ![t] =
              IF round[t] + 1 > MaxTurns THEN "asking_last" ELSE "asking"]

(* A round is over: after max_turns of them comes the last call.           *)
NextRound(t) ==
  /\ round' = [round EXCEPT ![t] = @ + 1]
  /\ pc' = [pc EXCEPT ![t] =
              IF round[t] + 1 >= MaxTurns THEN "asking_last" ELSE "asking"]

(* tool_msgs.                                                              *)
ToolMessages(t) == [i \in 1..results[t] |-> Message(t, "tool", i)]

(* Slip: the results go to what was sent, not to what is there.            *)
ExtendSnapshot(t) ==
  /\ pc[t] = "dispatching"
  /\ results[t] = restored[t]
  /\ transcript' = sent[t] \o <<Message(t, "calls", restored[t])>> \o ToolMessages(t)
  /\ NextRound(t)
  /\ UNCHANGED <<queue, sent, chats, restored, results, reply, outside>>

(* Slip: the results are not waited for.                                   *)
ExtendEarly(t) ==
  /\ pc[t] = "dispatching"
  /\ transcript' = transcript \o ToolMessages(t)
  /\ NextRound(t)
  /\ UNCHANGED <<queue, sent, chats, restored, results, reply, outside>>

(* All calls of the round have ended: their results, in one section.       *)
Extend(t) ==
  /\ pc[t] = "dispatching"
  /\ results[t] = restored[t]
  /\ transcript' = transcript \o ToolMessages(t)
  /\ NextRound(t)
  /\ UNCHANGED <<queue, sent, chats, restored, results, reply, outside>>

AnswerText(t) ==
  /\ pc[t] = "chatting"
  /\ transcript' = Append(transcript, Message(t, "assistant", 0))
  /\ pc' = [pc EXCEPT ![t] = "closing"]
  /\ UNCHANGED <<queue, round, sent, chats, restored, results, reply, outside>>

(* Slip: an empty response is asked for again.                             *)
AnswerNothingAgain(t) ==
  /\ pc[t] = "chatting"
  /\ pc' = [pc EXCEPT ![t] = "asking"]
  /\ UNCHANGED <<queue, transcript, round, sent, chats, restored, results,
                 reply, outside>>

(* Neither a text nor a tool: the round counts.                            *)
AnswerNothing(t) ==
  /\ pc[t] = "chatting"
  /\ NextRound(t)
  /\ UNCHANGED <<queue, transcript, sent, chats, restored, results, reply,
                 outside>>

(* Slip: the last text is not put into the transcript.                     *)
AnswerLastUnrecorded(t) ==
  /\ pc[t] = "chatting_last"
  /\ pc' = [pc EXCEPT ![t] = "closing"]
  /\ UNCHANGED <<queue, transcript, round, sent, chats, restored, results,
                 reply, outside>>

(* The text of the last response, if any; tool calls in it are ignored.    *)
AnswerLast(t) ==
  /\ pc[t] = "chatting_last"
  /\ transcript' = Append(transcript, Message(t, "assistant", 0))
  /\ pc' = [pc EXCEPT ![t] = "closing"]
  /\ UNCHANGED <<queue, round, sent, chats, restored, results, reply, outside>>

(* Slip: the lock stays held.                                              *)
AnswerRaisesHolding(t) ==
  /\ pc[t] \in {"chatting", "chatting_last"}
  /\ pc' = [pc EXCEPT ![t] = "failed"]
  /\ UNCHANGED <<queue, transcript, round, sent, chats, restored, results,
                 reply, outside>>

(* chat() raises: no trimming, and what was appended stays.                *)
AnswerRaises(t) ==
  /\ pc[t] \in {"chatting", "chatting_last"}
  /\ Leave(t, "failed")
  /\ UNCHANGED <<transcript, round, sent, chats, restored, results, reply,
                 outside>>

(* CancelledError where the coroutine is suspended.                        *)
Cancel(t) ==
  /\ pc[t] \in {"waiting", "chatting", "dispatching", "chatting_last"}
  /\ Leave(t, "cancelled")
  /\ UNCHANGED <<transcript, round, sent, chats, restored, results, reply,
                 outside>>

(* Slip: all that is over the limit goes.                                  *)
ClosePlain(t) ==
  /\ pc[t] = "closing"
  /\ LET excess == IF Len(transcript) > MaxMessages
                   THEN Len(transcript) - MaxMessages ELSE 0
     IN  transcript' = SubSeq(transcript, excess + 1, Len(transcript))
  /\ reply' = [reply EXCEPT ![t] = transcript[Len(transcript)]]
  /\ Leave(t, "answered")
  /\ UNCHANGED <<round, sent, chats, restored, results, outside>>

(* Trim and read messages[-1], in one section.                             *)
Close(t) ==
  /\ pc[t] = "closing"
  /\ transcript' = Trimmed(transcript, MaxMessages)
  /\ reply' = [reply EXCEPT ![t] = transcript'[Len(transcript')]]
  /\ Leave(t, "answered")
  /\ UNCHANGED <<round, sent, chats, restored, results, outside>>

(* add_message from a thread, the section under _message_lock: with trim   *)
(* only the newest max_messages stay.                                      *)
AddMessage(trim) ==
  /\ outside < MaxAdded
  /\ outside' = outside + 1
  /\ LET q == Append(transcript,
                     [by |-> Outside, role |-> "user", round |-> 0, n |-> outside'])
         excess == IF trim /\ Len(q) > MaxMessages THEN Len(q) - MaxMessages ELSE 0
     IN  transcript' = SubSeq(q, excess + 1, Len(q))
  /\ UNCHANGED <<pc, queue, round, sent, chats, restored, results, reply>>

-----------------------------------------------------------------------------
(* What the code does by itself, and what the model and the tools do.      *)
Run(t) == Begin(t) \/ Ask(t) \/ Extend(t) \/ Close(t)

ModelAnswers(t) ==
  \/ \E text \in BOOLEAN, n \in 1..MaxCalls : AnswerCalls(t, text, n)
  \/ AnswerText(t)
  \/ AnswerNothing(t)
  \/ AnswerLast(t)
  \/ AnswerRaises(t)

Next ==
  \/ \E t \in Turns :
       Arrive(t) \/ Run(t) \/ ModelAnswers(t) \/ DispatchEnds(t) \/ Cancel(t)
  \/ \E trim \in BOOLEAN : AddMessage(trim)

(* The event loop runs a coroutine that can go on.  That the model and the *)
(* tools answer, or raise, is an assumption about them.                    *)
Fairness ==
  \A t \in Turns :
    WF_vars(Run(t)) /\ WF_vars(ModelAnswers(t)) /\ WF_vars(DispatchEnds(t))

Spec == Init /\ [][Next]_vars
FairSpec == Spec /\ Fairness

-----------------------------------------------------------------------------
(* Type invariant.                                                         *)
Messages == [by : Turns \cup {Outside}, role : Roles, round : Nat, n : Nat]

TypeOK ==
  /\ pc \in [Turns -> PCs]
  /\ queue \in Seq(Turns)
  /\ transcript \in Seq(Messages)
  /\ round \in [Turns -> 0..MaxTurns]
  /\ sent \in [Turns -> Seq(Messages)]
  /\ chats \in [Turns -> Nat]
  /\ restored \in [Turns -> Nat]
  /\ results \in [Turns -> Nat]
  /\ reply \in [Turns -> Messages]
  /\ outside \in Nat

(* event_loop.py:184-185 "only one process_turn coroutine is active per    *)
(* session": between two messages of one turn there is none of another.    *)
OneTurnAtATime ==
  \A i, j, k \in DOMAIN transcript :
    i < j /\ j < k /\ transcript[i].by = transcript[k].by
      => transcript[i].by = Outside
         \/ transcript[j].by \in {transcript[i].by, Outside}

(* The calls message that result k of q belongs to.                        *)
CallOf(q, k) ==
  {j \in 1..(k - 1) : /\ q[j].role = "calls"
                      /\ q[j].by = q[k].by
                      /\ q[j].round = q[k].round}

NoOrphans(q) == \A k \in DOMAIN q : q[k].role = "tool" => CallOf(q, k) # {}

(* A provider refuses a tool result whose call it is not given: no request *)
(* holds one, as long as no thread adds messages (add_message() trims      *)
(* without regard to groups).                                              *)
RequestsWhole == outside = 0 => \A t \in Turns : NoOrphans(sent[t])

(* The result of call number i of the calls message m.                     *)
ResultOf(m, i) == [by |-> m.by, role |-> "tool", round |-> m.round, n |-> i]

(* When a turn has gone on, its tool calls have their results in the       *)
(* transcript, one for each and in order, right behind the calls but for   *)
(* what threads add; only the calls of a turn that was cancelled stay      *)
(* unanswered.                                                             *)
CallsAnswered ==
  \A k \in DOMAIN transcript :
    LET m == transcript[k]
    IN  m.role = "calls" /\ (m.round < round[m.by] \/ pc[m.by] = "answered")
          => \E e \in k..Len(transcript) :
               /\ \A j \in (k + 1)..e : transcript[j].by = Outside
               /\ \A i \in 1..m.n :
                    /\ e + i \in DOMAIN transcript
                    /\ transcript[e + i] = ResultOf(m, i)

(* event_loop.py:67-69 "When trimming would split an assistant message     *)
(* with tool_calls from its corresponding tool result messages, we keep    *)
(* the entire group": the trimming at the end of a turn orphans no result, *)
(* unless a thread put a message of its own into the group.                *)
OfTurns(q) == \A i \in DOMAIN q : q[i].by # Outside

TrimKeepsPairs ==
  [][\A t \in Turns :
       pc[t] = "closing" /\ pc'[t] = "answered" =>
         (NoOrphans(transcript) /\ OfTurns(transcript) => NoOrphans(transcript'))]_vars

(* What is kept over the limit when a turn ends is a part of one group,    *)
(* with what threads put into it.                                          *)
TrimBounds ==
  [][\A t \in Turns :
       pc[t] = "closing" /\ pc'[t] = "answered"
         => Len(transcript') <= MaxMessages + MaxCalls + outside]_vars

(* A turn returns a response of the model to it, or, for what ReplyIsOwn   *)
(* says, what a thread added; never the response to another turn.          *)
ReplyOfNoOther ==
  \A t \in Turns :
    pc[t] = "answered" =>
      \/ reply[t].by = t /\ reply[t].role = "assistant"
      \/ reply[t].by = Outside

(* event_loop.py:296-300 takes the lock lest a message of a thread "would  *)
(* cause messages[-1] to return user content instead of the assistant      *)
(* response".                                                              *)
ReplyIsOwn == \A t \in Turns : pc[t] = "answered" => reply[t].by = t

(* A turn calls the model max_turns times and once more, whatever it       *)
(* answers (event_loop.py:282-283).                                        *)
ChatsBounded == \A t \in Turns : chats[t] <= MaxTurns + 1

(* Nothing is written back over what another has appended: a transcript    *)
(* loses messages at its beginning only, and none that fits.               *)
OnlyTheOldestGo ==
  [][LET lost == {i \in DOMAIN transcript :
                    \A j \in DOMAIN transcript' : transcript'[j] # transcript[i]}
         n == Cardinality(lost)
     IN  /\ lost = 1..n
         /\ SubSeq(transcript', 1, Len(transcript) - n)
              = SubSeq(transcript, n + 1, Len(transcript))
         /\ n > 0 => Len(transcript') >= MaxMessages]_vars

(* The turns of a session are served: each one that has come ends, if the  *)
(* model and the tools answer.                                             *)
TurnEnds == \A t \in Turns : pc[t] = "waiting" ~> pc[t] \in Ended

(* The turns of a session do not mix: not in the transcript and not in what*)
(* they return, and each calls the model a bounded number of times; and the*)
(* variables have their types.                                             *)
TurnsApart == TypeOK /\ OneTurnAtATime /\ ReplyOfNoOther /\ ChatsBounded

(* Calls and results stay together, in what the model is sent and in the   *)
(* transcript, whatever fails, is cancelled or trimmed.                    *)
ExchangesWhole == RequestsWhole /\ CallsAnswered

(* Neither turns nor the parts of one get mixed up.                        *)
ExchangesApart == TurnsApart /\ ExchangesWhole

(* What a step may take from a transcript: the oldest messages, what is    *)
(* over the limit, and no call without its results.                        *)
TrimsTheOldest == OnlyTheOldestGo /\ TrimKeepsPairs /\ TrimBounds
=============================================================================
