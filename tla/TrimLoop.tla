------------------------------ MODULE TrimLoop ------------------------------
(***************************************************************************)
(* The two loops of _trim_messages_preserve_pairs (core/event_loop.py),    *)
(* one iteration a step, with the indices of the code (from 0).  They      *)
(* arrive where TrimPoint says, whatever the transcript is.                *)
(***************************************************************************)
EXTENDS Trim, Integers

CONSTANT Transcripts   \* what session.messages may be

ASSUME TranscriptsAssumption ==
  Transcripts \subseteq Seq([role : {"user", "assistant", "calls", "tool"}])

VARIABLES at,          \* where the function is
          messages,    \* session.messages
          trim_index,
          prev_idx,
          before       \* session.messages when the function was called

trimVars == <<at, messages, trim_index, prev_idx, before>>

Excess == Len(before) - MaxMessages

Role(i) == messages[i + 1].role

TrimInit ==
  /\ at = "start"
  /\ messages \in Transcripts
  /\ before = messages
  /\ trim_index = 0
  /\ prev_idx = 0

(* Slip: the walk starts one message late.                                 *)
EnterLate ==
  /\ at = "start"
  /\ IF Len(messages) <= MaxMessages
     THEN at' = "done" /\ UNCHANGED trim_index
     ELSE at' = "walk" /\ trim_index' = Excess + 1
  /\ UNCHANGED <<messages, prev_idx, before>>

(* A transcript that fits is left alone.                                   *)
Enter ==
  /\ at = "start"
  /\ IF Len(messages) <= MaxMessages
     THEN at' = "done" /\ UNCHANGED trim_index
     ELSE at' = "walk" /\ trim_index' = Excess
  /\ UNCHANGED <<messages, prev_idx, before>>

(* A tool result: look for the assistant message before it.                *)
MeetTool ==
  /\ at = "walk"
  /\ trim_index < Len(messages)
  /\ Role(trim_index) = "tool"
  /\ trim_index > 0
  /\ prev_idx' = trim_index - 1
  /\ at' = "back"
  /\ UNCHANGED <<messages, trim_index, before>>

(* Slip: the search stays where it is.                                     *)
StepNowhere ==
  /\ at = "back"
  /\ prev_idx >= 0
  /\ Role(prev_idx) \notin {"assistant", "calls"}
  /\ UNCHANGED trimVars

StepBack ==
  /\ at = "back"
  /\ prev_idx >= 0
  /\ Role(prev_idx) \notin {"assistant", "calls"}
  /\ prev_idx' = prev_idx - 1
  /\ UNCHANGED <<at, messages, trim_index, before>>

(* Slip: a tool result is taken for a boundary.                            *)
EndBackAtTool ==
  /\ at = "back"
  /\ prev_idx >= 0 => Role(prev_idx) \in {"assistant", "calls"}
  /\ at' = "cut"
  /\ UNCHANGED <<messages, trim_index, prev_idx, before>>

(* The search has ended: the group is kept whole, or the walk goes on (a   *)
(* tool result is no user message).                                        *)
EndBack ==
  /\ at = "back"
  /\ prev_idx >= 0 => Role(prev_idx) \in {"assistant", "calls"}
  /\ IF prev_idx >= 0 /\ Role(prev_idx) = "calls"
     THEN trim_index' = prev_idx /\ at' = "cut"
     ELSE trim_index' = trim_index + 1 /\ at' = "walk"
  /\ UNCHANGED <<messages, prev_idx, before>>

StopAtUser ==
  /\ at = "walk"
  /\ trim_index < Len(messages)
  /\ Role(trim_index) = "user"
  /\ at' = "cut"
  /\ UNCHANGED <<messages, trim_index, prev_idx, before>>

WalkOn ==
  /\ at = "walk"
  /\ trim_index < Len(messages)
  /\ Role(trim_index) \notin {"tool", "user"}
  /\ trim_index' = trim_index + 1
  /\ UNCHANGED <<at, messages, prev_idx, before>>

(* Slip: the walk ends behind the end.                                     *)
WalkOffLate ==
  /\ at = "walk"
  /\ trim_index = Len(messages)
  /\ trim_index' = trim_index + 1
  /\ at' = "cut"
  /\ UNCHANGED <<messages, prev_idx, before>>

WalkOff ==
  /\ at = "walk"
  /\ trim_index = Len(messages)
  /\ at' = "cut"
  /\ UNCHANGED <<messages, trim_index, prev_idx, before>>

(* Slip: what the walk passed goes too.                                    *)
CutAtWalk ==
  /\ at = "cut"
  /\ messages' = SubSeq(messages, trim_index + 1, Len(messages))
  /\ at' = "done"
  /\ UNCHANGED <<trim_index, prev_idx, before>>

(* Never more than what is over the limit.                                 *)
Cut ==
  /\ at = "cut"
  /\ LET index == IF trim_index > Excess THEN Excess ELSE trim_index
     IN  /\ trim_index' = index
         /\ messages' = SubSeq(messages, index + 1, Len(messages))
  /\ at' = "done"
  /\ UNCHANGED <<prev_idx, before>>

TrimNext ==
  \/ Enter \/ MeetTool \/ StepBack \/ EndBack
  \/ StopAtUser \/ WalkOn \/ WalkOff \/ Cut

(* Plain sequential code: it runs on.                                      *)
TrimSpec == TrimInit /\ [][TrimNext]_trimVars /\ WF_trimVars(TrimNext)

-----------------------------------------------------------------------------
(* Type invariant.                                                         *)
TrimTypes ==
  /\ at \in {"start", "walk", "back", "cut", "done"}
  /\ before \in Transcripts
  /\ messages = SubSeq(before, Len(before) - Len(messages) + 1, Len(before))
  /\ trim_index \in 0..Len(before)
  /\ prev_idx \in -1..Len(before)

(* The loops compute TrimPoint, the definition the model of the event loop *)
(* uses.                                                                   *)
ComputesTrimPoint ==
  at = "done" => messages = Trimmed(before, MaxMessages)

(* Every tool result follows its call, with nothing but results between.   *)
Grouped(q) ==
  \A k \in DOMAIN q :
    q[k].role = "tool" =>
      /\ Owner(q, k) # 0
      /\ \A j \in (Owner(q, k) + 1)..k : q[j].role = "tool"

(* event_loop.py:67-69 "When trimming would split an assistant message     *)
(* with tool_calls from its corresponding tool result messages, we keep    *)
(* the entire group": groups that are whole stay whole.                    *)
GroupsStayWhole == at = "done" /\ Grouped(before) => Grouped(messages)

(* Trimming takes nothing that fits, and what it leaves over the limit is  *)
(* a part of the one group that the limit cuts.                            *)
TrimsWhatIsOver ==
  at = "done" =>
    /\ Len(messages) >= IF Len(before) < MaxMessages THEN Len(before)
                                                     ELSE MaxMessages
    /\ Len(messages) > MaxMessages =>
         /\ messages[1].role = "calls"
         /\ Owner(messages, Len(messages) - MaxMessages + 1) = 1

(* The function returns (event_loop.py:82 and 89, two while loops).        *)
Returns == <>(at = "done")

(* What trimming keeps: groups that were whole, what fits, and of what does*)
(* not fit only a part of the group that is cut; a suffix of the           *)
(* transcript, by TrimTypes.                                                  *)
KeepsWhatBelongs == TrimTypes /\ GroupsStayWhole /\ TrimsWhatIsOver

(* The loops cut where they should, and that is a good place.              *)
LoopSound == ComputesTrimPoint /\ KeepsWhatBelongs
=============================================================================
