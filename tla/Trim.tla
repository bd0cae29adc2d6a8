-------------------------------- MODULE Trim --------------------------------
(***************************************************************************)
(* _trim_messages_preserve_pairs (core/event_loop.py): how many of the     *)
(* oldest messages of a transcript go.  A message is a record with a       *)
(* field "role"; an assistant message with tool_calls has the role         *)
(* "calls", one without them the role "assistant".                         *)
(***************************************************************************)
EXTENDS Naturals, Sequences

CONSTANT MaxMessages   \* session.max_messages

ASSUME MaxMessagesAssumption == MaxMessages \in Nat \ {0}

Least(S) == CHOOSE k \in S : \A j \in S : k <= j

Greatest(S) == CHOOSE k \in S : \A j \in S : k >= j

(* Slip: the search goes on to the first group of the transcript.          *)
OwnerFirst(q, k) ==
  LET before == {j \in 1..(k - 1) : q[j].role = "calls"}
  IN  IF before = {} THEN 0 ELSE Least(before)

(* The inner loop: the assistant message that is nearest before position k *)
(* counts when it has tool_calls; 0 when there is none.                    *)
Owner(q, k) ==
  LET before == {j \in 1..(k - 1) : q[j].role \in {"assistant", "calls"}}
  IN  IF before # {} /\ q[Greatest(before)].role = "calls"
      THEN Greatest(before) ELSE 0

(* Where the outer loop, which starts at the first message that fits, is   *)
(* left: at a user message, or at a tool result with an owner.             *)
Stops(q, excess) ==
  {k \in (excess + 1)..Len(q) :
     q[k].role = "user" \/ (q[k].role = "tool" /\ Owner(q, k) # 0)}

(* How many messages are deleted when at most m should stay.               *)
TrimPoint(q, m) ==
  LET excess == Len(q) - m
      stop   == Least(Stops(q, excess))
      owner  == Owner(q, stop)
  IN  IF Len(q) <= m THEN 0
      ELSE IF /\ Stops(q, excess) # {}
              /\ q[stop].role = "tool"
              /\ owner <= excess
           THEN owner - 1
           ELSE excess

Trimmed(q, m) == SubSeq(q, TrimPoint(q, m) + 1, Len(q))
=============================================================================
