------------------------------ MODULE MCTurns -------------------------------
(***************************************************************************)
(* Turns of one session, and _trim_messages_preserve_pairs() as they call  *)
(* it, iteration by iteration, on every transcript of up to Longest        *)
(* messages, groups broken or not.  The two share nothing: in a behaviour  *)
(* of one the other stays where it begins.                                 *)
(***************************************************************************)
EXTENDS Turns, TrimLoop

CONSTANT Longest

MCTranscripts ==
  BoundedSeq({[role |-> r] : r \in {"user", "assistant", "calls", "tool"}}, Longest)

(* The function is not called.                                             *)
NotCalled ==
  /\ at = "not_called"
  /\ messages = <<>> /\ before = <<>>
  /\ trim_index = 0 /\ prev_idx = 0

MCInit == Init /\ (TrimInit \/ NotCalled)

MCNext ==
  \/ NotCalled /\ Next /\ UNCHANGED trimVars
  \/ TrimNext /\ UNCHANGED vars

MCSpec ==
  MCInit /\ [][MCNext]_<<vars, trimVars>> /\ Fairness /\ WF_trimVars(TrimNext)

(* See LoopSound in TrimLoop.                                              *)
TrimSound == ~NotCalled => LoopSound

(* What has begun ends: the turns of a session that have come, if the model*)
(* and the tools answer, and the function (event_loop.py:82 and 89, two    *)
(* while loops).                                                           *)
TurnsReturn == TurnEnds /\ (NotCalled \/ Returns)
=============================================================================
