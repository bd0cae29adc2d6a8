\* Two turns, of one round with up to two tool calls and the last call of the model,
\* over a limit that cuts into the groups of both, and a message from a thread; or the
\* trimming of up to six messages to two, with room for a group that starts before the
\* cut.
CONSTANTS
  Turns = {t1, t2}
  Outside = Outside
  MaxTurns = 1
  MaxMessages = 2
  MaxCalls = 2
  MaxAdded = 1
  Longest = 6
  Transcripts <- MCTranscripts

SPECIFICATION MCSpec

INVARIANTS
  ExchangesApart
  TrimSound

PROPERTIES
  TrimsTheOldest
  TurnsReturn

\* Every turn ends, and the function returns.
CHECK_DEADLOCK FALSE
