\* Every output of up to four units on two streams where three fit, a child or none.
CONSTANTS
  Timeout = 1
  MaxOutput = 3
  PipeSize = 2
  Children = TRUE
  MaxWritten = 4
  MaxTime = 3

SPECIFICATION CommandSpec

INVARIANTS
  NothingLeftBehind
  GitAnswerWhole

PROPERTIES
  Returns

\* The call ends.
CHECK_DEADLOCK FALSE
