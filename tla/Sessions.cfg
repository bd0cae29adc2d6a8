\* One session more than fits, and a clock that can pass the TTL while others
\* are used.
CONSTANTS
  Ids = {s1, s2, s3}
  Threads = {t1, t2}
  NoId = NoId
  MaxSessions = 2
  MaxMessages = 1
  TTL = 1
  MaxClock = 3
  MaxAdded = 2

SPECIFICATION Spec
SYMMETRY Interchangeable

INVARIANTS
  KeptInOrder
  ReleasedOnce
  HistoryIsSuffix

PROPERTIES
  EvictedForCause

\* Time stops at MaxClock and identifiers run out.
CHECK_DEADLOCK FALSE
