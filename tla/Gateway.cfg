\* Three turns and one session more than fits; time evicts sessions, too.
CONSTANTS
  Turns = {t1, t2, t3}
  Ids = {s1, s2, s3}
  NoId = NoId
  NoLock = NoLock
  ManagerThreads = FALSE
  MaxSessions = 2
  TTL = 1
  MaxClock = 3

SPECIFICATION Spec
SYMMETRY Interchangeable

INVARIANTS
  LocksExclude
  QueuesSound

PROPERTIES
  ImplementsSerial

\* Every turn ends, and the clock stops.
CHECK_DEADLOCK FALSE
