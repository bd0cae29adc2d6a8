\* Two sessions, three decisions, one torn line, one failure of the storage,
\* a read and a query.
CONSTANTS
  Sessions = {"s1", "s2"}
  Queries = {"q"}
  MaxResults = 2
  MaxEntries = 3
  MaxTears = 1
  MaxFaults = 1
  Limits <- MCLimits
  Asked <- MCAsked

SPECIFICATION AuditSpec

INVARIANTS
  TrailSound
  QuerySound

PROPERTIES
  TrailGrows

\* Everything that may be written and asked has been.
CHECK_DEADLOCK FALSE
