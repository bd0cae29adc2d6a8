\* Two calls, one connection, a limit of three bytes and chunks of two.
CONSTANTS
  Fetches = {a, b}
  FollowRedirects = TRUE
  MaxConnections = 1
  MaxRedirects = 1
  MaxResponseSize = 3
  ChunkSize = 2
  WaitTimeout = 1
  Pieces = {0, 1, 3}

SPECIFICATION FetchSpec

INVARIANTS
  FetchSound

PROPERTIES
  CallsEnd

\* Calls are answered once.
CHECK_DEADLOCK FALSE
