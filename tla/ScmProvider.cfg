\* Two calls, two calls of close(), one retry.
CONSTANTS
  Calls = {a, b}
  Tools = {"ListRepos", "ApprovePullRequest"}
  Closers = {k1, k2}
  MaxRetries = 1
  MaxClients = 2

SPECIFICATION ScmSpec

SYMMETRY Interchangeable

INVARIANTS
  DeedsAccounted
  ClientsAccounted

\* Calls are answered once.
CHECK_DEADLOCK FALSE
