\* Five policies, two directories of which one has a broken file, one reader.
CONSTANTS
  Glob <- MCGlob
  Str <- MCStr
  Num <- MCNum
  Truth <- MCTruth
  NotNumber = NotNumber
  NoCondition = NoCondition
  Policies <- MCPolicies
  Broken = Broken
  Dirs <- MCDirs
  Requests <- MCRequests
  Asked <- MCAsked
  Readers = {r1}
  NoRequest = NoRequest
  NoCache = NoCache

SPECIFICATION StoreSpec

INVARIANTS
  StoreWhole
  ContextGrantsNothing
  PoliciesCombine

\* Readers decide once.
CHECK_DEADLOCK FALSE
