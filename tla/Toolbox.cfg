\* Three calls of the filesystem tools on two files, of which one is too large to be
\* read; or one call of an adapter, with SQL of up to five tokens.
CONSTANTS
  c1 = c1
  c2 = c2
  c3 = c3
  Calls = {c1, c2, c3}
  Stranger = stranger
  Paths <- MCPaths
  Above <- MCAbove
  Outside = "outside"
  Requests <- MCRequests
  Seed <- MCSeed
  MaxRead = 2
  MaxWrite = 2
  MaxList = 2
  Worth <- MCWorth
  Words <- MCWords
  Providers <- MCProviders
  Asks <- MCAsks

SPECIFICATION SpecToolbox

INVARIANTS
  Settled
  AnswersAccounted
  DecidedIsDone
  DescribedIsDone
  StatementsSorted

PROPERTIES
  ImplementsAtomic
  NothingVanishes

\* Every call ends.
CHECK_DEADLOCK FALSE

SYMMETRY Symmetry
