\* Two calls in flight, one of which may name two resources.
CONSTANTS
  c1 = c1
  c2 = c2
  absent = absent
  open = open
  shut = shut
  broken = broken
  Calls = {c1, c2}
  Tools <- MCTools
  Registered <- MCRegistered
  Params <- MCParams
  Values <- MCValues
  None = absent
  ResourceParam <- MCResourceParam
  Resources <- MCResources
  NoResource = ""
  Str <- MCStr
  Contexts = {open, shut}
  Malformed = broken
  Verdict <- MCVerdict

SPECIFICATION FairSpec

INVARIANTS
  RecordFaithful
  NoBypass
  FailClosed

PROPERTIES
  ImplementsGate

\* Every call ends.
CHECK_DEADLOCK FALSE
