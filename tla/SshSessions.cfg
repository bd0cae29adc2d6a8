\* Two hosts where one session fits, two calls that may connect to the same host, commands
\* that may take longer than the idle time-out.
CONSTANTS
  h1 = h1
  h2 = h2
  u1 = u1
  u2 = u2
  Hosts = {h1, h2}
  Users = {u1}
  Credentials <- AllStored
  Calls = {c1, c2}
  Conns = {k1, k2, k3}
  NoConn = NoConn
  NoHost = NoHost
  NoUser = NoUser
  MaxSessions = 1
  IdleTimeout = 1
  CommandTime = 2
  MaxTime = 3

SYMMETRY Symmetry

SPECIFICATION Spec

INVARIANTS
  SessionsBounded
  LostToRaces

PROPERTIES
  OnlyLongCommandsCut
