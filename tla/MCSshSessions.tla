--------------------------- MODULE MCSshSessions ----------------------------
(***************************************************************************)
(* Model values for SshSessions: the first host has a credential, the      *)
(* others have none.                                                       *)
(***************************************************************************)
EXTENDS SshSessions, TLC

CONSTANTS h1, h2, u1, u2

MCCredentials == [h \in Hosts |-> IF h = h1 THEN u1 ELSE NoUser]
AllStored == [h \in Hosts |-> u1]

Symmetry == Permutations(Calls) \cup Permutations(Conns)
=============================================================================
