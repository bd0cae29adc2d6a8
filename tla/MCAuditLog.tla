----------------------------- MODULE MCAuditLog -----------------------------
(***************************************************************************)
(* Two sessions log; a query asks for everything, for one session, for the *)
(* decisions that allowed, with a limit, and with bounds that do not       *)
(* compare.                                                                *)
(***************************************************************************)
EXTENDS AuditLog

Query(session, decision, limit, within, naive) ==
  [session |-> session, decision |-> decision, action |-> None, limit |-> limit,
   within |-> within, naive |-> naive]

MCLimits == {1, Unlimited}

MCAsked ==
  { Query(None, None, 1, 1..MaxEntries, FALSE),
    Query(None, None, Unlimited, 2..MaxEntries, FALSE),
    Query(None, None, 0, 1..MaxEntries, FALSE),
    Query(None, "allow", Unlimited, 1..MaxEntries, FALSE),
    Query(None, None, Unlimited, 1..MaxEntries, TRUE),
    Query("s1", None, Unlimited, 1..MaxEntries, FALSE) }
=============================================================================
