----------------------------- MODULE MCDispatch -----------------------------
(***************************************************************************)
(* Model values for Dispatch.  "probe" is not registered.  "copy" names    *)
(* two resources, "list" names none, so it is evaluated against the empty  *)
(* string.  Each resource stands for one answer of the evaluator; "when"   *)
(* depends on the resolved context.                                        *)
(***************************************************************************)
EXTENDS Dispatch

CONSTANTS c1, c2, absent, open, shut, broken

MCTools == {"copy", "list", "probe"}
MCRegistered == {"copy", "list"}
MCResourceParam == [t \in MCRegistered |->
                      IF t = "copy" THEN <<"source", "target">> ELSE <<>>]

MCValues == {"allow", "deny", "when", "fault"}
MCParams ==
  {[source |-> "allow", target |-> "allow"],
   [source |-> "deny",  target |-> "when"],
   [source |-> "allow", target |-> "fault"],
   [source |-> absent,  target |-> "when"],
   [source |-> absent,  target |-> absent]}

MCStr == [v \in MCValues |-> v]
MCResources == MCValues \cup {""}

MCVerdict ==
  [t \in MCRegistered, r \in MCResources, x \in {open, shut} |->
     CASE r = "allow" -> "ALLOWED"
       [] r = "deny"  -> "DENIED_EXPLICIT"
       [] r = "fault" -> "raise"
       [] r = "when"  -> IF x = open THEN "ALLOWED" ELSE "DENIED_IMPLICIT"
       [] r = ""      -> IF t = "list" THEN "ALLOWED" ELSE "DENIED_IMPLICIT"]
=============================================================================
