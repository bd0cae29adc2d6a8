----------------------------- MODULE MCRegistry -----------------------------
(***************************************************************************)
(* Two modules to be given and three entry points.  Of all of them two     *)
(* claim one namespace, two one tool, one lists a tool twice, and one      *)
(* cannot be constructed.                                                  *)
(***************************************************************************)
EXTENDS Registry

MCClasses == {"Files", "Files2", "Shell", "Twice", "Web"}

MCNamespaceOf ==
  [c \in MCClasses |-> IF c = "Files2" THEN "Files" ELSE c]

MCToolsOf ==
  [c \in MCClasses |->
     CASE c = "Files" -> <<"read", "write">>
       [] c = "Files2" -> <<"list">>
       [] c = "Shell" -> <<"run", "write">>
       [] c = "Twice" -> <<"twice", "twice">>
       [] c = "Web" -> <<"fetch">>]
=============================================================================
