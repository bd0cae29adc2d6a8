--------------------------- MODULE MCPolicyStore ----------------------------
(***************************************************************************)
(* Model values for PolicyStore.  Two actions with a pattern each and one  *)
(* for both, one resource, two context keys; policies with and without     *)
(* conditions, among them a negated one with two values and one with a     *)
(* misspelt operator.                                                      *)
(***************************************************************************)
EXTENDS PolicyStore

MCGlob ==
  {<<"read", "read">>, <<"write", "write">>, <<"read", "*">>, <<"write", "*">>,
   <<"disk", "disk">>, <<".env", ".env">>, <<".env", ".e*">>, <<".txt", ".txt">>}

Words == {".env", ".txt", ".pem", ".e*", "5", "9", "True", "nan"}

MCStr == [w \in Words |-> w]
MCNum == [w \in Words |-> IF w = "5" THEN 5 ELSE IF w = "9" THEN 9 ELSE NotNumber]
MCTruth == [w \in Words |-> IF w = "True" THEN "true" ELSE w]

S(e, a, c) == [effect |-> e, action |-> {a}, resource |-> {"disk"}, condition |-> c]

On(op, k, values) == [o \in {op} |-> [j \in {k} |-> values]]

AllowRead == {S("Allow", "read", NoCondition)}
AllowSmall == {S("Allow", "*", On("NumericLessThanEquals", "size", {"nan", "5"})),
               S("Deny", "write", NoCondition)}
AllowFlag == {S("Allow", "write", On("Bool", "ext", {"True"}))}
DenyEnv == {S("Deny", "read", On("StringLike", "ext", {".e*"}))}
DenyTypo == {S("Deny", "*", On("StringEqual", "ext", {".env"}))}
AllowOthers == {S("Allow", "read", On("StringNotEquals", "ext", {".env", ".pem"}))}

MCPolicies == {AllowRead, AllowSmall, AllowFlag, DenyEnv, AllowOthers}
TypoPolicies == {AllowRead, DenyTypo}

MCDirs == {{AllowRead, DenyEnv}, {AllowSmall, Broken}}

Empty == [k \in {} |-> ".env"]

Contexts ==
  {Empty} \cup [{"ext"} -> {".env", ".txt", "True"}] \cup [{"size"} -> {"5", "9", "nan"}]
  \cup [{"ext", "size"} -> {".env", "5"}]

MCRequests ==
  {[action |-> a, resource |-> "disk", context |-> x] :
     a \in {"read", "write"}, x \in Contexts}

MCAsked ==
  {[action |-> "read", resource |-> "disk", context |-> x] :
     x \in {Empty} \cup [{"ext"} -> {".env"}]}
=============================================================================
