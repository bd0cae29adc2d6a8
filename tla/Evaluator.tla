----------------------------- MODULE Evaluator ------------------------------
(***************************************************************************)
(* PolicyEvaluator (access/evaluator.py): the decision on a request, given *)
(* the statements of the policies.                                         *)
(*                                                                         *)
(* A statement has an effect, sets of patterns and a condition; a          *)
(* condition maps operators to maps from context keys to sets of values.   *)
(* Which string matches which pattern (fnmatchcase) and what a value is    *)
(* worth as a string, a number and a boolean is given by constants.        *)
(***************************************************************************)
EXTENDS Integers

CONSTANTS Glob,        \* <<s, p>>: string s matches pattern p
          Str,         \* str(value)
          Num,         \* _safe_float(value)
          Truth,       \* str(value).lower()
          NotNumber,   \* the None of _safe_float
          NoCondition  \* the None of Statement.condition

StringOps == {"StringEquals", "StringNotEquals", "StringLike", "StringNotLike"}

NumericOps == {"NumericEquals", "NumericNotEquals", "NumericLessThan",
               "NumericGreaterThan", "NumericLessThanEquals",
               "NumericGreaterThanEquals"}

BoolOps == {"Bool"}

KnownOps == StringOps \cup NumericOps \cup BoolOps

MatchesString(op, s, p) ==
  \/ op = "StringEquals"    /\ s = p
  \/ op = "StringNotEquals" /\ s # p
  \/ op = "StringLike"      /\ <<s, p>> \in Glob
  \/ op = "StringNotLike"   /\ <<s, p>> \notin Glob

MatchesNumber(op, x, y) ==
  \/ op = "NumericEquals"            /\ x = y
  \/ op = "NumericNotEquals"         /\ x # y
  \/ op = "NumericLessThan"          /\ x < y
  \/ op = "NumericGreaterThan"       /\ x > y
  \/ op = "NumericLessThanEquals"    /\ x <= y
  \/ op = "NumericGreaterThanEquals" /\ x >= y

MatchesBool(v, w) == Truth[v] \in {"true", "false"} /\ Truth[v] = Truth[w]

(* The values of a key are alternatives, for every operator; one that is   *)
(* no number is skipped.  An operator that is not known never holds.       *)
Holds(op, v, values) ==
  \/ op \in StringOps  /\ \E w \in values : MatchesString(op, Str[v], Str[w])
  \/ /\ op \in NumericOps
     /\ Num[v] # NotNumber
     /\ \E w \in values : Num[w] # NotNumber /\ MatchesNumber(op, Num[v], Num[w])
  \/ op \in BoolOps    /\ \E w \in values : MatchesBool(v, w)

(* Slip: a key the context does not have is skipped.                       *)
SatisfiedWhenAbsent(condition, context) ==
  \/ condition = NoCondition
  \/ \A op \in DOMAIN condition : \A k \in DOMAIN condition[op] :
       k \in DOMAIN context => Holds(op, context[k], condition[op][k])

(* Operators and keys are all required; a key the context does not have    *)
(* fails the condition.                                                    *)
Satisfied(condition, context) ==
  \/ condition = NoCondition
  \/ \A op \in DOMAIN condition : \A k \in DOMAIN condition[op] :
       k \in DOMAIN context /\ Holds(op, context[k], condition[op][k])

Matches(stmt, request) ==
  /\ \E p \in stmt.action : <<request.action, p>> \in Glob
  /\ \E p \in stmt.resource : <<request.resource, p>> \in Glob

Applies(stmt, request) ==
  Matches(stmt, request) /\ Satisfied(stmt.condition, request.context)

(* Slip: the first statement that applies decides, allowing ones first.    *)
EvaluateAllowFirst(statements, request) ==
  IF \E s \in statements : s.effect = "Allow" /\ Applies(s, request)
  THEN "ALLOWED"
  ELSE IF \E s \in statements : s.effect = "Deny" /\ Applies(s, request)
  THEN "DENIED_EXPLICIT"
  ELSE "DENIED_IMPLICIT"

Evaluate(statements, request) ==
  IF \E s \in statements : s.effect = "Deny" /\ Applies(s, request)
  THEN "DENIED_EXPLICIT"
  ELSE IF \E s \in statements : s.effect = "Allow" /\ Applies(s, request)
  THEN "ALLOWED"
  ELSE "DENIED_IMPLICIT"
=============================================================================
