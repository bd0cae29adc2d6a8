----------------------------- MODULE Statements -----------------------------
(***************************************************************************)
(* The texts that the database and the alerting module look into: SQL      *)
(* (modules/filesystem/database.py) and durations                          *)
(* (modules/observability/alerting.py).  A text is a sequence of tokens:   *)
(* quotes, backslashes, spaces and punctuation one by one, words as a      *)
(* whole.                                                                  *)
(***************************************************************************)
EXTENDS Integers, Sequences

CONSTANTS Worth, \* the tokens that are numbers, and what they are worth
          Words  \* the tokens that are made of letters and digits

ASSUME StatementsAssumption ==
  /\ \A t \in DOMAIN Worth : Worth[t] \in Nat
  /\ DOMAIN Worth \subseteq Words

Quotes == {"'", "\""}
DDL == {"CREATE", "DROP", "ALTER", "TRUNCATE"}

(* Slip: a backslash escapes nothing.                                      *)
AfterLiteralPlain(sql, quote) ==
  LET after[i \in 1..(Len(sql) + 1)] ==
        IF i > Len(sql) THEN i
        ELSE IF sql[i] # quote THEN after[i + 1]
        ELSE IF i < Len(sql) /\ sql[i + 1] = quote THEN after[i + 2]
        ELSE i + 1 IN
  after

(* The inner loop: where it is after a literal in which it is at i.        *)
AfterLiteral(sql, quote) ==
  LET after[i \in 1..(Len(sql) + 1)] ==
        IF i > Len(sql) THEN i
        ELSE IF sql[i] = "\\" /\ i < Len(sql) THEN after[i + 2]
        ELSE IF sql[i] # quote THEN after[i + 1]
        ELSE IF i < Len(sql) /\ sql[i + 1] = quote THEN after[i + 2]
        ELSE i + 1 IN
  after

(* _strip_string_literals(), from a place on: each literal is replaced by  *)
(* an empty one.                                                           *)
StrippedFrom(sql) ==
  LET from[i \in 1..(Len(sql) + 1)] ==
        IF i > Len(sql) THEN <<>>
        ELSE IF sql[i] \in Quotes
          THEN <<sql[i], sql[i]>> \o from[AfterLiteral(sql, sql[i])[i + 1]]
        ELSE <<sql[i]>> \o from[i + 1] IN
  from

Stripped(sql) == StrippedFrom(sql)[1]

(* Token i is a word by itself, what "\b" on both sides asks for.          *)
IsWord(text, i) ==
  /\ i = 1 \/ text[i - 1] \notin Words
  /\ i = Len(text) \/ text[i + 1] \notin Words

IsDDL(sql) ==
  LET text == Stripped(sql) IN
  \E i \in 1..Len(text) : text[i] \in DDL /\ IsWord(text, i)

IsReadonly(sql) ==
  LET text == Stripped(sql) IN
  \E i \in 1..Len(text) : /\ text[i] = "SELECT" /\ IsWord(text, i)
                          /\ \A j \in 1..(i - 1) : text[j] = " "

(* _extract_table_name(): the first place where one of the patterns fits,  *)
(* the patterns one after the other.  "?" is for the name.                 *)
NoName == ""

Collapsed(sql) ==
  LET from[i \in 1..(Len(sql) + 1)] ==
        IF i > Len(sql) THEN <<>>
        ELSE IF sql[i] = " " /\ i > 1 /\ sql[i - 1] = " " THEN from[i + 1]
        ELSE <<sql[i]>> \o from[i + 1] IN
  from[1]

TablePatterns ==
  << <<"FROM", " ", "?">>, <<"INSERT", " ", "INTO", " ", "?">>,
     <<"UPDATE", " ", "?", " ", "SET">>, <<"DELETE", " ", "FROM", " ", "?">> >>

Fits(sql, i, pattern) ==
  /\ i + Len(pattern) - 1 <= Len(sql)
  /\ i = 1 \/ sql[i - 1] \notin Words
  /\ pattern[Len(pattern)] = "SET" => IsWord(sql, i + Len(pattern) - 1)
  /\ \A k \in 1..Len(pattern) :
       sql[i + k - 1] = pattern[k] \/ (pattern[k] = "?" /\ sql[i + k - 1] \in Words \ DOMAIN Worth)

TableName(text) ==
  LET sql == Collapsed(text)
      fits == {f \in (1..Len(TablePatterns)) \X (1..Len(sql)) :
                 Fits(sql, f[2], TablePatterns[f[1]])}
      first == CHOOSE f \in fits : \A g \in fits : f[1] < g[1] \/ (f[1] = g[1] /\ f[2] <= g[2])
      name == CHOOSE k \in 1..5 : TablePatterns[first[1]][k] = "?" IN
  IF fits = {} THEN NoName ELSE sql[first[2] + name - 1]

(* _parse_duration(), in minutes; 0 also for its None.                     *)
Minutes(t) ==
  LET n(i) == Worth[t[i]]
      IsNum(i) == t[i] \in DOMAIN Worth IN
  IF Len(t) = 1 /\ IsNum(1) THEN n(1)
  ELSE IF Len(t) = 2 /\ IsNum(1) /\ t[2] = "h" THEN 60 * n(1)
  ELSE IF Len(t) = 2 /\ IsNum(1) /\ t[2] = "m" THEN n(1)
  ELSE IF Len(t) = 4 /\ IsNum(1) /\ t[2] = "h" /\ IsNum(3) /\ t[4] = "m" THEN 60 * n(1) + n(3)
  ELSE 0

-----------------------------------------------------------------------------
NoQuote == ""

(* What a literal is, said without a scanner: each quote that is not       *)
(* escaped opens one or closes the one of its kind that is open, so that a *)
(* doubled quote closes and opens again.                                   *)
Open(sql) ==
  LET open[i \in 0..Len(sql)] ==
        IF i = 0 THEN [by |-> NoQuote, escaped |-> FALSE]
        ELSE LET o == open[i - 1] IN
             IF o.by = NoQuote THEN [o EXCEPT !.by = IF sql[i] \in Quotes THEN sql[i] ELSE NoQuote]
             ELSE IF o.escaped THEN [o EXCEPT !.escaped = FALSE]
             ELSE IF sql[i] = "\\" THEN [o EXCEPT !.escaped = TRUE]
             ELSE IF sql[i] = o.by THEN [o EXCEPT !.by = NoQuote]
             ELSE o IN
  open

(* Token i stands outside the literals, as a word by itself.               *)
Bare(sql, i) == Open(sql)[i - 1].by = NoQuote /\ sql[i] \notin Quotes /\ IsWord(sql, i)

HasBareDDL(sql) == \E i \in 1..Len(sql) : sql[i] \in DDL /\ Bare(sql, i)

BeginsWithSelect(sql) ==
  \E i \in 1..Len(sql) :
    sql[i] = "SELECT" /\ Bare(sql, i) /\ \A j \in 1..(i - 1) : sql[j] = " "
=============================================================================
