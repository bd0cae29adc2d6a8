--------------------------- MODULE AdaptersProofs ---------------------------
(***************************************************************************)
(* Proofs about Adapters and Statements, for every call of every tool      *)
(* (WellFormed): what the policies decide on is what the backend gets, a   *)
(* call that keeps to the description of its tool is done as a whole, and  *)
(* the database tools hand over the statements they are for.               *)
(*                                                                         *)
(* The last rests on ScannerReadsLiterals: what the scanner leaves of an   *)
(* SQL text has the bare words of the text, however long it is.  Its       *)
(* definitions are recursive functions; the proof takes a least or a       *)
(* greatest counterexample where an induction would be used.               *)
(*                                                                         *)
(* The other two compare, tool by tool, what describe() says with what the *)
(* handler reads, and then hold for whatever parameters are given.         *)
(***************************************************************************)
EXTENDS Adapters, SequenceTheorems, WellFoundedInduction, TLAPS

-----------------------------------------------------------------------------
(* Natural numbers, and functions that are defined by recursion.           *)
LEMMA Smallest ==
  ASSUME NEW T, T \subseteq Nat, T # {}
  PROVE  \E n \in T : \A m \in T : n <= m
<1> DEFINE R == OpToRel(<, Nat)
<1>1. IsWellFoundedOn(R, Nat)
  BY NatLessThanWellFounded
<1>2. \A x, y \in Nat : <<x, y>> \in R <=> x < y
  BY DEF OpToRel
<1> HIDE DEF R
<1>3. \E n \in T : \A m \in T : ~(<<m, n>> \in R)
  BY <1>1, WFMin, Zenon
<1>4. PICK n \in T : \A m \in T : ~(<<m, n>> \in R)
  BY <1>3
<1>5. \A m \in T : n <= m
  <2> SUFFICES ASSUME NEW m \in T PROVE n <= m
    OBVIOUS
  <2>1. m \in Nat /\ n \in Nat /\ ~(m < n)
    BY <1>2, <1>4
  <2> QED BY <2>1
<1> QED BY <1>5

(* A set of natural numbers with a bound has a greatest one.               *)
LEMMA Greatest ==
  ASSUME NEW n \in Nat, NEW T, T \subseteq 0..n, T # {}
  PROVE  \E i \in T : \A j \in T : j <= i
<1> DEFINE D == {n - i : i \in T}
<1>1. D \subseteq Nat /\ D # {}
  <2>1. \A i \in T : n - i \in Nat
    OBVIOUS
  <2>2. PICK i \in T : TRUE
    OBVIOUS
  <2>3. n - i \in D
    OBVIOUS
  <2> QED BY <2>1, <2>3
<1>2. PICK d \in D : \A e \in D : d <= e
  <2> HIDE DEF D
  <2> QED BY <1>1, Smallest
<1>3. PICK i \in T : d = n - i
  BY <1>2
<1>4. \A j \in T : j <= i
  <2> SUFFICES ASSUME NEW j \in T PROVE j <= i
    OBVIOUS
  <2>1. d <= n - j
    BY <1>2
  <2> QED BY <1>3, <2>1
<1> QED BY <1>4

(* A function is there that each step defines from its values of lower     *)
(* rank: what step does to a function at i depends on these only.          *)
Descends(S, V, top, rank, step) ==
  /\ top \in Nat
  /\ rank \in [S -> 0..top]
  /\ step \in [[S -> V] -> [S -> V]]
  /\ [S -> V] # {}
  /\ \A f, g \in [S -> V], i \in S :
       (\A j \in S : rank[j] < rank[i] => f[j] = g[j]) => step[f][i] = step[g][i]

(* The step has a fixed point: a recursive definition that descends        *)
(* defines a function.                                                     *)
LEMMA Recursion ==
  ASSUME NEW S, NEW V, NEW top, NEW rank, NEW step, Descends(S, V, top, rank, step)
  PROVE  \E f \in [S -> V] : f = step[f]
<1> USE DEF Descends
<1> DEFINE Fixed(f, k) == \A i \in S : rank[i] < k => f[i] = step[f][i]
           Bad == {k \in Nat : ~\E f \in [S -> V] : Fixed(f, k)}
<1>1. Bad = {}
  <2> SUFFICES ASSUME Bad # {} PROVE FALSE
    OBVIOUS
  <2>1. Bad \subseteq Nat
    OBVIOUS
  <2>2. PICK k \in Bad : \A m \in Bad : k <= m
    <3> HIDE DEF Bad
    <3> QED BY <2>1, Smallest
  <2>3. k # 0
    <3>1. PICK f \in [S -> V] : TRUE
      OBVIOUS
    <3>2. Fixed(f, 0)
      OBVIOUS
    <3> QED BY <2>2, <3>2
  <2>4. k \in Nat /\ k - 1 \in Nat /\ k - 1 \notin Bad
    BY <2>2, <2>3
  <2>5. PICK f \in [S -> V] : Fixed(f, k - 1)
    BY <2>4
  <2>6. step[f] \in [S -> V]
    OBVIOUS
  <2>7. Fixed(step[f], k)
    <3> SUFFICES ASSUME NEW i \in S, rank[i] < k
                 PROVE  step[f][i] = step[step[f]][i]
      OBVIOUS
    <3>1. \A j \in S : rank[j] < rank[i] => f[j] = step[f][j]
      BY <2>4, <2>5
    <3> QED BY <2>6, <3>1
  <2> QED BY <2>2, <2>6, <2>7
<1>2. PICK f \in [S -> V] : Fixed(f, top + 1)
  <2>1. top + 1 \in Nat
    OBVIOUS
  <2> HIDE DEF Fixed
  <2> QED BY <1>1, <2>1
<1>3. \A i \in S : f[i] = step[f][i]
  BY <1>2
<1>4. f = step[f]
  BY <1>3
<1> QED BY <1>4

-----------------------------------------------------------------------------
(* Literals.  "rest" is the function that tells where the scanner is after *)
(* the literal.                                                            *)
AfterStep(sql, quote, after, i) ==
  IF i > Len(sql) THEN i
  ELSE IF sql[i] = "\\" /\ i < Len(sql) THEN after[i + 2]
  ELSE IF sql[i] # quote THEN after[i + 1]
  ELSE IF i < Len(sql) /\ sql[i + 1] = quote THEN after[i + 2]
  ELSE i + 1

(* The inner loop of _strip_string_literals(): AfterLiteral is the         *)
(* function its definition describes.                                      *)
LEMMA AfterLiteralIs ==
  ASSUME NEW sql \in Seq(STRING), NEW quote
  PROVE  LET after == AfterLiteral(sql, quote) IN
         /\ after \in [1..(Len(sql) + 1) -> 1..(Len(sql) + 1)]
         /\ \A i \in 1..(Len(sql) + 1) : after[i] = AfterStep(sql, quote, after, i)
<1> DEFINE S == 1..(Len(sql) + 1)
           rank == [i \in S |-> Len(sql) + 1 - i]
           step == [f \in [S -> S] |-> [i \in S |-> AfterStep(sql, quote, f, i)]]
<1>0. Len(sql) \in Nat
  OBVIOUS
<1>1. rank \in [S -> 0..(Len(sql) + 1)]
  BY <1>0
<1>2. step \in [[S -> S] -> [S -> S]]
  BY <1>0 DEF AfterStep
<1>3. [S -> S] # {}
  <2>1. [i \in S |-> i] \in [S -> S]
    OBVIOUS
  <2> QED BY <2>1
<1>4. \A f, g \in [S -> S], i \in S :
        (\A j \in S : rank[j] < rank[i] => f[j] = g[j]) => step[f][i] = step[g][i]
  BY <1>0 DEF AfterStep
<1>5. PICK f \in [S -> S] : f = step[f]
  <2>1. Descends(S, S, Len(sql) + 1, rank, step)
    <3>1. Len(sql) + 1 \in Nat
      BY <1>0
    <3> HIDE DEF S, rank, step
    <3> QED BY <3>1, <1>1, <1>2, <1>3, <1>4, Zenon DEF Descends
  <2> HIDE DEF S, rank, step
  <2> QED BY <2>1, Recursion
<1>6. f = [i \in S |-> AfterStep(sql, quote, f, i)]
  BY <1>5
<1> DEFINE a == AfterLiteral(sql, quote)
<1>7. a = [i \in S |-> AfterStep(sql, quote, a, i)]
  BY <1>6, Zenon DEF AfterLiteral, AfterStep
<1> HIDE DEF a
<1>8. \A i \in S : a[i] = AfterStep(sql, quote, a, i)
  BY <1>7
<1>9. \A i \in S : a[i] \in S
  <2> DEFINE Bad == {i \in S : a[i] \notin S}
  <2>1. SUFFICES ASSUME Bad # {} PROVE FALSE
    OBVIOUS
  <2>2. PICK k \in Bad : \A m \in Bad : m <= k
    <3>1. Len(sql) + 1 \in Nat /\ Bad \subseteq 0..(Len(sql) + 1)
      BY <1>0
    <3> HIDE DEF Bad, S
    <3> QED BY <2>1, <3>1, Greatest
  <2>3. \A m \in S : m > k => a[m] \in S
    BY <1>0, <2>2
  <2>4. a[k] \in S
    BY <1>0, <1>8, <2>2, <2>3 DEF AfterStep
  <2> QED BY <2>2, <2>4
<1>10. a \in [S -> S]
  BY <1>7, <1>9
<1> QED BY <1>8, <1>10 DEF a

(* The inner loop goes ahead, and not beyond the end.                      *)
LEMMA AfterLiteralAhead ==
  ASSUME NEW sql \in Seq(STRING), NEW quote, NEW i \in 1..(Len(sql) + 1)
  PROVE  /\ AfterLiteral(sql, quote)[i] \in i..(Len(sql) + 1)
         /\ i <= Len(sql) => AfterLiteral(sql, quote)[i] > i
<1> DEFINE n == Len(sql) + 1
           a == AfterLiteral(sql, quote)
           Ahead(k) == a[k] \in k..n /\ (k < n => a[k] > k)
           Bad == {k \in 1..n : ~Ahead(k)}
<1>1. Len(sql) \in Nat
  OBVIOUS
<1>2. \A k \in 1..n : a[k] = AfterStep(sql, quote, a, k)
  BY AfterLiteralIs
<1>3. SUFFICES Bad = {}
  <2>1. Ahead(i)
    OBVIOUS
  <2> QED BY <1>1, <2>1
<1> HIDE DEF a
<1>4. SUFFICES ASSUME Bad # {} PROVE FALSE
  OBVIOUS
<1>5. PICK k \in Bad : \A m \in Bad : m <= k
  <2>1. n \in Nat /\ Bad \subseteq 0..n
    BY <1>1
  <2> HIDE DEF Bad, n
  <2> QED BY <1>4, <2>1, Greatest
<1>6. \A m \in (k + 1)..n : Ahead(m)
  BY <1>1, <1>5
<1>7. Ahead(k)
  BY <1>1, <1>2, <1>6 DEF AfterStep
<1> QED BY <1>5, <1>7

(* The states of the reading that Open defines: outside of the literals,   *)
(* inside of one, and there after a backslash.                             *)
Outside == [by |-> NoQuote, escaped |-> FALSE]
Inside(quote) == [by |-> quote, escaped |-> FALSE]
Escaped(quote) == [by |-> quote, escaped |-> TRUE]
States == {Outside} \cup {Inside(q) : q \in Quotes} \cup {Escaped(q) : q \in Quotes}

OpenStep(sql, o, i) ==
  IF o.by = NoQuote THEN [o EXCEPT !.by = IF sql[i] \in Quotes THEN sql[i] ELSE NoQuote]
  ELSE IF o.escaped THEN [o EXCEPT !.escaped = FALSE]
  ELSE IF sql[i] = "\\" THEN [o EXCEPT !.escaped = TRUE]
  ELSE IF sql[i] = o.by THEN [o EXCEPT !.by = NoQuote]
  ELSE o

(* What a token does to each of the states.                                *)
LEMMA OpenSteps ==
  ASSUME NEW sql, NEW i
  PROVE  /\ sql[i] \in Quotes => OpenStep(sql, Outside, i) = Inside(sql[i])
         /\ sql[i] \notin Quotes => OpenStep(sql, Outside, i) = Outside
         /\ \A q \in Quotes :
              /\ OpenStep(sql, Escaped(q), i) = Inside(q)
              /\ sql[i] = "\\" => OpenStep(sql, Inside(q), i) = Escaped(q)
              /\ sql[i] = q => OpenStep(sql, Inside(q), i) = Outside
              /\ sql[i] \notin {"\\", q} => OpenStep(sql, Inside(q), i) = Inside(q)
<1>1. NoQuote \notin Quotes /\ "\\" \notin Quotes
  BY Zenon DEF Quotes, NoQuote
<1>2. /\ sql[i] \in Quotes => OpenStep(sql, Outside, i) = Inside(sql[i])
      /\ sql[i] \notin Quotes => OpenStep(sql, Outside, i) = Outside
  BY DEF OpenStep, Outside, Inside
<1>3. \A q \in Quotes : OpenStep(sql, Escaped(q), i) = Inside(q)
  BY <1>1 DEF OpenStep, Escaped, Inside
<1>4. ASSUME NEW q \in Quotes
      PROVE  /\ sql[i] = "\\" => OpenStep(sql, Inside(q), i) = Escaped(q)
             /\ sql[i] = q => OpenStep(sql, Inside(q), i) = Outside
             /\ sql[i] \notin {"\\", q} => OpenStep(sql, Inside(q), i) = Inside(q)
  BY <1>1 DEF OpenStep, Escaped, Inside, Outside
<1> QED BY <1>2, <1>3, <1>4

(* A token leads from a state to a state.                                  *)
LEMMA OpenStepIn ==
  ASSUME NEW sql, NEW i, NEW o \in States
  PROVE  OpenStep(sql, o, i) \in States
<1> DEFINE next == OpenStep(sql, o, i)
<1>1. o = Outside \/ \E q \in Quotes : o = Inside(q) \/ o = Escaped(q)
  BY DEF States
<1>2. next = Outside \/ \E q \in Quotes : next = Inside(q) \/ next = Escaped(q)
  <2>1. CASE o = Outside
    BY <2>1, OpenSteps
  <2>2. ASSUME NEW q \in Quotes, o = Inside(q)
        PROVE  next = Outside \/ next = Inside(q) \/ next = Escaped(q)
    BY <2>2, OpenSteps
  <2>3. ASSUME NEW q \in Quotes, o = Escaped(q)
        PROVE  next = Inside(q)
    BY <2>3, OpenSteps
  <2> HIDE DEF next
  <2> QED BY <1>1, <2>1, <2>2, <2>3
<1> QED BY <1>2 DEF States

(* The reading of a text goes from state to state.                         *)
LEMMA OpenIs ==
  ASSUME NEW sql \in Seq(STRING)
  PROVE  LET open == Open(sql) IN
         /\ open[0] = Outside
         /\ \A i \in 0..Len(sql) : open[i] \in States
         /\ \A i \in 1..Len(sql) : open[i] = OpenStep(sql, open[i - 1], i)
<1> DEFINE S == 0..Len(sql)
           At(f, i) == IF i = 0 THEN Outside ELSE OpenStep(sql, f[i - 1], i)
           rank == [i \in S |-> i]
           step == [f \in [S -> States] |-> [i \in S |-> At(f, i)]]
<1>0. Len(sql) \in Nat
  OBVIOUS
<1>1. rank \in [S -> 0..Len(sql)]
  OBVIOUS
<1>2. step \in [[S -> States] -> [S -> States]]
  <2>1. \A f \in [S -> States], i \in S : At(f, i) \in States
    <3> SUFFICES ASSUME NEW f \in [S -> States], NEW i \in S PROVE At(f, i) \in States
      OBVIOUS
    <3>1. CASE i = 0
      BY <3>1 DEF States
    <3>2. CASE i # 0
      <4>1. f[i - 1] \in States
        BY <1>0, <3>2
      <4> QED BY <3>2, <4>1, OpenStepIn
    <3> QED BY <3>1, <3>2
  <2> HIDE DEF At
  <2> QED BY <2>1
<1>3. [S -> States] # {}
  <2>1. [i \in S |-> Outside] \in [S -> States]
    BY DEF States
  <2> QED BY <2>1
<1>4. \A f, g \in [S -> States], i \in S :
        (\A j \in S : rank[j] < rank[i] => f[j] = g[j]) => step[f][i] = step[g][i]
  <2> SUFFICES ASSUME NEW f \in [S -> States], NEW g \in [S -> States], NEW i \in S,
                      \A j \in S : rank[j] < rank[i] => f[j] = g[j]
               PROVE  At(f, i) = At(g, i)
    <3>1. \A f \in [S -> States], i \in S : step[f][i] = At(f, i)
      <4> HIDE DEF At
      <4> QED OBVIOUS
    <3> HIDE DEF At, step, rank
    <3> QED BY <3>1
  <2>1. i # 0 => f[i - 1] = g[i - 1]
    BY <1>0
  <2> QED BY <2>1
<1>5. PICK f \in [S -> States] : f = step[f]
  <2>1. Descends(S, States, Len(sql), rank, step)
    <3> HIDE DEF S, rank, step
    <3> QED BY <1>0, <1>1, <1>2, <1>3, <1>4, Zenon DEF Descends
  <2> HIDE DEF S, rank, step
  <2> QED BY <2>1, Recursion
<1>6. f = [i \in S |-> At(f, i)]
  BY <1>5, Zenon
<1> DEFINE o == Open(sql)
<1>7. o = [i \in S |-> At(o, i)]
  BY <1>6, Zenon DEF Open, OpenStep, Outside
<1> HIDE DEF o
<1>8. \A i \in S : o[i] = At(o, i)
  BY <1>7, Zenon
<1>9. o[0] = Outside /\ \A i \in 1..Len(sql) : o[i] = OpenStep(sql, o[i - 1], i)
  BY <1>0, <1>8
<1>10. \A i \in S : o[i] \in States
  <2> DEFINE Bad == {k \in S : o[k] \notin States}
  <2>1. SUFFICES ASSUME Bad # {} PROVE FALSE
    OBVIOUS
  <2>2. PICK k \in Bad : \A m \in Bad : k <= m
    <3>1. Bad \subseteq Nat
      OBVIOUS
    <3> HIDE DEF Bad
    <3> QED BY <2>1, <3>1, Smallest
  <2>3. k # 0
    BY <1>9, <2>2 DEF States
  <2>4. k \in 1..Len(sql) /\ k - 1 \in S /\ k - 1 \notin Bad
    BY <1>0, <2>2, <2>3
  <2>5. o[k] \in States
    BY <1>9, <2>4, OpenStepIn
  <2> QED BY <2>2, <2>5
<1> QED BY <1>9, <1>10 DEF o

(* A literal, from the inside: the scanner goes to the end of the text or  *)
(* to where the reading is outside again, after the quote that ends the    *)
(* literal, and no token on the way stands outside.                        *)
LEMMA LiteralSkipped ==
  ASSUME NEW sql \in Seq(STRING), NEW quote \in Quotes, NEW i \in 1..(Len(sql) + 1),
         Open(sql)[i - 1] = Inside(quote)
  PROVE  LET m == AfterLiteral(sql, quote)[i] IN
         /\ m = Len(sql) + 1 \/ (m > i /\ Open(sql)[m - 1] = Outside /\ sql[m - 1] = quote)
         /\ \A j \in i..(m - 1) : Open(sql)[j - 1].by # NoQuote \/ sql[j] \in Quotes
<1> DEFINE n == Len(sql) + 1
           a == AfterLiteral(sql, quote)
           open == Open(sql)
           Ends(k) == a[k] = n \/ (a[k] > k /\ open[a[k] - 1] = Outside /\ sql[a[k] - 1] = quote)
           Skips(k) == \A j \in k..(a[k] - 1) : open[j - 1].by # NoQuote \/ sql[j] \in Quotes
           Bad == {k \in 1..n : open[k - 1] = Inside(quote) /\ ~(Ends(k) /\ Skips(k))}
<1>1. Len(sql) \in Nat /\ n \in Nat
  OBVIOUS
<1>2. \A k \in 1..n : a[k] = AfterStep(sql, quote, a, k)
  BY AfterLiteralIs
<1>3. \A k \in 1..n : a[k] \in k..n
  BY AfterLiteralAhead
<1>4. \A k \in 1..Len(sql) : open[k] = OpenStep(sql, open[k - 1], k)
  BY OpenIs
<1>5. SUFFICES Bad = {}
  <2>1. Ends(i) /\ Skips(i)
    OBVIOUS
  <2> QED BY <1>1, <2>1
<1> HIDE DEF a, open
<1>6. SUFFICES ASSUME Bad # {} PROVE FALSE
  OBVIOUS
<1>7. PICK k \in Bad : \A m \in Bad : m <= k
  <2>1. Bad \subseteq 0..n
    BY <1>1
  <2> HIDE DEF Bad, n
  <2> QED BY <1>1, <1>6, <2>1, Greatest
<1>8. \A m \in (k + 1)..n : open[m - 1] = Inside(quote) => Ends(m) /\ Skips(m)
  BY <1>1, <1>7
<1>9. k \in 1..n /\ open[k - 1] = Inside(quote)
  BY <1>7
<1>10. quote # NoQuote /\ "\\" \notin Quotes
  BY Zenon DEF Quotes, NoQuote
<1>11. open[k - 1].by # NoQuote
  BY <1>9, <1>10 DEF Inside
<1> HIDE DEF Bad
<1>12. CASE k = n
  <2>1. a[k] = n
    BY <1>1, <1>3, <1>9, <1>12
  <2>2. Skips(k)
    BY <1>1, <1>12, <2>1
  <2> QED BY <1>7, <2>1, <2>2 DEF Bad
<1>13. CASE k < n /\ sql[k] = "\\" /\ k < Len(sql)
  <2>1. a[k] = a[k + 2] /\ k + 2 \in 1..n /\ k \in 1..Len(sql) /\ k + 1 \in 1..Len(sql)
    BY <1>1, <1>2, <1>9, <1>13 DEF AfterStep
  <2>2. open[k] = Escaped(quote)
    BY <1>4, <1>9, <1>13, <2>1, OpenSteps
  <2>3. open[k + 1] = Inside(quote)
    <3>1. open[k + 1] = OpenStep(sql, open[k], k + 1)
      BY <1>4, <2>1
    <3>2. OpenStep(sql, Escaped(quote), k + 1) = Inside(quote)
      BY OpenSteps
    <3> QED BY <2>2, <3>1, <3>2
  <2>4. Ends(k + 2) /\ Skips(k + 2)
    BY <1>8, <1>9, <2>1, <2>3
  <2>5. open[k].by # NoQuote
    BY <1>10, <2>2 DEF Escaped
  <2>6. Ends(k)
    BY <1>1, <1>3, <1>9, <2>1, <2>4
  <2>7. Skips(k)
    BY <1>1, <1>3, <1>9, <1>11, <2>1, <2>4, <2>5
  <2> QED BY <1>7, <2>6, <2>7 DEF Bad
<1>14. CASE k < n /\ ~(sql[k] = "\\" /\ k < Len(sql)) /\ sql[k] # quote
  <2>1. a[k] = a[k + 1] /\ k + 1 \in 1..n /\ k \in 1..Len(sql)
    BY <1>1, <1>2, <1>9, <1>14 DEF AfterStep
  <2>2. CASE k = Len(sql)
    <3>1. a[k] = n
      BY <1>1, <1>3, <2>1, <2>2
    <3>2. Skips(k)
      BY <1>1, <1>9, <1>11, <2>2, <3>1
    <3> QED BY <1>7, <3>1, <3>2 DEF Bad
  <2>3. CASE k # Len(sql)
    <3>1. sql[k] \notin {"\\", quote}
      BY <1>1, <1>14, <2>1, <2>3
    <3>2. open[k] = Inside(quote)
      BY <1>4, <1>9, <2>1, <3>1, OpenSteps
    <3>3. Ends(k + 1) /\ Skips(k + 1)
      BY <1>1, <1>8, <1>9, <2>1, <3>2
    <3>4. Ends(k)
      BY <1>1, <1>3, <1>9, <2>1, <3>3
    <3>5. Skips(k)
      BY <1>1, <1>3, <1>9, <1>11, <2>1, <3>3
    <3> QED BY <1>7, <3>4, <3>5 DEF Bad
  <2> QED BY <2>2, <2>3
<1>15. CASE k < n /\ sql[k] = quote /\ k < Len(sql) /\ sql[k + 1] = quote
  <2>1. a[k] = a[k + 2] /\ k + 2 \in 1..n /\ k \in 1..Len(sql) /\ k + 1 \in 1..Len(sql)
    BY <1>1, <1>2, <1>9, <1>10, <1>15 DEF AfterStep
  <2>2. open[k] = Outside
    BY <1>4, <1>9, <1>15, <2>1, OpenSteps
  <2>3. open[k + 1] = Inside(quote)
    <3>1. open[k + 1] = OpenStep(sql, open[k], k + 1)
      BY <1>4, <2>1
    <3> QED BY <1>15, <2>2, <3>1, OpenSteps
  <2>4. Ends(k + 2) /\ Skips(k + 2)
    BY <1>8, <1>9, <2>1, <2>3
  <2>6. Ends(k)
    BY <1>1, <1>3, <1>9, <2>1, <2>4
  <2>7. Skips(k)
    BY <1>1, <1>3, <1>9, <1>11, <1>15, <2>1, <2>4
  <2> QED BY <1>7, <2>6, <2>7 DEF Bad
<1>16. CASE k < n /\ sql[k] = quote /\ ~(k < Len(sql) /\ sql[k + 1] = quote)
  <2>1. a[k] = k + 1 /\ k \in 1..Len(sql)
    BY <1>1, <1>2, <1>9, <1>10, <1>16 DEF AfterStep
  <2>2. open[k] = Outside
    BY <1>4, <1>9, <1>16, <2>1, OpenSteps
  <2>3. Ends(k)
    BY <1>1, <1>16, <2>1, <2>2
  <2>4. Skips(k)
    BY <1>1, <1>11, <2>1
  <2> QED BY <1>7, <2>3, <2>4 DEF Bad
<1> QED BY <1>1, <1>9, <1>12, <1>13, <1>14, <1>15, <1>16

-----------------------------------------------------------------------------
(* What is left of a text without its literals.                            *)
StripStep(sql, from, i) ==
  IF i > Len(sql) THEN <<>>
  ELSE IF sql[i] \in Quotes
    THEN <<sql[i], sql[i]>> \o from[AfterLiteral(sql, sql[i])[i + 1]]
  ELSE <<sql[i]>> \o from[i + 1]

(* The outer loop of _strip_string_literals() is the function its          *)
(* definition describes.                                                   *)
LEMMA StrippedFromIs ==
  ASSUME NEW sql \in Seq(STRING)
  PROVE  LET from == StrippedFrom(sql) IN
         /\ from \in [1..(Len(sql) + 1) -> Seq(STRING)]
         /\ \A i \in 1..(Len(sql) + 1) : from[i] = StripStep(sql, from, i)
<1> DEFINE n == Len(sql) + 1
           S == 1..n
           V == Seq(STRING)
           At(f, i) == StripStep(sql, f, i)
           rank == [i \in S |-> n - i]
           step == [f \in [S -> V] |-> [i \in S |-> At(f, i)]]
<1>0. Len(sql) \in Nat /\ n \in Nat
  OBVIOUS
<1>1. rank \in [S -> 0..n]
  BY <1>0
<1>a. ASSUME NEW i \in S, i <= Len(sql)
      PROVE  AfterLiteral(sql, sql[i])[i + 1] \in (i + 1)..n
  <2>1. i + 1 \in 1..(Len(sql) + 1)
    BY <1>0, <1>a
  <2> QED BY <2>1, AfterLiteralAhead
<1>2. \A f \in [S -> V], i \in S : At(f, i) \in V
  <2> SUFFICES ASSUME NEW f \in [S -> V], NEW i \in S PROVE At(f, i) \in V
    OBVIOUS
  <2>1. CASE i > Len(sql)
    BY <2>1 DEF StripStep
  <2>2. CASE i <= Len(sql)
    <3>1. sql[i] \in STRING /\ <<sql[i]>> \in V /\ <<sql[i], sql[i]>> \in V
      BY <1>0, <2>2
    <3>2. i + 1 \in S /\ f[i + 1] \in V
      BY <1>0, <2>2
    <3>3. AfterLiteral(sql, sql[i])[i + 1] \in S
      BY <1>0, <1>a, <2>2
    <3>4. f[AfterLiteral(sql, sql[i])[i + 1]] \in V
      BY <3>3
    <3>5. ~(i > Len(sql))
      BY <1>0, <2>2
    <3> HIDE DEF S, V
    <3> QED BY <3>1, <3>2, <3>4, <3>5, ConcatProperties DEF StripStep, V
  <2> QED BY <1>0, <2>1, <2>2
<1>3. step \in [[S -> V] -> [S -> V]]
  <2> HIDE DEF At, S, V
  <2> QED BY <1>2
<1>4. [S -> V] # {}
  <2>1. [i \in S |-> <<>>] \in [S -> V]
    OBVIOUS
  <2> QED BY <2>1
<1>5. \A f, g \in [S -> V], i \in S :
        (\A j \in S : rank[j] < rank[i] => f[j] = g[j]) => step[f][i] = step[g][i]
  <2> SUFFICES ASSUME NEW f \in [S -> V], NEW g \in [S -> V], NEW i \in S,
                      \A j \in S : rank[j] < rank[i] => f[j] = g[j]
               PROVE  At(f, i) = At(g, i)
    <3>1. \A f \in [S -> V], i \in S : step[f][i] = At(f, i)
      <4> HIDE DEF At
      <4> QED OBVIOUS
    <3> HIDE DEF At, step, rank, S, V
    <3> QED BY <3>1
  <2>1. \A j \in (i + 1)..n : f[j] = g[j]
    BY <1>0
  <2>2. CASE i > Len(sql)
    BY <2>2 DEF StripStep
  <2>3. CASE i <= Len(sql)
    <3>1. f[i + 1] = g[i + 1]
      BY <1>0, <2>1, <2>3
    <3>2. f[AfterLiteral(sql, sql[i])[i + 1]] = g[AfterLiteral(sql, sql[i])[i + 1]]
      BY <1>a, <2>1, <2>3
    <3> HIDE DEF S, V
    <3> QED BY <3>1, <3>2 DEF StripStep
  <2> QED BY <1>0, <2>2, <2>3
<1>6. PICK f \in [S -> V] : f = step[f]
  <2>1. Descends(S, V, n, rank, step)
    <3> HIDE DEF S, V, n, rank, step
    <3> QED BY <1>0, <1>1, <1>3, <1>4, <1>5, Zenon DEF Descends
  <2> HIDE DEF S, V, n, rank, step
  <2> QED BY <2>1, Recursion
<1>7. f = [i \in S |-> At(f, i)]
  BY <1>6, Zenon
<1> DEFINE from == StrippedFrom(sql)
<1>8. from = [i \in S |-> At(from, i)]
  BY <1>7, Zenon DEF StrippedFrom, StripStep
<1> HIDE DEF from, At
<1>9. \A i \in S : from[i] = At(from, i)
  BY <1>8, Zenon
<1>10. \A i \in S : from[i] \in V
  <2> DEFINE Bad == {i \in S : from[i] \notin V}
  <2>1. SUFFICES ASSUME Bad # {} PROVE FALSE
    OBVIOUS
  <2>2. PICK k \in Bad : \A m \in Bad : m <= k
    <3>1. Bad \subseteq 0..n
      BY <1>0
    <3> HIDE DEF Bad, n
    <3> QED BY <1>0, <2>1, <3>1, Greatest
  <2>3. k \in S /\ \A j \in S : j > k => from[j] \in V
    BY <1>0, <2>2
  <2> DEFINE g == [j \in S |-> IF j > k THEN from[j] ELSE <<>>]
  <2>4. g \in [S -> V]
    <3>1. <<>> \in V
      OBVIOUS
    <3> HIDE DEF V
    <3> QED BY <2>3, <3>1
  <2>5. At(from, k) = At(g, k)
    <3>1. CASE k > Len(sql)
      BY <3>1 DEF StripStep, At
    <3>2. CASE k <= Len(sql)
      <4>1. k + 1 \in S /\ k + 1 > k
        BY <1>0, <2>3, <3>2
      <4>2. AfterLiteral(sql, sql[k])[k + 1] \in S /\ AfterLiteral(sql, sql[k])[k + 1] > k
        BY <1>0, <1>a, <2>3, <3>2
      <4>3. g[k + 1] = from[k + 1]
        BY <4>1
      <4>4. g[AfterLiteral(sql, sql[k])[k + 1]] = from[AfterLiteral(sql, sql[k])[k + 1]]
        BY <4>2
      <4> HIDE DEF g, S, V
      <4> QED BY <4>3, <4>4 DEF StripStep, At
    <3> QED BY <1>0, <2>3, <3>1, <3>2
  <2>6. from[k] \in V
    <3> HIDE DEF g, S, V
    <3> QED BY <1>2, <1>9, <2>3, <2>4, <2>5
  <2> QED BY <2>2, <2>6
<1>11. from \in [S -> V]
  <2> HIDE DEF V, S
  <2> QED BY <1>8, <1>10
<1> QED BY <1>9, <1>11, Zenon DEF from, At

(* Place k of a text that comes after the one token of "left", or after    *)
(* none, holds a word by itself.                                           *)
Clear(left) == left \cap Words = {}

Stands(s, k, left) ==
  /\ k = 1 => Clear(left)
  /\ k > 1 => s[k - 1] \notin Words
  /\ k = Len(s) \/ s[k + 1] \notin Words

HasDDL(s, left) == \E k \in 1..Len(s) : s[k] \in DDL /\ Stands(s, k, left)

HasSelect(s, left) ==
  \E k \in 1..Len(s) : /\ s[k] = "SELECT" /\ Stands(s, k, left)
                        /\ \A j \in 1..(k - 1) : s[j] = " "

(* Texts of one token, and of the same one twice.                          *)
LEMMA OneOrTwo ==
  ASSUME NEW T, NEW a \in T
  PROVE  <<a>> \in Seq(T) /\ <<a, a>> \in Seq(T) /\ <<a>> \o <<a>> = <<a, a>>
<1>1. <<a>> \in Seq(T) /\ <<a, a>> \in Seq(T)
  OBVIOUS
<1>2. <<a>> \o <<a>> = <<a, a>>
  <2> DEFINE one == <<a>>
             two == <<a, a>>
  <2>1. /\ one \in Seq(T) /\ Len(one) = 1 /\ one[1] = a
        /\ two \in Seq(T) /\ Len(two) = 2 /\ two[1] = a /\ two[2] = a
    BY <1>1
  <2> HIDE DEF one, two
  <2>2. /\ one \o one \in Seq(T) /\ Len(one \o one) = 2
        /\ \A k \in 1..2 : (one \o one)[k] = IF k <= 1 THEN one[k] ELSE one[k - 1]
    <3>1. /\ one \o one \in Seq(T) /\ Len(one \o one) = Len(one) + Len(one)
          /\ \A k \in 1..(Len(one) + Len(one)) :
               (one \o one)[k] = IF k <= Len(one) THEN one[k] ELSE one[k - Len(one)]
      BY <2>1, ConcatProperties, Zenon
    <3> DEFINE both == one \o one
    <3> HIDE DEF both
    <3>2. /\ both \in Seq(T) /\ Len(both) = 2
          /\ \A k \in 1..2 : both[k] = IF k <= 1 THEN one[k] ELSE one[k - 1]
      BY <2>1, <3>1 DEF both
    <3> QED BY <3>2 DEF both
  <2>3. \A k \in 1..Len(one \o one) : (one \o one)[k] = two[k]
    BY <2>1, <2>2
  <2>4. one \o one = two
    BY <2>1, <2>2, <2>3, SeqEqual
  <2> QED BY <2>4 DEF one, two
<1> QED BY <1>1, <1>2

(* A text with a token put before it.                                      *)
LEMMA Prepended ==
  ASSUME NEW T, NEW a \in T, NEW t \in Seq(T)
  PROVE  LET s == <<a>> \o t IN
         /\ s \in Seq(T)
         /\ Len(s) = 1 + Len(t)
         /\ s[1] = a
         /\ \A k \in 1..Len(t) : s[k + 1] = t[k]
<1>1. <<a>> \in Seq(T) /\ Len(<<a>>) = 1 /\ <<a>>[1] = a
  OBVIOUS
<1>2. Len(t) \in Nat
  OBVIOUS
<1> DEFINE one == <<a>>
<1> HIDE DEF one
<1>3. one \in Seq(T) /\ Len(one) = 1 /\ one[1] = a
  BY <1>1 DEF one
<1>4. /\ one \o t \in Seq(T)
      /\ Len(one \o t) = Len(one) + Len(t)
      /\ \A i \in 1..(Len(one) + Len(t)) :
           (one \o t)[i] = IF i <= Len(one) THEN one[i] ELSE t[i - Len(one)]
  BY <1>3, ConcatProperties
<1>5. (one \o t)[1] = a /\ \A k \in 1..Len(t) : (one \o t)[k + 1] = t[k]
  BY <1>2, <1>3, <1>4
<1> QED BY <1>2, <1>3, <1>4, <1>5 DEF one

(* A word of the rest stands by itself after the token as it does in the   *)
(* whole.                                                                  *)
LEMMA StandsPrepended ==
  ASSUME NEW T, NEW a \in T, NEW t \in Seq(T), NEW k \in 1..Len(t), NEW left
  PROVE  Stands(<<a>> \o t, k + 1, left) <=> Stands(t, k, {a})
<1> DEFINE s == <<a>> \o t
<1>1. /\ Len(s) = 1 + Len(t) /\ s[1] = a
      /\ \A j \in 1..Len(t) : s[j + 1] = t[j]
  BY Prepended
<1>2. Len(t) \in Nat
  OBVIOUS
<1> HIDE DEF s
<1>3. s[k + 1] = t[k] /\ k \in Nat /\ k >= 1 /\ (k + 1) - 1 = k
  BY <1>1, <1>2
<1>4. k # Len(t) => s[k + 2] = t[k + 1]
  BY <1>1, <1>2
<1>5. k > 1 => s[k] = t[k - 1]
  BY <1>1, <1>2
<1>6. (k + 1 = Len(s)) <=> (k = Len(t))
  BY <1>1, <1>2
<1>7. (k + 1) + 1 = k + 2 /\ k + 1 # 1 /\ k + 1 > 1
  BY <1>3
<1>8. Stands(s, k + 1, left) <=> s[k] \notin Words /\ (k = Len(t) \/ s[k + 2] \notin Words)
  BY <1>3, <1>6, <1>7 DEF Stands
<1>9. Stands(t, k, {a})
        <=> /\ k = 1 => a \notin Words
            /\ k > 1 => t[k - 1] \notin Words
            /\ k = Len(t) \/ t[k + 1] \notin Words
  BY DEF Stands, Clear
<1>10. Stands(s, k + 1, left) <=> Stands(t, k, {a})
  <2>1. s[k] \notin Words <=> (k = 1 => a \notin Words) /\ (k > 1 => t[k - 1] \notin Words)
    <3>1. k = 1 \/ k > 1
      BY <1>3
    <3>2. k = 1 => s[k] = a /\ ~(k > 1)
      BY <1>1
    <3>3. k > 1 => k # 1
      BY <1>3
    <3> QED BY <1>5, <3>1, <3>2, <3>3, Zenon
  <2>2. k = Len(t) \/ s[k + 2] \notin Words <=> k = Len(t) \/ t[k + 1] \notin Words
    BY <1>4, Zenon
  <2> QED BY <1>8, <1>9, <2>1, <2>2, Zenon
<1> QED BY <1>10 DEF s

(* A word of a change to tables is the first token or one of the rest.     *)
LEMMA DDLPrepended ==
  ASSUME NEW T, NEW a \in T, NEW t \in Seq(T), NEW left
  PROVE  HasDDL(<<a>> \o t, left)
           <=> \/ a \in DDL /\ Clear(left) /\ (t = <<>> \/ t[1] \notin Words)
               \/ HasDDL(t, {a})
<1> DEFINE s == <<a>> \o t
           first == a \in DDL /\ Clear(left) /\ (t = <<>> \/ t[1] \notin Words)
<1>1. /\ Len(s) = 1 + Len(t) /\ s[1] = a
      /\ \A j \in 1..Len(t) : s[j + 1] = t[j]
  BY Prepended
<1>2. Len(t) \in Nat /\ (t = <<>> <=> Len(t) = 0)
  BY EmptySeq
<1>3. \A k \in 1..Len(t) : Stands(s, k + 1, left) <=> Stands(t, k, {a})
  BY StandsPrepended
<1>4. s[1] \in DDL /\ Stands(s, 1, left) <=> first
  <2>1. t # <<>> => s[2] = t[1]
    BY <1>1, <1>2
  <2>2. (1 = Len(s)) <=> (t = <<>>)
    BY <1>1, <1>2
  <2> HIDE DEF s
  <2>3. Stands(s, 1, left) <=> Clear(left) /\ (1 = Len(s) \/ s[2] \notin Words)
    BY DEF Stands
  <2> QED BY <1>1, <2>1, <2>2, <2>3
<1> HIDE DEF s, first
<1>5. ASSUME NEW k \in 1..Len(s), s[k] \in DDL, Stands(s, k, left)
      PROVE  first \/ HasDDL(t, {a})
  <2>1. CASE k = 1
    BY <1>4, <1>5, <2>1
  <2>2. CASE k # 1
    <3>1. k - 1 \in 1..Len(t) /\ (k - 1) + 1 = k
      BY <1>1, <1>2, <2>2
    <3>2. t[k - 1] \in DDL /\ Stands(t, k - 1, {a})
      BY <1>1, <1>3, <1>5, <3>1
    <3> QED BY <3>1, <3>2 DEF HasDDL
  <2> QED BY <2>1, <2>2
<1>6. ASSUME first PROVE HasDDL(s, left)
  <2>1. 1 \in 1..Len(s)
    BY <1>1, <1>2
  <2> QED BY <1>4, <1>6, <2>1 DEF HasDDL
<1>7. ASSUME NEW k \in 1..Len(t), t[k] \in DDL, Stands(t, k, {a})
      PROVE  HasDDL(s, left)
  <2>1. k + 1 \in 1..Len(s) /\ s[k + 1] \in DDL /\ Stands(s, k + 1, left)
    BY <1>1, <1>2, <1>3, <1>7
  <2> QED BY <2>1 DEF HasDDL
<1>8. HasDDL(s, left) => first \/ HasDDL(t, {a})
  BY <1>5 DEF HasDDL
<1>9. HasDDL(t, {a}) => HasDDL(s, left)
  BY <1>7 DEF HasDDL
<1> QED BY <1>6, <1>8, <1>9 DEF s, first

(* The first word is SELECT: it is the first token, or that is a space.    *)
LEMMA SelectPrepended ==
  ASSUME NEW T, NEW a \in T, NEW t \in Seq(T), NEW left
  PROVE  HasSelect(<<a>> \o t, left)
           <=> \/ a = "SELECT" /\ Clear(left) /\ (t = <<>> \/ t[1] \notin Words)
               \/ a = " " /\ HasSelect(t, {a})
<1> DEFINE s == <<a>> \o t
           first == a = "SELECT" /\ Clear(left) /\ (t = <<>> \/ t[1] \notin Words)
<1>1. /\ Len(s) = 1 + Len(t) /\ s[1] = a
      /\ \A j \in 1..Len(t) : s[j + 1] = t[j]
  BY Prepended
<1>2. Len(t) \in Nat /\ (t = <<>> <=> Len(t) = 0)
  BY EmptySeq
<1>3. \A k \in 1..Len(t) : Stands(s, k + 1, left) <=> Stands(t, k, {a})
  BY StandsPrepended
<1>4. s[1] = "SELECT" /\ Stands(s, 1, left) <=> first
  <2>1. t # <<>> => s[2] = t[1]
    BY <1>1, <1>2
  <2>2. (1 = Len(s)) <=> (t = <<>>)
    BY <1>1, <1>2
  <2> HIDE DEF s
  <2>3. Stands(s, 1, left) <=> Clear(left) /\ (1 = Len(s) \/ s[2] \notin Words)
    BY DEF Stands
  <2> QED BY <1>1, <2>1, <2>2, <2>3
<1> HIDE DEF s, first
<1>5. ASSUME NEW k \in 1..Len(s), s[k] = "SELECT", Stands(s, k, left),
             \A j \in 1..(k - 1) : s[j] = " "
      PROVE  first \/ (a = " " /\ HasSelect(t, {a}))
  <2>1. CASE k = 1
    BY <1>4, <1>5, <2>1
  <2>2. CASE k # 1
    <3>1. k - 1 \in 1..Len(t) /\ (k - 1) + 1 = k /\ 1 \in 1..(k - 1)
      BY <1>1, <1>2, <2>2
    <3>2. t[k - 1] = "SELECT" /\ Stands(t, k - 1, {a})
      BY <1>1, <1>3, <1>5, <3>1
    <3>3. \A j \in 1..((k - 1) - 1) : t[j] = " "
      <4> SUFFICES ASSUME NEW j \in 1..((k - 1) - 1) PROVE t[j] = " "
        OBVIOUS
      <4>1. j + 1 \in 1..(k - 1) /\ j \in 1..Len(t)
        BY <3>1, <1>2
      <4> QED BY <1>1, <1>5, <4>1
    <3>4. a = " "
      BY <1>1, <1>5, <3>1
    <3> QED BY <3>1, <3>2, <3>3, <3>4 DEF HasSelect
  <2> QED BY <2>1, <2>2
<1>6. ASSUME first PROVE HasSelect(s, left)
  <2>1. 1 \in 1..Len(s) /\ s[1] = "SELECT" /\ Stands(s, 1, left) /\ \A j \in 1..(1 - 1) : s[j] = " "
    BY <1>1, <1>2, <1>4, <1>6
  <2> QED BY <2>1 DEF HasSelect
<1>7. ASSUME a = " ", NEW k \in 1..Len(t), t[k] = "SELECT", Stands(t, k, {a}),
             \A j \in 1..(k - 1) : t[j] = " "
      PROVE  HasSelect(s, left)
  <2>1. k + 1 \in 1..Len(s) /\ s[k + 1] = "SELECT" /\ Stands(s, k + 1, left)
    <3>1. k + 1 \in 1..Len(s)
      BY <1>1, <1>2
    <3>2. s[k + 1] = t[k] /\ Stands(s, k + 1, left)
      BY <1>1, <1>3, <1>7
    <3> QED BY <1>7, <3>1, <3>2
  <2>2. \A j \in 1..((k + 1) - 1) : s[j] = " "
    <3> SUFFICES ASSUME NEW j \in 1..((k + 1) - 1) PROVE s[j] = " "
      OBVIOUS
    <3>1. CASE j = 1
      BY <1>1, <1>7, <3>1
    <3>2. CASE j # 1
      <4>1. j - 1 \in 1..(k - 1) /\ j - 1 \in 1..Len(t) /\ (j - 1) + 1 = j
        BY <3>2, <1>2
      <4> QED BY <1>1, <1>7, <4>1
    <3> QED BY <3>1, <3>2
  <2> QED BY <2>1, <2>2 DEF HasSelect
<1>8. HasSelect(s, left) => first \/ (a = " " /\ HasSelect(t, {a}))
  BY <1>5 DEF HasSelect
<1>9. a = " " /\ HasSelect(t, {a}) => HasSelect(s, left)
  BY <1>7 DEF HasSelect
<1> QED BY <1>6, <1>8, <1>9 DEF s, first

-----------------------------------------------------------------------------
(* The text without its literals against the text with them, from a place  *)
(* that is outside of the literals on.                                     *)
Before(sql, i) == IF i = 1 THEN {} ELSE {sql[i - 1]}

BareDDLFrom(sql, i) == \E j \in i..Len(sql) : sql[j] \in DDL /\ Bare(sql, j)

BareSelectFrom(sql, i) ==
  \E j \in i..Len(sql) : /\ sql[j] = "SELECT" /\ Bare(sql, j)
                         /\ \A l \in i..(j - 1) : sql[l] = " "

Agree(sql, i) ==
  /\ HasDDL(StrippedFrom(sql)[i], Before(sql, i)) <=> BareDDLFrom(sql, i)
  /\ HasSelect(StrippedFrom(sql)[i], Before(sql, i)) <=> BareSelectFrom(sql, i)

(* The same said of the tokens that stand outside the literals.            *)
LEMMA BareUnrolled ==
  ASSUME NEW sql \in Seq(STRING), NEW i \in 1..Len(sql)
  PROVE  /\ BareDDLFrom(sql, i) <=> (sql[i] \in DDL /\ Bare(sql, i)) \/ BareDDLFrom(sql, i + 1)
         /\ BareSelectFrom(sql, i)
              <=> (sql[i] = "SELECT" /\ Bare(sql, i)) \/ (sql[i] = " " /\ BareSelectFrom(sql, i + 1))
<1>1. Len(sql) \in Nat /\ i \in i..Len(sql)
  OBVIOUS
<1>2. \A j \in i..Len(sql) : j = i \/ j \in (i + 1)..Len(sql)
  BY <1>1
<1>3. \A j \in (i + 1)..Len(sql) : j \in i..Len(sql)
  BY <1>1
<1>4. BareDDLFrom(sql, i) <=> (sql[i] \in DDL /\ Bare(sql, i)) \/ BareDDLFrom(sql, i + 1)
  BY <1>1, <1>2, <1>3, Zenon DEF BareDDLFrom
<1> DEFINE Blank(j, k) == \A l \in j..(k - 1) : sql[l] = " "
<1>5. Blank(i, i)
  <2>1. i..(i - 1) = {}
    BY <1>1
  <2> QED BY <2>1
<1>6. ASSUME NEW j \in (i + 1)..Len(sql)
      PROVE  Blank(i, j) <=> sql[i] = " " /\ Blank(i + 1, j)
  <2>1. i \in i..(j - 1)
    BY <1>1
  <2>2. \A l \in i..(j - 1) : l = i \/ l \in (i + 1)..(j - 1)
    BY <1>1
  <2>3. \A l \in (i + 1)..(j - 1) : l \in i..(j - 1)
    BY <1>1
  <2> QED BY <2>1, <2>2, <2>3, Zenon
<1>7. BareSelectFrom(sql, i)
        <=> (sql[i] = "SELECT" /\ Bare(sql, i)) \/ (sql[i] = " " /\ BareSelectFrom(sql, i + 1))
  <2>1. BareSelectFrom(sql, i)
          <=> \E j \in i..Len(sql) : sql[j] = "SELECT" /\ Bare(sql, j) /\ Blank(i, j)
    BY Zenon DEF BareSelectFrom
  <2>2. BareSelectFrom(sql, i + 1)
          <=> \E j \in (i + 1)..Len(sql) : sql[j] = "SELECT" /\ Bare(sql, j) /\ Blank(i + 1, j)
    BY Zenon DEF BareSelectFrom
  <2> HIDE DEF Blank
  <2> QED BY <1>1, <1>2, <1>3, <1>5, <1>6, <2>1, <2>2, Zenon
<1> QED BY <1>4, <1>7

(* What is left of a text begins with the token it is left from.           *)
LEMMA StrippedHead ==
  ASSUME NEW sql \in Seq(STRING), NEW i \in 1..(Len(sql) + 1)
  PROVE  LET s == StrippedFrom(sql)[i] IN
         /\ s = <<>> <=> i = Len(sql) + 1
         /\ i # Len(sql) + 1 => s[1] = sql[i]
<1> DEFINE from == StrippedFrom(sql)
           n == Len(sql) + 1
<1>1. Len(sql) \in Nat
  OBVIOUS
<1>2. from \in [1..n -> Seq(STRING)] /\ from[i] = StripStep(sql, from, i)
  BY StrippedFromIs
<1> HIDE DEF from
<1>3. CASE i = n
  BY <1>1, <1>2, <1>3 DEF StripStep, from
<1>4. CASE i # n
  <2>1. ~(i > Len(sql)) /\ i + 1 \in 1..n
    BY <1>1, <1>4
  <2> DEFINE a == sql[i]
             m == AfterLiteral(sql, a)[i + 1]
  <2>2. m \in 1..n
    BY <1>1, <2>1, AfterLiteralAhead
  <2>3. a \in STRING
    BY <1>1, <2>1
  <2> HIDE DEF a, m
  <2>4. from[i] = IF a \in Quotes THEN <<a, a>> \o from[m] ELSE <<a>> \o from[i + 1]
    BY <1>2, <2>1 DEF StripStep, a, m
  <2>5. from[m] \in Seq(STRING) /\ from[i + 1] \in Seq(STRING)
    BY <1>2, <2>1, <2>2
  <2>6. <<a, a>> \in Seq(STRING) /\ <<a>> \in Seq(STRING)
    BY <2>3, OneOrTwo
  <2>7. Len(<<a, a>>) = 2 /\ Len(<<a>>) = 1 /\ <<a, a>>[1] = a /\ <<a>>[1] = a
    OBVIOUS
  <2>8. \A s, t \in Seq(STRING) : Len(s) > 0 => Len(s \o t) > 0 /\ (s \o t)[1] = s[1]
    <3> SUFFICES ASSUME NEW s \in Seq(STRING), NEW t \in Seq(STRING), Len(s) > 0
                 PROVE  Len(s \o t) > 0 /\ (s \o t)[1] = s[1]
      OBVIOUS
    <3> QED BY ConcatProperties, LenProperties
  <2>9. Len(from[i]) > 0 /\ from[i][1] = a
    <3>1. CASE a \in Quotes
      <4> DEFINE two == <<a, a>>
      <4>1. two \in Seq(STRING) /\ Len(two) > 0 /\ two[1] = a /\ from[i] = two \o from[m]
        BY <2>4, <2>6, <2>7, <3>1
      <4> HIDE DEF two
      <4> QED BY <2>5, <2>8, <4>1
    <3>2. CASE a \notin Quotes
      <4> DEFINE one == <<a>>
      <4>1. one \in Seq(STRING) /\ Len(one) > 0 /\ one[1] = a /\ from[i] = one \o from[i + 1]
        BY <2>4, <2>6, <2>7, <3>2
      <4> HIDE DEF one
      <4> QED BY <2>5, <2>8, <4>1
    <3> QED BY <3>1, <3>2
  <2>10. from[i] # <<>>
    BY <2>9
  <2> QED BY <1>4, <2>9, <2>10 DEF from, a
<1> QED BY <1>3, <1>4

(* Nothing is found in the empty text, and none stands at its end.         *)
LEMMA AgreeAtEnd ==
  ASSUME NEW sql \in Seq(STRING)
  PROVE  Agree(sql, Len(sql) + 1)
<1> DEFINE n == Len(sql) + 1
<1>1. Len(sql) \in Nat /\ n \in 1..n /\ n..Len(sql) = {}
  OBVIOUS
<1>2. StrippedFrom(sql)[n] = <<>>
  BY <1>1, StrippedHead
<1>3. 1..Len(<<>>) = {}
  OBVIOUS
<1> HIDE DEF n
<1>4. ~HasDDL(<<>>, Before(sql, n)) /\ ~HasSelect(<<>>, Before(sql, n))
  BY <1>3, Zenon DEF HasDDL, HasSelect
<1>5. ~BareDDLFrom(sql, n) /\ ~BareSelectFrom(sql, n)
  BY <1>1, Zenon DEF BareDDLFrom, BareSelectFrom
<1> QED BY <1>2, <1>4, <1>5 DEF Agree, n

(* A token outside the literals is kept, and stands by itself in the one   *)
(* text as it does in the other.                                           *)
LEMMA AgreeAtToken ==
  ASSUME NEW sql \in Seq(STRING), NEW i \in 1..Len(sql), sql[i] \notin Quotes,
         Open(sql)[i - 1] = Outside, Agree(sql, i + 1)
  PROVE  Agree(sql, i)
<1> DEFINE a == sql[i]
           from == StrippedFrom(sql)
           t == from[i + 1]
           left == Before(sql, i)
           first == Clear(left) /\ (t = <<>> \/ t[1] \notin Words)
<1>1. /\ Len(sql) \in Nat /\ i + 1 \in 1..(Len(sql) + 1) /\ i \in 1..(Len(sql) + 1)
      /\ a \in STRING /\ i \in Nat
  OBVIOUS
<1>2. from[i] = StripStep(sql, from, i) /\ t \in Seq(STRING)
  BY <1>1, StrippedFromIs
<1> HIDE DEF from, a
<1>3. from[i] = <<a>> \o t
  BY <1>1, <1>2 DEF StripStep, a
<1>4. Before(sql, i + 1) = {a}
  BY <1>1 DEF Before, a
<1>5. /\ t = <<>> <=> i = Len(sql)
      /\ i # Len(sql) => t[1] = sql[i + 1]
  BY <1>1, StrippedHead DEF from
<1>6. Bare(sql, i) <=> first
  <2>1. Bare(sql, i) <=> IsWord(sql, i)
    BY DEF Bare, Outside
  <2>2. Clear(left) <=> i = 1 \/ sql[i - 1] \notin Words
    BY DEF Clear, Before
  <2>3. t = <<>> \/ t[1] \notin Words <=> i = Len(sql) \/ sql[i + 1] \notin Words
    <3> HIDE DEF t
    <3> QED BY <1>5
  <2> HIDE DEF t, left
  <2> QED BY <2>1, <2>2, <2>3, Zenon DEF IsWord
<1> HIDE DEF t, left
<1>7. HasDDL(from[i], left) <=> (a \in DDL /\ first) \/ HasDDL(t, {a})
  BY <1>1, <1>2, <1>3, DDLPrepended
<1>8. HasSelect(from[i], left) <=> (a = "SELECT" /\ first) \/ (a = " " /\ HasSelect(t, {a}))
  <2>1. HasSelect(<<a>> \o t, left)
          <=> \/ a = "SELECT" /\ Clear(left) /\ (t = <<>> \/ t[1] \notin Words)
              \/ a = " " /\ HasSelect(t, {a})
    <3> HIDE DEF first
    <3> QED BY <1>1, <1>2, SelectPrepended
  <2> QED BY <1>3, <2>1, Zenon
<1>9. /\ HasDDL(t, {a}) <=> BareDDLFrom(sql, i + 1)
      /\ HasSelect(t, {a}) <=> BareSelectFrom(sql, i + 1)
  BY <1>4 DEF Agree, from, t
<1> HIDE DEF first
<1>10. /\ BareDDLFrom(sql, i) <=> (a \in DDL /\ Bare(sql, i)) \/ BareDDLFrom(sql, i + 1)
       /\ BareSelectFrom(sql, i)
            <=> (a = "SELECT" /\ Bare(sql, i)) \/ (a = " " /\ BareSelectFrom(sql, i + 1))
  BY BareUnrolled DEF a
<1> QED BY <1>6, <1>7, <1>8, <1>9, <1>10, Zenon DEF Agree, from, left

(* A literal is replaced by two quotes, which begin no statement and which *)
(* no word of a change to tables is; and no token of it stands outside.    *)
LEMMA AgreeAtLiteral ==
  ASSUME NEW sql \in Seq(STRING), NEW i \in 1..Len(sql), sql[i] \in Quotes,
         Open(sql)[i - 1] = Outside,
         \A j \in (i + 1)..Len(sql) : Open(sql)[j - 1] = Outside => Agree(sql, j)
  PROVE  Agree(sql, i)
<1> DEFINE n == Len(sql) + 1
           a == sql[i]
           from == StrippedFrom(sql)
           m == AfterLiteral(sql, a)[i + 1]
           t == from[m]
           left == Before(sql, i)
<1>1. /\ Len(sql) \in Nat /\ i + 1 \in 1..n /\ i \in 1..n
      /\ i \in Nat /\ a \in Quotes
  OBVIOUS
<1>a. a \in STRING
  OBVIOUS
<1>2. m \in (i + 1)..n
  BY <1>1, AfterLiteralAhead
<1>3. Open(sql)[i] = Inside(a)
  BY OpenIs, OpenSteps
<1>4. /\ m = n \/ (m > i + 1 /\ Open(sql)[m - 1] = Outside /\ sql[m - 1] = a)
      /\ \A j \in (i + 1)..(m - 1) : Open(sql)[j - 1].by # NoQuote \/ sql[j] \in Quotes
  <2>1. Open(sql)[(i + 1) - 1] = Inside(a)
    BY <1>1, <1>3
  <2> QED BY <1>1, <2>1, LiteralSkipped
<1>5. from[i] = StripStep(sql, from, i) /\ t \in Seq(STRING)
  BY <1>1, <1>2, StrippedFromIs
<1> HIDE DEF from, a
<1>6. from[i] = <<a, a>> \o t
  BY <1>1, <1>5 DEF StripStep, a
<1> HIDE DEF m, t, left
<1>7. <<a, a>> \o t = <<a>> \o (<<a>> \o t)
  <2>1. <<a>> \in Seq(STRING) /\ <<a, a>> \in Seq(STRING)
    BY <1>a, OneOrTwo
  <2>2. (<<a>> \o <<a>>) \o t = <<a>> \o (<<a>> \o t)
    BY <1>5, <2>1, ConcatAssociative
  <2>3. <<a>> \o <<a>> = <<a, a>>
    BY <1>a, OneOrTwo
  <2> QED BY <2>2, <2>3
<1>8. a \notin DDL /\ a # "SELECT" /\ a # " "
  BY <1>1, Zenon DEF Quotes, DDL
<1>9. <<a>> \o t \in Seq(STRING)
  BY <1>a, <1>5, Prepended
<1>10. HasDDL(from[i], left) <=> HasDDL(t, {a})
  <2>1. HasDDL(<<a>> \o t, {a}) <=> HasDDL(t, {a})
    BY <1>a, <1>5, <1>8, DDLPrepended
  <2> DEFINE u == <<a>> \o t
  <2>2. u \in Seq(STRING)
    BY <1>9
  <2> HIDE DEF u
  <2>3. HasDDL(<<a>> \o u, left) <=> HasDDL(u, {a})
    BY <1>a, <1>8, <2>2, DDLPrepended
  <2> QED BY <1>6, <1>7, <2>1, <2>3 DEF u
<1>11. ~HasSelect(from[i], left)
  <2> DEFINE u == <<a>> \o t
  <2>2. u \in Seq(STRING)
    BY <1>9
  <2> HIDE DEF u
  <2>3. ~HasSelect(<<a>> \o u, left)
    BY <1>a, <1>8, <2>2, SelectPrepended
  <2> QED BY <1>6, <1>7, <2>3 DEF u
<1>12. ~BareSelectFrom(sql, i)
  <2>1. BareSelectFrom(sql, i)
          <=> (a = "SELECT" /\ Bare(sql, i)) \/ (a = " " /\ BareSelectFrom(sql, i + 1))
    BY BareUnrolled DEF a
  <2> QED BY <1>8, <2>1
<1>13. \A j \in i..(m - 1) : ~Bare(sql, j)
  <2> SUFFICES ASSUME NEW j \in i..(m - 1) PROVE ~Bare(sql, j)
    OBVIOUS
  <2>1. j = i \/ j \in (i + 1)..(m - 1)
    BY <1>1, <1>2
  <2> QED BY <1>1, <1>4, <2>1 DEF Bare, a
<1>14. BareDDLFrom(sql, i) <=> BareDDLFrom(sql, m)
  <2>1. \A j \in i..Len(sql) : j \in i..(m - 1) \/ j \in m..Len(sql)
    BY <1>1, <1>2
  <2>2. \A j \in m..Len(sql) : j \in i..Len(sql)
    BY <1>1, <1>2
  <2> QED BY <1>13, <2>1, <2>2, Zenon DEF BareDDLFrom
<1>15. HasDDL(t, {a}) <=> BareDDLFrom(sql, m)
  <2>1. CASE m = n
    <3>1. t = <<>> /\ 1..Len(<<>>) = {} /\ m..Len(sql) = {}
      BY <1>1, <2>1, StrippedHead DEF t, from
    <3> QED BY <3>1, Zenon DEF HasDDL, BareDDLFrom
  <2>2. CASE m # n
    <3>1. m \in (i + 1)..Len(sql) /\ Open(sql)[m - 1] = Outside /\ sql[m - 1] = a
      <4>1. m \in (i + 1)..Len(sql)
        BY <1>1, <1>2, <2>2
      <4> QED BY <1>4, <2>2, <4>1, Zenon
    <3>2. Before(sql, m) = {a}
      BY <1>1, <3>1 DEF Before
    <3>3. Agree(sql, m)
      BY <3>1
    <3> QED BY <3>2, <3>3 DEF Agree, t, from
  <2> QED BY <2>1, <2>2
<1> QED BY <1>10, <1>11, <1>12, <1>14, <1>15, Zenon DEF Agree, from, left

(* _is_ddl() and _is_readonly() say of every text what is meant: whether a *)
(* word of a change to tables stands outside the literals, and whether the *)
(* first word is SELECT.                                                   *)
THEOREM ScannerReadsLiterals ==
  ASSUME NEW sql \in Seq(STRING)
  PROVE  /\ IsDDL(sql) <=> HasBareDDL(sql)
         /\ IsReadonly(sql) <=> BeginsWithSelect(sql)
<1> DEFINE n == Len(sql) + 1
           Bad == {i \in 1..n : (i = n \/ Open(sql)[i - 1] = Outside) /\ ~Agree(sql, i)}
<1>1. Len(sql) \in Nat /\ n \in Nat
  OBVIOUS
<1>2. Bad = {}
  <2> SUFFICES ASSUME Bad # {} PROVE FALSE
    OBVIOUS
  <2>1. PICK i \in Bad : \A m \in Bad : m <= i
    <3>1. Bad \subseteq 0..n
      BY <1>1
    <3> HIDE DEF Bad, n
    <3> QED BY <1>1, <3>1, Greatest
  <2>2. i # n
    BY AgreeAtEnd, <2>1
  <2>3. i \in 1..Len(sql) /\ Open(sql)[i - 1] = Outside
    BY <1>1, <2>1, <2>2
  <2>4. \A j \in (i + 1)..Len(sql) : Open(sql)[j - 1] = Outside => Agree(sql, j)
    BY <1>1, <2>1
  <2>5. CASE sql[i] \in Quotes
    BY <2>1, <2>3, <2>4, <2>5, AgreeAtLiteral
  <2>6. CASE sql[i] \notin Quotes
    <3>1. Open(sql)[i] = Outside
      <4>1. Open(sql)[i] = OpenStep(sql, Open(sql)[i - 1], i)
        BY <2>3, OpenIs
      <4> QED BY <2>3, <2>6, <4>1, OpenSteps
    <3>2. Agree(sql, i + 1)
      <4>1. CASE i = Len(sql)
        BY <4>1, AgreeAtEnd
      <4>2. CASE i # Len(sql)
        <5>1. i + 1 \in (i + 1)..Len(sql) /\ (i + 1) - 1 = i
          BY <1>1, <2>3, <4>2
        <5> QED BY <2>4, <3>1, <5>1
      <4> QED BY <4>1, <4>2
    <3> QED BY <2>1, <2>3, <2>6, <3>2, AgreeAtToken
  <2> QED BY <2>5, <2>6
<1>3. Agree(sql, 1)
  <2>1. 1 \in 1..n /\ Open(sql)[1 - 1] = Outside
    BY <1>1, OpenIs
  <2> QED BY <1>2, <2>1
<1> DEFINE s == StrippedFrom(sql)[1]
<1>4. Before(sql, 1) = {} /\ Clear({})
  BY DEF Before, Clear
<1>5. s \in Seq(STRING) /\ Len(s) \in Nat
  BY <1>1, StrippedFromIs
<1>6. \A k \in 1..Len(s) : Stands(s, k, {}) <=> IsWord(s, k)
  <2> HIDE DEF s
  <2> SUFFICES ASSUME NEW k \in 1..Len(s) PROVE Stands(s, k, {}) <=> IsWord(s, k)
    OBVIOUS
  <2>1. k > 1 <=> k # 1
    BY <1>5
  <2> QED BY <1>4, <2>1, Zenon DEF Stands, IsWord
<1> HIDE DEF s
<1>7. IsDDL(sql) <=> HasDDL(s, {})
  BY <1>6, Zenon DEF IsDDL, HasDDL, Stripped, s
<1>8. IsReadonly(sql) <=> HasSelect(s, {})
  BY <1>6, Zenon DEF IsReadonly, HasSelect, Stripped, s
<1>9. HasBareDDL(sql) <=> BareDDLFrom(sql, 1)
  BY Zenon DEF HasBareDDL, BareDDLFrom
<1>10. BeginsWithSelect(sql) <=> BareSelectFrom(sql, 1)
  BY Zenon DEF BeginsWithSelect, BareSelectFrom
<1> QED BY <1>3, <1>4, <1>7, <1>8, <1>9, <1>10 DEF Agree, s

-----------------------------------------------------------------------------
(* Handlers and descriptions.  How a handler reads a parameter, against    *)
(* what describe() says of the tool: a parameter without which it fails is *)
(* required, and the kind of value it expects is the kind that is          *)
(* described.                                                              *)
KindFits(names, as, tool) ==
  /\ as \in {"text", "any", "texts", "number", "minutes"}
  /\ as = "number" => names \subseteq NumberNames
  /\ as = "texts" => names \subseteq ListNames /\ names \cap tool.resource = {}
  /\ as = "minutes" => names \subseteq {"duration"} \cap tool.required

(* The parameters that name a key or a resource, but for those of email and*)
(* calendar.  "*" is none, and no handler reads it.                        *)
Keyed == {"channel", "severity", "source", "dashboard_id", "project", "level", "path",
          "domain_filter", "database", "owner", "repo", "name", "alert_id", "datasource",
          "query", "*"}

(* One parameter and the way it is read.                                   *)
WayFits(p, a, tool) ==
  /\ a.how \in {"needed", "or", "checked", "given", "not none", "true"}
  /\ a.how \in {"needed", "checked"} => p \in tool.required
  /\ a.how = "true" => Kind(p) = "text" /\ p \notin tool.resource
  /\ a.how = "or" => p \notin Keyed
  /\ IF a.as = "list" THEN a.how = "not none" /\ p \in ListNames ELSE KindFits({p}, a.as, tool)

(* All that are read.                                                      *)
AllFit(args, tool) == \A p \in DOMAIN args : WayFits(p, args[p], tool)

(* The parameters that a handler reads.                                    *)
Names(args) == DOMAIN args

(* And all that are described are read, but for the provider, which        *)
(* SCMModule reads itself.                                                 *)
WaysFit(args, tool) ==
  /\ (tool.required \cup tool.optional) \ {"provider"} \subseteq Names(args)
  /\ tool.resource \ {"*"} \subseteq Names(args)
  /\ AllFit(args, tool)

(* The parameters that the arguments are made of.                          *)
LEMMA Naming ==
  /\ \A names, as : Names(Needed(names, as)) = names
  /\ \A names : Names(Checked(names)) = names
  /\ \A names, how, as : Names(Args(names, how, as)) = names
  /\ \A names, as : Names(IfGiven(names, as)) = names
  /\ \A names, as : Names(IfNotNone(names, as)) = names
  /\ \A names : Names(IfTrue(names)) = names
  /\ \A names, as, default : Names(Or(names, as, default)) = names
  /\ \A f, g : Names(f ++ g) = Names(f) \cup Names(g)
BY DEF Names, Needed, Checked, IfGiven, IfNotNone, IfTrue, Or, Args, ++

(* A text, and a value that is handed on as it is, fits every parameter.   *)
LEMMA PlainFits ==
  ASSUME NEW names, NEW as \in {"text", "any"}, NEW tool
  PROVE  KindFits(names, as, tool)
BY DEF KindFits

(* Arguments that are read in one way fit a tool.                          *)
LEMMA ArgsFit ==
  ASSUME NEW names, NEW how \in {"needed", "checked", "given", "not none", "true"},
         NEW as, NEW tool,
         how \in {"needed", "checked"} => names \subseteq tool.required,
         how = "true" => names \cap tool.resource = {} /\ \A p \in names : Kind(p) = "text",
         KindFits(names, as, tool)
  PROVE  AllFit(Args(names, how, as), tool)
BY DEF AllFit, WayFits, KindFits, Args

(* params[p], for parameters that are required.                            *)
LEMMA NeededFits ==
  ASSUME NEW names, NEW as, NEW tool, names \subseteq tool.required, KindFits(names, as, tool)
  PROVE  AllFit(Needed(names, as), tool)
BY ArgsFit DEF Needed

(* Parameters that are neither missing nor blank, and required.            *)
LEMMA CheckedFits ==
  ASSUME NEW names, NEW tool, names \subseteq tool.required
  PROVE  AllFit(Checked(names), tool)
BY ArgsFit, PlainFits DEF Checked

(* The duration of silence_alert.                                          *)
LEMMA MinutesFit ==
  ASSUME NEW tool, "duration" \in tool.required
  PROVE  AllFit(Args({"duration"}, "checked", "minutes"), tool)
<1>1. KindFits({"duration"}, "minutes", tool)
  BY DEF KindFits
<1>2. QED
  BY <1>1, ArgsFit

(* Arguments handed on only if they are given.                             *)
LEMMA IfGivenFits ==
  ASSUME NEW names, NEW as, NEW tool, KindFits(names, as, tool)
  PROVE  AllFit(IfGiven(names, as), tool)
BY ArgsFit DEF IfGiven

(* Arguments handed on only if they are not None.                          *)
LEMMA IfNotNoneFits ==
  ASSUME NEW names, NEW as, NEW tool, KindFits(names, as, tool)
  PROVE  AllFit(IfNotNone(names, as), tool)
BY ArgsFit DEF IfNotNone

(* The tags of list_dashboards.                                            *)
LEMMA ListFits ==
  ASSUME NEW names, NEW tool, names \subseteq ListNames
  PROVE  AllFit(IfNotNone(names, "list"), tool)
BY DEF IfNotNone, Args, AllFit, WayFits

(* Arguments handed on only if they are true.                              *)
LEMMA IfTrueFits ==
  ASSUME NEW names, NEW tool, names \cap tool.resource = {}, \A p \in names : Kind(p) = "text"
  PROVE  AllFit(IfTrue(names), tool)
BY ArgsFit, PlainFits DEF IfTrue

(* params.get(p, default).                                                 *)
LEMMA OrFits ==
  ASSUME NEW names, NEW as, NEW default, NEW tool, KindFits(names, as, tool),
         names \cap Keyed = {}
  PROVE  AllFit(Or(names, as, default), tool)
BY DEF Or, AllFit, WayFits, KindFits

(* Arguments that fit, put together, fit.                                  *)
LEMMA JoinFits ==
  ASSUME NEW f, NEW g, NEW tool, AllFit(f, tool), AllFit(g, tool)
  PROVE  AllFit(f ++ g, tool)
BY DEF ++, AllFit

(* The handlers of each module against its describe().                     *)
LEMMA EmailFits ==
  /\ WaysFit(SendEmail, EmailTools("send_email"))
  /\ WaysFit(ReadInbox, EmailTools("read_inbox"))
  /\ WaysFit(ParseEmail, EmailTools("parse_email"))
<1> USE Naming, PlainFits, JoinFits, IfGivenFits, OrFits
    DEF EmailTools, Keyed, Tool, WaysFit, KindFits, NumberNames, ListNames
<1>1. WaysFit(SendEmail, EmailTools("send_email"))
  BY DEF SendEmail
<1>2. WaysFit(ReadInbox, EmailTools("read_inbox"))
  BY DEF ReadInbox
<1>3. WaysFit(ParseEmail, EmailTools("parse_email"))
  BY DEF ParseEmail
<1>4. QED
  BY ONLY <1>1, <1>2, <1>3

(* The same for the calendar, whose queries hand on whatever else is       *)
(* given.                                                                  *)
LEMMA CalendarFits ==
  ASSUME NEW params
  PROVE  /\ WaysFit(CreateEvent, CalendarTools("create_event"))
         /\ \A name \in {"list_events", "check_conflicts"} :
              WaysFit(CalendarQuery(params), CalendarTools(name))
<1> USE Naming, PlainFits, JoinFits, IfGivenFits, OrFits DEF CalendarTools, Keyed, Tool, WaysFit
<1>1. WaysFit(CreateEvent, CalendarTools("create_event"))
  BY DEF CreateEvent
<1>2. \A name \in {"list_events", "check_conflicts"} :
        WaysFit(CalendarQuery(params), CalendarTools(name))
  BY DEF CalendarQuery
<1>3. QED
  BY ONLY <1>1, <1>2

(* The same for messaging.                                                 *)
LEMMA MessagingFits ==
  /\ WaysFit(SendMessage, MessagingTools("send_message"))
  /\ WaysFit(ReadMessages, MessagingTools("read_messages"))
<1> USE Naming, PlainFits, JoinFits, NeededFits, IfGivenFits
    DEF MessagingTools, Tool, WaysFit, KindFits, NumberNames
<1>1. WaysFit(SendMessage, MessagingTools("send_message"))
  BY DEF SendMessage
<1>2. WaysFit(ReadMessages, MessagingTools("read_messages"))
  BY DEF ReadMessages
<1>3. QED
  BY ONLY <1>1, <1>2

(* The same for alerting.                                                  *)
LEMMA AlertingFits ==
  /\ WaysFit(ListAlerts, AlertingTools("list_alerts"))
  /\ WaysFit(AcknowledgeAlert, AlertingTools("acknowledge_alert"))
  /\ WaysFit(EscalateAlert, AlertingTools("escalate_alert"))
  /\ WaysFit(SilenceAlert, AlertingTools("silence_alert"))
<1> USE Naming, PlainFits, JoinFits, CheckedFits, IfGivenFits DEF AlertingTools, Tool, WaysFit
<1>1. WaysFit(ListAlerts, AlertingTools("list_alerts"))
  BY DEF ListAlerts, KindFits, NumberNames
<1>2. WaysFit(AcknowledgeAlert, AlertingTools("acknowledge_alert"))
  BY DEF AcknowledgeAlert
<1>3. WaysFit(EscalateAlert, AlertingTools("escalate_alert"))
  BY DEF EscalateAlert
<1>4. WaysFit(SilenceAlert, AlertingTools("silence_alert"))
  BY MinutesFit DEF SilenceAlert
<1>5. QED
  BY ONLY <1>1, <1>2, <1>3, <1>4

(* The same for the other modules of observability.                        *)
LEMMA ObservabilityFits ==
  /\ WaysFit(GetPanel, DashboardTools("get_panel"))
  /\ WaysFit(ListDashboards, DashboardTools("list_dashboards"))
  /\ WaysFit(QueryErrors, ErrorTrackingTools)
  /\ WaysFit(QueryLogs, LoggingTools("query_logs"))
  /\ WaysFit(WriteLog, LoggingTools("write_log"))
  /\ WaysFit(QueryMetrics, MetricsTools)
<1> USE Naming, PlainFits, JoinFits, NeededFits DEF Tool, WaysFit
<1>1. WaysFit(GetPanel, DashboardTools("get_panel"))
  BY IfNotNoneFits DEF GetPanel, DashboardTools
<1>2. WaysFit(ListDashboards, DashboardTools("list_dashboards"))
  BY IfNotNoneFits, ListFits DEF ListDashboards, DashboardTools, ListNames
<1>3. WaysFit(QueryErrors, ErrorTrackingTools)
  BY IfGivenFits DEF QueryErrors, ErrorTrackingTools
<1>4. WaysFit(QueryLogs, LoggingTools("query_logs"))
  BY IfGivenFits DEF QueryLogs, LoggingTools
<1>5. WaysFit(WriteLog, LoggingTools("write_log"))
  BY IfGivenFits DEF WriteLog, LoggingTools
<1>6. WaysFit(QueryMetrics, MetricsTools)
  <2>1. {"step"} \cap Keyed = {}
    BY ONLY DEF Keyed
  <2>2. QED
    BY <2>1, OrFits DEF QueryMetrics, MetricsTools
<1>7. QED
  BY ONLY <1>1, <1>2, <1>3, <1>4, <1>5, <1>6

(* The same for vault, web_search and database.                            *)
LEMMA OtherFits ==
  /\ WaysFit(GetSecret, VaultTools)
  /\ WaysFit(Search, WebSearchTools)
  /\ WaysFit(Query, DatabaseTools("query"))
  /\ WaysFit(ExecuteStatement, DatabaseTools("execute_statement"))
<1> USE Naming, PlainFits, JoinFits, NeededFits, CheckedFits, IfGivenFits DEF Tool, WaysFit
<1>1. WaysFit(GetSecret, VaultTools)
  BY DEF GetSecret, VaultTools
<1>2. WaysFit(Search, WebSearchTools)
  BY DEF Search, WebSearchTools, KindFits, NumberNames
<1>3. WaysFit(Query, DatabaseTools("query"))
  BY DEF Query, DatabaseTools
<1>4. WaysFit(ExecuteStatement, DatabaseTools("execute_statement"))
  BY DEF ExecuteStatement, DatabaseTools
<1>5. QED
  BY ONLY <1>1, <1>2, <1>3, <1>4

(* The same for the tools of SCMModule that create something.              *)
LEMMA ScmCreatingFits ==
  \A name \in ScmCreating : WaysFit(ScmArguments(name), ScmCreatingTools(name))
<1> USE Naming, PlainFits, JoinFits, NeededFits, OrFits, IfTrueFits
    DEF Keyed, Tool, OnRepo, Repo, WaysFit, ScmArguments, ScmCreatingTools
<1>1. WaysFit(ScmArguments("CreatePullRequest"), ScmCreatingTools("CreatePullRequest"))
  OBVIOUS
<1>2. WaysFit(ScmArguments("CreateIssue"), ScmCreatingTools("CreateIssue"))
  OBVIOUS
<1>3. WaysFit(ScmArguments("CreateRepo"), ScmCreatingTools("CreateRepo"))
  OBVIOUS
<1>4. WaysFit(ScmArguments("CreateFork"), ScmCreatingTools("CreateFork"))
  BY DEF Kind, NumberNames, ListNames, BoolNames, ObjectNames
<1>5. QED
  BY ONLY <1>1, <1>2, <1>3, <1>4 DEF ScmCreating

(* The same for its other tools.                                           *)
LEMMA ScmOtherFits ==
  \A name \in ScmOther : WaysFit(ScmArguments(name), ScmOtherTools(name))
<1> USE Naming, PlainFits, JoinFits, NeededFits, OrFits, IfTrueFits
    DEF Keyed, Tool, OnRepo, Repo, WaysFit, ScmArguments, ScmOtherTools
<1>1. WaysFit(ScmArguments("ListRepos"), ScmOtherTools("ListRepos"))
  OBVIOUS
<1>2. WaysFit(ScmArguments("ListBranches"), ScmOtherTools("ListBranches"))
  OBVIOUS
<1>3. WaysFit(ScmArguments("CreateWebhook"), ScmOtherTools("CreateWebhook"))
  BY DEF Kind, NumberNames, ListNames, BoolNames, ObjectNames
<1>4. WaysFit(ScmArguments("ApprovePullRequest"), ScmOtherTools("ApprovePullRequest"))
  OBVIOUS
<1>5. WaysFit(ScmArguments("CommentOnPullRequest"), ScmOtherTools("CommentOnPullRequest"))
  OBVIOUS
<1>6. QED
  BY ONLY <1>1, <1>2, <1>3, <1>4, <1>5 DEF ScmOther

(* A tool is a namespace and one of the names of its module.               *)
LEMMA ToolNamesAre ==
  ASSUME NEW t \in ToolNames
  PROVE  \E m \in DOMAIN NamesOf : \E name \in NamesOf[m] : t = <<m, name>>
BY DEF ToolNames

(* So every handler reads its parameters in ways that fit its description. *)
LEMMA EveryToolFits ==
  ASSUME NEW t \in ToolNames, NEW params
  PROVE  WaysFit(Arguments(t, params), Described(t))
<1>1. PICK m \in DOMAIN NamesOf : \E name \in NamesOf[m] : t = <<m, name>>
  BY ToolNamesAre
<1>2. PICK name \in NamesOf[m] : t = <<m, name>>
  BY <1>1
<1> HIDE DEF WaysFit
<1>3. CASE m = "email"
  BY <1>2, <1>3, EmailFits DEF NamesOf, Arguments, Described
<1>4. CASE m = "calendar"
  BY <1>2, <1>4, CalendarFits DEF NamesOf, Arguments, Described
<1>5. CASE m = "messaging"
  BY <1>2, <1>5, MessagingFits DEF NamesOf, Arguments, Described
<1>6. CASE m = "alerting"
  BY <1>2, <1>6, AlertingFits DEF NamesOf, Arguments, Described
<1>7. CASE m \in {"dashboard", "error_tracking", "logging", "metrics"}
  BY <1>2, <1>7, ObservabilityFits DEF NamesOf, Arguments, Described
<1>8. CASE m \in {"vault", "web_search", "database"}
  BY <1>2, <1>8, OtherFits DEF NamesOf, Arguments, Described
<1>9. CASE m = "scm"
  BY <1>2, <1>9, ScmCreatingFits, ScmOtherFits DEF NamesOf, Arguments, Described
<1>10. QED
  BY <1>3, <1>4, <1>5, <1>6, <1>7, <1>8, <1>9 DEF NamesOf

(* The texts of a value go over unchanged, whatever it is turned into.     *)
LEMMA ConvertedIs ==
  ASSUME NEW p, NEW a, NEW tool, WayFits(p, a, tool), NEW v
  PROVE  Converted(a, v).is = v.is
BY DEF WayFits, KindFits, Converted, Str, Text, Value

(* What the backend gets: a parameter that was read without a failure,     *)
(* with the text it has in the call, or with its default.                  *)
LEMMA HandedOnIs ==
  ASSUME NEW t \in ToolNames, NEW params, NEW p \in DOMAIN HandedOn(t, params)
  PROVE  LET a == Arguments(t, params)[p] IN
         /\ p \in DOMAIN Arguments(t, params)
         /\ WayFits(p, a, Described(t))
         /\ Passed(p, a, params)
         /\ ~TurnedAway(t, params) => ~Fails(p, a, params)
         /\ HandedOn(t, params)[p] = Converted(a, Get(p, params, a.default))
         /\ HandedOn(t, params)[p].is = Get(p, params, a.default).is
<1> DEFINE args == Arguments(t, params)
<1>1. AllFit(args, Described(t))
  BY EveryToolFits DEF WaysFit
<1>2. HandedOn(t, params)
      = [q \in {r \in DOMAIN args : /\ Passed(r, args[r], params)
                                    /\ ~LeftOut(args[r], Get(r, params, args[r].default))}
           |-> Converted(args[q], Get(q, params, args[q].default))]
  BY DEF HandedOn
<1>3. TurnedAway(t, params) <=> (\E q \in DOMAIN args : Fails(q, args[q], params)) \/ Turned(t, params)
  BY DEF TurnedAway
<1> HIDE DEF args
<1>4. /\ p \in DOMAIN args
      /\ WayFits(p, args[p], Described(t))
      /\ Passed(p, args[p], params)
      /\ HandedOn(t, params)[p] = Converted(args[p], Get(p, params, args[p].default))
  BY <1>1, <1>2 DEF AllFit
<1>5. QED
  BY <1>3, <1>4, ConvertedIs DEF args

(* A parameter that is given, and names a resource or is of the kind the   *)
(* description says, is handed on.                                         *)
LEMMA PassedOn ==
  ASSUME NEW t \in ToolNames, NEW params, NEW p \in Names(Arguments(t, params)), IsSet(p, params),
         \/ p \in Described(t).resource
         \/ params[p].kind = Kind(p) /\ (Kind(p) = "text" => IsTrue(params[p]))
  PROVE  p \in DOMAIN HandedOn(t, params)
<1> DEFINE args == Arguments(t, params)
<1>1. AllFit(args, Described(t)) /\ p \in DOMAIN args
  BY EveryToolFits DEF WaysFit, Names
<1>2. HandedOn(t, params)
      = [q \in {r \in DOMAIN args : /\ Passed(r, args[r], params)
                                    /\ ~LeftOut(args[r], Get(r, params, args[r].default))}
           |-> Converted(args[q], Get(q, params, args[q].default))]
  BY DEF HandedOn
<1> HIDE DEF args
<1>3. WayFits(p, args[p], Described(t))
  BY <1>1 DEF AllFit
<1>4. Passed(p, args[p], params)
  BY <1>3 DEF WayFits, Passed, IsSet, Given, Get
<1>5. ~LeftOut(args[p], Get(p, params, args[p].default))
  BY <1>3 DEF WayFits, KindFits, LeftOut, IsSet, Given, Get, Kind, NumberNames, ListNames
<1>6. QED
  BY <1>1, <1>2, <1>4, <1>5

(* Of the parameters that name a key or a resource, but for those of email *)
(* and calendar, none has a default.                                       *)
LEMMA GivenIfKeyed ==
  ASSUME NEW t \in ToolNames, NEW params, ~TurnedAway(t, params),
         NEW p \in DOMAIN HandedOn(t, params), p \in Keyed
  PROVE  Given(p, params) /\ HandedOn(t, params)[p].is = params[p].is
<1> DEFINE a == Arguments(t, params)[p]
<1>1. /\ WayFits(p, a, Described(t)) /\ Passed(p, a, params) /\ ~Fails(p, a, params)
      /\ HandedOn(t, params)[p].is = Get(p, params, a.default).is
  BY HandedOnIs
<1> HIDE DEF a
<1>2. a.how \in {"needed", "checked", "given", "not none", "true"}
  BY <1>1 DEF WayFits
<1>3. ~IsTrue(Null)
  BY DEF IsTrue
<1>4. Given(p, params)
  BY <1>1, <1>2, <1>3 DEF Passed, Fails, IsSet, Given, Get
<1>5. QED
  BY <1>1, <1>4 DEF Get

(* A condition has the text of a value.                                    *)
Holds(f, key, v) == key \in DOMAIN f /\ f[key].is = v.is

(* resolve_conditions() of these modules has a key for each such parameter *)
(* that is not None.                                                       *)
LEMMA KeyedConditions ==
  ASSUME NEW t \in ToolNames, t[1] \notin {"email", "calendar"}, NEW params,
         NEW k \in KeysOf[t[1]]
  PROVE  /\ k[2] \in Keyed
         /\ IsSet(k[2], params) => Holds(Conditions(t, params), k[1], params[k[2]])
<1> USE DEF IfSet, Holds, Entry, ++, NoEntry, Str, Text, Value
<1>1. CASE t[1] = "messaging"
  <2>1. k[1] = "messaging:Channel" /\ k[2] = "channel"
    BY ONLY <1>1, k \in KeysOf[t[1]] DEF KeysOf
  <2>2. QED
    BY <1>1, <2>1 DEF Conditions, MessagingConditions, Keyed
<1>2. CASE t[1] = "alerting"
  <2>1. \/ k[1] = "alerting:Severity" /\ k[2] = "severity"
        \/ k[1] = "alerting:AlertSource" /\ k[2] = "source"
    BY ONLY <1>2, k \in KeysOf[t[1]] DEF KeysOf
  <2>2. QED
    BY <1>2, <2>1 DEF Conditions, AlertingConditions, Keyed
<1>3. CASE t[1] = "dashboard"
  <2>1. k[1] = "dashboard:DashboardId" /\ k[2] = "dashboard_id"
    BY ONLY <1>3, k \in KeysOf[t[1]] DEF KeysOf
  <2>2. QED
    BY <1>3, <2>1 DEF Conditions, DashboardConditions, Keyed
<1>4. CASE t[1] = "error_tracking"
  <2>1. k[1] = "error_tracking:Project" /\ k[2] = "project"
    BY ONLY <1>4, k \in KeysOf[t[1]] DEF KeysOf
  <2>2. QED
    BY <1>4, <2>1 DEF Conditions, ErrorTrackingConditions, Keyed
<1>5. CASE t[1] = "logging"
  <2>1. \/ k[1] = "logging:LogSource" /\ k[2] = "source"
        \/ k[1] = "logging:Severity" /\ k[2] = "level"
    BY ONLY <1>5, k \in KeysOf[t[1]] DEF KeysOf
  <2>2. QED
    BY <1>5, <2>1 DEF Conditions, LoggingConditions, Keyed
<1>6. CASE t[1] = "metrics"
  BY ONLY <1>6, k \in KeysOf[t[1]] DEF KeysOf
<1>7. CASE t[1] = "vault"
  <2>1. k[1] = "vault:SecretPath" /\ k[2] = "path"
    BY ONLY <1>7, k \in KeysOf[t[1]] DEF KeysOf
  <2>2. QED
    BY <1>7, <2>1 DEF Conditions, VaultConditions, Keyed
<1>8. CASE t[1] = "web_search"
  <2>1. k[1] = "web_search:QueryDomain" /\ k[2] = "domain_filter"
    BY ONLY <1>8, k \in KeysOf[t[1]] DEF KeysOf
  <2>2. QED
    BY <1>8, <2>1 DEF Conditions, WebSearchConditions, Keyed
<1>9. CASE t[1] = "database"
  <2>1. k[1] = "database:DatabaseName" /\ k[2] = "database"
    BY ONLY <1>9, k \in KeysOf[t[1]] DEF KeysOf
  <2>2. QED
    BY <1>9, <2>1 DEF Conditions, DatabaseConditions, Keyed
<1>10. CASE t[1] = "scm"
  <2>1. k[1] = "scm:Owner" /\ k[2] = "owner"
    BY ONLY <1>10, k \in KeysOf[t[1]] DEF KeysOf
  <2>2. QED
    BY <1>10, <2>1 DEF Conditions, ScmConditions, Keyed, IsSet
<1>11. t[1] \in DOMAIN NamesOf
  BY ONLY ToolNamesAre, t \in ToolNames
<1>12. QED
  BY ONLY <1>1, <1>2, <1>3, <1>4, <1>5, <1>6, <1>7, <1>8, <1>9, <1>10, <1>11,
          t[1] \notin {"email", "calendar"} DEF NamesOf

(* KeysAgree, of one call.                                                 *)
KeyAgrees(t, params, key, p) ==
  LET told == HandedOn(t, params) IN
  (/\ p \in DOMAIN told
   /\ Given(p, params) => params[p] # Null
   /\ Given(p, params) \/ told[p] # Empty)
    => /\ key \in DOMAIN Conditions(t, params)
       /\ Str(Conditions(t, params)[key]) = Str(told[p])

(* The keys of all modules but email and calendar.                         *)
LEMMA KeyedAgree ==
  ASSUME NEW t \in ToolNames, t[1] \notin {"email", "calendar"}, NEW params,
         ~TurnedAway(t, params), NEW k \in KeysOf[t[1]]
  PROVE  KeyAgrees(t, params, k[1], k[2])
<1> DEFINE told == HandedOn(t, params)
           known == Conditions(t, params)
<1>1. SUFFICES ASSUME k[2] \in DOMAIN told, Given(k[2], params) => params[k[2]] # Null,
                      Given(k[2], params) \/ told[k[2]] # Empty
               PROVE  k[1] \in DOMAIN known /\ Str(known[k[1]]) = Str(told[k[2]])
  BY DEF KeyAgrees
<1>2. k[2] \in Keyed /\ (IsSet(k[2], params) => Holds(known, k[1], params[k[2]]))
  BY KeyedConditions
<1>3. Given(k[2], params) /\ told[k[2]].is = params[k[2]].is
  BY <1>1, <1>2, GivenIfKeyed
<1>4. Holds(known, k[1], params[k[2]])
  BY <1>1, <1>2, <1>3 DEF IsSet
<1>5. QED
  BY <1>3, <1>4 DEF Holds, Str

(* How a calendar is read.                                                 *)
LEMMA CalendarWay ==
  ASSUME NEW t \in ToolNames, t[1] = "calendar", NEW params
  PROVE  Arguments(t, params)["calendar_id"] = [how |-> "or", as |-> "text", default |-> Empty]
<1>1. PICK name \in NamesOf["calendar"] : t = <<"calendar", name>>
  BY ToolNamesAre
<1>2. CASE name = "create_event"
  BY <1>1, <1>2 DEF Arguments, CreateEvent, Or, ++
<1>3. CASE name # "create_event"
  BY <1>1, <1>3 DEF NamesOf, Arguments, CalendarQuery, Or, ++
<1>4. QED
  BY <1>2, <1>3

(* A calendar that is not given is handed on as an empty text, and one     *)
(* that is given has its key.                                              *)
LEMMA CalendarAgrees ==
  ASSUME NEW t \in ToolNames, t[1] = "calendar", NEW params,
         ~TurnedAway(t, params), NEW k \in KeysOf[t[1]]
  PROVE  KeyAgrees(t, params, k[1], k[2])
<1> DEFINE told == HandedOn(t, params)
           known == Conditions(t, params)
<1>1. k[1] = "calendar:CalendarId" /\ k[2] = "calendar_id"
  BY DEF KeysOf
<1>2. SUFFICES ASSUME "calendar_id" \in DOMAIN told,
                      Given("calendar_id", params) => params["calendar_id"] # Null,
                      Given("calendar_id", params) \/ told["calendar_id"] # Empty
               PROVE  /\ "calendar:CalendarId" \in DOMAIN known
                      /\ Str(known["calendar:CalendarId"]) = Str(told["calendar_id"])
  BY <1>1 DEF KeyAgrees
<1>3. /\ told["calendar_id"] = Str(Get("calendar_id", params, Empty))
      /\ told["calendar_id"].is = Get("calendar_id", params, Empty).is
  BY <1>2, HandedOnIs, CalendarWay DEF Converted
<1>4. Str(Empty) = Empty
  BY DEF Str, Text, Value, Empty
<1>5. Given("calendar_id", params)
  BY <1>2, <1>3, <1>4 DEF Get
<1>6. Holds(known, "calendar:CalendarId", params["calendar_id"])
  BY <1>2, <1>5 DEF Conditions, CalendarConditions, IfSet, IsSet, Holds, Entry, Str, Text, Value
<1>7. QED
  BY <1>3, <1>5, <1>6 DEF Holds, Str, Get

(* Email resolves with the defaults its handlers have.                     *)
LEMMA EmailAgrees ==
  ASSUME NEW t \in ToolNames, t[1] = "email", NEW params,
         ~TurnedAway(t, params), NEW k \in KeysOf[t[1]]
  PROVE  KeyAgrees(t, params, k[1], k[2])
<1> DEFINE told == HandedOn(t, params)
           known == Conditions(t, params)
<1>1. \/ k[1] = "email:Recipient" /\ k[2] = "to"
      \/ k[1] = "email:Subject" /\ k[2] = "subject"
      \/ k[1] = "email:Folder" /\ k[2] = "folder"
  BY DEF KeysOf
<1>2. PICK name \in NamesOf["email"] : t = <<"email", name>>
  BY ToolNamesAre
<1>3. SUFFICES ASSUME k[2] \in DOMAIN told
               PROVE  k[1] \in DOMAIN known /\ known[k[1]].is = told[k[2]].is
  BY DEF KeyAgrees, Str
<1>4. /\ k[2] \in DOMAIN Arguments(t, params)
      /\ told[k[2]].is = Get(k[2], params, Arguments(t, params)[k[2]].default).is
  BY <1>3, HandedOnIs
<1>5. CASE name = "send_email"
  <2>1. Arguments(t, params) = SendEmail
    BY <1>2, <1>5 DEF Arguments
  <2>2. k[2] # "folder"
    BY <1>4, <2>1 DEF SendEmail, Or, IfGiven, Args, ++
  <2>3. SendEmail["to"].default = Empty /\ SendEmail["subject"].default = Empty
    BY DEF SendEmail, Or, ++
  <2>4. known = EmailConditions("send_email", params)
    BY <1>2, <1>5 DEF Conditions
  <2>5. k[1] \in DOMAIN known /\ known[k[1]] = Get(k[2], params, Empty)
    BY <1>1, <2>2, <2>4 DEF EmailConditions, Entry, ++
  <2>6. QED
    BY <1>1, <1>4, <2>1, <2>2, <2>3, <2>5
<1>6. CASE name = "read_inbox"
  <2>1. Arguments(t, params) = ReadInbox
    BY <1>2, <1>6 DEF Arguments
  <2>2. k[2] = "folder" /\ k[1] = "email:Folder"
    BY <1>1, <1>4, <2>1 DEF ReadInbox, Or, IfGiven, Args, ++
  <2>3. ReadInbox["folder"].default = Text(<<"inbox">>)
    BY DEF ReadInbox, Or, ++
  <2>4. known = EmailConditions("read_inbox", params)
    BY <1>2, <1>6 DEF Conditions
  <2>5. k[1] \in DOMAIN known /\ known[k[1]] = Get(k[2], params, Text(<<"inbox">>))
    BY <2>2, <2>4 DEF EmailConditions, Entry
  <2>6. QED
    BY <1>4, <2>1, <2>2, <2>3, <2>5
<1>7. CASE name = "parse_email"
  <2>1. Arguments(t, params) = ParseEmail
    BY <1>2, <1>7 DEF Arguments
  <2>2. QED
    BY <1>1, <1>4, <2>1 DEF ParseEmail, Or, IfGiven, Args, ++
<1>8. QED
  BY <1>5, <1>6, <1>7 DEF NamesOf

(* So every key agrees with what is handed on.                             *)
LEMMA EveryKeyAgrees ==
  ASSUME NEW t \in ToolNames, NEW params, ~TurnedAway(t, params), NEW k \in KeysOf[t[1]]
  PROVE  KeyAgrees(t, params, k[1], k[2])
BY KeyedAgree, CalendarAgrees, EmailAgrees

(* A parameter that names a resource is handed on as that resource.        *)
LEMMA ResourcesOf ==
  ASSUME NEW t \in ToolNames, NEW params, "*" \notin DOMAIN params,
         NEW p \in Described(t).resource \cap DOMAIN params, params[p] # Null
  PROVE  /\ p \in DOMAIN HandedOn(t, params)
         /\ Str(HandedOn(t, params)[p]) \in Resources(t, params)
<1>1. IsSet(p, params)
  BY DEF IsSet, Given
<1>2. p \in Names(Arguments(t, params))
  BY EveryToolFits DEF WaysFit
<1>3. p \in DOMAIN HandedOn(t, params)
  BY <1>1, <1>2, PassedOn
<1>4. HandedOn(t, params)[p].is = params[p].is
  BY <1>1, <1>3, HandedOnIs DEF Get, IsSet
<1>5. Str(params[p]) \in Resources(t, params)
  BY <1>1 DEF Resources
<1>6. QED
  BY <1>3, <1>4, <1>5 DEF Str

(* The resources of the other modules are named by such parameters.        *)
LEMMA ResourcesKeyed ==
  ASSUME NEW t \in ToolNames, t[1] \notin {"email", "calendar"}
  PROVE  Described(t).resource \subseteq Keyed
<1>1. PICK m \in DOMAIN NamesOf : \E name \in NamesOf[m] : t = <<m, name>>
  BY ToolNamesAre
<1>2. PICK name \in NamesOf[m] : t = <<m, name>>
  BY <1>1
<1> USE DEF Tool, Keyed
<1>3. CASE m \in {"messaging", "alerting", "dashboard"}
  BY <1>2, <1>3 DEF NamesOf, Described, MessagingTools, AlertingTools, DashboardTools
<1>4. CASE m \in {"error_tracking", "logging", "metrics"}
  BY <1>2, <1>4 DEF NamesOf, Described, ErrorTrackingTools, LoggingTools, MetricsTools
<1>5. CASE m \in {"vault", "web_search", "database"}
  BY <1>2, <1>5 DEF NamesOf, Described, VaultTools, WebSearchTools, DatabaseTools
<1>6. CASE m = "scm"
  <2>1. CASE name \in ScmCreating
    <3>1. Described(t) = ScmCreatingTools(name)
      <4>1. t[1] = "scm" /\ t[2] = name /\ name \notin ScmOther
        BY <1>2, <1>6, <2>1 DEF ScmCreating, ScmOther
      <4>2. QED
        BY <4>1, <2>1 DEF Described
    <3>2. QED
      BY <3>1, <2>1 DEF ScmCreating, ScmCreatingTools, OnRepo, Repo
  <2>2. CASE name \in ScmOther
    <3>1. Described(t) = ScmOtherTools(name)
      BY <1>2, <1>6, <2>2 DEF Described, ScmCreating, ScmOther
    <3>2. QED
      BY <3>1, <2>2 DEF ScmOther, ScmOtherTools, OnRepo, Repo
  <2>3. QED
    BY <1>6, <2>1, <2>2 DEF NamesOf
<1>7. QED
  BY <1>2, <1>3, <1>4, <1>5, <1>6 DEF NamesOf

(* A resource that a handler takes by default is the empty one, and that is*)
(* the one the call is decided on, but for the inbox.                      *)
LEMMA DefaultIsEmpty ==
  ASSUME NEW t \in ToolNames, NEW params, ~TurnedAway(t, params),
         NEW p \in Described(t).resource, p \in DOMAIN HandedOn(t, params), ~Given(p, params)
  PROVE  \/ t = <<"email", "read_inbox">> /\ p = "folder"
         \/ Str(HandedOn(t, params)[p]) \in Resources(t, params)
<1>1. t[1] \in {"email", "calendar"}
  BY ResourcesKeyed, GivenIfKeyed
<1>2. /\ p \in DOMAIN Arguments(t, params)
      /\ HandedOn(t, params)[p].is = Arguments(t, params)[p].default.is
  BY HandedOnIs DEF Get
<1>3. ASSUME Described(t).resource = {p}
      PROVE  Empty \in Resources(t, params)
  BY <1>3 DEF Resources, IsSet
<1>4. ASSUME Described(t).resource = {p}, Arguments(t, params)[p].default = Empty
      PROVE  Str(HandedOn(t, params)[p]) \in Resources(t, params)
  <2>1. Str(HandedOn(t, params)[p]) = Empty
    BY <1>2, <1>4 DEF Str, Text, Value, Empty
  <2>2. QED
    BY <1>3, <1>4, <2>1
<1>5. CASE t[1] = "email"
  <2>1. PICK name \in NamesOf["email"] : t = <<"email", name>>
    BY <1>5, ToolNamesAre
  <2>2. CASE name = "send_email"
    <3>1. Described(t).resource = {"to"} /\ Arguments(t, params) = SendEmail
      BY <2>1, <2>2 DEF Described, EmailTools, Tool, Arguments
    <3>2. SendEmail["to"].default = Empty
      BY DEF SendEmail, Or, ++
    <3>3. QED
      BY <1>4, <3>1, <3>2
  <2>3. CASE name = "read_inbox"
    <3>1. Described(t).resource = {"folder"}
      BY <2>1, <2>3 DEF Described, EmailTools, Tool
    <3>2. QED
      BY <2>1, <2>3, <3>1
  <2>4. CASE name = "parse_email"
    <3>1. Described(t).resource = {"message_id"} /\ Arguments(t, params) = ParseEmail
      BY <2>1, <2>4 DEF Described, EmailTools, Tool, Arguments
    <3>2. ParseEmail["message_id"].default = Empty
      BY DEF ParseEmail, Or, ++
    <3>3. QED
      BY <1>4, <3>1, <3>2
  <2>5. QED
    BY <2>2, <2>3, <2>4 DEF NamesOf
<1>6. CASE t[1] = "calendar"
  <2>1. Described(t).resource = {"calendar_id"}
    BY <1>6 DEF Described, CalendarTools, Tool
  <2>2. Arguments(t, params)["calendar_id"].default = Empty
    BY <1>6, CalendarWay
  <2>3. QED
    BY <1>4, <2>1, <2>2
<1>7. QED
  BY <1>1, <1>5, <1>6

(* params[p], handed on as it is.                                          *)
Needs(args, p) == p \in DOMAIN args /\ args[p].how = "needed" /\ args[p].as = "any"

(* Put together with others it stays what it is.                           *)
LEMMA NeedsFacts ==
  /\ \A names : \A p \in names : Needs(Needed(names, "any"), p)
  /\ \A f, g, p : Needs(f, p) => Needs(f ++ g, p)
BY DEF Needs, Needed, Args, ++

(* A tool of SCMModule that reads a repository reads its owner.            *)
LEMMA ScmNeeds ==
  ASSUME NEW name \in NamesOf["scm"], "repo" \in Names(ScmArguments(name))
  PROVE  Needs(ScmArguments(name), "owner") /\ Needs(ScmArguments(name), "repo")
<1>1. name \in ScmCreating \cup ScmOther
  BY DEF NamesOf
<1>2. CASE name \in {"CreateRepo", "ListRepos"}
  BY <1>2, Naming DEF ScmArguments
<1>3. CASE name \in {"CreatePullRequest", "CreateIssue", "CreateFork"}
  BY <1>3, NeedsFacts DEF ScmArguments, Repo
<1>4. CASE name \in {"ListBranches", "CreateWebhook", "ApprovePullRequest", "CommentOnPullRequest"}
  BY <1>4, NeedsFacts DEF ScmArguments, Repo
<1>5. QED
  BY <1>1, <1>2, <1>3, <1>4 DEF ScmCreating, ScmOther

(* What is read this way is given and handed on.                           *)
LEMMA NeededIsHandedOn ==
  ASSUME NEW t \in ToolNames, NEW params, ~TurnedAway(t, params), NEW p,
         Needs(Arguments(t, params), p)
  PROVE  /\ Given(p, params)
         /\ p \in DOMAIN HandedOn(t, params)
         /\ HandedOn(t, params)[p].is = params[p].is
<1> DEFINE args == Arguments(t, params)
<1>1. HandedOn(t, params)
      = [q \in {r \in DOMAIN args : /\ Passed(r, args[r], params)
                                    /\ ~LeftOut(args[r], Get(r, params, args[r].default))}
           |-> Converted(args[q], Get(q, params, args[q].default))]
  BY DEF HandedOn
<1>2. \A q \in DOMAIN args : ~Fails(q, args[q], params)
  BY DEF TurnedAway
<1> HIDE DEF args
<1>3. p \in DOMAIN args /\ args[p].how = "needed" /\ args[p].as = "any"
  BY DEF args, Needs
<1>4. Given(p, params)
  BY <1>2, <1>3 DEF Fails
<1>5. p \in DOMAIN HandedOn(t, params)
  BY <1>1, <1>3 DEF Passed, LeftOut
<1>6. QED
  BY <1>4, <1>5, HandedOnIs DEF Get

(* The repository that the policies see is the one the provider gets.      *)
LEMMA RepositoryOf ==
  ASSUME NEW t \in ToolNames, t[1] = "scm", NEW params, ~TurnedAway(t, params),
         "repo" \in DOMAIN HandedOn(t, params)
  PROVE  Conditions(t, params)["scm:Repository"]
           = Text(HandedOn(t, params)["owner"].is \o <<"/">> \o HandedOn(t, params)["repo"].is)
<1> DEFINE told == HandedOn(t, params)
           args == Arguments(t, params)
<1>1. PICK name \in NamesOf["scm"] : t = <<"scm", name>>
  BY ToolNamesAre
<1>2. args = ScmArguments(name)
  BY <1>1 DEF Arguments
<1>3. "repo" \in Names(args)
  BY HandedOnIs DEF Names
<1>4. Needs(args, "owner") /\ Needs(args, "repo")
  BY <1>2, <1>3, ScmNeeds
<1>5. /\ Given("owner", params) /\ told["owner"].is = params["owner"].is
      /\ Given("repo", params) /\ told["repo"].is = params["repo"].is
  BY <1>4, NeededIsHandedOn
<1>6. Conditions(t, params) = ScmConditions(params)
  BY <1>1 DEF Conditions
<1>7. ScmConditions(params)["scm:Repository"] = Repository(params)
  BY <1>5 DEF ScmConditions, Entry, ++
<1>8. Repository(params) = Text(params["owner"].is \o <<"/">> \o params["repo"].is)
  BY <1>5 DEF Repository, Get
<1>9. QED
  BY <1>5, <1>6, <1>7, <1>8

(* Conforms, of one call.                                                  *)
Conforming(t, params) ==
  LET tool == Described(t)
      given == DOMAIN params IN
  /\ tool.required \subseteq given
  /\ given \subseteq tool.required \cup tool.optional
  /\ \A p \in given : params[p].kind = Kind(p) /\ ~IsBlank(params[p])

(* WellFormed, of the parameters of one call.                              *)
Numbered(params) ==
  \A p \in DOMAIN params :
    params[p].is \in Seq(STRING) /\ (params[p].kind = "number" => IsNumber(params[p]))

(* The kinds of parameters.                                                *)
LEMMA KindIs ==
  ASSUME NEW p
  PROVE  /\ Kind(p) \in {"number", "list", "bool", "object", "text"}
         /\ p \in NumberNames => Kind(p) = "number"
         /\ p \in ListNames => Kind(p) = "list"
BY DEF Kind, NumberNames, ListNames

(* A parameter that keeps to its description is not None, and a text is    *)
(* true.                                                                   *)
LEMMA ConformingIsSet ==
  ASSUME NEW params, NEW p \in DOMAIN params, params[p].kind = Kind(p), ~IsBlank(params[p])
  PROVE  /\ IsSet(p, params)
         /\ Kind(p) = "text" => IsTrue(params[p])
<1>1. params[p].kind # "null"
  BY KindIs
<1>2. Null.kind = "null" /\ False.kind = "bool"
  BY DEF Null, False, Value
<1>3. ASSUME params[p].is = <<>> PROVE IsBlank(params[p])
  <2>1. Len(params[p].is) = 0
    BY <1>3
  <2>2. 1..Len(params[p].is) = {}
    BY <2>1
  <2>3. QED
    BY <2>2, Zenon DEF IsBlank
<1>4. QED
  BY <1>1, <1>2, <1>3 DEF IsSet, Given, IsTrue, IsZero

(* It is handed on with its text.                                          *)
LEMMA ConformingIsHandedOn ==
  ASSUME NEW t \in ToolNames, NEW params, Conforming(t, params), NEW p \in DOMAIN params, p # "provider"
  PROVE  p \in DOMAIN HandedOn(t, params) /\ HandedOn(t, params)[p].is = params[p].is
<1>1. p \in Names(Arguments(t, params))
  BY EveryToolFits DEF WaysFit, Conforming
<1>2. p \in DOMAIN HandedOn(t, params)
  BY <1>1, ConformingIsSet, PassedOn DEF Conforming
<1>3. QED
  BY <1>2, HandedOnIs DEF Get, Given

(* _parse_duration() has no negative result.                               *)
LEMMA MinutesAreNatural == \A s \in Seq(STRING) : Minutes(s) \in Nat
BY StatementsAssumption DEF Minutes

(* No handler raises or returns an error for it.                           *)
LEMMA ConformingDoesNotFail ==
  ASSUME NEW t \in ToolNames, NEW params, Conforming(t, params), Numbered(params),
         "duration" \in DOMAIN params => Minutes(params["duration"].is) > 0,
         NEW p, NEW a, WayFits(p, a, Described(t))
  PROVE  ~Fails(p, a, params)
<1> DEFINE v == Get(p, params, a.default)
<1>1. ~(a.how = "needed" /\ ~Given(p, params))
  BY DEF WayFits, Conforming, Given
<1>2. ~(a.how = "checked" /\ (~IsSet(p, params) \/ IsBlank(Str(v))))
  <2>1. SUFFICES ASSUME a.how = "checked" PROVE IsSet(p, params) /\ ~IsBlank(Str(v))
    OBVIOUS
  <2>2. p \in DOMAIN params
    BY <2>1 DEF WayFits, Conforming
  <2>3. IsSet(p, params) /\ ~IsBlank(params[p])
    BY <2>2, ConformingIsSet DEF Conforming
  <2>4. v = params[p]
    BY <2>2 DEF Get, Given
  <2>5. QED
    BY <2>3, <2>4 DEF IsBlank, Str, Text, Value
<1>3. ~(a.as = "number" /\ Given(p, params) /\ ~IsNumber(v))
  BY KindIs DEF WayFits, KindFits, Conforming, Numbered, Given, Get
<1>4. ~(a.as = "minutes" /\ Minutes(v.is) < 1)
  <2>1. SUFFICES ASSUME a.as = "minutes" PROVE ~(Minutes(v.is) < 1)
    OBVIOUS
  <2>2. p = "duration" /\ p \in DOMAIN params
    BY <2>1 DEF WayFits, KindFits, Conforming
  <2>3. v = params["duration"] /\ v.is \in Seq(STRING) /\ Minutes(v.is) > 0
    BY <2>2 DEF Get, Given, Numbered
  <2>4. Minutes(v.is) \in Nat
    BY <2>3, MinutesAreNatural
  <2> HIDE DEF v
  <2>5. QED
    BY <2>3, <2>4
<1>5. ~(Passed(p, a, params) /\ a.as = "list" /\ v.kind = "number")
  BY KindIs DEF WayFits, Passed, IsSet, Given, Get, Conforming
<1>6. QED
  BY <1>1, <1>2, <1>3, <1>4, <1>5 DEF Fails

(* Neither the checks on SQL nor the choice of a provider turn the call    *)
(* away.                                                                   *)
LEMMA ConformingIsNotTurned ==
  ASSUME NEW t \in ToolNames, NEW params, Conforming(t, params), Numbered(params),
         "sql" \in DOMAIN params =>
           LET sql == params["sql"].is IN
           ~HasBareDDL(sql) /\ (BeginsWithSelect(sql) <=> t[2] = "query"),
         "provider" \in DOMAIN params => params["provider"].is \in Providers
  PROVE  ~Turned(t, params)
<1>1. CASE t[1] = "database"
  <2>1. "sql" \in Described(t).required
    <3>1. PICK name \in NamesOf["database"] : t = <<"database", name>>
      BY <1>1, ToolNamesAre
    <3>2. Described(t) = DatabaseTools(name)
      BY <3>1 DEF Described
    <3>3. QED
      BY <3>1, <3>2 DEF NamesOf, DatabaseTools, Tool
  <2>2. "sql" \in DOMAIN params /\ params["sql"].is \in Seq(STRING)
    BY <2>1 DEF Conforming, Numbered
  <2>3. /\ ~IsDDL(params["sql"].is)
        /\ IsReadonly(params["sql"].is) <=> t[2] = "query"
    BY <2>2, ScannerReadsLiterals
  <2>4. t[2] \in {"query", "execute_statement"} /\ t = <<t[1], t[2]>>
    BY <1>1, ToolNamesAre DEF NamesOf
  <2>5. QED
    BY <1>1, <2>3, <2>4 DEF Turned
<1>2. CASE t[1] = "scm"
  <2>1. "provider" \in Described(t).required
    <3>1. PICK name \in NamesOf["scm"] : t = <<"scm", name>>
      BY <1>2, ToolNamesAre
    <3>2. \/ name \in ScmCreating /\ Described(t) = ScmCreatingTools(name)
          \/ name \in ScmOther /\ Described(t) = ScmOtherTools(name)
      BY <3>1 DEF Described, NamesOf
    <3>3. QED
      BY <3>2 DEF ScmCreating, ScmOther, ScmCreatingTools, ScmOtherTools, OnRepo, Tool
  <2>2. Kind("provider") = "text"
    BY DEF Kind, NumberNames, ListNames, BoolNames, ObjectNames
  <2>3. "provider" \in DOMAIN params /\ IsTrue(params["provider"])
    BY <2>1, <2>2, ConformingIsSet DEF Conforming
  <2>4. QED
    BY <1>2, <2>3 DEF Turned, Get, Given
<1>3. CASE t[1] \notin {"database", "scm"}
  <2>1. t[1] # "database" /\ t # <<"database", "query">> /\ t # <<"database", "execute_statement">>
    BY <1>3
  <2>2. QED
    BY <1>3, <2>1 DEF Turned
<1>4. QED
  BY <1>1, <1>2, <1>3

(* So the call reaches the backend.                                        *)
LEMMA ConformingIsNotTurnedAway ==
  ASSUME NEW t \in ToolNames, NEW params, Conforming(t, params), Numbered(params),
         "sql" \in DOMAIN params =>
           LET sql == params["sql"].is IN
           ~HasBareDDL(sql) /\ (BeginsWithSelect(sql) <=> t[2] = "query"),
         "duration" \in DOMAIN params => Minutes(params["duration"].is) > 0,
         "provider" \in DOMAIN params => params["provider"].is \in Providers
  PROVE  ~TurnedAway(t, params)
<1> DEFINE args == Arguments(t, params)
<1>1. AllFit(args, Described(t))
  BY EveryToolFits DEF WaysFit
<1>2. TurnedAway(t, params) <=> (\E q \in DOMAIN args : Fails(q, args[q], params)) \/ Turned(t, params)
  BY DEF TurnedAway
<1> HIDE DEF args
<1>3. \A q \in DOMAIN args : ~Fails(q, args[q], params)
  BY <1>1, ConformingDoesNotFail DEF AllFit
<1>4. ~Turned(t, params)
  BY ConformingIsNotTurned
<1>5. QED
  BY <1>2, <1>3, <1>4

(* What the database module hands over has passed its two checks, on the   *)
(* text that is handed over.                                               *)
LEMMA SortedIfNotTurned ==
  ASSUME NEW t \in ToolNames, t[1] = "database", NEW params, Numbered(params), ~TurnedAway(t, params)
  PROVE  LET sql == HandedOn(t, params)["sql"].is IN
         ~HasBareDDL(sql) /\ (BeginsWithSelect(sql) <=> t[2] = "query")
<1> DEFINE args == Arguments(t, params)
<1>1. PICK name \in NamesOf["database"] : t = <<"database", name>>
  BY ToolNamesAre
<1>2. "sql" \in DOMAIN args /\ args["sql"] = [how |-> "checked", as |-> "text", default |-> Null]
  <2>1. CASE name = "query"
    BY <1>1, <2>1 DEF Arguments, Query, Checked, IfGiven, Args, ++
  <2>2. CASE name = "execute_statement"
    BY <1>1, <2>2 DEF Arguments, ExecuteStatement, Checked, Args
  <2>3. QED
    BY <2>1, <2>2 DEF NamesOf
<1>3. HandedOn(t, params)
      = [q \in {r \in DOMAIN args : /\ Passed(r, args[r], params)
                                    /\ ~LeftOut(args[r], Get(r, params, args[r].default))}
           |-> Converted(args[q], Get(q, params, args[q].default))]
  BY DEF HandedOn
<1>4. (\A q \in DOMAIN args : ~Fails(q, args[q], params)) /\ ~Turned(t, params)
  BY DEF TurnedAway
<1> HIDE DEF args
<1>5. "sql" \in DOMAIN HandedOn(t, params)
  <2>1. Passed("sql", args["sql"], params)
    BY <1>2 DEF Passed
  <2>2. ~LeftOut(args["sql"], Get("sql", params, args["sql"].default))
    BY <1>2 DEF LeftOut
  <2>3. QED
    BY <1>2, <1>3, <2>1, <2>2
<1>6. "sql" \in DOMAIN params
  BY <1>2, <1>4 DEF Fails, IsSet, Given
<1>7. HandedOn(t, params)["sql"].is = params["sql"].is
  BY <1>5, <1>6, HandedOnIs DEF Get, Given
<1>8. /\ ~IsDDL(params["sql"].is)
      /\ IsReadonly(params["sql"].is) <=> t[2] = "query"
  BY <1>1, <1>4 DEF Turned, NamesOf
<1>9. params["sql"].is \in Seq(STRING)
  BY <1>6 DEF Numbered
<1>10. QED
  BY <1>7, <1>8, <1>9, ScannerReadsLiterals

-----------------------------------------------------------------------------
(* The invariant: what has been resolved and what was sent are functions   *)
(* of the call, and an error of the handler has its reason in the call.    *)
IInv ==
  /\ WellFormed
  /\ ask \in Asks
  /\ stage \in {"asked", "resolved", "calling", "done"}
  /\ stage # "done" => reply = "none"
  /\ stage = "resolved" \/ Called => /\ context = Conditions(ask.tool, ask.params)
                                    /\ resources = Resources(ask.tool, ask.params)
  /\ Called => sent = HandedOn(ask.tool, ask.params) /\ ~TurnedAway(ask.tool, ask.params)
  /\ reply = "refused" => TurnedAway(ask.tool, ask.params)

(* It holds at first.                                                      *)
LEMMA InitIInv == WellFormed /\ AskInit => IInv
BY DEF AskInit, IInv, Called

(* Every step preserves it.                                                *)
LEMMA StepIInv ==
  ASSUME IInv, [AskNext]_askVars
  PROVE  IInv'
<1> USE DEF IInv, Called
<1>1. CASE ResolveAsk
  BY <1>1 DEF ResolveAsk, Answers
<1>2. CASE Deny
  BY <1>2 DEF Deny, Answers
<1>3. CASE Execute
  BY <1>3 DEF Execute, Answers
<1>4. CASE BackendAnswers
  BY <1>4 DEF BackendAnswers, Answers
<1>5. CASE UNCHANGED askVars
  BY <1>5 DEF askVars
<1>6. QED
  BY <1>1, <1>2, <1>3, <1>4, <1>5 DEF AskNext

(* What WellFormed says of the call at hand.                               *)
LEMMA AskIs ==
  ASSUME IInv
  PROVE  ask.tool \in ToolNames /\ "*" \notin DOMAIN ask.params /\ Numbered(ask.params)
BY DEF IInv, WellFormed, Numbered

(* Whatever the policies decide on is what is done.                        *)
LEMMA IInvDecided == IInv => DecidedIsDone
<1> SUFFICES ASSUME IInv PROVE DecidedIsDone
  OBVIOUS
<1>1. SUFFICES ASSUME Called PROVE DecidedIsDone
  BY DEF DecidedIsDone, KeysAgree, ResourcesAgree, RepositoryAgrees
<1>2. /\ context = Conditions(ask.tool, ask.params)
      /\ resources = Resources(ask.tool, ask.params)
      /\ sent = HandedOn(ask.tool, ask.params)
      /\ ~TurnedAway(ask.tool, ask.params)
  BY <1>1 DEF IInv
<1>3. ask.tool \in ToolNames /\ "*" \notin DOMAIN ask.params
  BY AskIs
<1>4. KeysAgree
  <2>1. \A k \in KeysOf[ask.tool[1]] : KeyAgrees(ask.tool, ask.params, k[1], k[2])
    BY <1>2, <1>3, EveryKeyAgrees
  <2>2. QED
    BY <1>2, <2>1 DEF KeysAgree, KeyAgrees, Agrees, IsNone
<1>5. ResourcesAgree
  <2>1. SUFFICES ASSUME NEW p \in Described(ask.tool).resource, ~IsNone(p), ~UnnamedInbox(p)
                 PROVE  IF p \in DOMAIN sent THEN Str(sent[p]) \in resources
                        ELSE ~Given(p, ask.params)
    BY DEF ResourcesAgree
  <2>2. CASE Given(p, ask.params)
    BY <1>2, <1>3, <2>1, <2>2, ResourcesOf DEF IsNone, Given
  <2>3. CASE ~Given(p, ask.params)
    BY <1>2, <1>3, <2>1, <2>3, DefaultIsEmpty DEF UnnamedInbox
  <2>4. QED
    BY <2>2, <2>3
<1>6. RepositoryAgrees
  BY <1>2, <1>3, RepositoryOf DEF RepositoryAgrees
<1>7. QED
  BY <1>4, <1>5, <1>6 DEF DecidedIsDone

(* A call that keeps to the description is done as a whole.                *)
LEMMA IInvDescribed == IInv => DescribedIsDone
<1> SUFFICES ASSUME IInv, Conforms
             PROVE  /\ Fit => reply # "refused"
                    /\ Called => \A p \in DOMAIN ask.params \ {"provider"} :
                                   p \in DOMAIN sent /\ sent[p].is = ask.params[p].is
  BY DEF DescribedIsDone
<1>1. ask.tool \in ToolNames /\ Numbered(ask.params)
  BY AskIs
<1>2. Conforming(ask.tool, ask.params)
  BY DEF Conforms, Conforming
<1>3. ASSUME Fit PROVE reply # "refused"
  <2>1. ~TurnedAway(ask.tool, ask.params)
    BY <1>1, <1>2, <1>3, ConformingIsNotTurnedAway DEF Fit
  <2>2. QED
    BY <2>1 DEF IInv
<1>4. ASSUME Called, NEW p \in DOMAIN ask.params \ {"provider"}
      PROVE  p \in DOMAIN sent /\ sent[p].is = ask.params[p].is
  <2>1. sent = HandedOn(ask.tool, ask.params)
    BY <1>4 DEF IInv
  <2>2. QED
    BY <1>1, <1>2, <2>1, ConformingIsHandedOn
<1>5. QED
  BY <1>3, <1>4

(* Each of the two database tools hands over its own kind of statement.    *)
LEMMA IInvSorted == IInv => StatementsSorted
<1> SUFFICES ASSUME IInv, Called, ask.tool[1] = "database"
             PROVE  LET sql == sent["sql"].is IN
                    ~HasBareDDL(sql) /\ (BeginsWithSelect(sql) <=> ask.tool[2] = "query")
  BY DEF StatementsSorted
<1>1. ask.tool \in ToolNames /\ Numbered(ask.params)
  BY AskIs
<1>2. sent = HandedOn(ask.tool, ask.params) /\ ~TurnedAway(ask.tool, ask.params)
  BY DEF IInv
<1>3. QED
  BY <1>1, <1>2, SortedIfNotTurned

(* The same, for the rules of temporal logic.                              *)
LEMMA Inductive == IInv /\ [AskNext]_askVars => IInv'
BY StepIInv

(* The invariant, for every set of calls that is well-formed.              *)
THEOREM InvariantHolds == WellFormed /\ AskSpec => []IInv
BY InitIInv, Inductive, PTL DEF AskSpec

(* For every call of a module that hands calls over: the conditions and    *)
(* the resources it is decided on are those of the arguments its backend   *)
(* gets, given or by default, unless a parameter is None, and but for the  *)
(* resource of read_inbox without a folder.                                *)
THEOREM DecisionTheorem == WellFormed /\ AskSpec => []DecidedIsDone
BY InvariantHolds, IInvDecided, PTL

(* For every call that keeps to the description of its tool: no handler    *)
(* turns it away without a reason that the description leaves open, and    *)
(* the backend gets everything that was given.                             *)
THEOREM DescriptionTheorem == WellFormed /\ AskSpec => []DescribedIsDone
BY InvariantHolds, IInvDescribed, PTL

(* Whatever SQL is given, query hands over a text that begins with SELECT, *)
(* execute_statement one that does not, and neither a change to tables.    *)
THEOREM StatementsTheorem == WellFormed /\ AskSpec => []StatementsSorted
BY InvariantHolds, IInvSorted, PTL
=============================================================================
