----------------------------- MODULE TurnsProofs ----------------------------
(***************************************************************************)
(* Proofs about the event loop: that the two loops of                      *)
(* _trim_messages_preserve_pairs cut where TrimPoint says and what that    *)
(* means for the groups of a transcript (TrimLoop), and that the turns of a*)
(* session do not mix, that calls and results stay together, and that only *)
(* the oldest messages go (Turns).                                         *)
(*                                                                         *)
(* CallsAnswered and RequestsWhole are not inductive: that results follow  *)
(* their calls depends on nobody else having written in between, and so on *)
(* the lock; that the trimming parts none depends on what stands before    *)
(* each result in a transcript that has been trimmed before.  The actions  *)
(* are first sorted by what they do to the transcript (StepKind): nothing, *)
(* one message, the calls of a round, its results, or the oldest go.       *)
(***************************************************************************)
EXTENDS MCTurns, WellFoundedInduction, FiniteSetTheorems, SequenceTheorems, TLAPS

(* A set of natural numbers has a least element.                           *)
LEMMA LeastNat ==
  ASSUME NEW T, T \subseteq Nat, T # {}
  PROVE  \E n \in T : \A m \in T : n <= m
<1> DEFINE R == OpToRel(<, Nat)
<1>1. IsWellFoundedOn(R, Nat)
  BY NatLessThanWellFounded
<1>2. \A x, y \in Nat : <<x, y>> \in R <=> x < y
  BY DEF OpToRel
<1> HIDE DEF R
<1>3. \E n \in T : \A m \in T : ~(<<m, n>> \in R)
  BY <1>1, WFMin, Zenon
<1>4. PICK n \in T : \A m \in T : ~(<<m, n>> \in R)
  BY <1>3
<1>5. \A m \in T : ~(m < n)
  BY <1>2, <1>4
<1>6. n \in Nat /\ \A m \in T : m \in Nat
  OBVIOUS
<1>7. \A m \in T : n <= m
  BY <1>5, <1>6
<1> QED BY <1>7

LEMMA LeastIs ==
  ASSUME NEW S, S \subseteq Nat, S # {}
  PROVE  Least(S) \in S /\ \A j \in S : Least(S) <= j
BY LeastNat DEF Least

LEMMA GreatestIs ==
  ASSUME NEW n \in Nat, NEW S, S \subseteq 1..n, S # {}
  PROVE  Greatest(S) \in S /\ \A j \in S : j <= Greatest(S)
<1>0. n \in Int /\ \A j \in S : j \in Int
  OBVIOUS
<1> DEFINE T == {n - k : k \in S}
<1>1. T \subseteq Nat /\ T # {}
  <2>1. \A k \in S : n - k \in Nat
    OBVIOUS
  <2>2. T # {}
    <3>1. PICK k \in S : TRUE
      OBVIOUS
    <3> QED BY <3>1
  <2> QED BY <2>1, <2>2
<1>2. PICK l \in T : \A j \in T : l <= j
  BY <1>1, LeastNat
<1>3. PICK k \in S : l = n - k
  OBVIOUS
<1>4. \A j \in S : n - k <= n - j
  BY <1>2, <1>3
<1>5. \A j \in S : k >= j
  <2> SUFFICES ASSUME NEW j \in S PROVE k >= j
    OBVIOUS
  <2>1. n \in Int /\ j \in Int /\ k \in Int
    BY <1>0
  <2>2. n - k <= n - j
    BY <1>4
  <2> QED BY ONLY <2>1, <2>2
<1>6. \E g \in S : \A j \in S : g >= j
  BY <1>5
<1>7. Greatest(S) \in S /\ \A j \in S : Greatest(S) >= j
  BY <1>6 DEF Greatest
<1> QED BY <1>7

-----------------------------------------------------------------------------
(* The group that a position belongs to.                                   *)
Replies == {"assistant", "calls"}

LEMMA OwnerIs ==
  ASSUME NEW q, NEW k \in Nat \ {0}
  PROVE  /\ Owner(q, k) \in 0..(k - 1)
         /\ Owner(q, k) # 0 =>
              /\ q[Owner(q, k)].role = "calls"
              /\ \A j \in (Owner(q, k) + 1)..(k - 1) : q[j].role \notin Replies
<1> DEFINE earlier == {j \in 1..(k - 1) : q[j].role \in Replies}
<1>1. Owner(q, k) = IF earlier # {} /\ q[Greatest(earlier)].role = "calls"
                    THEN Greatest(earlier) ELSE 0
  BY DEF Owner, Replies
<1>2. CASE earlier = {}
  BY <1>1, <1>2
<1>3. CASE earlier # {}
  <2>1. k - 1 \in Nat /\ earlier \subseteq 1..(k - 1)
    OBVIOUS
  <2>2. Greatest(earlier) \in earlier /\ \A j \in earlier : j <= Greatest(earlier)
    BY <1>3, <2>1, GreatestIs
  <2>3. \A j \in (Greatest(earlier) + 1)..(k - 1) : j \notin earlier
    BY <2>1, <2>2
  <2>4. \A j \in (Greatest(earlier) + 1)..(k - 1) : q[j].role \notin Replies
    BY <2>2, <2>3
  <2> HIDE DEF earlier
  <2>5. Greatest(earlier) \in 1..(k - 1)
    BY <2>1, <2>2
  <2> QED BY <1>1, <2>4, <2>5
<1> QED BY <1>2, <1>3

LEMMA OwnerWhen ==
  ASSUME NEW q, NEW k \in Nat \ {0}, NEW c \in 1..(k - 1), q[c].role = "calls",
         \A j \in (c + 1)..(k - 1) : q[j].role \notin Replies
  PROVE  Owner(q, k) = c
<1> DEFINE earlier == {j \in 1..(k - 1) : q[j].role \in Replies}
<1>1. Owner(q, k) = IF earlier # {} /\ q[Greatest(earlier)].role = "calls"
                    THEN Greatest(earlier) ELSE 0
  BY DEF Owner, Replies
<1>2. c \in earlier
  BY DEF Replies
<1>3. k - 1 \in Nat /\ earlier \subseteq 1..(k - 1)
  OBVIOUS
<1>4. Greatest(earlier) \in earlier /\ \A j \in earlier : j <= Greatest(earlier)
  BY <1>2, <1>3, GreatestIs
<1>5. Greatest(earlier) = c
  BY <1>2, <1>3, <1>4
<1> QED BY <1>1, <1>2, <1>5

LEMMA OwnerOfSuffix ==
  ASSUME NEW q, NEW r, NEW p \in Nat, NEW k \in Nat \ {0},
         \A i \in 1..k : r[i] = q[i + p]
  PROVE  Owner(r, k) = IF Owner(q, k + p) > p THEN Owner(q, k + p) - p ELSE 0
<1> DEFINE o == Owner(q, k + p)
<1>1. /\ o \in 0..(k + p - 1)
      /\ o # 0 => /\ q[o].role = "calls"
                  /\ \A j \in (o + 1)..(k + p - 1) : q[j].role \notin Replies
  BY OwnerIs
<1>2. /\ Owner(r, k) \in 0..(k - 1)
      /\ Owner(r, k) # 0 =>
           /\ r[Owner(r, k)].role = "calls"
           /\ \A j \in (Owner(r, k) + 1)..(k - 1) : r[j].role \notin Replies
  BY OwnerIs
<1> HIDE DEF o
<1>3. CASE o > p
  <2>1. o - p \in 1..(k - 1)
    BY <1>1, <1>3
  <2>2. r[o - p].role = "calls"
    BY <1>1, <1>3, <2>1
  <2>3. ASSUME NEW j \in (o - p + 1)..(k - 1) PROVE r[j].role \notin Replies
    <3>1. j + p \in (o + 1)..(k + p - 1) /\ j \in 1..k
      BY <1>1, <1>3
    <3> QED BY <1>1, <1>3, <3>1
  <2>4. Owner(r, k) = o - p
    BY <2>1, <2>2, <2>3, OwnerWhen
  <2> QED BY <1>3, <2>4 DEF o
<1>4. CASE ~(o > p)
  <2> SUFFICES ASSUME Owner(r, k) # 0 PROVE FALSE
    BY <1>4 DEF o
  <2> DEFINE c == Owner(r, k)
  <2>1. c \in 1..(k - 1) /\ r[c].role = "calls"
        /\ \A j \in (c + 1)..(k - 1) : r[j].role \notin Replies
    BY <1>2
  <2> HIDE DEF c
  <2>2. c + p \in 1..(k + p - 1) /\ q[c + p].role = "calls"
    BY <2>1
  <2>3. ASSUME NEW j \in (c + p + 1)..(k + p - 1) PROVE q[j].role \notin Replies
    <3>1. j - p \in (c + 1)..(k - 1) /\ j - p \in 1..k /\ j = (j - p) + p
      BY <2>1
    <3> QED BY <2>1, <3>1
  <2>4. Owner(q, k + p) = c + p
    BY <2>2, <2>3, OwnerWhen
  <2> QED BY <1>4, <2>1, <2>4 DEF o
<1> QED BY <1>3, <1>4

-----------------------------------------------------------------------------
(* Where a transcript is cut.                                              *)
HasRoles(q) == \A i \in DOMAIN q : q[i].role \in Roles

(* The first message that fits is a tool result of a call that does not.   *)
Splits(q, e) == q[e + 1].role = "tool" /\ Owner(q, e + 1) # 0

(* The group of a later tool result, if there is one, begins at what fits. *)
LEMMA OwnerFits ==
  ASSUME NEW S, NEW q \in Seq(S), HasRoles(q), NEW e \in Nat,
         NEW k \in (e + 2)..Len(q), Owner(q, k) # 0,
         q[e + 1].role # "user", ~Splits(q, e)
  PROVE  Owner(q, k) > e
<1> DEFINE o == Owner(q, k)
<1>1. o \in 1..(k - 1) /\ q[o].role = "calls"
      /\ \A j \in (o + 1)..(k - 1) : q[j].role \notin Replies
  BY OwnerIs
<1> HIDE DEF o
<1> SUFFICES ASSUME o <= e PROVE FALSE
  BY <1>1 DEF o
<1>2. e + 1 \in (o + 1)..(k - 1) /\ e + 1 \in DOMAIN q
  BY <1>1
<1>3. q[e + 1].role = "tool"
  BY <1>1, <1>2 DEF HasRoles, Roles, Replies
<1>4. Owner(q, e + 1) = o
  <2>1. o \in 1..((e + 1) - 1)
    BY <1>1
  <2>2. \A j \in (o + 1)..((e + 1) - 1) : q[j].role \notin Replies
    BY <1>1, <1>2
  <2> QED BY <1>1, <2>1, <2>2, OwnerWhen
<1> QED BY <1>1, <1>3, <1>4 DEF Splits

(* The walk is of no consequence: only the first message that fits is.     *)
LEMMA TrimPointIs ==
  ASSUME NEW S, NEW q \in Seq(S), HasRoles(q), NEW m \in Nat \ {0}
  PROVE  LET e == Len(q) - m
         IN  TrimPoint(q, m) = IF Len(q) <= m THEN 0
                               ELSE IF Splits(q, e) THEN Owner(q, e + 1) - 1 ELSE e
<1> DEFINE e == Len(q) - m
           stops == Stops(q, e)
           stop == Least(stops)
<1>1. CASE Len(q) <= m
  BY <1>1 DEF TrimPoint
<1>2. CASE Len(q) > m
  <2>1. e \in Nat /\ e + 1 \in DOMAIN q /\ e + 1 \in (e + 1)..Len(q)
    BY <1>2
  <2>2. /\ stops = {k \in (e + 1)..Len(q) :
                      q[k].role = "user" \/ (q[k].role = "tool" /\ Owner(q, k) # 0)}
        /\ TrimPoint(q, m) = IF /\ stops # {}
                                /\ q[stop].role = "tool"
                                /\ Owner(q, stop) <= e
                             THEN Owner(q, stop) - 1 ELSE e
    BY <1>2 DEF TrimPoint, Stops
  <2> HIDE DEF e, stops
  <2>3. stops # {} => /\ stop \in stops
                      /\ \A k \in stops : stop <= k
    <3>1. stops \subseteq Nat
      BY <2>1, <2>2
    <3> QED BY <3>1, LeastIs
  <2> HIDE DEF stop
  <2>4. Splits(q, e) => stops # {} /\ stop = e + 1
    BY <2>1, <2>2, <2>3 DEF Splits
  <2>5. Owner(q, e + 1) \in 0..e
    BY <2>1, OwnerIs
  <2>6. CASE Splits(q, e)
    BY <1>2, <2>1, <2>2, <2>4, <2>5, <2>6 DEF Splits, e
  <2>7. CASE ~Splits(q, e)
    <3>1. SUFFICES ASSUME stops # {}, q[stop].role = "tool", Owner(q, stop) <= e
                   PROVE  FALSE
      BY <1>2, <2>2, <2>7 DEF e
    <3>2. stop \in (e + 1)..Len(q) /\ Owner(q, stop) # 0
      BY <2>2, <2>3, <3>1
    <3>3. stop # e + 1
      BY <2>7, <3>1, <3>2 DEF Splits
    <3>4. stop \in (e + 2)..Len(q)
      BY <2>1, <3>2, <3>3
    <3>5. q[e + 1].role # "user"
      BY <2>1, <2>2, <2>3, <3>1, <3>4
    <3>6. Owner(q, stop) > e
      BY <2>1, <2>7, <3>2, <3>4, <3>5, OwnerFits
    <3>7. Owner(q, stop) \in 0..(stop - 1)
      BY <2>1, <3>2, OwnerIs
    <3> QED BY <2>1, <3>1, <3>6, <3>7
  <2> QED BY <2>6, <2>7
<1> QED BY <1>1, <1>2

(* Nothing that fits goes, and what stays over the limit begins with the   *)
(* calls that the cut belongs to.                                          *)
LEMMA TrimPointBounds ==
  ASSUME NEW S, NEW q \in Seq(S), HasRoles(q), NEW m \in Nat \ {0}
  PROVE  LET p == TrimPoint(q, m)
             e == Len(q) - m
         IN  /\ p \in 0..Len(q)
             /\ p # 0 => p <= e
             /\ p < e => /\ Splits(q, e) /\ p = Owner(q, e + 1) - 1
                         /\ q[p + 1].role = "calls"
                         /\ \A j \in (p + 2)..e : q[j].role \notin Replies
<1> DEFINE e == Len(q) - m
<1>1. TrimPoint(q, m) = IF Len(q) <= m THEN 0
                        ELSE IF Splits(q, e) THEN Owner(q, e + 1) - 1 ELSE e
  BY TrimPointIs
<1>2. CASE Len(q) <= m
  BY <1>1, <1>2
<1>3. CASE Len(q) > m
  <2>1. e \in Nat /\ e + 1 \in Nat \ {0}
    BY <1>3
  <2>2. /\ Owner(q, e + 1) \in 0..e
        /\ Owner(q, e + 1) # 0 =>
             /\ q[Owner(q, e + 1)].role = "calls"
             /\ \A j \in (Owner(q, e + 1) + 1)..e : q[j].role \notin Replies
    <3>1. (e + 1) - 1 = e
      BY <2>1
    <3> HIDE DEF e
    <3> QED BY <2>1, <3>1, OwnerIs
  <2>3. CASE Splits(q, e)
    <3>1. Owner(q, e + 1) # 0
      BY <2>3 DEF Splits
    <3>2. TrimPoint(q, m) = Owner(q, e + 1) - 1
      BY <1>1, <1>3, <2>3
    <3> DEFINE o == Owner(q, e + 1)
    <3>3. o \in 1..e /\ e <= Len(q) /\ TrimPoint(q, m) = o - 1 /\ (o - 1) + 2 = o + 1
      BY <2>1, <2>2, <3>1, <3>2
    <3> HIDE DEF e, o
    <3>4. (o - 1) + 1 = o
      BY <3>3
    <3> QED BY <2>1, <2>2, <2>3, <3>1, <3>3, <3>4 DEF e, o
  <2>4. CASE ~Splits(q, e)
    BY <1>1, <1>3, <2>1, <2>4
  <2> QED BY <2>3, <2>4
<1> QED BY <1>2, <1>3

(* No result is cut off from its calls when nothing but results is between.*)
LEMMA TrimSafe ==
  ASSUME NEW S, NEW q \in Seq(S), HasRoles(q), NEW m \in Nat \ {0},
         NEW k \in DOMAIN q, k > TrimPoint(q, m), Owner(q, k) # 0,
         \A j \in (Owner(q, k) + 1)..k : q[j].role = "tool"
  PROVE  Owner(q, k) > TrimPoint(q, m)
<1> DEFINE p == TrimPoint(q, m)
           e == Len(q) - m
           o == Owner(q, k)
<1>1. /\ p \in 0..Len(q)
      /\ p # 0 => p <= e
      /\ p < e => /\ Splits(q, e)
                  /\ q[p + 1].role = "calls"
  BY TrimPointBounds
<1>2. p = IF Len(q) <= m THEN 0
          ELSE IF Splits(q, e) THEN Owner(q, e + 1) - 1 ELSE e
  BY TrimPointIs
<1>3. k \in 1..Len(q) /\ o \in 1..(k - 1)
  BY OwnerIs
<1>4. \A j \in (o + 1)..k : q[j].role = "tool" /\ q[j].role \notin Replies
  BY DEF Replies
<1>5. e \in Int
  OBVIOUS
<1> HIDE DEF p, e, o
<1> SUFFICES ASSUME o <= p PROVE FALSE
  BY <1>1, <1>3 DEF p, o
<1>6. p # 0 /\ p <= e /\ k > p
  BY <1>1, <1>3 DEF p
<1>7. p + 1 \in (o + 1)..k
  BY <1>1, <1>3, <1>6
<1>8. p = e
  BY <1>1, <1>4, <1>5, <1>6, <1>7
<1>9. q[e + 1].role = "tool"
  BY <1>4, <1>7, <1>8
<1>10. Owner(q, e + 1) = o
  <2>1. o \in 1..((e + 1) - 1) /\ e + 1 \in Nat \ {0}
    BY <1>1, <1>3, <1>8
  <2>2. \A j \in (o + 1)..((e + 1) - 1) : q[j].role \notin Replies
    BY <1>1, <1>3, <1>4, <1>7, <1>8
  <2>3. q[o].role = "calls"
    BY <1>3, OwnerIs DEF o
  <2> QED BY <2>1, <2>2, <2>3, OwnerWhen
<1>11. Splits(q, e)
  BY <1>3, <1>9, <1>10 DEF Splits
<1>12. p = o - 1
  BY <1>1, <1>2, <1>6, <1>10, <1>11 DEF e
<1> QED BY <1>3, <1>12
-----------------------------------------------------------------------------
(* What trimming leaves, for a transcript that is a sequence of messages   *)
(* with roles.                                                             *)
LEMMA SuffixIs ==
  ASSUME NEW S, NEW q \in Seq(S), NEW p \in 0..Len(q)
  PROVE  /\ SubSeq(q, p + 1, Len(q)) \in Seq(S)
         /\ Len(SubSeq(q, p + 1, Len(q))) = Len(q) - p
         /\ \A i \in 1..(Len(q) - p) : SubSeq(q, p + 1, Len(q))[i] = q[i + p]
<1>1. p + 1 \in 1..(Len(q) + 1) /\ Len(q) \in Nat
  OBVIOUS
<1>2. \A i \in 1..(Len(q) - p) :
        SubSeq(q, p + 1, Len(q))[i] = q[(p + 1) + i - 1] /\ (p + 1) + i - 1 = i + p
  BY <1>1
<1> QED BY <1>1, <1>2

LEMMA TrimmedIs ==
  ASSUME NEW S, NEW q \in Seq(S), HasRoles(q), NEW m \in Nat \ {0}
  PROVE  LET p == TrimPoint(q, m)
             r == Trimmed(q, m)
         IN  /\ p \in 0..Len(q)
             /\ r \in Seq(S) /\ Len(r) = Len(q) - p
             /\ \A i \in 1..Len(r) : r[i] = q[i + p]
<1>1. TrimPoint(q, m) \in 0..Len(q)
  BY TrimPointBounds
<1> QED BY <1>1, SuffixIs DEF Trimmed

LEMMA TrimmedGroups ==
  ASSUME NEW S, NEW q \in Seq(S), HasRoles(q), NEW m \in Nat \ {0}, Grouped(q)
  PROVE  Grouped(Trimmed(q, m))
<1> DEFINE p == TrimPoint(q, m)
           r == Trimmed(q, m)
<1>1. /\ p \in 0..Len(q)
      /\ r \in Seq(S) /\ Len(r) = Len(q) - p
      /\ \A i \in 1..Len(r) : r[i] = q[i + p]
  BY TrimmedIs
<1>2. ASSUME NEW k \in DOMAIN r, r[k].role = "tool"
      PROVE  /\ Owner(r, k) # 0
             /\ \A j \in (Owner(r, k) + 1)..k : r[j].role = "tool"
  <2> DEFINE o == Owner(q, k + p)
  <2>1. k \in Nat \ {0} /\ k <= Len(r) /\ k + p \in DOMAIN q /\ k + p > p
    BY <1>1
  <2>2. q[k + p].role = "tool"
    BY <1>1, <1>2
  <2>3. o # 0 /\ \A j \in (o + 1)..(k + p) : q[j].role = "tool"
    BY <2>1, <2>2 DEF Grouped
  <2>4. o > p
    BY <2>1, <2>3, TrimSafe
  <2>5. Owner(r, k) = o - p
    <3>1. p \in Nat /\ \A i \in 1..k : r[i] = q[i + p]
      BY <1>1, <2>1
    <3> HIDE DEF p, r
    <3>2. Owner(r, k) = IF Owner(q, k + p) > p THEN Owner(q, k + p) - p ELSE 0
      BY <2>1, <3>1, OwnerOfSuffix
    <3> QED BY <2>4, <3>2
  <2>6. o \in Nat
    <3>1. k + p \in Nat \ {0}
      BY <1>1, <2>1
    <3> QED BY <3>1, OwnerIs
  <2> HIDE DEF o, p, r
  <2>7. ASSUME NEW j \in (o - p + 1)..k PROVE r[j].role = "tool"
    <3>1. j + p \in (o + 1)..(k + p) /\ j \in 1..Len(r)
      BY <1>1, <2>1, <2>4, <2>6
    <3> QED BY <1>1, <2>3, <3>1
  <2> QED BY <1>1, <2>4, <2>5, <2>6, <2>7
<1> QED BY <1>2 DEF Grouped

LEMMA TrimmedOver ==
  ASSUME NEW S, NEW q \in Seq(S), HasRoles(q), NEW m \in Nat \ {0}
  PROVE  LET r == Trimmed(q, m)
         IN  /\ Len(r) >= IF Len(q) < m THEN Len(q) ELSE m
             /\ Len(r) > m => r[1].role = "calls" /\ Owner(r, Len(r) - m + 1) = 1
<1> DEFINE p == TrimPoint(q, m)
           r == Trimmed(q, m)
           e == Len(q) - m
<1>1. /\ p \in 0..Len(q)
      /\ r \in Seq(S) /\ Len(r) = Len(q) - p
      /\ \A i \in 1..Len(r) : r[i] = q[i + p]
  BY TrimmedIs
<1>2. /\ p # 0 => p <= e
      /\ p < e => /\ p = Owner(q, e + 1) - 1
                  /\ q[p + 1].role = "calls"
  BY TrimPointBounds
<1> HIDE DEF p, r
<1>3. Len(r) >= IF Len(q) < m THEN Len(q) ELSE m
  BY <1>1, <1>2
<1>4. ASSUME Len(r) > m PROVE r[1].role = "calls" /\ Owner(r, Len(r) - m + 1) = 1
  <2> DEFINE k == e - p + 1
  <2>1. p < e /\ k \in Nat \ {0} /\ k <= Len(r) /\ k + p = e + 1
        /\ Len(r) - m + 1 = k /\ 1 + p = p + 1 /\ 1 \in 1..Len(r)
    BY <1>1, <1>4
  <2>2. r[1].role = "calls"
    BY <1>1, <1>2, <2>1
  <2>3. p \in Nat /\ \A i \in 1..k : r[i] = q[i + p]
    BY <1>1, <2>1
  <2> HIDE DEF k, e
  <2>4. Owner(r, k) = IF Owner(q, k + p) > p THEN Owner(q, k + p) - p ELSE 0
    BY <2>1, <2>3, OwnerOfSuffix
  <2>5. Owner(q, e + 1) = p + 1
    <3>1. Owner(q, e + 1) \in Nat
      <4>1. e + 1 \in Nat \ {0}
        BY <2>1, <2>3 DEF e
      <4> QED BY <4>1, OwnerIs
    <3> QED BY <1>2, <2>1, <2>3, <3>1
  <2> QED BY <2>1, <2>2, <2>3, <2>4, <2>5
<1> QED BY <1>3, <1>4 DEF r

-----------------------------------------------------------------------------
(* The two loops.  While the function walks, it has passed nothing where it*)
(* would stop; while it looks back from a result, it has passed no message *)
(* of the model.                                                           *)
Walked ==
  /\ Len(before) > MaxMessages
  /\ trim_index >= Excess
  /\ \A k \in (Excess + 1)..trim_index : k \notin Stops(before, Excess)

LookedBack ==
  /\ trim_index < Len(before)
  /\ before[trim_index + 1].role = "tool"
  /\ prev_idx < trim_index
  /\ \A j \in (prev_idx + 2)..trim_index : before[j].role \notin Replies

LoopInv ==
  /\ at \in {"start", "walk", "back", "cut", "done"}
  /\ before \in Transcripts
  /\ messages = IF at = "done" THEN Trimmed(before, MaxMessages) ELSE before
  /\ trim_index \in 0..Len(before)
  /\ prev_idx \in -1..Len(before)
  /\ at \in {"walk", "back"} => Walked
  /\ at = "back" => LookedBack
  /\ at = "cut" =>
       /\ Len(before) > MaxMessages
       /\ TrimPoint(before, MaxMessages)
            = IF trim_index > Excess THEN Excess ELSE trim_index

LEMMA OfTranscripts ==
  ASSUME NEW q \in Transcripts
  PROVE  q \in Seq([role : Roles]) /\ HasRoles(q)
<1> DEFINE M == [role : Roles]
<1>1. q \in Seq(M)
  BY TranscriptsAssumption DEF Roles
<1>2. \A r \in M : r.role \in Roles
  OBVIOUS
<1> HIDE DEF M
<1>3. \A i \in DOMAIN q : q[i] \in M
  BY <1>1
<1>4. HasRoles(q)
  BY <1>2, <1>3 DEF HasRoles
<1> QED BY <1>1, <1>4 DEF M

LEMMA LoopSoundFrom ==
  ASSUME LoopInv
  PROVE  LoopSound
<1> DEFINE S == [role : Roles]
<1>1. before \in Seq(S) /\ HasRoles(before) /\ MaxMessages \in Nat \ {0}
  BY OfTranscripts, MaxMessagesAssumption DEF LoopInv
<1>2. ComputesTrimPoint
  BY DEF LoopInv, ComputesTrimPoint
<1>3. GroupsStayWhole
  <2> HIDE DEF S
  <2> QED BY <1>1, <1>2, TrimmedGroups DEF ComputesTrimPoint, GroupsStayWhole
<1>4. TrimsWhatIsOver
  <2>1. at = "done" => messages = Trimmed(before, MaxMessages)
    BY <1>2 DEF ComputesTrimPoint
  <2> HIDE DEF S
  <2>2. LET r == Trimmed(before, MaxMessages)
        IN  /\ Len(r) >= IF Len(before) < MaxMessages THEN Len(before) ELSE MaxMessages
            /\ Len(r) > MaxMessages => /\ r[1].role = "calls"
                                       /\ Owner(r, Len(r) - MaxMessages + 1) = 1
    BY <1>1, TrimmedOver
  <2> QED BY <2>1, <2>2, Zenon DEF TrimsWhatIsOver
<1>5. TrimTypes
  <2>1. messages = SubSeq(before, Len(before) - Len(messages) + 1, Len(before))
    <3>1. CASE at = "done"
      <4> DEFINE p == TrimPoint(before, MaxMessages)
      <4> HIDE DEF S
      <4>1. p \in 0..Len(before) /\ Len(messages) = Len(before) - p
        BY <1>1, <3>1, TrimmedIs DEF LoopInv
      <4>2. messages = SubSeq(before, p + 1, Len(before))
        BY <3>1 DEF LoopInv, Trimmed
      <4> HIDE DEF p
      <4>3. Len(before) - Len(messages) + 1 = p + 1
        BY <1>1, <4>1
      <4> QED BY <4>2, <4>3
    <3>2. CASE at # "done"
      BY <1>1, <3>2 DEF LoopInv
    <3> QED BY <3>1, <3>2
  <2> QED BY <2>1 DEF LoopInv, TrimTypes
<1> QED BY <1>2, <1>3, <1>4, <1>5 DEF LoopSound, KeepsWhatBelongs

(* What the function arrives at when it stops at position k.               *)
LEMMA StopsHere ==
  ASSUME LoopInv, Walked, NEW k \in Nat, k = trim_index + 1, k <= Len(before),
         before[k].role = "tool", Owner(before, k) # 0
  PROVE  TrimPoint(before, MaxMessages)
           = IF Owner(before, k) - 1 > Excess THEN Excess ELSE Owner(before, k) - 1
<1> DEFINE S == [role : Roles]
           p == TrimPoint(before, MaxMessages)
           e == Len(before) - MaxMessages
<1>1. before \in Seq(S) /\ HasRoles(before) /\ MaxMessages \in Nat \ {0}
  BY OfTranscripts, MaxMessagesAssumption DEF LoopInv
<1>2. e \in Nat /\ e = Excess /\ Len(before) > MaxMessages /\ k >= e + 1
  BY <1>1 DEF Excess, Walked, LoopInv
<1>3. \A j \in (e + 1)..(k - 1) : j \notin Stops(before, e)
  BY <1>2 DEF Walked, LoopInv
<1>4. p = IF Splits(before, e) THEN Owner(before, e + 1) - 1 ELSE e
  <2> HIDE DEF S
  <2> QED BY <1>1, <1>2, TrimPointIs
<1>5. Owner(before, k) \in 1..(k - 1)
  BY <1>2, OwnerIs
<1> HIDE DEF e, S
<1>6. CASE k = e + 1
  BY <1>2, <1>4, <1>5, <1>6 DEF Splits
<1>7. CASE k > e + 1
  <2>1. e + 1 \notin Stops(before, e) /\ e + 1 \in (e + 1)..Len(before)
    BY <1>2, <1>3, <1>7
  <2>2. before[e + 1].role # "user" /\ ~Splits(before, e)
    BY <2>1 DEF Stops, Splits
  <2>3. Owner(before, k) > e
    <3>1. k \in (e + 2)..Len(before)
      BY <1>2, <1>7
    <3> QED BY <1>1, <1>2, <2>2, <3>1, OwnerFits
  <2> QED BY <1>2, <1>4, <1>5, <2>2, <2>3
<1> QED BY <1>2, <1>6, <1>7

LEMMA StopsElsewhere ==
  ASSUME LoopInv, Walked,
         \/ trim_index = Len(before)
         \/ trim_index < Len(before) /\ before[trim_index + 1].role = "user"
  PROVE  TrimPoint(before, MaxMessages) = Excess
<1> DEFINE S == [role : Roles]
           e == Len(before) - MaxMessages
<1>1. before \in Seq(S) /\ HasRoles(before) /\ MaxMessages \in Nat \ {0}
  BY OfTranscripts, MaxMessagesAssumption DEF LoopInv
<1>2. e \in Nat /\ e = Excess /\ Len(before) > MaxMessages /\ trim_index \in Nat
      /\ e + 1 <= Len(before) /\ trim_index >= e
  BY <1>1 DEF Excess, Walked, LoopInv
<1>3. \A j \in (e + 1)..trim_index : j \notin Stops(before, e)
  BY <1>2 DEF Walked
<1>4. TrimPoint(before, MaxMessages)
        = IF Splits(before, e) THEN Owner(before, e + 1) - 1 ELSE e
  <2> HIDE DEF S
  <2> QED BY <1>1, <1>2, TrimPointIs
<1> HIDE DEF e, S
<1>5. ~Splits(before, e)
  <2>1. CASE trim_index = e
    BY <1>2, <2>1, <1>1 DEF Splits
  <2>2. CASE trim_index > e
    <3>1. e + 1 \notin Stops(before, e) /\ e + 1 \in (e + 1)..Len(before)
      BY <1>2, <1>3, <2>2
    <3> QED BY <3>1 DEF Stops, Splits
  <2> QED BY <1>2, <2>1, <2>2
<1> QED BY <1>2, <1>4, <1>5

(* Each iteration.                                                         *)
LEMMA LoopStep ==
  ASSUME LoopInv, TrimNext
  PROVE  LoopInv'
<1> DEFINE S == [role : Roles]
<1>1. /\ before \in Seq(S) /\ HasRoles(before) /\ MaxMessages \in Nat \ {0}
      /\ Len(before) \in Nat /\ trim_index \in 0..Len(before)
      /\ prev_idx \in -1..Len(before)
      /\ Excess = Len(before) - MaxMessages
  <2>1. before \in Seq(S) /\ HasRoles(before)
    BY OfTranscripts DEF LoopInv
  <2> HIDE DEF S
  <2>2. Len(before) \in Nat
    BY <2>1
  <2> QED BY <2>1, <2>2, MaxMessagesAssumption DEF LoopInv, Excess
<1> HIDE DEF S
<1>2. before' = before
  BY DEF TrimNext, Enter, MeetTool, StepBack, EndBack, StopAtUser, WalkOn, WalkOff, Cut
<1>3. Excess' = Excess
  BY <1>2 DEF Excess
<1>4. \A k \in DOMAIN before : before[k].role \in Roles
  BY <1>1 DEF HasRoles
<1>5. \A i : at \in {"walk", "back"} => Role(i) = before[i + 1].role
  BY DEF LoopInv, Role
<1>6. CASE Enter
  <2>1. messages = before /\ messages' = before
    BY <1>6 DEF Enter, LoopInv
  <2>2. CASE Len(before) <= MaxMessages
    <3>1. Trimmed(before, MaxMessages) = before
      BY <1>1, <2>2 DEF Trimmed, TrimPoint
    <3> QED BY <1>1, <1>2, <1>6, <2>1, <2>2, <3>1 DEF Enter, LoopInv
  <2>3. CASE Len(before) > MaxMessages
    <3>1. at' = "walk" /\ trim_index' = Excess /\ prev_idx' = prev_idx
      BY <1>1, <1>6, <2>1, <2>3 DEF Enter
    <3>2. Walked'
      BY <1>1, <1>2, <1>3, <2>3, <3>1 DEF Walked
    <3> QED BY <1>1, <1>2, <2>1, <2>3, <3>1, <3>2 DEF LoopInv
  <2> QED BY <1>1, <2>2, <2>3
<1>7. CASE MeetTool
  <2>1. at = "walk" /\ at' = "back" /\ messages = before /\ Walked
    BY <1>7 DEF MeetTool, LoopInv
  <2>2. UNCHANGED <<messages, trim_index>> /\ prev_idx' = trim_index - 1
        /\ trim_index < Len(before) /\ trim_index > 0
        /\ before[trim_index + 1].role = "tool"
    BY <1>5, <1>7, <2>1 DEF MeetTool
  <2>3. Walked'
    BY <1>2, <1>3, <2>1, <2>2 DEF Walked
  <2>4. LookedBack'
    BY <1>1, <1>2, <2>2 DEF LookedBack
  <2> QED BY <1>1, <1>2, <2>1, <2>2, <2>3, <2>4 DEF LoopInv
<1>8. CASE StepBack
  <2>1. at = "back" /\ UNCHANGED <<at, messages, trim_index>> /\ prev_idx >= 0
        /\ prev_idx' = prev_idx - 1 /\ before[prev_idx + 1].role \notin Replies
    BY <1>5, <1>8 DEF StepBack, Replies
  <2>2. Walked /\ LookedBack
    BY <2>1 DEF LoopInv
  <2>3. Walked'
    BY <1>2, <1>3, <2>1, <2>2 DEF Walked
  <2>4. LookedBack'
    BY <1>1, <1>2, <2>1, <2>2 DEF LookedBack
  <2> QED BY <1>1, <1>2, <2>1, <2>3, <2>4 DEF LoopInv
<1>9. CASE EndBack
  <2> DEFINE k == trim_index + 1
  <2>1. /\ at = "back" /\ Walked /\ LookedBack /\ messages = before
        /\ UNCHANGED <<messages, prev_idx>>
        /\ prev_idx >= 0 => before[prev_idx + 1].role \in Replies
        /\ IF prev_idx >= 0 /\ before[prev_idx + 1].role = "calls"
           THEN trim_index' = prev_idx /\ at' = "cut"
           ELSE trim_index' = trim_index + 1 /\ at' = "walk"
    BY <1>5, <1>9 DEF EndBack, LoopInv, Replies
  <2>2. k \in Nat \ {0} /\ k <= Len(before) /\ before[k].role = "tool"
        /\ prev_idx + 1 < k
    BY <1>1, <2>1 DEF LookedBack
  <2>3. \A j \in (prev_idx + 2)..(k - 1) : before[j].role \notin Replies
    BY <1>1, <2>1 DEF LookedBack
  <2>4. CASE prev_idx >= 0 /\ before[prev_idx + 1].role = "calls"
    <3>1. Owner(before, k) = prev_idx + 1
      <4>1. prev_idx + 1 \in 1..(k - 1) /\ (prev_idx + 1) + 1 = prev_idx + 2
        BY <1>1, <2>2, <2>4
      <4> HIDE DEF k
      <4> QED BY <2>2, <2>3, <2>4, <4>1, OwnerWhen
    <3>2. TrimPoint(before, MaxMessages)
            = IF Owner(before, k) - 1 > Excess THEN Excess ELSE Owner(before, k) - 1
      BY <1>1, <2>1, <2>2, <2>4, <3>1, StopsHere
    <3>3. trim_index' = prev_idx /\ at' = "cut" /\ Owner(before, k) - 1 = prev_idx
      BY <1>1, <2>1, <2>4, <3>1
    <3> HIDE DEF k
    <3> QED BY <1>1, <1>2, <1>3, <2>1, <2>4, <3>2, <3>3 DEF LoopInv, Walked
  <2>5. CASE ~(prev_idx >= 0 /\ before[prev_idx + 1].role = "calls")
    <3>1. Owner(before, k) = 0
      <4> DEFINE o == Owner(before, k)
      <4> SUFFICES ASSUME o # 0 PROVE FALSE
        OBVIOUS
      <4>1. o \in 1..(k - 1) /\ before[o].role = "calls"
            /\ \A j \in (o + 1)..(k - 1) : before[j].role \notin Replies
        BY <2>2, OwnerIs
      <4> HIDE DEF o, k
      <4>2. before[o].role \in Replies
        BY <4>1 DEF Replies
      <4>3. o <= prev_idx + 1
        BY <1>1, <2>2, <2>3, <4>1, <4>2
      <4>4. prev_idx >= 0 /\ before[prev_idx + 1].role \in Replies
        BY <1>1, <2>1, <4>1, <4>3
      <4>5. o # prev_idx + 1
        BY <2>5, <4>1, <4>4
      <4>6. prev_idx + 1 \in (o + 1)..(k - 1)
        BY <1>1, <2>2, <4>1, <4>3, <4>5
      <4> QED BY <4>1, <4>4, <4>6
    <3>2. trim_index' = k /\ at' = "walk"
      BY <2>1, <2>5
    <3>3. k \notin Stops(before, Excess)
      BY <2>2, <3>1 DEF Stops
    <3>4. Walked'
      <4>1. trim_index' >= Excess
        BY <1>1, <2>1, <3>2 DEF Walked
      <4>2. \A j \in (Excess + 1)..k : j = k \/ j \in (Excess + 1)..trim_index
        BY <1>1
      <4> QED BY <1>2, <1>3, <2>1, <3>2, <3>3, <4>1, <4>2 DEF Walked
    <3> QED BY <1>1, <1>2, <2>1, <2>2, <3>2, <3>4 DEF LoopInv
  <2> QED BY <2>4, <2>5
<1>10. CASE StopAtUser \/ WalkOff
  <2>1. at = "walk" /\ at' = "cut" /\ messages = before /\ Walked
        /\ UNCHANGED <<messages, trim_index, prev_idx>>
    BY <1>10 DEF StopAtUser, WalkOff, LoopInv
  <2>2. \/ trim_index = Len(before)
        \/ trim_index < Len(before) /\ before[trim_index + 1].role = "user"
    BY <1>5, <1>10, <2>1 DEF StopAtUser, WalkOff
  <2>3. TrimPoint(before, MaxMessages) = Excess
    BY <2>1, <2>2, StopsElsewhere
  <2>4. trim_index >= Excess /\ Len(before) > MaxMessages
    BY <2>1 DEF Walked
  <2> QED BY <1>1, <1>2, <1>3, <2>1, <2>3, <2>4 DEF LoopInv
<1>11. CASE WalkOn
  <2> DEFINE k == trim_index + 1
  <2>1. at = "walk" /\ at' = "walk" /\ messages = before /\ Walked
        /\ UNCHANGED <<messages, prev_idx>> /\ trim_index' = k
        /\ k <= Len(before) /\ before[k].role \notin {"tool", "user"}
    BY <1>1, <1>5, <1>11 DEF WalkOn, LoopInv
  <2>2. k \notin Stops(before, Excess)
    BY <2>1 DEF Stops
  <2>3. Walked'
    <3>1. trim_index' >= Excess
      BY <1>1, <2>1 DEF Walked
    <3>2. \A j \in (Excess + 1)..k : j = k \/ j \in (Excess + 1)..trim_index
      BY <1>1
    <3> QED BY <1>2, <1>3, <2>1, <2>2, <3>1, <3>2 DEF Walked
  <2> QED BY <1>1, <1>2, <2>1, <2>3 DEF LoopInv
<1>12. CASE Cut
  <2> DEFINE index == IF trim_index > Excess THEN Excess ELSE trim_index
  <2>1. at = "cut" /\ messages = before /\ index = TrimPoint(before, MaxMessages)
        /\ Len(before) > MaxMessages
    BY <1>12 DEF Cut, LoopInv
  <2>2. trim_index' = index /\ at' = "done" /\ UNCHANGED prev_idx
        /\ messages' = SubSeq(messages, index + 1, Len(messages))
    BY <1>12 DEF Cut
  <2>3. messages' = Trimmed(before, MaxMessages)
    BY <2>1, <2>2 DEF Trimmed
  <2>4. index \in 0..Len(before)
    BY <1>1, <2>1
  <2> HIDE DEF index
  <2> QED BY <1>1, <1>2, <2>2, <2>3, <2>4 DEF LoopInv
<1> QED BY <1>6, <1>7, <1>8, <1>9, <1>10, <1>11, <1>12 DEF TrimNext

(* _trim_messages_preserve_pairs cuts where TrimPoint says, whatever the   *)
(* transcript and the limit are: whole groups stay whole, nothing that fits*)
(* goes, and only the group that is cut stays over the limit               *)
(* (event_loop.py:67-69).  In a behaviour in which it is not called there  *)
(* is nothing to show.                                                     *)
THEOREM TrimSoundHolds == MCSpec => []TrimSound
<1> DEFINE I == NotCalled \/ LoopInv
<1>1. MCInit => I
  <2>1. ASSUME TrimInit PROVE LoopInv
    <3>1. before \in Seq([role : Roles])
      BY <2>1, OfTranscripts DEF TrimInit
    <3> QED BY <2>1, <3>1 DEF TrimInit, LoopInv
  <2> QED BY <2>1 DEF MCInit
<1>2. I /\ [MCNext]_<<vars, trimVars>> => I'
  <2> SUFFICES ASSUME I, [MCNext]_<<vars, trimVars>> PROVE I'
    OBVIOUS
  <2>1. CASE UNCHANGED trimVars
    BY <2>1 DEF trimVars, NotCalled, LoopInv, Walked, LookedBack, Excess
  <2>2. CASE TrimNext
    <3>1. at # "not_called"
      BY <2>2 DEF TrimNext, Enter, MeetTool, StepBack, EndBack, StopAtUser, WalkOn,
                  WalkOff, Cut
    <3> QED BY <2>2, <3>1, LoopStep DEF NotCalled
  <2> QED BY <2>1, <2>2 DEF MCNext
<1>3. I => TrimSound
  BY LoopSoundFrom DEF TrimSound
<1> QED BY <1>1, <1>2, <1>3, PTL DEF MCSpec

-----------------------------------------------------------------------------
Inside == {"asking", "chatting", "dispatching", "asking_last", "chatting_last",
           "closing"}

(* Who waits for the lock or holds it is in its queue, once, and the holder*)
(* is the first.                                                           *)
LockInv ==
  /\ \A t \in Turns :
       pc[t] \in Inside \cup {"waiting"} => \E i \in DOMAIN queue : queue[i] = t
  /\ \A i \in DOMAIN queue : pc[queue[i]] \in Inside \cup {"waiting"}
  /\ \A i, j \in DOMAIN queue : queue[i] = queue[j] => i = j
  /\ \A t \in Turns : pc[t] \in Inside => queue[1] = t

(* A turn counts its rounds and its calls of the model.                    *)
RoundInv ==
  \A t \in Turns :
    /\ pc[t] \in {"new", "waiting"} => chats[t] = 0 /\ round[t] = 0
    /\ pc[t] \in {"asking", "chatting", "dispatching"} => round[t] < MaxTurns
    /\ pc[t] \in {"asking", "asking_last"} => chats[t] <= round[t]
    /\ chats[t] <= round[t] + 1
    /\ restored[t] <= MaxCalls

(* Whose messages these are: of turns that have begun, as far as they have *)
(* come, and of threads.                                                   *)
AuthorOf(m) ==
  IF m.by = Outside
  THEN m.role = "user" /\ m.n \in 1..outside
  ELSE /\ pc[m.by] \notin {"new", "waiting"}
       /\ m.round <= round[m.by]
       /\ m.role = "tool" => m.round < round[m.by]
       /\ m.role \in {"assistant", "calls"} /\ m.round = round[m.by] =>
            pc[m.by] \in {"dispatching", "closing", "answered", "cancelled"}
       /\ m.role = "calls" /\ m.round = round[m.by] =>
            pc[m.by] \in {"dispatching", "cancelled"}
       /\ m.role = "calls" => m.n <= MaxCalls

AuthorInv == \A k \in DOMAIN transcript : AuthorOf(transcript[k])

(* After the turn that is inside has written, no other turn has.           *)
LastInv ==
  \A i, j \in DOMAIN transcript :
    i < j /\ transcript[i].by # Outside /\ pc[transcript[i].by] \in Inside
      => transcript[j].by \in {transcript[i].by, Outside}

(* A turn that closes has the answer, the last message but for those of    *)
(* threads.                                                                *)
ReplyInv ==
  \A t \in Turns :
    pc[t] = "closing" =>
      /\ transcript # <<>>
      /\ LET m == transcript[Len(transcript)]
         IN  m.by = Outside \/ (m.by = t /\ m.role = "assistant")

(* The calls message of a round that is being dispatched is there, with    *)
(* only messages of threads after it, unless threads have replaced all.    *)
PendingInv ==
  \A t \in Turns :
    pc[t] = "dispatching" =>
      /\ \A k \in DOMAIN transcript :
           /\ transcript[k].role = "calls"
           /\ transcript[k].by = t
           /\ transcript[k].round = round[t]
           => /\ transcript[k].n = restored[t]
              /\ \A j \in (k + 1)..Len(transcript) : transcript[j].by = Outside
      /\ \/ \E k \in DOMAIN transcript :
              /\ transcript[k].role = "calls"
              /\ transcript[k].by = t
              /\ transcript[k].round = round[t]
         \/ /\ outside > 0
            /\ \A k \in DOMAIN transcript : transcript[k].by = Outside

(* Before result number n of a calls message are the n - 1 others, and     *)
(* before them, back to the calls or to the first message, only messages of*)
(* threads.                                                                *)
Led(q, k, c) ==
  /\ q[k].n >= 1
  /\ \/ c = 0
     \/ /\ q[c].role = "calls" /\ q[c].by = q[k].by /\ q[c].round = q[k].round
        /\ q[k].n <= q[c].n /\ c <= k - q[k].n
  /\ \A j \in (c + 1)..k :
       IF j > k - q[k].n
       THEN /\ q[j].role = "tool" /\ q[j].by = q[k].by /\ q[j].round = q[k].round
            /\ q[j].n = q[k].n - (k - j)
       ELSE q[j].by = Outside

LedIn(q) ==
  \A k \in DOMAIN q : q[k].role = "tool" => \E c \in 0..(k - 1) : Led(q, k, c)

LedInv == LedIn(transcript)

(* Messages of threads that follow each other are numbered upwards.        *)
Upwards(q) ==
  \A i, j \in DOMAIN q :
    i < j /\ (\A k \in i..j : q[k].by = Outside) => q[j].n >= q[i].n + (j - i)

OutsideInv == Upwards(transcript)

(* No message is there twice.                                              *)
DistinctInv ==
  \A i, j \in DOMAIN transcript : transcript[i] = transcript[j] => i = j

SentInv ==
  outside = 0 => NoOrphans(transcript) /\ \A t \in Turns : NoOrphans(sent[t])

TurnsInv ==
  /\ LockInv /\ RoundInv /\ AuthorInv /\ LastInv /\ ReplyInv
  /\ PendingInv /\ LedInv /\ OutsideInv /\ DistinctInv /\ SentInv

-----------------------------------------------------------------------------
(* What a step may do to the transcript, to the place of a turn and to its *)
(* round: nothing to the transcript,                                       *)
QuietStep(t) ==
  /\ UNCHANGED <<transcript, restored, outside>>
  /\ \A u \in Turns \ {t} : pc'[u] = pc[u] /\ round'[u] = round[u]
  /\ \/ /\ round'[t] = round[t]
        /\ \/ pc[t] = "new" /\ pc'[t] = "waiting"
           \/ pc[t] = "asking" /\ pc'[t] = "chatting"
           \/ pc[t] = "asking_last" /\ pc'[t] = "chatting_last"
           \/ pc[t] = "dispatching" /\ pc'[t] = "dispatching"
           \/ pc[t] \in {"chatting", "chatting_last"} /\ pc'[t] = "failed"
           \/ /\ pc[t] \in {"waiting", "chatting", "dispatching", "chatting_last"}
              /\ pc'[t] = "cancelled"
     \/ /\ pc[t] = "chatting" /\ pc'[t] \in {"asking", "asking_last"}
        /\ round'[t] = round[t] + 1

Keeps == \A i \in 1..Len(transcript) : transcript'[i] = transcript[i]

(* the message of the user or an answer,                                   *)
SaysStep(t) ==
  /\ UNCHANGED <<round, restored, outside>>
  /\ \A u \in Turns \ {t} : pc'[u] = pc[u]
  /\ Keeps /\ Len(transcript') = Len(transcript) + 1
  /\ \E role \in {"user", "assistant"} :
       /\ transcript'[Len(transcript) + 1] = Message(t, role, 0)
       /\ \/ role = "user" /\ pc[t] = "waiting" /\ pc'[t] = "asking"
          \/ /\ role = "assistant" /\ pc[t] \in {"chatting", "chatting_last"}
             /\ pc'[t] = "closing"

(* the calls of a round, behind a text or not,                             *)
CallsStep(t) ==
  /\ UNCHANGED <<round, outside>>
  /\ \A u \in Turns \ {t} : pc'[u] = pc[u] /\ restored'[u] = restored[u]
  /\ pc[t] = "chatting" /\ pc'[t] = "dispatching"
  /\ Keeps
  /\ \/ Len(transcript') = Len(transcript) + 1
     \/ /\ Len(transcript') = Len(transcript) + 2
        /\ transcript'[Len(transcript) + 1] = Message(t, "assistant", 0)
  /\ \E n \in 1..MaxCalls :
       restored'[t] = n /\ transcript'[Len(transcript')] = Message(t, "calls", n)

(* the results of a round,                                                 *)
ResultsStep(t) ==
  /\ UNCHANGED <<restored, outside>>
  /\ \A u \in Turns \ {t} : pc'[u] = pc[u] /\ round'[u] = round[u]
  /\ pc[t] = "dispatching" /\ pc'[t] \in {"asking", "asking_last"}
  /\ round'[t] = round[t] + 1
  /\ Keeps /\ Len(transcript') = Len(transcript) + restored[t]
  /\ \A i \in 1..restored[t] :
       transcript'[Len(transcript) + i] = Message(t, "tool", i)

(* or the oldest go, at the end of a turn or for the message of a thread.  *)
FromThread == [by |-> Outside, role |-> "user", round |-> 0, n |-> outside + 1]

DropStep(p) ==
  /\ p \in 0..Len(transcript)
  /\ UNCHANGED <<round, restored>>
  /\ \A i \in 1..(Len(transcript) - p) : transcript'[i] = transcript[i + p]
  /\ p > 0 => Len(transcript') >= MaxMessages
  /\ \/ /\ outside' = outside
        /\ Len(transcript') = Len(transcript) - p
        /\ p = TrimPoint(transcript, MaxMessages)
        /\ p < Len(transcript)
        /\ \E t \in Turns : /\ pc[t] = "closing" /\ pc'[t] = "answered"
                            /\ \A u \in Turns \ {t} : pc'[u] = pc[u]
     \/ /\ outside' = outside + 1
        /\ Len(transcript') = Len(transcript) - p + 1
        /\ transcript'[Len(transcript')] = FromThread
        /\ UNCHANGED pc

StepKind ==
  \/ \E t \in Turns : QuietStep(t) \/ SaysStep(t) \/ CallsStep(t) \/ ResultsStep(t)
  \/ \E p \in 0..Len(transcript) : DropStep(p)

-----------------------------------------------------------------------------
(* The messages of a transcript.                                           *)
IsMessage(m) ==
  m.by \in Turns \cup {Outside} /\ m.role \in Roles /\ m.round \in Nat /\ m.n \in Nat

LEMMA MessagesTyped ==
  ASSUME NEW q \in Seq(Messages)
  PROVE  /\ HasRoles(q) /\ Len(q) \in Nat /\ DOMAIN q = 1..Len(q)
         /\ \A i \in DOMAIN q : q[i] \in Messages /\ IsMessage(q[i])
<1>1. \A m \in Messages : IsMessage(m)
  BY DEF Messages, IsMessage
<1> HIDE DEF Messages
<1>2. \A i \in DOMAIN q : q[i] \in Messages
  BY ElementOfSeq
<1> QED BY <1>1, <1>2 DEF HasRoles, IsMessage

LEMMA MessageIs ==
  ASSUME TypeOK, NEW t \in Turns, NEW role \in Roles, NEW n \in Nat
  PROVE  Message(t, role, n) \in Messages
<1>1. round[t] \in Nat
  BY LimitsAssumption DEF TypeOK
<1> QED BY <1>1 DEF Message, Messages

LEMMA MessageFields ==
  \A t, role, n : /\ Message(t, role, n).by = t /\ Message(t, role, n).role = role
                   /\ Message(t, role, n).round = round[t] /\ Message(t, role, n).n = n
BY DEF Message

LEMMA ThreadMessageIs ==
  ASSUME TypeOK
  PROVE  FromThread \in Messages
BY DEF TypeOK, FromThread, Messages, Roles

(* What each action does to the sequence.                                  *)
LEMMA AppendIs ==
  ASSUME NEW S, NEW q \in Seq(S), NEW m \in S
  PROVE  LET r == Append(q, m)
         IN  /\ r \in Seq(S) /\ Len(r) = Len(q) + 1
             /\ r[Len(q) + 1] = m
             /\ \A i \in 1..Len(q) : r[i] = q[i]
BY AppendProperties

LEMMA ConcatIs ==
  ASSUME NEW S, NEW q \in Seq(S), NEW s \in Seq(S)
  PROVE  LET r == q \o s
         IN  /\ r \in Seq(S) /\ Len(r) = Len(q) + Len(s)
             /\ \A i \in 1..Len(q) : r[i] = q[i]
             /\ \A i \in 1..Len(s) : r[Len(q) + i] = s[i]
<1>1. q \o s \in Seq(S) /\ Len(q \o s) = Len(q) + Len(s)
      /\ Len(q) \in Nat /\ Len(s) \in Nat
  BY ConcatProperties
<1>2. \A i \in 1..(Len(q) + Len(s)) :
        (q \o s)[i] = IF i <= Len(q) THEN q[i] ELSE s[i - Len(q)]
  BY ConcatProperties
<1>3. \A i \in 1..Len(s) : Len(q) + i \in 1..(Len(q) + Len(s)) /\ ~(Len(q) + i <= Len(q))
                           /\ (Len(q) + i) - Len(q) = i
  BY <1>1
<1> QED BY <1>1, <1>2, <1>3

LEMMA AnswerCallsIs ==
  ASSUME TypeOK, NEW t \in Turns, NEW text \in BOOLEAN, NEW n \in 1..MaxCalls,
         AnswerCalls(t, text, n)
  PROVE  transcript' \in Seq(Messages) /\ CallsStep(t)
<1> DEFINE a == Message(t, "assistant", 0)
           c == Message(t, "calls", n)
<1>1. transcript \in Seq(Messages) /\ a \in Messages /\ c \in Messages
  BY MessageIs, LimitsAssumption DEF TypeOK, Roles
<1>2. transcript' = transcript \o (IF text THEN <<a>> ELSE <<>>) \o <<c>>
  BY DEF AnswerCalls
<1>3. /\ pc[t] = "chatting" /\ pc'[t] = "dispatching" /\ restored'[t] = n
      /\ UNCHANGED <<round, outside>>
      /\ \A u \in Turns \ {t} : pc'[u] = pc[u] /\ restored'[u] = restored[u]
  BY DEF AnswerCalls, TypeOK
<1> HIDE DEF a, c
<1> HIDE DEF Messages
<1>4. CASE text
  <2>1. transcript' = transcript \o <<a>> \o <<c>>
    BY <1>2, <1>4
  <2> DEFINE q == transcript \o <<a>>
  <2>2. <<a>> \in Seq(Messages) /\ <<c>> \in Seq(Messages) /\ Len(<<a>>) = 1
        /\ Len(<<c>>) = 1 /\ <<a>>[1] = a /\ <<c>>[1] = c
    BY <1>1
  <2>3. /\ q \in Seq(Messages) /\ Len(q) = Len(transcript) + 1
        /\ \A i \in 1..Len(transcript) : q[i] = transcript[i]
        /\ q[Len(transcript) + 1] = a
    BY <1>1, <2>2, ConcatIs
  <2> HIDE DEF q
  <2>4. /\ transcript' \in Seq(Messages) /\ Len(transcript') = Len(q) + 1
        /\ \A i \in 1..Len(q) : transcript'[i] = q[i]
        /\ transcript'[Len(q) + 1] = c
    BY <2>1, <2>2, <2>3, ConcatIs DEF q
  <2>5. Len(transcript) \in Nat
    BY <1>1
  <2> QED BY <1>3, <2>3, <2>4, <2>5 DEF CallsStep, Keeps, a, c
<1>5. CASE ~text
  <2>1. transcript' = transcript \o <<c>>
    BY <1>1, <1>2, <1>5, ConcatEmptySeq
  <2>2. <<c>> \in Seq(Messages) /\ Len(<<c>>) = 1 /\ <<c>>[1] = c
    BY <1>1
  <2>3. /\ transcript' \in Seq(Messages) /\ Len(transcript') = Len(transcript) + 1
        /\ \A i \in 1..Len(transcript) : transcript'[i] = transcript[i]
        /\ transcript'[Len(transcript) + 1] = c
    BY <1>1, <2>1, <2>2, ConcatIs
  <2> QED BY <1>3, <2>3 DEF CallsStep, Keeps, a, c
<1> QED BY <1>4, <1>5

LEMMA ExtendIs ==
  ASSUME TypeOK, NEW t \in Turns, Extend(t)
  PROVE  transcript' \in Seq(Messages) /\ ResultsStep(t)
<1> DEFINE s == ToolMessages(t)
<1>1. /\ pc[t] = "dispatching" /\ results[t] = restored[t]
      /\ transcript' = transcript \o s
      /\ UNCHANGED <<restored, outside>>
      /\ NextRound(t)
  BY DEF Extend
<1>2. restored[t] \in Nat /\ transcript \in Seq(Messages)
  BY DEF TypeOK
<1>3. \A i \in 1..restored[t] : Message(t, "tool", i) \in Messages
  BY <1>2, MessageIs DEF Roles
<1> HIDE DEF Messages
<1>4. /\ s \in Seq(Messages) /\ Len(s) = restored[t]
      /\ \A i \in 1..restored[t] : s[i] = Message(t, "tool", i)
  <2>1. s = [i \in 1..restored[t] |-> Message(t, "tool", i)]
    BY <1>1 DEF ToolMessages
  <2> HIDE DEF s
  <2>2. s \in [1..restored[t] -> Messages]
    BY <1>3, <2>1
  <2>3. s \in Seq(Messages)
    BY <1>2, <2>2, SeqDef
  <2>4. Len(s) = restored[t]
    BY <1>2, <2>2, <2>3
  <2> QED BY <2>1, <2>3, <2>4
<1> HIDE DEF s
<1>5. /\ transcript' \in Seq(Messages)
      /\ Len(transcript') = Len(transcript) + restored[t]
      /\ \A i \in 1..Len(transcript) : transcript'[i] = transcript[i]
      /\ \A i \in 1..restored[t] : transcript'[Len(transcript) + i] = s[i]
  <2>1. /\ transcript' \in Seq(Messages)
        /\ Len(transcript') = Len(transcript) + Len(s)
        /\ \A i \in 1..Len(transcript) : transcript'[i] = transcript[i]
        /\ \A i \in 1..Len(s) : transcript'[Len(transcript) + i] = s[i]
    <3>1. s \in Seq(Messages) /\ transcript' = transcript \o s
      BY <1>1, <1>4
    <3> QED BY <1>2, <3>1, ConcatIs
  <2> QED BY <1>4, <2>1
<1>6. /\ \A u \in Turns \ {t} : pc'[u] = pc[u] /\ round'[u] = round[u]
      /\ pc'[t] \in {"asking", "asking_last"} /\ round'[t] = round[t] + 1
  BY <1>1 DEF NextRound, TypeOK
<1> QED BY <1>1, <1>4, <1>5, <1>6 DEF ResultsStep, Keeps

LEMMA SaysIs ==
  ASSUME TypeOK, NEW t \in Turns, Begin(t) \/ AnswerText(t) \/ AnswerLast(t)
  PROVE  transcript' \in Seq(Messages) /\ SaysStep(t)
<1>1. transcript \in Seq(Messages)
      /\ Message(t, "user", 0) \in Messages /\ Message(t, "assistant", 0) \in Messages
  BY MessageIs DEF TypeOK, Roles
<1>2. UNCHANGED <<round, restored, outside>> /\ \A u \in Turns \ {t} : pc'[u] = pc[u]
  BY DEF Begin, AnswerText, AnswerLast, TypeOK
<1> HIDE DEF Messages
<1>3. CASE Begin(t)
  <2>1. transcript' = Append(transcript, Message(t, "user", 0))
        /\ pc[t] = "waiting" /\ pc'[t] = "asking"
    BY <1>3 DEF Begin, TypeOK
  <2> QED BY <1>1, <1>2, <2>1, AppendIs DEF SaysStep, Keeps
<1>4. CASE AnswerText(t) \/ AnswerLast(t)
  <2>1. transcript' = Append(transcript, Message(t, "assistant", 0))
        /\ pc[t] \in {"chatting", "chatting_last"} /\ pc'[t] = "closing"
    BY <1>4 DEF AnswerText, AnswerLast, TypeOK
  <2> QED BY <1>1, <1>2, <2>1, AppendIs DEF SaysStep, Keeps
<1> QED BY <1>3, <1>4

LEMMA CloseIs ==
  ASSUME TypeOK, ReplyInv, NEW t \in Turns, Close(t)
  PROVE  LET p == TrimPoint(transcript, MaxMessages)
         IN  /\ transcript' \in Seq(Messages) /\ p \in 0..Len(transcript) /\ DropStep(p)
             /\ Len(transcript') # 0
             /\ reply'[t] = transcript[Len(transcript)]
             /\ reply'[t] = transcript'[Len(transcript')]
             /\ \A u \in Turns \ {t} : reply'[u] = reply[u]
<1> DEFINE p == TrimPoint(transcript, MaxMessages)
           r == transcript'
<1>1. transcript \in Seq(Messages) /\ MaxMessages \in Nat \ {0}
  BY MaxMessagesAssumption DEF TypeOK
<1>2. HasRoles(transcript) /\ Len(transcript) \in Nat
  BY <1>1, MessagesTyped
<1>3. /\ pc[t] = "closing" /\ r = Trimmed(transcript, MaxMessages)
      /\ reply' = [reply EXCEPT ![t] = r[Len(r)]]
      /\ pc' = [pc EXCEPT ![t] = "answered"]
      /\ UNCHANGED <<round, restored, outside>>
  BY DEF Close, Leave
<1>4. transcript # <<>>
  BY <1>3 DEF ReplyInv
<1> HIDE DEF Messages
<1>5. /\ p \in 0..Len(transcript)
      /\ p # 0 => p <= Len(transcript) - MaxMessages
  BY <1>1, <1>2, TrimPointBounds
<1>6. /\ r \in Seq(Messages) /\ Len(r) = Len(transcript) - p
      /\ \A i \in 1..Len(r) : r[i] = transcript[i + p]
  BY <1>1, <1>2, <1>3, TrimmedIs
<1>7. Len(transcript) # 0
  BY <1>1, <1>4
<1>8. /\ pc'[t] = "answered" /\ \A u \in Turns \ {t} : pc'[u] = pc[u]
      /\ reply'[t] = r[Len(r)] /\ \A u \in Turns \ {t} : reply'[u] = reply[u]
  BY <1>3 DEF TypeOK
<1>9. p < Len(transcript) /\ Len(r) # 0 /\ (p > 0 => Len(r) >= MaxMessages)
  BY <1>1, <1>2, <1>5, <1>6, <1>7
<1>10. r[Len(r)] = transcript[Len(transcript)]
  BY <1>2, <1>5, <1>6, <1>9
<1>11. DropStep(p)
  <2> HIDE DEF p
  <2>1. p = TrimPoint(transcript, MaxMessages)
    BY DEF p
  <2> QED BY <1>3, <1>5, <1>6, <1>8, <1>9, <2>1 DEF DropStep
<1> QED BY <1>5, <1>6, <1>8, <1>9, <1>10, <1>11

LEMMA AddIs ==
  ASSUME TypeOK, NEW trim \in BOOLEAN, AddMessage(trim)
  PROVE  /\ transcript' \in Seq(Messages)
         /\ \E p \in 0..Len(transcript) : DropStep(p)
<1> DEFINE q == Append(transcript, FromThread)
           p == IF trim /\ Len(q) > MaxMessages THEN Len(q) - MaxMessages ELSE 0
<1>1. transcript \in Seq(Messages) /\ FromThread \in Messages /\ MaxMessages \in Nat \ {0}
  BY ThreadMessageIs, MaxMessagesAssumption DEF TypeOK
<1>2. outside' = outside + 1 /\ transcript' = SubSeq(q, p + 1, Len(q))
      /\ UNCHANGED <<pc, round, restored>>
  BY DEF AddMessage, FromThread
<1> HIDE DEF Messages
<1>3. q \in Seq(Messages) /\ Len(q) = Len(transcript) + 1 /\ Len(transcript) \in Nat
      /\ q[Len(transcript) + 1] = FromThread
      /\ \A i \in 1..Len(transcript) : q[i] = transcript[i]
  BY <1>1, AppendIs
<1> HIDE DEF q
<1>4. p \in 0..Len(transcript) /\ (p > 0 => Len(q) - p >= MaxMessages) /\ p \in 0..Len(q)
  BY <1>1, <1>3
<1> HIDE DEF p
<1>5. /\ transcript' \in Seq(Messages) /\ Len(transcript') = Len(q) - p
      /\ \A i \in 1..(Len(q) - p) : transcript'[i] = q[i + p]
  BY <1>2, <1>3, <1>4, SuffixIs
<1>6. \A i \in 1..(Len(transcript) - p) : transcript'[i] = transcript[i + p]
  BY <1>3, <1>4, <1>5
<1>7. transcript'[Len(transcript')] = FromThread
  BY <1>3, <1>4, <1>5
<1> QED BY <1>2, <1>3, <1>4, <1>5, <1>6, <1>7 DEF DropStep

LEMMA QuietIs ==
  ASSUME TypeOK, NEW t \in Turns,
         \/ Arrive(t) \/ Ask(t) \/ DispatchEnds(t) \/ AnswerNothing(t)
         \/ AnswerRaises(t) \/ Cancel(t)
  PROVE  QuietStep(t)
<1>1. CASE Arrive(t) \/ Ask(t) \/ DispatchEnds(t)
  BY <1>1 DEF Arrive, Ask, DispatchEnds, TypeOK, QuietStep
<1>2. CASE AnswerNothing(t)
  BY <1>2 DEF AnswerNothing, NextRound, TypeOK, QuietStep
<1>3. CASE AnswerRaises(t) \/ Cancel(t)
  BY <1>3 DEF AnswerRaises, Cancel, Leave, TypeOK, QuietStep
<1> QED BY <1>1, <1>2, <1>3

LEMMA KindIs ==
  ASSUME TypeOK, ReplyInv, Next
  PROVE  transcript' \in Seq(Messages) /\ StepKind
<1>1. ASSUME NEW t \in Turns,
             \/ Arrive(t) \/ Ask(t) \/ DispatchEnds(t) \/ AnswerNothing(t)
             \/ AnswerRaises(t) \/ Cancel(t)
      PROVE  transcript' \in Seq(Messages) /\ StepKind
  BY <1>1, QuietIs DEF StepKind, QuietStep, TypeOK
<1>2. ASSUME NEW t \in Turns, Begin(t) \/ AnswerText(t) \/ AnswerLast(t)
      PROVE  transcript' \in Seq(Messages) /\ StepKind
  BY <1>2, SaysIs DEF StepKind
<1>3. ASSUME NEW t \in Turns, NEW text \in BOOLEAN, NEW n \in 1..MaxCalls,
             AnswerCalls(t, text, n)
      PROVE  transcript' \in Seq(Messages) /\ StepKind
  BY <1>3, AnswerCallsIs DEF StepKind
<1>4. ASSUME NEW t \in Turns, Extend(t)
      PROVE  transcript' \in Seq(Messages) /\ StepKind
  BY <1>4, ExtendIs DEF StepKind
<1>5. ASSUME NEW t \in Turns, Close(t)
      PROVE  transcript' \in Seq(Messages) /\ StepKind
  BY <1>5, CloseIs DEF StepKind
<1>6. ASSUME NEW trim \in BOOLEAN, AddMessage(trim)
      PROVE  transcript' \in Seq(Messages) /\ StepKind
  BY <1>6, AddIs DEF StepKind
<1> QED BY <1>1, <1>2, <1>3, <1>4, <1>5, <1>6 DEF Next, Run, ModelAnswers

-----------------------------------------------------------------------------
(* Taking a place out of a sequence.                                       *)
LEMMA RemoveAtIs ==
  ASSUME NEW q \in Seq(Turns), NEW i \in 1..Len(q)
  PROVE  /\ RemoveAt(q, i) \in Seq(Turns)
         /\ Len(RemoveAt(q, i)) = Len(q) - 1
         /\ \A j \in 1..(Len(q) - 1) :
              RemoveAt(q, i)[j] = IF j < i THEN q[j] ELSE q[j + 1]
<1> DEFINE a == SubSeq(q, 1, i - 1)
           b == SubSeq(q, i + 1, Len(q))
<1>1. /\ Len(q) \in Nat /\ \A k \in 1..Len(q) : q[k] \in Turns
      /\ i \in Nat /\ 1 <= i /\ i <= Len(q)
  OBVIOUS
<1>2. a \in Seq(Turns) /\ Len(a) = i - 1 /\ \A j \in 1..(i - 1) : a[j] = q[j]
  BY <1>1
<1>3. /\ b \in Seq(Turns) /\ Len(b) = Len(q) - i
      /\ \A j \in 1..(Len(q) - i) : b[j] = q[i + j]
  BY <1>1
<1> HIDE DEF a, b
<1>4. a \o b \in Seq(Turns) /\ Len(a \o b) = Len(q) - 1
  <2>1. a \in Seq(Turns) /\ b \in Seq(Turns)
    BY <1>2, <1>3
  <2>2. a \o b \in Seq(Turns) /\ Len(a \o b) = Len(a) + Len(b)
    BY <2>1, ConcatProperties
  <2>3. Len(a) = i - 1 /\ Len(b) = Len(q) - i
    BY <1>2, <1>3
  <2> QED BY <1>1, <2>2, <2>3
<1>5. \A j \in 1..(Len(q) - 1) : (a \o b)[j] = IF j < i THEN q[j] ELSE q[j + 1]
  <2> SUFFICES ASSUME NEW j \in 1..(Len(q) - 1)
               PROVE  (a \o b)[j] = IF j < i THEN q[j] ELSE q[j + 1]
    OBVIOUS
  <2>1. CASE j < i
    BY <1>1, <1>2, <1>3, <2>1
  <2>2. CASE j >= i
    <3>1. (a \o b)[j] = b[j - (i - 1)]
      BY <1>1, <1>2, <1>3, <2>2
    <3>2. j - (i - 1) \in 1..(Len(q) - i) /\ i + (j - (i - 1)) = j + 1
      BY <1>1, <2>2
    <3>3. b[j - (i - 1)] = q[j + 1]
      BY <1>3, <3>2
    <3>4. ~(j < i)
      BY <1>1, <2>2
    <3> QED BY <3>1, <3>3, <3>4
  <2>3. j < i \/ j >= i
    BY <1>1
  <2> QED BY <2>1, <2>2, <2>3
<1> QED BY <1>4, <1>5 DEF RemoveAt, a, b

(* Who leaves is taken out of the queue of the lock.                       *)
LEMMA LeaveIs ==
  ASSUME TypeOK, LockInv, NEW t \in Turns, pc[t] \in Inside \cup {"waiting"},
         NEW how \in Ended, Leave(t, how)
  PROVE  /\ \A u \in Turns \ {t} : pc'[u] = pc[u]
         /\ pc'[t] = how
         /\ \E i \in 1..Len(queue) :
              /\ queue[i] = t
              /\ queue' \in Seq(Turns)
              /\ Len(queue') = Len(queue) - 1
              /\ \A j \in 1..(Len(queue) - 1) :
                   queue'[j] = IF j < i THEN queue[j] ELSE queue[j + 1]
<1>1. queue \in Seq(Turns) /\ DOMAIN queue = 1..Len(queue)
  BY DEF TypeOK
<1> DEFINE i == CHOOSE k \in DOMAIN queue : queue[k] = t
<1>2. \E k \in DOMAIN queue : queue[k] = t
  BY DEF LockInv
<1>3. i \in DOMAIN queue /\ queue[i] = t
  BY <1>2
<1>4. queue' = RemoveAt(queue, i) /\ pc' = [pc EXCEPT ![t] = how]
  BY DEF Leave
<1> HIDE DEF i
<1>5. i \in 1..Len(queue)
  BY <1>1, <1>3
<1>6. /\ queue' \in Seq(Turns)
      /\ Len(queue') = Len(queue) - 1
      /\ \A j \in 1..(Len(queue) - 1) :
           queue'[j] = IF j < i THEN queue[j] ELSE queue[j + 1]
  BY <1>1, <1>4, <1>5, RemoveAtIs
<1>7. pc'[t] = how /\ \A u \in Turns \ {t} : pc'[u] = pc[u]
  BY <1>4 DEF TypeOK
<1> QED BY <1>3, <1>5, <1>6, <1>7

LEMMA LeaveLock ==
  ASSUME TypeOK, LockInv, NEW t \in Turns, pc[t] \in Inside \cup {"waiting"},
         NEW how \in Ended, Leave(t, how)
  PROVE  LockInv' /\ queue' \in Seq(Turns)
<1>1. PICK i \in 1..Len(queue) :
        /\ queue[i] = t
        /\ queue' \in Seq(Turns)
        /\ Len(queue') = Len(queue) - 1
        /\ \A j \in 1..(Len(queue) - 1) :
             queue'[j] = IF j < i THEN queue[j] ELSE queue[j + 1]
  BY LeaveIs
<1>2. pc'[t] = how /\ \A u \in Turns \ {t} : pc'[u] = pc[u]
  BY LeaveIs
<1>3. /\ queue \in Seq(Turns) /\ DOMAIN queue = 1..Len(queue) /\ Len(queue) \in Nat
      /\ DOMAIN queue' = 1..(Len(queue) - 1)
      /\ \A j \in 1..Len(queue) : queue[j] \in Turns
  <2>1. queue \in Seq(Turns)
    BY DEF TypeOK
  <2>2. DOMAIN queue = 1..Len(queue) /\ Len(queue) \in Nat
        /\ \A j \in 1..Len(queue) : queue[j] \in Turns
    BY <2>1
  <2>3. DOMAIN queue' = 1..Len(queue')
    BY <1>1, LenProperties
  <2> QED BY <1>1, <2>1, <2>2, <2>3
<1>4. \A a, b \in 1..Len(queue) : queue[a] = queue[b] => a = b
  BY <1>3 DEF LockInv
<1>5. how \notin Inside \cup {"waiting"}
  BY DEF Inside, Ended
<1>6. ASSUME NEW u \in Turns, pc'[u] \in Inside \cup {"waiting"}
      PROVE  \E j \in DOMAIN queue' : queue'[j] = u
  <2>1. u # t /\ pc[u] \in Inside \cup {"waiting"}
    BY <1>2, <1>5, <1>6
  <2>2. PICK j \in 1..Len(queue) : queue[j] = u
    BY <1>3, <2>1 DEF LockInv
  <2>3. j # i
    BY <1>1, <2>1, <2>2
  <2>4. CASE j < i
    <3>1. j \in 1..(Len(queue) - 1) /\ queue'[j] = u
      BY <1>1, <1>3, <2>2, <2>4
    <3> QED BY <1>3, <3>1
  <2>5. CASE j > i
    <3>1. j - 1 \in 1..(Len(queue) - 1) /\ ~(j - 1 < i) /\ (j - 1) + 1 = j
      BY <1>1, <1>3, <2>5
    <3>2. queue'[j - 1] = u
      BY <1>1, <2>2, <3>1
    <3> QED BY <1>3, <3>1, <3>2
  <2> QED BY <2>3, <2>4, <2>5
<1>7. ASSUME NEW j \in DOMAIN queue'
      PROVE  pc'[queue'[j]] \in Inside \cup {"waiting"}
  <2>1. PICK k \in 1..Len(queue) : k # i /\ queue'[j] = queue[k]
    <3>1. j \in 1..(Len(queue) - 1)
      BY <1>3, <1>7
    <3>2. CASE j < i
      <4>1. j \in 1..Len(queue) /\ j # i /\ queue'[j] = queue[j]
        BY <1>1, <1>3, <3>1, <3>2
      <4> QED BY <4>1
    <3>3. CASE ~(j < i)
      <4>1. j + 1 \in 1..Len(queue) /\ j + 1 # i /\ queue'[j] = queue[j + 1]
        BY <1>1, <1>3, <3>1, <3>3
      <4> QED BY <4>1
    <3> QED BY <3>2, <3>3
  <2>2. queue[k] # t
    BY <1>1, <1>4, <2>1
  <2> QED BY <1>2, <1>3, <2>1, <2>2 DEF LockInv
<1>8. ASSUME NEW j \in DOMAIN queue', NEW k \in DOMAIN queue', queue'[j] = queue'[k]
      PROVE  j = k
  <2> DEFINE at_(n) == IF n < i THEN n ELSE n + 1
  <2>1. queue'[j] = queue[at_(j)] /\ queue'[k] = queue[at_(k)]
    BY <1>1, <1>3, <1>8
  <2>2. at_(j) \in 1..Len(queue) /\ at_(k) \in 1..Len(queue)
    BY <1>3, <1>8
  <2>3. at_(j) = at_(k)
    <3> HIDE DEF at_
    <3> QED BY <1>4, <1>8, <2>1, <2>2
  <2> QED BY <1>3, <1>8, <2>3
<1>9. ASSUME NEW u \in Turns, pc'[u] \in Inside
      PROVE  queue'[1] = u
  <2>1. u # t /\ pc[u] \in Inside
    BY <1>2, <1>5, <1>9
  <2>2. queue[1] = u
    BY <2>1 DEF LockInv
  <2>3. i # 1
    BY <1>1, <2>1, <2>2
  <2> QED BY <1>1, <1>3, <2>2, <2>3
<1> QED BY <1>1, <1>6, <1>7, <1>8, <1>9 DEF LockInv

(* Only the first of the queue is inside.                                  *)
LEMMA OneInside ==
  ASSUME LockInv, NEW t \in Turns, NEW u \in Turns, pc[t] \in Inside, pc[u] \in Inside
  PROVE  t = u
BY DEF LockInv

(* Who starts to wait is the last in the queue; who begins is the first.   *)
LEMMA LockStep ==
  ASSUME TypeOK, LockInv, Next
  PROVE  LockInv' /\ queue' \in Seq(Turns)
<1> DEFINE In == Inside \cup {"waiting"}
<1>0. queue \in Seq(Turns) /\ DOMAIN queue = 1..Len(queue) /\ Len(queue) \in Nat
      /\ \A j \in 1..Len(queue) : queue[j] \in Turns
  BY DEF TypeOK
<1>1. ASSUME NEW t \in Turns, Arrive(t) PROVE LockInv' /\ queue' \in Seq(Turns)
  <2>1. pc[t] = "new" /\ pc'[t] = "waiting" /\ queue' = Append(queue, t)
        /\ \A u \in Turns \ {t} : pc'[u] = pc[u]
    BY <1>1 DEF Arrive, TypeOK
  <2>2. /\ queue' \in Seq(Turns) /\ Len(queue') = Len(queue) + 1
        /\ queue'[Len(queue) + 1] = t
        /\ \A j \in 1..Len(queue) : queue'[j] = queue[j]
        /\ DOMAIN queue' = 1..(Len(queue) + 1)
    BY <1>0, <2>1, AppendIs
  <2>3. \A j \in 1..Len(queue) : pc[queue[j]] \in In /\ queue[j] # t
    BY <1>0, <2>1 DEF LockInv, Inside
  <2>4. \A u \in Turns : pc'[u] \in In => \E j \in DOMAIN queue' : queue'[j] = u
    BY <1>0, <2>1, <2>2 DEF LockInv
  <2>5. \A j \in DOMAIN queue' : pc'[queue'[j]] \in In
    BY <1>0, <2>1, <2>2, <2>3
  <2>6. \A j, k \in DOMAIN queue' : queue'[j] = queue'[k] => j = k
    BY <1>0, <2>2, <2>3 DEF LockInv
  <2>7. \A u \in Turns : pc'[u] \in Inside => queue'[1] = u
    <3>1. ASSUME NEW u \in Turns, pc'[u] \in Inside PROVE queue'[1] = u
      <4>1. u # t /\ pc[u] \in Inside
        BY <2>1, <3>1 DEF Inside
      <4>2. queue[1] = u /\ \E j \in DOMAIN queue : queue[j] = u
        BY <4>1 DEF LockInv
      <4> QED BY <1>0, <2>2, <4>2
    <3> QED BY <3>1
  <2> QED BY <2>2, <2>4, <2>5, <2>6, <2>7 DEF LockInv
<1>2. ASSUME NEW t \in Turns, Begin(t) PROVE LockInv' /\ queue' \in Seq(Turns)
  <2>1. pc[t] = "waiting" /\ pc'[t] = "asking" /\ queue' = queue
        /\ \A u \in Turns \ {t} : pc'[u] = pc[u]
    BY <1>2 DEF Begin, TypeOK
  <2>2. queue[1] = t
    BY <1>0, <1>2 DEF Begin
  <2> QED BY <1>0, <2>1, <2>2 DEF LockInv, Inside
<1>3. ASSUME NEW t \in Turns, UNCHANGED queue, pc[t] \in Inside, pc'[t] \in Inside,
             \A u \in Turns \ {t} : pc'[u] = pc[u]
      PROVE  LockInv' /\ queue' \in Seq(Turns)
  BY <1>0, <1>3 DEF LockInv
<1>4. ASSUME NEW t \in Turns, NEW text \in BOOLEAN, NEW n \in 1..MaxCalls,
             AnswerCalls(t, text, n)
      PROVE  LockInv' /\ queue' \in Seq(Turns)
  <2>1. UNCHANGED queue /\ pc[t] \in Inside /\ pc'[t] \in Inside
        /\ \A u \in Turns \ {t} : pc'[u] = pc[u]
    BY <1>4 DEF AnswerCalls, TypeOK, Inside
  <2> QED BY <1>3, <2>1
<1>5. ASSUME NEW t \in Turns,
             \/ Ask(t) \/ Extend(t) \/ AnswerText(t) \/ AnswerNothing(t)
             \/ AnswerLast(t) \/ DispatchEnds(t)
      PROVE  LockInv' /\ queue' \in Seq(Turns)
  <2>1. UNCHANGED queue /\ pc[t] \in Inside /\ pc'[t] \in Inside
        /\ \A u \in Turns \ {t} : pc'[u] = pc[u]
    BY <1>5 DEF Ask, Extend, AnswerText, AnswerNothing, AnswerLast, DispatchEnds,
                NextRound, TypeOK, Inside
  <2> QED BY <1>3, <2>1
<1>6. ASSUME NEW t \in Turns, AnswerRaises(t) \/ Cancel(t) \/ Close(t)
      PROVE  LockInv' /\ queue' \in Seq(Turns)
  <2>1. PICK how \in Ended : Leave(t, how)
    BY <1>6 DEF AnswerRaises, Cancel, Close, Ended
  <2>2. pc[t] \in Inside \cup {"waiting"}
    BY <1>6 DEF AnswerRaises, Cancel, Close, Inside
  <2> QED BY <2>1, <2>2, LeaveLock
<1>7. ASSUME NEW trim \in BOOLEAN, AddMessage(trim)
      PROVE  LockInv' /\ queue' \in Seq(Turns)
  BY <1>0, <1>7 DEF AddMessage, LockInv
<1> QED BY <1>1, <1>2, <1>4, <1>5, <1>6, <1>7 DEF Next, Run, ModelAnswers

(* Rounds and calls of the model are counted, and the variables keep their *)
(* types.                                                                  *)
LEMMA RoundStep ==
  ASSUME TypeOK, RoundInv, Next
  PROVE  RoundInv'
<1>1. ASSUME NEW t \in Turns,
             \/ Arrive(t) \/ Run(t) \/ DispatchEnds(t) \/ Cancel(t)
             \/ \E text \in BOOLEAN, n \in 1..MaxCalls : AnswerCalls(t, text, n)
             \/ AnswerText(t) \/ AnswerNothing(t) \/ AnswerLast(t) \/ AnswerRaises(t)
      PROVE  RoundInv'
  <2>1. /\ MaxTurns \in Nat \ {0} /\ MaxCalls \in Nat
        /\ round[t] \in 0..MaxTurns /\ chats[t] \in Nat
    BY LimitsAssumption DEF TypeOK
  <2>2. \A u \in Turns \ {t} : /\ pc'[u] = pc[u] /\ round'[u] = round[u]
                               /\ chats'[u] = chats[u] /\ restored'[u] = restored[u]
    BY <1>1 DEF Arrive, Run, Begin, Ask, Extend, Close, DispatchEnds, Cancel, AnswerCalls,
                AnswerText, AnswerNothing, AnswerLast, AnswerRaises, NextRound, Leave,
                TypeOK
  <2>3. /\ pc[t] \in {"new", "waiting"} => chats[t] = 0 /\ round[t] = 0
        /\ pc[t] \in {"asking", "chatting", "dispatching"} => round[t] < MaxTurns
        /\ pc[t] \in {"asking", "asking_last"} => chats[t] <= round[t]
        /\ chats[t] <= round[t] + 1
        /\ restored[t] <= MaxCalls
    BY DEF RoundInv
  <2> DEFINE Goal ==
           /\ pc'[t] \in {"new", "waiting"} => chats'[t] = 0 /\ round'[t] = 0
           /\ pc'[t] \in {"asking", "chatting", "dispatching"} => round'[t] < MaxTurns
           /\ pc'[t] \in {"asking", "asking_last"} => chats'[t] <= round'[t]
           /\ chats'[t] <= round'[t] + 1
           /\ restored'[t] <= MaxCalls
  <2>4. Goal
    <3>1. CASE Arrive(t) \/ DispatchEnds(t) \/ Cancel(t)
      BY <2>1, <2>3, <3>1 DEF Arrive, DispatchEnds, Cancel, Leave, TypeOK
    <3>2. CASE Begin(t)
      <4>1. pc[t] = "waiting" /\ pc'[t] = "asking" /\ round'[t] = round[t]
            /\ chats'[t] = chats[t] /\ restored'[t] = restored[t]
        BY <3>2 DEF Begin, TypeOK
      <4> QED BY <2>1, <2>3, <4>1
    <3>3. CASE Ask(t)
      BY <2>1, <2>3, <3>3 DEF Ask, TypeOK
    <3>4. CASE Extend(t) \/ AnswerNothing(t)
      BY <2>1, <2>3, <3>4 DEF Extend, AnswerNothing, NextRound, TypeOK
    <3>5. CASE Close(t) \/ AnswerText(t) \/ AnswerLast(t) \/ AnswerRaises(t)
      BY <2>1, <2>3, <3>5 DEF Close, AnswerText, AnswerLast, AnswerRaises, Leave, TypeOK
    <3>6. CASE \E text \in BOOLEAN, n \in 1..MaxCalls : AnswerCalls(t, text, n)
      <4>1. PICK n \in 1..MaxCalls :
              /\ pc[t] = "chatting" /\ pc'[t] = "dispatching" /\ restored'[t] = n
              /\ round'[t] = round[t] /\ chats'[t] = chats[t]
        BY <3>6 DEF AnswerCalls, TypeOK
      <4> QED BY <2>1, <2>3, <4>1
    <3> HIDE DEF Goal
    <3> QED BY <1>1, <3>1, <3>2, <3>3, <3>4, <3>5, <3>6 DEF Run
  <2>5. ASSUME NEW u \in Turns \ {t}
        PROVE  /\ pc'[u] \in {"new", "waiting"} => chats'[u] = 0 /\ round'[u] = 0
               /\ pc'[u] \in {"asking", "chatting", "dispatching"} => round'[u] < MaxTurns
               /\ pc'[u] \in {"asking", "asking_last"} => chats'[u] <= round'[u]
               /\ chats'[u] <= round'[u] + 1
               /\ restored'[u] <= MaxCalls
    <3>1. /\ pc'[u] = pc[u] /\ round'[u] = round[u]
          /\ chats'[u] = chats[u] /\ restored'[u] = restored[u]
      BY <2>2
    <3> QED BY ONLY <3>1, RoundInv DEF RoundInv
  <2>6. \A u \in Turns : u = t \/ u \in Turns \ {t}
    OBVIOUS
  <2> QED BY ONLY <2>4, <2>5, <2>6, Zenon DEF RoundInv
<1>2. ASSUME NEW trim \in BOOLEAN, AddMessage(trim) PROVE RoundInv'
  BY <1>2 DEF AddMessage, RoundInv
<1> QED BY <1>1, <1>2 DEF Next, ModelAnswers

LEMMA TypeStep ==
  ASSUME TypeOK, LockInv, RoundInv, ReplyInv, Next
  PROVE  TypeOK'
<1>1. /\ pc \in [Turns -> PCs] /\ round \in [Turns -> 0..MaxTurns]
      /\ sent \in [Turns -> Seq(Messages)] /\ chats \in [Turns -> Nat]
      /\ restored \in [Turns -> Nat] /\ results \in [Turns -> Nat]
      /\ reply \in [Turns -> Messages] /\ outside \in Nat
      /\ transcript \in Seq(Messages)
  BY DEF TypeOK
<1>2. MaxTurns \in Nat \ {0} /\ MaxCalls \in Nat
  BY LimitsAssumption
<1> HIDE DEF Messages
<1>3. transcript' \in Seq(Messages) /\ queue' \in Seq(Turns)
  BY KindIs, LockStep
<1>4. pc' \in [Turns -> PCs]
  BY <1>1 DEF Next, Arrive, Run, Begin, Ask, Extend, Close, ModelAnswers, AnswerCalls,
              AnswerText, AnswerNothing, AnswerLast, AnswerRaises, DispatchEnds, Cancel,
              AddMessage, NextRound, Leave, PCs
<1>5. round' \in [Turns -> 0..MaxTurns]
  <2>1. CASE UNCHANGED round
    BY <1>1, <2>1
  <2>2. CASE \E t \in Turns : NextRound(t) /\ pc[t] \in {"chatting", "dispatching"}
    <3>1. PICK t \in Turns : round' = [round EXCEPT ![t] = @ + 1] /\ round[t] < MaxTurns
      BY <2>2 DEF NextRound, RoundInv
    <3>2. round[t] + 1 \in 0..MaxTurns
      BY <1>1, <1>2, <3>1
    <3> QED BY <1>1, <3>1, <3>2
  <2> QED BY <2>1, <2>2 DEF Next, Arrive, Run, Begin, Ask, Extend, Close, ModelAnswers,
              AnswerCalls, AnswerText, AnswerNothing, AnswerLast, AnswerRaises,
              DispatchEnds, Cancel, AddMessage, Leave
<1>6. sent' \in [Turns -> Seq(Messages)] /\ chats' \in [Turns -> Nat]
  <2>1. CASE UNCHANGED <<sent, chats>>
    BY <1>1, <2>1
  <2>2. ASSUME NEW t \in Turns, Ask(t)
        PROVE  sent' \in [Turns -> Seq(Messages)] /\ chats' \in [Turns -> Nat]
    BY <1>1, <2>2 DEF Ask
  <2> QED BY <2>1, <2>2 DEF Next, Arrive, Run, Begin, Extend, Close, ModelAnswers,
              AnswerCalls, AnswerText, AnswerNothing, AnswerLast, AnswerRaises,
              DispatchEnds, Cancel, AddMessage, Leave
<1>7. restored' \in [Turns -> Nat] /\ results' \in [Turns -> Nat]
  <2>1. CASE UNCHANGED <<restored, results>>
    BY <1>1, <2>1
  <2>2. ASSUME NEW t \in Turns, NEW text \in BOOLEAN, NEW n \in 1..MaxCalls,
               AnswerCalls(t, text, n)
        PROVE  restored' \in [Turns -> Nat] /\ results' \in [Turns -> Nat]
    <3>1. n \in Nat /\ restored' = [restored EXCEPT ![t] = n]
          /\ results' = [results EXCEPT ![t] = 0]
      BY <1>2, <2>2 DEF AnswerCalls
    <3> QED BY <1>1, <3>1
  <2>3. ASSUME NEW t \in Turns, DispatchEnds(t)
        PROVE  restored' \in [Turns -> Nat] /\ results' \in [Turns -> Nat]
    BY <1>1, <2>3 DEF DispatchEnds
  <2> QED BY <2>1, <2>2, <2>3 DEF Next, Arrive, Run, Begin, Ask, Extend, Close,
              ModelAnswers, AnswerText, AnswerNothing, AnswerLast, AnswerRaises, Cancel,
              AddMessage, Leave
<1>8. reply' \in [Turns -> Messages]
  <2>1. CASE UNCHANGED reply
    BY <1>1, <2>1
  <2>2. ASSUME NEW t \in Turns, Close(t) PROVE reply' \in [Turns -> Messages]
    <3>1. reply'[t] = transcript'[Len(transcript')] /\ Len(transcript') # 0
      BY <2>2, CloseIs
    <3>2. transcript'[Len(transcript')] \in Messages
      BY <1>3, <3>1
    <3>3. reply' = [reply EXCEPT ![t] = transcript'[Len(transcript')]]
      BY <2>2 DEF Close
    <3> QED BY <1>1, <3>2, <3>3
  <2> QED BY <2>1, <2>2 DEF Next, Arrive, Run, Begin, Ask, Extend, ModelAnswers,
              AnswerCalls, AnswerText, AnswerNothing, AnswerLast, AnswerRaises,
              DispatchEnds, Cancel, AddMessage, Leave
<1>9. outside' \in Nat
  <2>1. outside' = outside \/ outside' = outside + 1
    BY KindIs DEF StepKind, QuietStep, SaysStep, CallsStep, ResultsStep, DropStep
  <2> QED BY <1>1, <2>1
<1> QED BY <1>3, <1>4, <1>5, <1>6, <1>7, <1>8, <1>9 DEF TypeOK

-----------------------------------------------------------------------------
(* The messages before and after a step.                                   *)
LEMMA Facts ==
  ASSUME TypeOK, transcript' \in Seq(Messages)
  PROVE  /\ transcript \in Seq(Messages)
         /\ Len(transcript) \in Nat /\ DOMAIN transcript = 1..Len(transcript)
         /\ \A i \in 1..Len(transcript) : IsMessage(transcript[i])
         /\ Len(transcript') \in Nat /\ DOMAIN transcript' = 1..Len(transcript')
         /\ \A i \in 1..Len(transcript') : IsMessage(transcript'[i])
         /\ \A t \in Turns : round[t] \in Nat /\ restored[t] \in Nat /\ t # Outside
         /\ outside \in Nat /\ MaxMessages \in Nat \ {0} /\ MaxCalls \in Nat
<1>1. transcript \in Seq(Messages)
  BY DEF TypeOK
<1>2. \A t \in Turns : round[t] \in Nat /\ restored[t] \in Nat /\ t # Outside
  BY LimitsAssumption, OutsideAssumption DEF TypeOK
<1>3. outside \in Nat /\ MaxMessages \in Nat \ {0} /\ MaxCalls \in Nat
  BY MaxMessagesAssumption, LimitsAssumption DEF TypeOK
<1> QED BY <1>1, <1>2, <1>3, MessagesTyped

(* A message that was there keeps what is said of its author.              *)
LEMMA AuthorKept ==
  ASSUME TypeOK, StepKind, NEW m, IsMessage(m), AuthorOf(m)
  PROVE  AuthorOf(m)'
<1>1. outside \in Nat /\ outside' \in {outside, outside + 1}
  BY DEF TypeOK, StepKind, QuietStep, SaysStep, CallsStep, ResultsStep, DropStep
<1>2. CASE m.by = Outside
  BY <1>1, <1>2 DEF AuthorOf, IsMessage
<1>3. CASE m.by # Outside
  <2> DEFINE u == m.by
  <2>1. u \in Turns /\ m.round \in Nat /\ round[u] \in Nat
    BY <1>3, LimitsAssumption DEF IsMessage, TypeOK
  <2>2. /\ pc[u] \notin {"new", "waiting"}
        /\ m.round <= round[u]
        /\ m.role = "tool" => m.round < round[u]
        /\ m.role \in {"assistant", "calls"} /\ m.round = round[u] =>
             pc[u] \in {"dispatching", "closing", "answered", "cancelled"}
        /\ m.role = "calls" /\ m.round = round[u] =>
             pc[u] \in {"dispatching", "cancelled"}
        /\ m.role = "calls" => m.n <= MaxCalls
    BY <1>3 DEF AuthorOf
  <2>3. /\ pc'[u] \notin {"new", "waiting"}
        /\ \/ round'[u] = round[u] + 1
           \/ /\ round'[u] = round[u]
              /\ \/ pc'[u] = pc[u]
                 \/ pc[u] = "dispatching" /\ pc'[u] = "cancelled"
                 \/ pc[u] = "closing" /\ pc'[u] = "answered"
                 \/ pc[u] \notin {"dispatching", "closing", "answered", "cancelled"}
    <3> HIDE DEF u
    <3>1. CASE \E t \in Turns : QuietStep(t)
      BY <2>1, <2>2, <3>1 DEF QuietStep
    <3>2. CASE \E t \in Turns : SaysStep(t)
      BY <2>1, <2>2, <3>2 DEF SaysStep
    <3>3. CASE \E t \in Turns : CallsStep(t)
      BY <2>1, <2>2, <3>3 DEF CallsStep
    <3>4. CASE \E t \in Turns : ResultsStep(t)
      BY <2>1, <2>2, <3>4 DEF ResultsStep
    <3>5. CASE \E p \in 0..Len(transcript) : DropStep(p)
      BY <2>1, <2>2, <3>5 DEF DropStep
    <3> QED BY <3>1, <3>2, <3>3, <3>4, <3>5 DEF StepKind
  <2> QED BY <1>3, <2>1, <2>2, <2>3 DEF AuthorOf
<1> QED BY <1>2, <1>3

(* What is new after a step.                                               *)
LEMMA SaysEnd ==
  ASSUME TypeOK, transcript' \in Seq(Messages), NEW t \in Turns, SaysStep(t),
         NEW k \in 1..Len(transcript'), k > Len(transcript)
  PROVE  /\ k = Len(transcript')
         /\ transcript'[k].by = t /\ transcript'[k].round = round[t]
         /\ \/ /\ transcript'[k].role = "user"
               /\ pc[t] = "waiting" /\ pc'[t] = "asking"
            \/ /\ transcript'[k].role = "assistant"
               /\ pc[t] \in {"chatting", "chatting_last"} /\ pc'[t] = "closing"
<1>1. Len(transcript) \in Nat /\ Len(transcript') \in Nat
  BY Facts
<1>2. Len(transcript') = Len(transcript) + 1
  BY DEF SaysStep
<1>3. PICK role \in {"user", "assistant"} :
        /\ transcript'[Len(transcript) + 1] = Message(t, role, 0)
        /\ \/ role = "user" /\ pc[t] = "waiting" /\ pc'[t] = "asking"
           \/ /\ role = "assistant" /\ pc[t] \in {"chatting", "chatting_last"}
              /\ pc'[t] = "closing"
  BY DEF SaysStep
<1>4. k = Len(transcript) + 1
  BY <1>1, <1>2
<1> QED BY <1>2, <1>3, <1>4, MessageFields

LEMMA CallsEnd ==
  ASSUME TypeOK, transcript' \in Seq(Messages), NEW t \in Turns, CallsStep(t),
         NEW k \in 1..Len(transcript'), k > Len(transcript)
  PROVE  /\ transcript'[k].by = t /\ transcript'[k].round = round[t]
         /\ \/ /\ k = Len(transcript') /\ transcript'[k].role = "calls"
               /\ transcript'[k].n = restored'[t] /\ restored'[t] \in 1..MaxCalls
            \/ k # Len(transcript') /\ transcript'[k].role = "assistant"
<1>1. Len(transcript) \in Nat /\ Len(transcript') \in Nat
  BY Facts
<1>2. PICK n \in 1..MaxCalls :
        restored'[t] = n /\ transcript'[Len(transcript')] = Message(t, "calls", n)
  BY DEF CallsStep
<1>3. CASE Len(transcript') = Len(transcript) + 1
  <2>1. k = Len(transcript')
    BY <1>1, <1>3
  <2> QED BY <1>2, <2>1, MessageFields
<1>4. CASE /\ Len(transcript') = Len(transcript) + 2
           /\ transcript'[Len(transcript) + 1] = Message(t, "assistant", 0)
  <2>1. Len(transcript') = Len(transcript) + 2
    BY <1>4
  <2>2. k = Len(transcript') \/ (k = Len(transcript) + 1 /\ k # Len(transcript'))
    BY <1>1, <2>1
  <2> QED BY <1>2, <1>4, <2>2, MessageFields
<1> QED BY <1>3, <1>4 DEF CallsStep

LEMMA ResultsEnd ==
  ASSUME TypeOK, transcript' \in Seq(Messages), NEW t \in Turns, ResultsStep(t),
         NEW k \in 1..Len(transcript'), k > Len(transcript)
  PROVE  /\ k - Len(transcript) \in 1..restored[t]
         /\ transcript'[k] = Message(t, "tool", k - Len(transcript))
         /\ transcript'[k].by = t /\ transcript'[k].round = round[t]
         /\ transcript'[k].role = "tool" /\ transcript'[k].n = k - Len(transcript)
<1>1. Len(transcript) \in Nat /\ Len(transcript') \in Nat /\ restored[t] \in Nat
  BY Facts
<1>2. Len(transcript') = Len(transcript) + restored[t]
  BY DEF ResultsStep
<1>3. k - Len(transcript) \in 1..restored[t] /\ k = Len(transcript) + (k - Len(transcript))
  BY <1>1, <1>2
<1>4. transcript'[k] = Message(t, "tool", k - Len(transcript))
  BY <1>3 DEF ResultsStep
<1> QED BY <1>3, <1>4, MessageFields

LEMMA DropEnd ==
  ASSUME TypeOK, transcript' \in Seq(Messages), NEW p \in 0..Len(transcript), DropStep(p),
         NEW k \in 1..Len(transcript')
  PROVE  \/ /\ k <= Len(transcript) - p /\ k + p \in 1..Len(transcript)
            /\ transcript'[k] = transcript[k + p]
         \/ /\ k = Len(transcript') /\ k = Len(transcript) - p + 1
            /\ transcript'[k] = FromThread /\ outside' = outside + 1
            /\ transcript'[k].by = Outside /\ transcript'[k].role = "user"
            /\ transcript'[k].n = outside'
<1>1. Len(transcript) \in Nat /\ Len(transcript') \in Nat
  BY Facts
<1>2. CASE k <= Len(transcript) - p
  <2>1. k \in 1..(Len(transcript) - p) /\ k + p \in 1..Len(transcript)
    BY <1>1, <1>2
  <2> QED BY <1>2, <2>1 DEF DropStep
<1>3. CASE k > Len(transcript) - p
  <2>1. /\ Len(transcript') # Len(transcript) - p
        /\ Len(transcript') = Len(transcript) - p + 1 => k = Len(transcript')
    BY <1>1, <1>3
  <2>2. /\ outside' = outside + 1
        /\ Len(transcript') = Len(transcript) - p + 1
        /\ transcript'[Len(transcript')] = FromThread
    BY <2>1 DEF DropStep
  <2> QED BY <2>1, <2>2 DEF FromThread
<1> QED BY <1>1, <1>2, <1>3

LEMMA AuthorStep ==
  ASSUME TypeOK, AuthorInv, transcript' \in Seq(Messages), StepKind
  PROVE  AuthorInv'
<1>1. /\ Len(transcript) \in Nat /\ DOMAIN transcript = 1..Len(transcript)
      /\ \A i \in 1..Len(transcript) : IsMessage(transcript[i])
      /\ Len(transcript') \in Nat /\ DOMAIN transcript' = 1..Len(transcript')
      /\ \A t \in Turns : round[t] \in Nat /\ restored[t] \in Nat /\ t # Outside
      /\ outside \in Nat
  BY Facts
<1>2. \A m : IsMessage(m) /\ AuthorOf(m) => AuthorOf(m)'
  BY AuthorKept
<1>3. \A i \in 1..Len(transcript) : AuthorOf(transcript[i])
  BY <1>1 DEF AuthorInv
<1> SUFFICES ASSUME NEW k \in 1..Len(transcript'), NEW m, m = transcript'[k]
             PROVE  AuthorOf(m)'
  BY <1>1 DEF AuthorInv
<1>4. ASSUME NEW i \in 1..Len(transcript), m = transcript[i] PROVE AuthorOf(m)'
  BY <1>1, <1>2, <1>3, <1>4
<1>5. ASSUME NEW t \in Turns, QuietStep(t) PROVE AuthorOf(m)'
  BY <1>4, <1>5 DEF QuietStep
<1>6. ASSUME Keeps, k <= Len(transcript) PROVE AuthorOf(m)'
  <2>1. k \in 1..Len(transcript) /\ m = transcript[k]
    BY <1>1, <1>6 DEF Keeps
  <2> QED BY <1>4, <2>1
<1>7. ASSUME NEW t \in Turns, SaysStep(t) PROVE AuthorOf(m)'
  <2>1. CASE k > Len(transcript)
    <3>1. /\ m.by = t /\ m.round = round[t] /\ round'[t] = round[t]
          /\ \/ m.role = "user" /\ pc'[t] = "asking"
             \/ m.role = "assistant" /\ pc'[t] = "closing"
      BY <1>7, <2>1, SaysEnd DEF SaysStep
    <3> QED BY <1>1, <3>1 DEF AuthorOf
  <2> QED BY <1>1, <1>6, <1>7, <2>1 DEF SaysStep
<1>8. ASSUME NEW t \in Turns, CallsStep(t) PROVE AuthorOf(m)'
  <2>1. CASE k > Len(transcript)
    <3>1. /\ m.by = t /\ m.round = round[t]
          /\ m.role = "assistant" \/ (m.role = "calls" /\ m.n <= MaxCalls)
      BY <1>8, <2>1, CallsEnd, LimitsAssumption
    <3>2. round'[t] = round[t] /\ pc'[t] = "dispatching"
      BY <1>8 DEF CallsStep
    <3> QED BY <1>1, <3>1, <3>2 DEF AuthorOf
  <2>2. k <= Len(transcript) \/ k > Len(transcript)
    BY <1>1
  <2>3. Keeps
    BY <1>8 DEF CallsStep
  <2> QED BY <1>6, <2>1, <2>2, <2>3
<1>9. ASSUME NEW t \in Turns, ResultsStep(t) PROVE AuthorOf(m)'
  <2>1. CASE k > Len(transcript)
    <3>1. m.by = t /\ m.round = round[t] /\ m.role = "tool"
      BY <1>9, <2>1, ResultsEnd
    <3>2. round'[t] = round[t] + 1 /\ pc'[t] \in {"asking", "asking_last"}
      BY <1>9 DEF ResultsStep
    <3> QED BY <1>1, <3>1, <3>2 DEF AuthorOf
  <2> QED BY <1>1, <1>6, <1>9, <2>1 DEF ResultsStep
<1>10. ASSUME NEW p \in 0..Len(transcript), DropStep(p) PROVE AuthorOf(m)'
  <2>1. CASE k + p \in 1..Len(transcript) /\ m = transcript[k + p]
    BY <1>4, <2>1
  <2>2. CASE /\ outside' = outside + 1 /\ m.by = Outside /\ m.role = "user"
             /\ m.n = outside'
    BY <1>1, <2>2 DEF AuthorOf
  <2> QED BY <1>10, <2>1, <2>2, DropEnd
<1> QED BY <1>5, <1>7, <1>8, <1>9, <1>10 DEF StepKind

(* A step as it looks from the sequence: where message k comes from.       *)
Old(k, p) == k <= Len(transcript) - p /\ k + p \in 1..Len(transcript)
             /\ transcript'[k] = transcript[k + p]

By(k, t) == transcript'[k].by = t

LEMMA Origin ==
  ASSUME TypeOK, transcript' \in Seq(Messages), StepKind
  PROVE  \E p \in 0..Len(transcript) :
           /\ Len(transcript) - p <= Len(transcript')
           /\ \A k \in 1..Len(transcript') :
                \/ Old(k, p)
                \/ /\ k > Len(transcript) - p
                   /\ \/ By(k, Outside)
                      \/ \E t \in Turns :
                           /\ p = 0 /\ By(k, t)
                           /\ pc'[t] \in Inside /\ pc[t] \in Inside \cup {"waiting"}
                           /\ \A u \in Turns \ {t} : pc'[u] = pc[u]
<1>1. /\ Len(transcript) \in Nat /\ Len(transcript') \in Nat
      /\ \A t \in Turns : restored[t] \in Nat
  BY Facts
<1>2. ASSUME NEW t \in Turns, NEW k \in 1..Len(transcript'), k <= Len(transcript), Keeps
      PROVE  Old(k, 0)
  BY <1>1, <1>2 DEF Old, Keeps
<1>3. ASSUME NEW t \in Turns, QuietStep(t)
      PROVE  Len(transcript) - 0 <= Len(transcript')
             /\ \A k \in 1..Len(transcript') : Old(k, 0)
  BY <1>1, <1>3 DEF QuietStep, Old
<1>4. ASSUME NEW t \in Turns, SaysStep(t) \/ CallsStep(t) \/ ResultsStep(t)
      PROVE  /\ Keeps /\ Len(transcript) <= Len(transcript')
             /\ \A k \in 1..Len(transcript') : k > Len(transcript) => By(k, t)
             /\ pc'[t] \in Inside /\ pc[t] \in Inside \cup {"waiting"}
             /\ \A u \in Turns \ {t} : pc'[u] = pc[u]
  <2>1. CASE SaysStep(t)
    BY <1>1, <2>1 DEF SaysStep, By, Message, Inside
  <2>2. CASE CallsStep(t)
    BY <1>1, <2>2, LimitsAssumption DEF CallsStep, By, Message, Inside
  <2>3. CASE ResultsStep(t)
    <3>1. ASSUME NEW k \in 1..Len(transcript'), k > Len(transcript) PROVE By(k, t)
      <4>1. k - Len(transcript) \in 1..restored[t]
            /\ k = Len(transcript) + (k - Len(transcript))
        BY <1>1, <2>3, <3>1 DEF ResultsStep
      <4>2. transcript'[k] = Message(t, "tool", k - Len(transcript))
        BY <2>3, <4>1 DEF ResultsStep
      <4> QED BY <4>2 DEF By, Message
    <3> QED BY <1>1, <2>3, <3>1 DEF ResultsStep, Inside
  <2> QED BY <1>4, <2>1, <2>2, <2>3
<1>5. ASSUME NEW p \in 0..Len(transcript), DropStep(p)
      PROVE  /\ Len(transcript) - p <= Len(transcript')
             /\ \A k \in 1..Len(transcript') :
                  \/ Old(k, p)
                  \/ k > Len(transcript) - p /\ By(k, Outside)
  BY <1>1, <1>5 DEF DropStep, Old, By, FromThread
<1>6. 0 \in 0..Len(transcript) /\ Len(transcript) - 0 = Len(transcript)
  BY <1>1
<1>7. CASE \E t \in Turns : QuietStep(t)
  BY <1>3, <1>6, <1>7
<1>8. ASSUME NEW t \in Turns, SaysStep(t) \/ CallsStep(t) \/ ResultsStep(t)
      PROVE  /\ Len(transcript) - 0 <= Len(transcript')
             /\ \A k \in 1..Len(transcript') :
                  \/ Old(k, 0)
                  \/ /\ k > Len(transcript) - 0
                     /\ By(k, t)
                     /\ pc'[t] \in Inside /\ pc[t] \in Inside \cup {"waiting"}
                     /\ \A u \in Turns \ {t} : pc'[u] = pc[u]
  BY <1>1, <1>2, <1>4, <1>6, <1>8
<1>9. CASE \E t \in Turns : SaysStep(t) \/ CallsStep(t) \/ ResultsStep(t)
  <2>1. PICK t \in Turns : SaysStep(t) \/ CallsStep(t) \/ ResultsStep(t)
    BY <1>9
  <2> QED BY <1>6, <1>8, <2>1
<1>10. CASE \E p \in 0..Len(transcript) : DropStep(p)
  BY <1>5, <1>10
<1> QED BY <1>7, <1>9, <1>10 DEF StepKind

(* Who is inside after a step and has written was inside before it.        *)
LEMMA WasInside ==
  ASSUME TypeOK, StepKind, NEW u \in Turns, pc'[u] \in Inside, pc[u] \notin Inside
  PROVE  pc[u] = "waiting"
<1>1. CASE \E t \in Turns : QuietStep(t)
  BY <1>1 DEF QuietStep, Inside
<1>2. CASE \E t \in Turns : SaysStep(t)
  BY <1>2 DEF SaysStep, Inside
<1>3. CASE \E t \in Turns : CallsStep(t)
  BY <1>3 DEF CallsStep, Inside
<1>4. CASE \E t \in Turns : ResultsStep(t)
  BY <1>4 DEF ResultsStep, Inside
<1>5. CASE \E p \in 0..Len(transcript) : DropStep(p)
  BY <1>5 DEF DropStep, Inside
<1> QED BY <1>1, <1>2, <1>3, <1>4, <1>5 DEF StepKind

LEMMA LastStep ==
  ASSUME TypeOK, AuthorInv, LastInv, LockInv', transcript' \in Seq(Messages), StepKind
  PROVE  LastInv' /\ (OneTurnAtATime => OneTurnAtATime')
<1>1. /\ Len(transcript) \in Nat /\ DOMAIN transcript = 1..Len(transcript)
      /\ \A i \in 1..Len(transcript) : IsMessage(transcript[i])
      /\ Len(transcript') \in Nat /\ DOMAIN transcript' = 1..Len(transcript')
      /\ \A i \in 1..Len(transcript') : IsMessage(transcript'[i])
      /\ \A t \in Turns : t # Outside
  BY Facts
<1>2. PICK p \in 0..Len(transcript) :
        /\ Len(transcript) - p <= Len(transcript')
        /\ \A k \in 1..Len(transcript') :
             \/ Old(k, p)
             \/ /\ k > Len(transcript) - p
                /\ \/ By(k, Outside)
                   \/ \E t \in Turns :
                        /\ p = 0 /\ By(k, t)
                        /\ pc'[t] \in Inside /\ pc[t] \in Inside \cup {"waiting"}
                        /\ \A u \in Turns \ {t} : pc'[u] = pc[u]
  BY Origin
<1>3. \A k \in 1..Len(transcript') : k <= Len(transcript) - p => Old(k, p)
  BY <1>2
<1>4. \A i \in 1..Len(transcript) :
        transcript[i].by # Outside =>
          /\ transcript[i].by \in Turns
          /\ pc[transcript[i].by] \notin {"new", "waiting"}
  BY <1>1 DEF AuthorInv, AuthorOf, IsMessage
<1>5. \A k \in 1..Len(transcript'), t \in Turns :
        Old(k, p) /\ By(k, t) /\ pc'[t] \in Inside => pc[t] \in Inside
  <2> SUFFICES ASSUME NEW k \in 1..Len(transcript'), NEW t \in Turns,
                      Old(k, p), By(k, t), pc'[t] \in Inside, pc[t] \notin Inside
               PROVE  FALSE
    OBVIOUS
  <2>1. pc[t] = "waiting"
    BY WasInside
  <2>2. transcript[k + p].by = t /\ k + p \in 1..Len(transcript)
    BY DEF Old, By
  <2> QED BY <1>1, <1>4, <2>1, <2>2
(* An older message before a newer one of a turn that is inside is its own,*)
(* or of a thread.                                                         *)
<1>6. ASSUME NEW i \in 1..Len(transcript'), NEW j \in 1..Len(transcript'), i < j,
             NEW t \in Turns, By(i, t), pc'[t] \in Inside
      PROVE  transcript'[j].by \in {t, Outside}
  <2>1. CASE Old(j, p)
    <3>1. Old(i, p)
      BY <1>2, <1>3, <1>6, <2>1 DEF Old
    <3>2. pc[t] \in Inside
      BY <1>5, <1>6, <3>1
    <3>3. /\ i + p \in DOMAIN transcript /\ j + p \in DOMAIN transcript
          /\ i + p < j + p /\ transcript[i + p].by = t
          /\ transcript'[j].by = transcript[j + p].by
      BY <1>1, <1>6, <2>1, <3>1 DEF Old, By
    <3> QED BY <1>1, <3>2, <3>3 DEF LastInv
  <2>2. CASE By(j, Outside)
    BY <2>2 DEF By
  <2>3. ASSUME NEW u \in Turns, By(j, u), pc'[u] \in Inside
        PROVE  transcript'[j].by \in {t, Outside}
    <3>1. u = t
      BY <1>6, <2>3 DEF LockInv
    <3> QED BY <2>3, <3>1 DEF By
  <2> QED BY <1>2, <2>1, <2>2, <2>3
<1>7. LastInv'
  <2> SUFFICES ASSUME NEW i \in 1..Len(transcript'), NEW j \in 1..Len(transcript'), i < j,
                      transcript'[i].by # Outside, pc'[transcript'[i].by] \in Inside
               PROVE  transcript'[j].by \in {transcript'[i].by, Outside}
    BY <1>1 DEF LastInv
  <2>1. transcript'[i].by \in Turns
    BY <1>1 DEF IsMessage
  <2> QED BY <1>6, <2>1 DEF By
<1>8. ASSUME OneTurnAtATime PROVE OneTurnAtATime'
  <2> SUFFICES ASSUME NEW i \in 1..Len(transcript'), NEW j \in 1..Len(transcript'),
                      NEW k \in 1..Len(transcript'), i < j, j < k,
                      transcript'[i].by = transcript'[k].by,
                      transcript'[i].by # Outside
               PROVE  transcript'[j].by \in {transcript'[i].by, Outside}
    BY <1>1 DEF OneTurnAtATime
  <2> DEFINE t == transcript'[i].by
  <2>1. t \in Turns /\ By(i, t) /\ By(k, t)
    BY <1>1 DEF IsMessage, By
  <2>2. CASE pc'[t] \in Inside
    BY <1>6, <2>1, <2>2
  <2>3. CASE pc'[t] \notin Inside
    <3>1. Old(k, p)
      <4>1. ~By(k, Outside)
        BY <1>1, <2>1 DEF By
      <4>2. \A u \in Turns : By(k, u) => u = t
        BY <2>1 DEF By
      <4> HIDE DEF t
      <4> QED BY <1>2, <2>1, <2>3, <4>1, <4>2
    <3>2. Old(i, p) /\ Old(j, p)
      BY <1>2, <1>3, <3>1 DEF Old
    <3>3. /\ i + p \in DOMAIN transcript /\ j + p \in DOMAIN transcript
          /\ k + p \in DOMAIN transcript /\ i + p < j + p /\ j + p < k + p
          /\ transcript'[i] = transcript[i + p] /\ transcript'[j] = transcript[j + p]
          /\ transcript'[k] = transcript[k + p]
      BY <1>1, <3>1, <3>2 DEF Old
    <3> QED BY <1>8, <3>3 DEF OneTurnAtATime
  <2> QED BY <2>2, <2>3
<1> QED BY <1>7, <1>8

LEMMA ReplyStep ==
  ASSUME TypeOK, ReplyInv, LockInv, LockInv', transcript' \in Seq(Messages), StepKind
  PROVE  ReplyInv'
<1>1. /\ Len(transcript) \in Nat /\ Len(transcript') \in Nat
      /\ transcript \in Seq(Messages)
  BY Facts
<1>2. \A q \in Seq(Messages) : q # <<>> <=> Len(q) # 0
  BY EmptySeq
<1> SUFFICES ASSUME NEW t \in Turns, pc'[t] = "closing"
             PROVE  /\ Len(transcript') # 0
                    /\ \/ By(Len(transcript'), Outside)
                       \/ /\ By(Len(transcript'), t)
                          /\ transcript'[Len(transcript')].role = "assistant"
  BY <1>2 DEF ReplyInv, By
<1>3. \A u \in Turns : pc'[u] \in Inside => u = t
  BY OneInside DEF LockInv, Inside
<1>4. CASE \E u \in Turns : QuietStep(u)
  <2>1. pc[t] = "closing" /\ transcript' = transcript
    BY <1>4 DEF QuietStep
  <2> QED BY <1>1, <1>2, <2>1 DEF ReplyInv, By
<1>5. ASSUME NEW u \in Turns, SaysStep(u)
      PROVE  /\ Len(transcript') # 0 /\ By(Len(transcript'), t)
             /\ transcript'[Len(transcript')].role = "assistant"
  <2>1. u = t
    BY <1>3, <1>5 DEF SaysStep, Inside
  <2>2. /\ transcript'[Len(transcript) + 1] = Message(t, "assistant", 0)
        /\ Len(transcript') = Len(transcript) + 1
    BY <1>5, <2>1 DEF SaysStep
  <2> QED BY <1>1, <2>2, MessageFields DEF By
<1>6. ASSUME NEW u \in Turns, CallsStep(u) \/ ResultsStep(u) PROVE FALSE
  <2>1. pc'[u] \in {"dispatching", "asking", "asking_last"}
    BY <1>6 DEF CallsStep, ResultsStep
  <2> QED BY <1>3, <2>1 DEF Inside
<1>7. ASSUME NEW p \in 0..Len(transcript), DropStep(p)
      PROVE  Len(transcript') # 0 /\ By(Len(transcript'), Outside)
  <2>1. CASE UNCHANGED pc
    BY <1>1, <1>7, <2>1 DEF DropStep, By, FromThread
  <2>2. ASSUME NEW u \in Turns, pc[u] = "closing", pc'[u] = "answered",
               \A v \in Turns \ {u} : pc'[v] = pc[v]
        PROVE  FALSE
    <3>1. t # u /\ pc[t] = "closing"
      BY <2>2
    <3> QED BY <2>2, <3>1, OneInside DEF Inside
  <2> QED BY <1>7, <2>1, <2>2 DEF DropStep
<1> QED BY <1>4, <1>5, <1>6, <1>7 DEF StepKind

-----------------------------------------------------------------------------
(* The calls of a round.                                                   *)
IsCalls(q, k, t, r) == q[k].role = "calls" /\ q[k].by = t /\ q[k].round = r

LEMMA PendingStep ==
  ASSUME TypeOK, AuthorInv, PendingInv, LockInv, LockInv',
         transcript' \in Seq(Messages), StepKind
  PROVE  PendingInv'
<1>1. /\ Len(transcript) \in Nat /\ DOMAIN transcript = 1..Len(transcript)
      /\ Len(transcript') \in Nat /\ DOMAIN transcript' = 1..Len(transcript')
      /\ \A t \in Turns : t # Outside
      /\ outside \in Nat
  BY Facts
<1> SUFFICES ASSUME NEW t \in Turns, pc'[t] = "dispatching"
             PROVE  /\ \A k \in 1..Len(transcript') :
                         IsCalls(transcript', k, t, round'[t]) =>
                           /\ transcript'[k].n = restored'[t]
                           /\ \A j \in (k + 1)..Len(transcript') :
                                transcript'[j].by = Outside
                    /\ \/ \E k \in 1..Len(transcript') :
                            IsCalls(transcript', k, t, round'[t])
                       \/ /\ outside' > 0
                          /\ \A k \in 1..Len(transcript') : transcript'[k].by = Outside
  BY <1>1 DEF PendingInv, IsCalls
<1>2. \A u \in Turns : pc'[u] \in Inside => u = t
  BY OneInside DEF LockInv, Inside
<1>3. pc[t] = "dispatching" =>
        /\ \A k \in 1..Len(transcript) :
             IsCalls(transcript, k, t, round[t]) =>
               /\ transcript[k].n = restored[t]
               /\ \A j \in (k + 1)..Len(transcript) : transcript[j].by = Outside
        /\ \/ \E k \in 1..Len(transcript) : IsCalls(transcript, k, t, round[t])
           \/ /\ outside > 0
              /\ \A k \in 1..Len(transcript) : transcript[k].by = Outside
  BY <1>1 DEF PendingInv, IsCalls
<1>4. CASE \E u \in Turns : QuietStep(u)
  <2>1. pc[t] = "dispatching" /\ round'[t] = round[t]
        /\ UNCHANGED <<transcript, restored, outside>>
    BY <1>4 DEF QuietStep
  <2> QED BY <1>3, <2>1
<1>5. ASSUME NEW u \in Turns, SaysStep(u) \/ ResultsStep(u) PROVE FALSE
  <2>1. pc'[u] \in {"asking", "asking_last", "closing"}
    BY <1>5 DEF SaysStep, ResultsStep
  <2> QED BY <1>2, <2>1 DEF Inside
<1>6. ASSUME NEW u \in Turns, CallsStep(u)
      PROVE  /\ \A k \in 1..Len(transcript') :
                  IsCalls(transcript', k, t, round'[t]) =>
                    /\ transcript'[k].n = restored'[t]
                    /\ \A j \in (k + 1)..Len(transcript') : transcript'[j].by = Outside
             /\ \E k \in 1..Len(transcript') : IsCalls(transcript', k, t, round'[t])
  <2>1. u = t
    BY <1>2, <1>6 DEF CallsStep, Inside
  <2>2. round'[t] = round[t] /\ pc[t] = "chatting" /\ Keeps
        /\ Len(transcript') > Len(transcript)
    <3>1. /\ round'[t] = round[t] /\ pc[t] = "chatting" /\ Keeps
          /\ Len(transcript') \in {Len(transcript) + 1, Len(transcript) + 2}
      BY <1>6, <2>1 DEF CallsStep
    <3>2. Len(transcript) \in Nat
          /\ Len(transcript') \in {Len(transcript) + 1, Len(transcript) + 2}
      BY <1>1, <3>1
    <3>3. Len(transcript') > Len(transcript)
      BY ONLY <3>2
    <3> QED BY <3>1, <3>3
  <2>3. Len(transcript') \in 1..Len(transcript')
    BY <1>1, <2>2
  <2>4. ASSUME NEW k \in 1..Len(transcript'), k > Len(transcript)
        PROVE  /\ k = Len(transcript') => /\ IsCalls(transcript', k, t, round'[t])
                                          /\ transcript'[k].n = restored'[t]
               /\ k # Len(transcript') => ~IsCalls(transcript', k, t, round'[t])
    BY <1>6, <2>1, <2>2, <2>4, CallsEnd DEF IsCalls
  <2>5. IsCalls(transcript', Len(transcript'), t, round'[t])
        /\ transcript'[Len(transcript')].n = restored'[t]
    BY <2>2, <2>3, <2>4
  <2>6. ASSUME NEW k \in 1..Len(transcript'), IsCalls(transcript', k, t, round'[t])
        PROVE  k = Len(transcript')
    <3>1. CASE k <= Len(transcript)
      <4>1. k \in 1..Len(transcript) /\ transcript'[k] = transcript[k]
        BY <1>1, <2>2, <3>1 DEF Keeps
      <4>2. k \in DOMAIN transcript /\ IsCalls(transcript, k, t, round[t])
        BY <1>1, <2>2, <2>6, <4>1 DEF IsCalls
      <4> QED BY <1>1, <2>2, <4>2 DEF AuthorInv, AuthorOf, IsCalls
    <3>2. k <= Len(transcript) \/ k > Len(transcript)
      BY <1>1
    <3> QED BY <2>4, <2>6, <3>1, <3>2
  <2>7. \A j \in (Len(transcript') + 1)..Len(transcript') : FALSE
    BY <1>1
  <2> QED BY <2>3, <2>5, <2>6, <2>7
<1>7. ASSUME NEW p \in 0..Len(transcript), DropStep(p)
      PROVE  /\ \A k \in 1..Len(transcript') :
                  IsCalls(transcript', k, t, round'[t]) =>
                    /\ transcript'[k].n = restored'[t]
                    /\ \A j \in (k + 1)..Len(transcript') : transcript'[j].by = Outside
             /\ \/ \E k \in 1..Len(transcript') : IsCalls(transcript', k, t, round'[t])
                \/ /\ outside' > 0
                   /\ \A k \in 1..Len(transcript') : transcript'[k].by = Outside
  <2>1. ASSUME NEW u \in Turns, pc[u] = "closing", pc'[u] = "answered",
               \A v \in Turns \ {u} : pc'[v] = pc[v]
        PROVE  FALSE
    <3>1. t # u /\ pc[t] = "dispatching"
      BY <2>1
    <3> QED BY <2>1, <3>1, OneInside DEF Inside
  <2>2. /\ pc[t] = "dispatching" /\ round'[t] = round[t] /\ restored'[t] = restored[t]
        /\ outside' = outside + 1
        /\ Len(transcript') = Len(transcript) - p + 1
        /\ transcript'[Len(transcript')] = FromThread
        /\ \A i \in 1..(Len(transcript) - p) : transcript'[i] = transcript[i + p]
    BY <1>7, <2>1 DEF DropStep
  <2>3. /\ transcript'[Len(transcript')].by = Outside
        /\ transcript'[Len(transcript')].role = "user"
    BY <2>2 DEF FromThread
  <2>4. ASSUME NEW k \in 1..Len(transcript'), IsCalls(transcript', k, t, round'[t])
        PROVE  /\ transcript'[k].n = restored'[t]
               /\ \A j \in (k + 1)..Len(transcript') : transcript'[j].by = Outside
    <3>1. k <= Len(transcript) - p /\ k + p \in 1..Len(transcript)
          /\ transcript'[k] = transcript[k + p]
      BY <1>1, <2>2, <2>3, <2>4 DEF IsCalls
    <3>2. IsCalls(transcript, k + p, t, round[t])
      BY <2>2, <2>4, <3>1 DEF IsCalls
    <3>3. transcript[k + p].n = restored[t]
          /\ \A j \in (k + p + 1)..Len(transcript) : transcript[j].by = Outside
      BY <1>3, <2>2, <3>1, <3>2
    <3>4. ASSUME NEW j \in (k + 1)..Len(transcript') PROVE transcript'[j].by = Outside
      <4>1. CASE j = Len(transcript')
        BY <2>3, <4>1
      <4>2. CASE j # Len(transcript')
        <5>1. j \in 1..(Len(transcript) - p) /\ j + p \in (k + p + 1)..Len(transcript)
          BY <1>1, <2>2, <3>1, <4>2
        <5> QED BY <2>2, <3>3, <5>1
      <4> QED BY <4>1, <4>2
    <3> QED BY <2>2, <3>1, <3>3, <3>4
  <2>5. \/ \E k \in 1..Len(transcript') : IsCalls(transcript', k, t, round'[t])
        \/ /\ outside' > 0
           /\ \A k \in 1..Len(transcript') : transcript'[k].by = Outside
    <3>1. ASSUME NEW c \in 0..Len(transcript), c <= p,
                 \A k \in (c + 1)..Len(transcript) : transcript[k].by = Outside
          PROVE  \A k \in 1..Len(transcript') : transcript'[k].by = Outside
      <4> SUFFICES ASSUME NEW k \in 1..Len(transcript'), k # Len(transcript')
                   PROVE  transcript'[k].by = Outside
        BY <2>3
      <4>1. k \in 1..(Len(transcript) - p)
        BY <1>1, <2>2
      <4>2. k + p \in (c + 1)..Len(transcript)
        <5>1. Len(transcript) \in Nat /\ c <= p
          BY <1>1, <3>1
        <5> QED BY <4>1, <5>1
      <4> QED BY <2>2, <3>1, <4>1, <4>2
    <3>2. ASSUME NEW k \in 1..Len(transcript), IsCalls(transcript, k, t, round[t]), k > p
          PROVE  \E i \in 1..Len(transcript') : IsCalls(transcript', i, t, round'[t])
      <4>1. k - p \in 1..Len(transcript') /\ k - p \in 1..(Len(transcript) - p)
            /\ (k - p) + p = k
        BY <1>1, <2>2, <3>2
      <4>2. IsCalls(transcript', k - p, t, round'[t])
        BY <2>2, <3>2, <4>1 DEF IsCalls
      <4> QED BY <4>1, <4>2
    <3>3. ASSUME NEW k \in 1..Len(transcript), IsCalls(transcript, k, t, round[t]), ~(k > p)
          PROVE  \A i \in 1..Len(transcript') : transcript'[i].by = Outside
      <4>1. \A j \in (k + 1)..Len(transcript) : transcript[j].by = Outside
        BY <1>3, <2>2, <3>3
      <4>2. k \in 0..Len(transcript) /\ k <= p
        BY <1>1, <3>3
      <4> QED BY <3>1, <4>1, <4>2
    <3>4. (\A k \in 1..Len(transcript) : transcript[k].by = Outside)
            => \A k \in 1..Len(transcript') : transcript'[k].by = Outside
      <4>1. 0 \in 0..Len(transcript) /\ 0 <= p /\ 0 + 1 = 1
        BY <1>1
      <4> QED BY <3>1, <4>1
    <3>5. outside' > 0
      BY <1>1, <2>2
    <3> QED BY <1>3, <2>2, <3>2, <3>3, <3>4, <3>5
  <2> QED BY <2>4, <2>5
<1> QED BY <1>4, <1>5, <1>6, <1>7 DEF StepKind

(* Taking the first messages away does not change what led to a result.    *)
LEMMA LedShift ==
  ASSUME NEW q, NEW r, NEW p \in Nat, NEW k \in Nat \ {0},
         \A i \in 1..k : r[i] = q[i + p],
         q[k + p].n \in Nat,
         NEW c \in 0..(k + p - 1), Led(q, k + p, c)
  PROVE  \E d \in 0..(k - 1) : d = (IF c > p THEN c - p ELSE 0) /\ Led(r, k, d)
<1> DEFINE d == IF c > p THEN c - p ELSE 0
           n == q[k + p].n
<1>1. d \in 0..(k - 1) /\ k \in 1..k
  OBVIOUS
<1>2. r[k] = q[k + p] /\ r[k].n = n
  BY <1>1
<1>3. /\ n >= 1
      /\ c # 0 => /\ q[c].role = "calls" /\ q[c].by = q[k + p].by
                  /\ q[c].round = q[k + p].round /\ n <= q[c].n /\ c <= (k + p) - n
      /\ \A j \in (c + 1)..(k + p) :
           IF j > (k + p) - n
           THEN /\ q[j].role = "tool" /\ q[j].by = q[k + p].by
                /\ q[j].round = q[k + p].round /\ q[j].n = n - ((k + p) - j)
           ELSE q[j].by = Outside
  BY DEF Led
<1>4. d # 0 => /\ r[d].role = "calls" /\ r[d].by = r[k].by /\ r[d].round = r[k].round
               /\ n <= r[d].n /\ d <= k - n
  <2> SUFFICES ASSUME d # 0
               PROVE  /\ r[d].role = "calls" /\ r[d].by = r[k].by /\ r[d].round = r[k].round
                      /\ n <= r[d].n /\ d <= k - n
    OBVIOUS
  <2>1. c > p /\ d = c - p /\ d \in 1..k /\ d + p = c /\ c # 0
    OBVIOUS
  <2>2. r[d] = q[c]
    BY <2>1
  <2>3. n <= q[c].n /\ c <= (k + p) - n
    BY <1>3, <2>1
  <2>4. d <= k - n
    BY <2>1, <2>3
  <2> HIDE DEF d, n
  <2> QED BY <1>2, <1>3, <2>1, <2>2, <2>3, <2>4
<1>5. ASSUME NEW j \in (d + 1)..k
      PROVE  IF j > k - n
             THEN /\ r[j].role = "tool" /\ r[j].by = r[k].by /\ r[j].round = r[k].round
                  /\ r[j].n = n - (k - j)
             ELSE r[j].by = Outside
  <2>1. j \in 1..k /\ j + p \in (c + 1)..(k + p) /\ (j + p > (k + p) - n <=> j > k - n)
        /\ (k + p) - (j + p) = k - j
    OBVIOUS
  <2>2. r[j] = q[j + p]
    BY <2>1
  <2> HIDE DEF d, n
  <2> QED BY <1>2, <1>3, <2>1, <2>2
<1> HIDE DEF d, n
<1>6. Led(r, k, d)
  BY <1>2, <1>3, <1>4, <1>5 DEF Led
<1> QED BY <1>1, <1>6 DEF d

LEMMA LedStep ==
  ASSUME TypeOK, LedInv, PendingInv, transcript' \in Seq(Messages), StepKind
  PROVE  LedInv'
<1>1. /\ Len(transcript) \in Nat /\ DOMAIN transcript = 1..Len(transcript)
      /\ \A i \in 1..Len(transcript) : IsMessage(transcript[i])
      /\ Len(transcript') \in Nat /\ DOMAIN transcript' = 1..Len(transcript')
      /\ \A t \in Turns : t # Outside /\ restored[t] \in Nat
  BY Facts
<1> SUFFICES ASSUME NEW k \in 1..Len(transcript'), transcript'[k].role = "tool"
             PROVE  \E c \in 0..(k - 1) : Led(transcript', k, c)
  BY <1>1 DEF LedInv, LedIn
<1>2. ASSUME NEW p \in 0..Len(transcript), k <= Len(transcript) - p,
             \A i \in 1..(Len(transcript) - p) : transcript'[i] = transcript[i + p]
      PROVE  \E c \in 0..(k - 1) : Led(transcript', k, c)
  <2>1. k + p \in 1..Len(transcript) /\ k \in 1..(Len(transcript) - p)
        /\ p \in Nat /\ k \in Nat \ {0}
        /\ \A i \in 1..k : i \in 1..(Len(transcript) - p)
    BY <1>1, <1>2
  <2>2. transcript[k + p].role = "tool" /\ transcript[k + p].n \in Nat
    BY <1>1, <1>2, <2>1 DEF IsMessage
  <2>3. PICK c \in 0..(k + p - 1) : Led(transcript, k + p, c)
    BY <1>1, <2>1, <2>2 DEF LedInv, LedIn
  <2>4. \A i \in 1..k : transcript'[i] = transcript[i + p]
    BY <1>2, <2>1
  <2> QED BY <2>1, <2>2, <2>3, <2>4, LedShift
<1>3. ASSUME Keeps, k <= Len(transcript) PROVE \E c \in 0..(k - 1) : Led(transcript', k, c)
  <2>1. 0 \in 0..Len(transcript) /\ k <= Len(transcript) - 0
        /\ \A i \in 1..(Len(transcript) - 0) : transcript'[i] = transcript[i + 0]
    BY <1>1, <1>3 DEF Keeps
  <2> QED BY <1>2, <2>1
<1>4. CASE \E t \in Turns : QuietStep(t)
  BY <1>1, <1>3, <1>4 DEF QuietStep, Keeps
<1>5. ASSUME NEW t \in Turns, SaysStep(t) \/ CallsStep(t)
      PROVE  \E c \in 0..(k - 1) : Led(transcript', k, c)
  <2>1. Keeps
    BY <1>5 DEF SaysStep, CallsStep
  <2>2. ASSUME NEW j \in 1..Len(transcript'), j > Len(transcript)
        PROVE  transcript'[j].role # "tool"
    <3>1. CASE SaysStep(t)
      BY <2>2, <3>1, SaysEnd
    <3>2. CASE CallsStep(t)
      BY <2>2, <3>2, CallsEnd
    <3> QED BY <1>5, <3>1, <3>2
  <2> QED BY <1>1, <1>3, <2>1, <2>2
<1>6. ASSUME NEW t \in Turns, ResultsStep(t)
      PROVE  \E c \in 0..(k - 1) : Led(transcript', k, c)
  <2> DEFINE L == Len(transcript)
  <2>1. Keeps /\ pc[t] = "dispatching" /\ Len(transcript') = L + restored[t]
        /\ \A i \in 1..restored[t] : transcript'[L + i] = Message(t, "tool", i)
    BY <1>6 DEF ResultsStep
  <2>2. CASE k <= L
    BY <1>3, <2>1, <2>2
  <2>3. CASE k > L
    <3> DEFINE i == k - L
    <3>1. i \in 1..restored[t] /\ k = L + i /\ k - i = L
      BY <1>1, <2>1, <2>3
    <3>2. \A a \in 1..restored[t] :
            /\ transcript'[L + a].role = "tool" /\ transcript'[L + a].by = t
            /\ transcript'[L + a].round = round[t] /\ transcript'[L + a].n = a
      BY <2>1, MessageFields
    <3>3. PICK c \in 0..L :
            /\ c # 0 => IsCalls(transcript, c, t, round[t]) /\ transcript[c].n = restored[t]
            /\ \A j \in (c + 1)..L : transcript[j].by = Outside
      <4>1. CASE \E a \in 1..L : IsCalls(transcript, a, t, round[t])
        <5>1. PICK a \in 1..L : IsCalls(transcript, a, t, round[t])
          BY <4>1
        <5>2. /\ transcript[a].n = restored[t]
              /\ \A j \in (a + 1)..L : transcript[j].by = Outside
          BY <1>1, <2>1, <5>1 DEF PendingInv, IsCalls
        <5> QED BY <5>1, <5>2
      <4>2. CASE \A j \in 1..L : transcript[j].by = Outside
        <5>1. 0 \in 0..L /\ 0 + 1 = 1
          BY <1>1
        <5> QED BY <4>2, <5>1
      <4> QED BY <1>1, <2>1, <4>1, <4>2 DEF PendingInv, IsCalls
    <3>4. \A j \in 1..L : transcript'[j] = transcript[j]
      BY <2>1 DEF Keeps
    <3> HIDE DEF i, L
    <3>5. /\ L \in Nat /\ i \in Nat /\ i >= 1 /\ i <= restored[t] /\ c \in 0..(k - 1)
          /\ transcript'[k].role = "tool" /\ transcript'[k].by = t
          /\ transcript'[k].round = round[t] /\ transcript'[k].n = i
      BY <1>1, <3>1, <3>2, <3>3 DEF L
    <3>6. ASSUME c # 0
          PROVE  /\ transcript'[c].role = "calls" /\ transcript'[c].by = t
                 /\ transcript'[c].round = round[t] /\ transcript'[c].n = restored[t]
                 /\ c <= k - i
      <4>1. c \in 1..L /\ c <= k - i
        BY <3>1, <3>3, <3>5, <3>6
      <4> QED BY <3>3, <3>4, <3>6, <4>1 DEF IsCalls
    <3>7. ASSUME NEW j \in (c + 1)..k, j > k - i
          PROVE  /\ transcript'[j].role = "tool" /\ transcript'[j].by = t
                 /\ transcript'[j].round = round[t] /\ transcript'[j].n = i - (k - j)
      <4>1. j - L \in 1..restored[t] /\ L + (j - L) = j /\ j - L = i - (k - j)
        BY <1>1, <3>1, <3>5, <3>7
      <4> QED BY <3>2, <4>1
    <3>8. ASSUME NEW j \in (c + 1)..k, ~(j > k - i) PROVE transcript'[j].by = Outside
      <4>1. j \in (c + 1)..L /\ j \in 1..L
        BY <3>1, <3>3, <3>5, <3>8
      <4> QED BY <3>3, <3>4, <4>1
    <3>9. Led(transcript', k, c)
      <4>1. c = 0 \/ c # 0
        OBVIOUS
      <4> QED BY <3>5, <3>6, <3>7, <3>8, <4>1 DEF Led
    <3> QED BY <3>5, <3>9
  <2> QED BY <1>1, <2>2, <2>3
<1>7. ASSUME NEW p \in 0..Len(transcript), DropStep(p)
      PROVE  \E c \in 0..(k - 1) : Led(transcript', k, c)
  <2>1. CASE k <= Len(transcript) - p
    BY <1>2, <1>7, <2>1 DEF DropStep
  <2>2. k <= Len(transcript) - p
    BY <1>7, DropEnd
  <2> QED BY <2>1, <2>2
<1> QED BY <1>4, <1>5, <1>6, <1>7 DEF StepKind

-----------------------------------------------------------------------------
(* A step drops p messages and appends new ones: none of these was there,  *)
(* no two of them are the same, and one of a thread has the next number.   *)
Moves(p) ==
  /\ Len(transcript) - p <= Len(transcript')
  /\ p > 0 => Len(transcript') >= MaxMessages
  /\ \A k \in 1..(Len(transcript) - p) : transcript'[k] = transcript[k + p]
  /\ \A k \in 1..Len(transcript') :
       k > Len(transcript) - p =>
         /\ \A a \in 1..Len(transcript) : transcript'[k] # transcript[a]
         /\ \A l \in 1..Len(transcript') :
              l > Len(transcript) - p /\ transcript'[k] = transcript'[l] => k = l
         /\ By(k, Outside) =>
              k = Len(transcript) - p + 1 /\ transcript'[k].n = outside + 1

LEMMA StepMoves ==
  ASSUME TypeOK, AuthorInv, transcript' \in Seq(Messages), StepKind
  PROVE  \E p \in 0..Len(transcript) : Moves(p)
<1>1. /\ Len(transcript) \in Nat /\ DOMAIN transcript = 1..Len(transcript)
      /\ \A i \in 1..Len(transcript) : IsMessage(transcript[i])
      /\ Len(transcript') \in Nat /\ DOMAIN transcript' = 1..Len(transcript')
      /\ \A t \in Turns : round[t] \in Nat /\ restored[t] \in Nat /\ t # Outside
      /\ outside \in Nat
  BY Facts
<1>2. \A a \in 1..Len(transcript) :
        IsMessage(transcript[a]) /\ AuthorOf(transcript[a])
  BY <1>1 DEF AuthorInv
<1>3. ASSUME Keeps, Len(transcript) <= Len(transcript'),
             NEW t \in Turns,
             \A k \in 1..Len(transcript') : k > Len(transcript) =>
               /\ \A a \in 1..Len(transcript) : transcript'[k] # transcript[a]
               /\ \A l \in 1..Len(transcript') :
                    l > Len(transcript) /\ transcript'[k] = transcript'[l] => k = l
               /\ By(k, t)
      PROVE  Moves(0)
  <2>1. /\ Len(transcript) - 0 = Len(transcript) /\ ~(0 > 0) /\ t # Outside
        /\ \A k \in 1..Len(transcript) : k + 0 = k
    BY <1>1
  <2>2. \A k \in 1..Len(transcript') : By(k, t) => ~By(k, Outside)
    BY <2>1 DEF By
  <2>3. \A k \in 1..Len(transcript) : transcript'[k] = transcript[k + 0]
    BY <1>3, <2>1 DEF Keeps
  <2> QED BY <1>3, <2>1, <2>2, <2>3 DEF Moves
<1>4. 0 \in 0..Len(transcript)
  BY <1>1
<1>5. ASSUME NEW t \in Turns, QuietStep(t)
      PROVE  \E p \in 0..Len(transcript) : Moves(p)
  <2>1. transcript' = transcript
    BY <1>5 DEF QuietStep
  <2>2. Keeps /\ Len(transcript) <= Len(transcript')
        /\ \A k \in 1..Len(transcript') : ~(k > Len(transcript))
    BY <1>1, <2>1 DEF Keeps
  <2> QED BY <1>3, <1>4, <2>2
<1>6. ASSUME NEW t \in Turns, SaysStep(t)
      PROVE  \E p \in 0..Len(transcript) : Moves(p)
  <2>1. Keeps /\ Len(transcript') = Len(transcript) + 1
    BY <1>6 DEF SaysStep
  <2>2. ASSUME NEW k \in 1..Len(transcript'), k > Len(transcript)
        PROVE  /\ \A a \in 1..Len(transcript) : transcript'[k] # transcript[a]
               /\ k = Len(transcript') /\ By(k, t)
    <3>1. /\ k = Len(transcript')
          /\ transcript'[k].by = t /\ transcript'[k].round = round[t]
          /\ \/ transcript'[k].role = "user" /\ pc[t] = "waiting"
             \/ /\ transcript'[k].role = "assistant"
                /\ pc[t] \in {"chatting", "chatting_last"}
      BY <1>6, <2>2, SaysEnd
    <3>2. ASSUME NEW a \in 1..Len(transcript), transcript'[k] = transcript[a] PROVE FALSE
      BY <1>1, <1>2, <3>1, <3>2 DEF AuthorOf
    <3> QED BY <3>1, <3>2 DEF By
  <2>3. Len(transcript) <= Len(transcript')
    BY <1>1, <2>1
  <2> QED BY <1>3, <1>4, <2>1, <2>2, <2>3
<1>7. ASSUME NEW t \in Turns, CallsStep(t)
      PROVE  \E p \in 0..Len(transcript) : Moves(p)
  <2>1. /\ Keeps /\ pc[t] = "chatting"
        /\ Len(transcript') \in {Len(transcript) + 1, Len(transcript) + 2}
    BY <1>7 DEF CallsStep
  <2>2. ASSUME NEW k \in 1..Len(transcript'), k > Len(transcript)
        PROVE  /\ transcript'[k].by = t /\ transcript'[k].round = round[t]
               /\ \/ k = Len(transcript') /\ transcript'[k].role = "calls"
                  \/ k # Len(transcript') /\ transcript'[k].role = "assistant"
    BY <1>7, <2>2, CallsEnd
  <2>3. ASSUME NEW k \in 1..Len(transcript'), k > Len(transcript),
               NEW a \in 1..Len(transcript), transcript'[k] = transcript[a]
        PROVE  FALSE
    <3>1. /\ transcript[a].by = t /\ transcript[a].round = round[t]
          /\ transcript[a].role \in {"calls", "assistant"}
      BY <2>2, <2>3
    <3> QED BY <1>1, <1>2, <2>1, <3>1 DEF AuthorOf
  <2>4. ASSUME NEW k \in 1..Len(transcript'), k > Len(transcript),
               NEW l \in 1..Len(transcript'), l > Len(transcript),
               transcript'[k] = transcript'[l]
        PROVE  k = l
    <3>1. k = Len(transcript') <=> l = Len(transcript')
      BY <2>2, <2>4
    <3>2. /\ Len(transcript) \in Nat
          /\ Len(transcript') \in {Len(transcript) + 1, Len(transcript) + 2}
      BY <1>1, <2>1
    <3> QED BY <2>4, <3>1, <3>2
  <2>5. Len(transcript) <= Len(transcript')
    <3>1. /\ Len(transcript) \in Nat
          /\ Len(transcript') \in {Len(transcript) + 1, Len(transcript) + 2}
      BY <1>1, <2>1
    <3> QED BY ONLY <3>1
  <2>6. \A k \in 1..Len(transcript') : k > Len(transcript) => By(k, t)
    BY <2>2 DEF By
  <2> QED BY <1>3, <1>4, <2>1, <2>3, <2>4, <2>5, <2>6
<1>8. ASSUME NEW t \in Turns, ResultsStep(t)
      PROVE  \E p \in 0..Len(transcript) : Moves(p)
  <2>1. Keeps /\ Len(transcript') = Len(transcript) + restored[t]
    BY <1>8 DEF ResultsStep
  <2>2. ASSUME NEW k \in 1..Len(transcript'), k > Len(transcript)
        PROVE  /\ transcript'[k].by = t /\ transcript'[k].round = round[t]
               /\ transcript'[k].role = "tool" /\ transcript'[k].n = k - Len(transcript)
    BY <1>8, <2>2, ResultsEnd
  <2>3. ASSUME NEW k \in 1..Len(transcript'), k > Len(transcript),
               NEW a \in 1..Len(transcript), transcript'[k] = transcript[a]
        PROVE  FALSE
    <3>1. /\ transcript[a].by = t /\ transcript[a].round = round[t]
          /\ transcript[a].role = "tool"
      BY <2>2, <2>3
    <3> QED BY <1>1, <1>2, <3>1 DEF AuthorOf
  <2>4. ASSUME NEW k \in 1..Len(transcript'), k > Len(transcript),
               NEW l \in 1..Len(transcript'), l > Len(transcript),
               transcript'[k] = transcript'[l]
        PROVE  k = l
    <3>1. k - Len(transcript) = l - Len(transcript) /\ Len(transcript) \in Nat
      BY <1>1, <2>2, <2>4
    <3> QED BY <3>1
  <2>5. Len(transcript) <= Len(transcript')
    <3>1. Len(transcript) \in Nat /\ restored[t] \in Nat
      BY <1>1
    <3> QED BY <2>1, <3>1
  <2>6. \A k \in 1..Len(transcript') : k > Len(transcript) => By(k, t)
    BY <2>2 DEF By
  <2> QED BY <1>3, <1>4, <2>1, <2>3, <2>4, <2>5, <2>6
<1>9. ASSUME NEW p \in 0..Len(transcript), DropStep(p) PROVE Moves(p)
  <2>1. /\ \A i \in 1..(Len(transcript) - p) : transcript'[i] = transcript[i + p]
        /\ p > 0 => Len(transcript') >= MaxMessages
        /\ Len(transcript') \in {Len(transcript) - p, Len(transcript) - p + 1}
    BY <1>9 DEF DropStep
  <2>2. ASSUME NEW k \in 1..Len(transcript'), k > Len(transcript) - p
        PROVE  /\ k = Len(transcript) - p + 1
               /\ transcript'[k].by = Outside /\ transcript'[k].n = outside + 1
    <3>1. Len(transcript) \in Nat
      BY <1>1
    <3>2. ~(k <= Len(transcript) - p)
      BY <2>2, <3>1
    <3> QED BY <1>9, <3>2, DropEnd
  <2>3. ASSUME NEW k \in 1..Len(transcript'), k > Len(transcript) - p,
               NEW a \in 1..Len(transcript), transcript'[k] = transcript[a]
        PROVE  FALSE
    <3>1. transcript[a].by = Outside /\ transcript[a].n = outside + 1
      BY <2>2, <2>3
    <3> QED BY <1>1, <1>2, <3>1 DEF AuthorOf
  <2>4. Len(transcript) - p <= Len(transcript')
    <3>1. Len(transcript) \in Nat
          /\ Len(transcript') \in {Len(transcript) - p, Len(transcript) - p + 1}
      BY <1>1, <2>1
    <3> QED BY ONLY <3>1, p \in 0..Len(transcript)
  <2> QED BY <2>1, <2>2, <2>3, <2>4 DEF Moves, By
<1> QED BY <1>5, <1>6, <1>7, <1>8, <1>9 DEF StepKind

(* No message is there twice after a step either.                          *)
LEMMA DistinctStep ==
  ASSUME TypeOK, AuthorInv, DistinctInv, transcript' \in Seq(Messages), StepKind
  PROVE  DistinctInv'
<1>1. /\ Len(transcript) \in Nat /\ DOMAIN transcript = 1..Len(transcript)
      /\ Len(transcript') \in Nat /\ DOMAIN transcript' = 1..Len(transcript')
  BY Facts
<1>2. PICK p \in 0..Len(transcript) : Moves(p)
  BY StepMoves
<1> SUFFICES ASSUME NEW i \in 1..Len(transcript'), NEW j \in 1..Len(transcript'),
                    transcript'[i] = transcript'[j]
             PROVE  i = j
  BY <1>1 DEF DistinctInv
<1>3. \A k \in 1..Len(transcript') :
        \/ k > Len(transcript) - p
        \/ k \in 1..(Len(transcript) - p) /\ k + p \in 1..Len(transcript)
  BY <1>1
<1>4. \A k \in 1..(Len(transcript) - p) : transcript'[k] = transcript[k + p]
  BY <1>2 DEF Moves
<1>5. CASE i > Len(transcript) - p \/ j > Len(transcript) - p
  BY <1>2, <1>3, <1>4, <1>5 DEF Moves
<1>6. CASE /\ i \in 1..(Len(transcript) - p) /\ i + p \in 1..Len(transcript)
           /\ j \in 1..(Len(transcript) - p) /\ j + p \in 1..Len(transcript)
  <2>1. i + p \in DOMAIN transcript /\ j + p \in DOMAIN transcript
        /\ transcript[i + p] = transcript[j + p]
    BY <1>1, <1>4, <1>6
  <2>2. i + p = j + p
    BY <2>1 DEF DistinctInv
  <2> QED BY <2>2
<1> QED BY <1>3, <1>5, <1>6

(* The next number is over all that threads have used.                     *)
LEMMA OutsideStep ==
  ASSUME TypeOK, AuthorInv, OutsideInv, transcript' \in Seq(Messages), StepKind
  PROVE  OutsideInv'
<1>1. /\ Len(transcript) \in Nat /\ DOMAIN transcript = 1..Len(transcript)
      /\ \A i \in 1..Len(transcript) : IsMessage(transcript[i])
      /\ Len(transcript') \in Nat /\ DOMAIN transcript' = 1..Len(transcript')
      /\ outside \in Nat
  BY Facts
<1>2. PICK p \in 0..Len(transcript) : Moves(p)
  BY StepMoves
<1>3. \A k \in 1..(Len(transcript) - p) : transcript'[k] = transcript[k + p]
  BY <1>2 DEF Moves
<1>4. \A a \in 1..Len(transcript) :
        transcript[a].n \in Nat /\ (transcript[a].by = Outside => transcript[a].n <= outside)
  BY <1>1 DEF AuthorInv, AuthorOf, IsMessage
<1>5. \A a, b \in 1..Len(transcript) :
        a < b /\ (\A k \in a..b : transcript[k].by = Outside)
          => transcript[b].n >= transcript[a].n + (b - a)
  BY <1>1 DEF OutsideInv, Upwards
<1> SUFFICES ASSUME NEW i \in 1..Len(transcript'), NEW j \in 1..Len(transcript'), i < j,
                    \A k \in i..j : transcript'[k].by = Outside
             PROVE  transcript'[j].n >= transcript'[i].n + (j - i)
  BY <1>1 DEF OutsideInv, Upwards
<1>6. i \in i..j /\ j \in i..j /\ transcript'[i].by = Outside /\ transcript'[j].by = Outside
  OBVIOUS
<1>10. /\ Len(transcript) \in Nat /\ p \in Nat /\ p <= Len(transcript)
       /\ i \in Nat /\ j \in Nat /\ 1 <= i /\ i < j
  BY <1>1
<1>7. CASE j <= Len(transcript) - p
  <2>1. /\ i \in 1..(Len(transcript) - p) /\ j \in 1..(Len(transcript) - p)
        /\ i + p \in 1..Len(transcript) /\ j + p \in 1..Len(transcript)
        /\ i + p < j + p /\ (j + p) - (i + p) = j - i
    BY <1>1, <1>7
  <2>2. ASSUME NEW k \in (i + p)..(j + p) PROVE transcript[k].by = Outside
    <3>1. k - p \in i..j /\ k - p \in 1..(Len(transcript) - p) /\ (k - p) + p = k
      BY <1>1, <1>7
    <3> QED BY <1>3, <3>1
  <2>3. transcript[j + p].n >= transcript[i + p].n + ((j + p) - (i + p))
    BY <1>5, <2>1, <2>2
  <2> QED BY <1>3, <2>1, <2>3
<1>8. CASE j > Len(transcript) - p
  <2>1. j = Len(transcript) - p + 1 /\ transcript'[j].n = outside + 1
    BY <1>2, <1>6, <1>8 DEF Moves, By
  <2>2. /\ i \in 1..(Len(transcript) - p) /\ i + p \in 1..Len(transcript)
        /\ Len(transcript) \in 1..Len(transcript)
        /\ Len(transcript) - p \in 1..(Len(transcript) - p)
        /\ (Len(transcript) - p) + p = Len(transcript)
        /\ Len(transcript) - p \in i..j
        /\ Len(transcript) - (i + p) = (j - i) - 1
    <3> QED BY ONLY <1>10, <2>1
  <2>3. transcript'[i] = transcript[i + p]
        /\ transcript[Len(transcript)].by = Outside
    <3>1. transcript'[i] = transcript[i + p]
          /\ transcript'[Len(transcript) - p] = transcript[Len(transcript)]
      BY <1>3, <2>2
    <3>2. transcript'[Len(transcript) - p].by = Outside
      BY <2>2
    <3> QED BY <3>1, <3>2
  <2>4. ASSUME NEW k \in (i + p)..Len(transcript) PROVE transcript[k].by = Outside
    <3>1. k - p \in i..j /\ k - p \in 1..(Len(transcript) - p) /\ (k - p) + p = k
      <4>1. k \in (i + p)..Len(transcript)
        BY <2>4
      <4> QED BY ONLY <1>10, <2>1, <4>1
    <3> QED BY <1>3, <3>1
  <2>5. /\ transcript[Len(transcript)].n <= outside
        /\ transcript[Len(transcript)].n \in Nat /\ transcript[i + p].n \in Nat
    BY <1>4, <2>2, <2>3
  <2>6. i + p <= Len(transcript) /\ Len(transcript) - (i + p) = (j - i) - 1
    BY ONLY <1>10, <2>1
  <2>7. transcript[Len(transcript)].n >= transcript[i + p].n + (Len(transcript) - (i + p))
    <3>1. CASE i + p = Len(transcript)
      <4>1. Len(transcript) - (i + p) = 0
        BY ONLY <1>10, <3>1
      <4>2. transcript[i + p].n = transcript[Len(transcript)].n
        BY <3>1
      <4> QED BY ONLY <2>5, <4>1, <4>2
    <3>2. CASE i + p < Len(transcript)
      BY <1>5, <2>2, <2>4, <3>2
    <3> QED BY ONLY <1>10, <2>6, <3>1, <3>2
  <2>8. transcript[Len(transcript)].n >= transcript[i + p].n + ((j - i) - 1)
    BY ONLY <2>6, <2>7
  <2>9. outside \in Nat /\ transcript'[j].n = outside + 1
        /\ transcript'[i].n = transcript[i + p].n
    BY <1>1, <2>1, <2>3
  <2> QED BY ONLY <1>10, <2>5, <2>8, <2>9
<1>9. j <= Len(transcript) - p \/ j > Len(transcript) - p
  BY <1>1
<1> QED BY <1>7, <1>8, <1>9

-----------------------------------------------------------------------------
(* What follows the calls message k of q: the messages of threads and, from*)
(* e on, one result for each call.                                         *)
Answered(q, k, e) ==
  /\ \A j \in (k + 1)..e : q[j].by = Outside
  /\ \A i \in 1..q[k].n : /\ e + i \in 1..Len(q)
                          /\ q[e + i] = ResultOf(q[k], i)

LEMMA AnsweredStep ==
  ASSUME TypeOK, AuthorInv, PendingInv, CallsAnswered, transcript' \in Seq(Messages),
         StepKind
  PROVE  CallsAnswered'
<1>1. /\ Len(transcript) \in Nat /\ DOMAIN transcript = 1..Len(transcript)
      /\ \A i \in 1..Len(transcript) : IsMessage(transcript[i])
      /\ Len(transcript') \in Nat /\ DOMAIN transcript' = 1..Len(transcript')
      /\ \A i \in 1..Len(transcript') : IsMessage(transcript'[i])
      /\ \A t \in Turns : round[t] \in Nat /\ restored[t] \in Nat /\ t # Outside
  BY Facts
<1>2. \A a \in 1..Len(transcript) : AuthorOf(transcript[a])
  BY <1>1 DEF AuthorInv
<1>3. ASSUME NEW a \in 1..Len(transcript), NEW t \in Turns,
             IsCalls(transcript, a, t, transcript[a].round),
             transcript[a].round < round[t] \/ pc[t] = "answered"
      PROVE  \E e \in a..Len(transcript) : Answered(transcript, a, e)
  BY <1>1, <1>3 DEF CallsAnswered, IsCalls, Answered
<1>4. PICK p \in 0..Len(transcript) : Moves(p)
  BY StepMoves
<1>5. /\ \A i \in 1..(Len(transcript) - p) : transcript'[i] = transcript[i + p]
      /\ Len(transcript) - p <= Len(transcript')
  BY <1>4 DEF Moves
<1> SUFFICES ASSUME NEW k \in 1..Len(transcript'), NEW t \in Turns,
                    transcript'[k].role = "calls", transcript'[k].by = t,
                    transcript'[k].round < round'[t] \/ pc'[t] = "answered"
             PROVE  \E e \in k..Len(transcript') : Answered(transcript', k, e)
  <2>1. ASSUME NEW a \in 1..Len(transcript'), NEW m, m = transcript'[a], m.role = "calls"
        PROVE  m.by \in Turns
    <3>1. AuthorInv'
      BY AuthorStep
    <3>2. AuthorOf(m)'
      BY <1>1, <2>1, <3>1 DEF AuthorInv
    <3> QED BY <1>1, <2>1, <3>2 DEF AuthorOf, IsMessage
  <2> QED BY <1>1, <2>1 DEF CallsAnswered, Answered
(* What was answered stays so, at its new place.                           *)
<1>6. ASSUME k <= Len(transcript) - p,
             transcript'[k].round < round[t] \/ pc[t] = "answered"
      PROVE  \E e \in k..Len(transcript') : Answered(transcript', k, e)
  <2>1. /\ k \in 1..(Len(transcript) - p) /\ k + p \in 1..Len(transcript)
        /\ transcript'[k] = transcript[k + p]
    BY <1>1, <1>5, <1>6
  <2>2. PICK e \in (k + p)..Len(transcript) : Answered(transcript, k + p, e)
    BY <1>3, <1>6, <2>1 DEF IsCalls
  <2> DEFINE d == e - p
  <2>3. /\ Len(transcript) \in Nat /\ Len(transcript') \in Nat
        /\ p \in Nat /\ p <= Len(transcript) /\ k \in Nat /\ 1 <= k
        /\ Len(transcript) - p <= Len(transcript')
        /\ e \in Nat /\ k + p <= e /\ e <= Len(transcript)
    BY <1>1, <1>5
  <2>4. d \in k..Len(transcript') /\ d \in Nat /\ d + p = e
    BY ONLY <2>3
  <2> HIDE DEF d
  <2>5. ASSUME NEW j \in (k + 1)..d PROVE transcript'[j].by = Outside
    <3>1. /\ j \in 1..(Len(transcript) - p) /\ j + p \in (k + p + 1)..e
      BY ONLY <2>3, <2>4, j \in (k + 1)..d
    <3> QED BY <1>5, <2>2, <3>1 DEF Answered
  <2>6. transcript[k + p].n \in Nat
    BY <1>1, <2>1 DEF IsMessage
  <2>7. ASSUME NEW i \in 1..transcript[k + p].n
        PROVE  /\ d + i \in 1..Len(transcript')
               /\ transcript'[d + i] = ResultOf(transcript[k + p], i)
    <3>1. /\ e + i \in 1..Len(transcript)
          /\ transcript[e + i] = ResultOf(transcript[k + p], i)
      BY <2>2 DEF Answered
    <3>2. i \in Nat /\ 1 <= i
      BY <2>6
    <3>3. /\ d + i \in 1..(Len(transcript) - p) /\ (d + i) + p = e + i
          /\ d + i \in 1..Len(transcript')
      <4>1. e + i \in 1..Len(transcript)
        BY <3>1
      <4> QED BY ONLY <2>3, <2>4, <3>2, <4>1
    <3> QED BY <1>5, <3>1, <3>3
  <2>8. Answered(transcript', k, d)
    BY <2>1, <2>5, <2>7 DEF Answered
  <2> QED BY <2>4, <2>8
(* A new obligation is met in the step that brings it.                     *)
<1>7. ASSUME k <= Len(transcript) - p,
             ~(transcript'[k].round < round[t]), pc[t] # "answered"
      PROVE  \E e \in k..Len(transcript') : Answered(transcript', k, e)
  <2>1. /\ k \in 1..(Len(transcript) - p) /\ k + p \in 1..Len(transcript)
        /\ transcript'[k] = transcript[k + p]
    BY <1>1, <1>5, <1>7
  <2>2. /\ transcript'[k].round = round[t] /\ pc[t] \in {"dispatching", "cancelled"}
    <3>1. AuthorOf(transcript[k + p]) /\ IsMessage(transcript[k + p])
      BY <1>1, <1>2, <2>1
    <3> QED BY <1>1, <1>7, <2>1, <3>1 DEF AuthorOf, IsMessage
  <2>3. ResultsStep(t)
    <3>1. round'[t] # round[t] \/ pc'[t] = "answered"
      BY <1>1, <2>2
    <3>2. ASSUME NEW u \in Turns, QuietStep(u) PROVE FALSE
      BY <2>2, <3>1, <3>2 DEF QuietStep
    <3>3. ASSUME NEW u \in Turns, SaysStep(u) PROVE FALSE
      BY <2>2, <3>1, <3>3 DEF SaysStep
    <3>4. ASSUME NEW u \in Turns, CallsStep(u) PROVE FALSE
      BY <2>2, <3>1, <3>4 DEF CallsStep
    <3>5. ASSUME NEW u \in Turns, ResultsStep(u) PROVE u = t
      BY <2>2, <3>1, <3>5 DEF ResultsStep
    <3>6. ASSUME NEW i \in 0..Len(transcript), DropStep(i) PROVE FALSE
      BY <2>2, <3>1, <3>6 DEF DropStep
    <3> QED BY <3>2, <3>3, <3>4, <3>5, <3>6 DEF StepKind
  <2>4. /\ Keeps /\ pc[t] = "dispatching" /\ Len(transcript') = Len(transcript) + restored[t]
        /\ \A i \in 1..restored[t] : transcript'[Len(transcript) + i] = Message(t, "tool", i)
    BY <2>3 DEF ResultsStep
  <2>5. k \in 1..Len(transcript) /\ transcript[k] = transcript'[k]
    <3>1. k \in 1..Len(transcript)
      <4>1. Len(transcript) \in Nat
        BY <1>1
      <4> QED BY <2>1, <4>1
    <3> QED BY <2>4, <3>1 DEF Keeps
  <2>6. /\ transcript[k].n = restored[t]
        /\ \A j \in (k + 1)..Len(transcript) : transcript[j].by = Outside
    BY <1>1, <2>2, <2>4, <2>5 DEF PendingInv
  <2>7. /\ Len(transcript) \in Nat /\ restored[t] \in Nat
        /\ Len(transcript') = Len(transcript) + restored[t]
    BY <1>1, <2>4
  <2>8. ASSUME NEW j \in (k + 1)..Len(transcript) PROVE transcript'[j].by = Outside
    <3>1. j \in 1..Len(transcript)
      BY <2>5
    <3> QED BY <2>4, <2>6, <3>1 DEF Keeps
  <2>9. ASSUME NEW i \in 1..transcript'[k].n
        PROVE  /\ Len(transcript) + i \in 1..Len(transcript')
               /\ transcript'[Len(transcript) + i]
                    = ResultOf(transcript'[k], i)
    <3>1. i \in 1..restored[t]
      BY <2>5, <2>6
    <3>2. Len(transcript) + i \in 1..Len(transcript')
      BY <2>7, <3>1
    <3>3. ResultOf(transcript'[k], i) = Message(t, "tool", i)
      BY <2>2 DEF Message, ResultOf
    <3> QED BY <2>4, <3>1, <3>2, <3>3
  <2>10. Len(transcript) \in k..Len(transcript')
    <3>1. k <= Len(transcript) /\ k \in Nat
      BY <2>5
    <3> QED BY ONLY <2>7, <3>1
  <2>11. Answered(transcript', k, Len(transcript))
    BY <2>8, <2>9 DEF Answered
  <2> QED BY <2>10, <2>11
(* A calls message that is new is not to be answered yet.                  *)
<1>8. ASSUME k > Len(transcript) - p PROVE FALSE
  <2>1. \A a \in 1..Len(transcript) : transcript'[k] # transcript[a]
    BY <1>4, <1>8 DEF Moves
  <2>2. ASSUME Keeps PROVE k > Len(transcript)
    <3>1. k <= Len(transcript) => k \in 1..Len(transcript)
      OBVIOUS
    <3>2. k \notin 1..Len(transcript)
      BY <2>1, <2>2 DEF Keeps
    <3> QED BY <1>1, <3>1, <3>2
  <2>3. ASSUME NEW u \in Turns, QuietStep(u) PROVE FALSE
    BY <2>1, <2>3 DEF QuietStep
  <2>4. ASSUME NEW u \in Turns, SaysStep(u) PROVE FALSE
    <3>1. k > Len(transcript)
      BY <2>2, <2>4 DEF SaysStep
    <3>2. transcript'[k].role \in {"user", "assistant"}
      BY <2>4, <3>1, SaysEnd
    <3> QED BY <3>2
  <2>5. ASSUME NEW u \in Turns, CallsStep(u) PROVE FALSE
    <3>1. k > Len(transcript)
      BY <2>2, <2>5 DEF CallsStep
    <3>2. transcript'[k].by = u /\ transcript'[k].round = round[u]
      BY <2>5, <3>1, CallsEnd
    <3>3. round'[u] = round[u] /\ pc'[u] = "dispatching"
      BY <2>5 DEF CallsStep
    <3> QED BY <1>1, <3>2, <3>3
  <2>6. ASSUME NEW u \in Turns, ResultsStep(u) PROVE FALSE
    <3>1. k > Len(transcript)
      BY <2>2, <2>6 DEF ResultsStep
    <3>2. transcript'[k].role = "tool"
      BY <2>6, <3>1, ResultsEnd
    <3> QED BY <3>2
  <2>7. ASSUME NEW i \in 0..Len(transcript), DropStep(i) PROVE FALSE
    BY <2>1, <2>7, DropEnd
  <2> QED BY <2>3, <2>4, <2>5, <2>6, <2>7 DEF StepKind
<1>9. k <= Len(transcript) - p \/ k > Len(transcript) - p
  BY <1>1
<1> QED BY <1>6, <1>7, <1>8, <1>9

-----------------------------------------------------------------------------
(* With messages of turns only, a result stays with its calls when the     *)
(* oldest go: the calls it was led by are its owner.                       *)
LEMMA KeepsPairs ==
  ASSUME NEW q \in Seq(Messages), LedIn(q), NoOrphans(q), OfTurns(q),
         NEW r \in Seq(Messages), Len(r) = Len(q) - TrimPoint(q, MaxMessages),
         \A i \in 1..Len(r) : r[i] = q[i + TrimPoint(q, MaxMessages)]
  PROVE  NoOrphans(r)
<1> DEFINE p == TrimPoint(q, MaxMessages)
<1>1. /\ HasRoles(q) /\ Len(q) \in Nat /\ DOMAIN q = 1..Len(q)
      /\ \A i \in 1..Len(q) : IsMessage(q[i])
      /\ Len(r) \in Nat /\ DOMAIN r = 1..Len(r)
      /\ MaxMessages \in Nat \ {0}
  BY MessagesTyped, MaxMessagesAssumption
<1> HIDE DEF Messages
<1>2. p \in 0..Len(q)
  BY <1>1, TrimPointBounds
<1>3. \A k \in DOMAIN q : k > p /\ Owner(q, k) # 0
                          /\ (\A j \in (Owner(q, k) + 1)..k : q[j].role = "tool")
                            => Owner(q, k) > p
  BY <1>1, TrimSafe
<1> HIDE DEF p
<1> SUFFICES ASSUME NEW k \in 1..Len(r), r[k].role = "tool"
             PROVE  CallOf(r, k) # {}
  BY <1>1 DEF NoOrphans
<1>4. /\ p \in Nat /\ p <= Len(q) /\ Len(q) \in Nat /\ k \in Nat /\ 1 <= k
      /\ k <= Len(q) - p
  BY <1>1, <1>2 DEF p
<1> DEFINE a == k + p
<1>5. a \in 1..Len(q) /\ a \in Nat \ {0} /\ a > p /\ a - p = k
  BY ONLY <1>4
<1> HIDE DEF a
<1>6. r[k] = q[a] /\ q[a].role = "tool"
  BY DEF a, p
<1>7. PICK c \in 0..(a - 1) : Led(q, a, c)
  BY <1>1, <1>5, <1>6 DEF LedIn
<1>8. ASSUME NEW j \in (c + 1)..a
      PROVE  q[j].role = "tool" /\ q[j].by = q[a].by /\ q[j].round = q[a].round
  <2>1. j \in 1..Len(q)
    BY <1>4, <1>5
  <2>2. q[j].by # Outside
    BY <1>1, <2>1 DEF OfTurns
  <2> QED BY <1>7, <2>2 DEF Led
<1>9. c # 0
  <2> SUFFICES ASSUME c = 0 PROVE FALSE
    OBVIOUS
  <2>1. PICK j \in 1..(a - 1) : q[j].role = "calls"
    BY <1>1, <1>5, <1>6 DEF NoOrphans, CallOf
  <2>2. j \in (c + 1)..a
    BY <1>5
  <2> QED BY <1>8, <2>1, <2>2
<1>10. /\ c \in 1..(a - 1) /\ q[c].role = "calls" /\ q[c].by = q[a].by
       /\ q[c].round = q[a].round
  BY <1>7, <1>9 DEF Led
<1>11. Owner(q, a) = c
  <2>1. ASSUME NEW j \in (c + 1)..(a - 1) PROVE q[j].role \notin Replies
    <3>1. j \in (c + 1)..a
      BY <1>5
    <3> QED BY <1>8, <3>1 DEF Replies
  <2> QED BY <1>5, <1>10, <2>1, OwnerWhen
<1>12. c > p
  BY <1>1, <1>3, <1>5, <1>8, <1>9, <1>11
<1>13. c - p \in 1..(k - 1) /\ c - p \in 1..Len(r) /\ (c - p) + p = c
  <2>1. c \in Nat /\ c <= a - 1 /\ c > p
    BY <1>5, <1>10, <1>12
  <2>2. Len(r) \in Nat /\ k <= Len(r) /\ a \in Nat
    BY <1>1, <1>5
  <2> QED BY ONLY <1>4, <1>5, <2>1, <2>2
<1>14. r[c - p] = q[c]
  BY <1>13 DEF p
<1> QED BY <1>6, <1>10, <1>13, <1>14 DEF CallOf

(* A turn that closes drops what TrimPoint says.                           *)
LEMMA ClosingDrops ==
  ASSUME TypeOK, transcript' \in Seq(Messages), StepKind,
         NEW t \in Turns, pc[t] = "closing", pc'[t] = "answered"
  PROVE  LET p == TrimPoint(transcript, MaxMessages)
         IN  /\ p \in 0..Len(transcript) /\ outside' = outside
             /\ Len(transcript') = Len(transcript) - p
             /\ \A i \in 1..(Len(transcript) - p) : transcript'[i] = transcript[i + p]
<1>1. CASE \E u \in Turns : QuietStep(u)
  BY <1>1 DEF QuietStep
<1>2. CASE \E u \in Turns : SaysStep(u)
  BY <1>2 DEF SaysStep
<1>3. CASE \E u \in Turns : CallsStep(u)
  BY <1>3 DEF CallsStep
<1>4. CASE \E u \in Turns : ResultsStep(u)
  BY <1>4 DEF ResultsStep
<1>5. ASSUME NEW p \in 0..Len(transcript), DropStep(p)
      PROVE  /\ p = TrimPoint(transcript, MaxMessages) /\ outside' = outside
             /\ Len(transcript') = Len(transcript) - p
             /\ \A i \in 1..(Len(transcript) - p) : transcript'[i] = transcript[i + p]
  BY <1>5 DEF DropStep
<1> QED BY <1>1, <1>2, <1>3, <1>4, <1>5 DEF StepKind

LEMMA SentStep ==
  ASSUME TypeOK, AuthorInv, PendingInv, LedInv, SentInv, transcript' \in Seq(Messages),
         StepKind, \A t \in Turns : sent'[t] \in {sent[t], transcript}
  PROVE  SentInv'
<1>1. /\ transcript \in Seq(Messages)
      /\ Len(transcript) \in Nat /\ DOMAIN transcript = 1..Len(transcript)
      /\ Len(transcript') \in Nat /\ DOMAIN transcript' = 1..Len(transcript')
      /\ \A t \in Turns : restored[t] \in Nat
      /\ outside \in Nat
  BY Facts
<1>2. outside' = outside \/ outside' = outside + 1
  BY DEF StepKind, QuietStep, SaysStep, CallsStep, ResultsStep, DropStep
<1> SUFFICES ASSUME outside' = 0
             PROVE  NoOrphans(transcript') /\ \A t \in Turns : NoOrphans(sent'[t])
  BY DEF SentInv, NoOrphans, CallOf
<1>3. outside = 0
  BY <1>1, <1>2
<1>4. NoOrphans(transcript) /\ \A t \in Turns : NoOrphans(sent[t])
  BY <1>3 DEF SentInv
<1>5. \A t \in Turns : NoOrphans(sent'[t])
  BY <1>4
<1>6. ASSUME Keeps, NEW k \in 1..Len(transcript'), k <= Len(transcript),
             transcript'[k].role = "tool"
      PROVE  CallOf(transcript', k) # {}
  <2>1. k \in 1..Len(transcript) /\ transcript[k] = transcript'[k]
    BY <1>1, <1>6 DEF Keeps
  <2>2. PICK j \in 1..(k - 1) : /\ transcript[j].role = "calls"
                                /\ transcript[j].by = transcript[k].by
                                /\ transcript[j].round = transcript[k].round
    BY <1>1, <1>4, <1>6, <2>1 DEF NoOrphans, CallOf
  <2>3. j \in 1..Len(transcript)
    BY <1>1, <2>1
  <2>4. transcript'[j] = transcript[j]
    BY <1>6, <2>3 DEF Keeps
  <2> QED BY <2>1, <2>2, <2>4 DEF CallOf
<1>7. ASSUME Keeps,
             \A k \in 1..Len(transcript') :
               k > Len(transcript) /\ transcript'[k].role = "tool"
                 => CallOf(transcript', k) # {}
      PROVE  NoOrphans(transcript')
  <2> SUFFICES ASSUME NEW k \in 1..Len(transcript'), transcript'[k].role = "tool"
               PROVE  CallOf(transcript', k) # {}
    BY <1>1 DEF NoOrphans
  <2>1. k <= Len(transcript) \/ k > Len(transcript)
    BY <1>1
  <2> QED BY <1>6, <1>7, <2>1
<1>8. ASSUME NEW t \in Turns, QuietStep(t) PROVE NoOrphans(transcript')
  BY <1>4, <1>8 DEF QuietStep
<1>9. ASSUME NEW t \in Turns, SaysStep(t) PROVE NoOrphans(transcript')
  <2>1. Keeps
    BY <1>9 DEF SaysStep
  <2>2. \A k \in 1..Len(transcript') : k > Len(transcript) => transcript'[k].role # "tool"
    BY <1>9, SaysEnd
  <2> QED BY <1>7, <2>1, <2>2
<1>10. ASSUME NEW t \in Turns, CallsStep(t) PROVE NoOrphans(transcript')
  <2>1. Keeps
    BY <1>10 DEF CallsStep
  <2>2. \A k \in 1..Len(transcript') : k > Len(transcript) => transcript'[k].role # "tool"
    BY <1>10, CallsEnd
  <2> QED BY <1>7, <2>1, <2>2
<1>11. ASSUME NEW t \in Turns, ResultsStep(t) PROVE NoOrphans(transcript')
  <2>1. Keeps /\ pc[t] = "dispatching"
    BY <1>11 DEF ResultsStep
  <2>2. PICK c \in 1..Len(transcript) : IsCalls(transcript, c, t, round[t])
    <3>1. ~(outside > 0)
      BY <1>3
    <3> QED BY <1>1, <2>1, <3>1 DEF PendingInv, IsCalls
  <2>3. transcript'[c] = transcript[c]
    BY <2>1 DEF Keeps
  <2>4. ASSUME NEW k \in 1..Len(transcript'), k > Len(transcript)
        PROVE  CallOf(transcript', k) # {}
    <3>1. transcript'[k].by = t /\ transcript'[k].round = round[t]
      BY <1>11, <2>4, ResultsEnd
    <3>2. c \in 1..(k - 1)
      BY <1>1, <2>4
    <3> QED BY <2>2, <2>3, <3>1, <3>2 DEF CallOf, IsCalls
  <2> QED BY <1>7, <2>1, <2>4
<1>12. ASSUME NEW p \in 0..Len(transcript), DropStep(p) PROVE NoOrphans(transcript')
  <2>1. outside' # outside + 1
    BY <1>1
  <2>2. /\ p = TrimPoint(transcript, MaxMessages) /\ Len(transcript') = Len(transcript) - p
        /\ \A i \in 1..(Len(transcript) - p) : transcript'[i] = transcript[i + p]
    BY <1>12, <2>1 DEF DropStep
  <2>3. OfTurns(transcript)
    <3>1. \A i \in 1..Len(transcript) : AuthorOf(transcript[i])
      BY <1>1 DEF AuthorInv
    <3> QED BY <1>1, <1>3, <3>1 DEF OfTurns, AuthorOf
  <2>4. LedIn(transcript)
    BY DEF LedInv
  <2> HIDE DEF Messages
  <2> QED BY <1>1, <1>4, <2>2, <2>3, <2>4, KeepsPairs
<1> QED BY <1>5, <1>8, <1>9, <1>10, <1>11, <1>12 DEF StepKind

(* What a turn returns it reads when it closes.                            *)
LEMMA AnswerStep ==
  ASSUME TypeOK, ReplyInv, ReplyOfNoOther, Next
  PROVE  ReplyOfNoOther'
<1> SUFFICES ASSUME NEW t \in Turns, pc'[t] = "answered"
             PROVE  \/ reply'[t].by = t /\ reply'[t].role = "assistant"
                    \/ reply'[t].by = Outside
  BY DEF ReplyOfNoOther
<1>1. CASE pc[t] = "answered" /\ reply'[t] = reply[t]
  BY <1>1 DEF ReplyOfNoOther
<1>2. CASE Close(t)
  <2>1. reply'[t] = transcript[Len(transcript)]
    BY <1>2, CloseIs
  <2>2. pc[t] = "closing"
    BY <1>2 DEF Close
  <2> QED BY <2>1, <2>2 DEF ReplyInv
<1>3. ASSUME NEW u \in Turns \ {t}, Close(u)
      PROVE  pc[t] = "answered" /\ reply'[t] = reply[t]
  BY <1>3 DEF Close, Leave, TypeOK
<1>4. ASSUME ~ \E u \in Turns : Close(u)
      PROVE  pc[t] = "answered" /\ reply'[t] = reply[t]
  BY <1>4 DEF Next, Arrive, Run, Begin, Ask, Extend, NextRound, ModelAnswers, AnswerCalls,
              AnswerText, AnswerNothing, AnswerLast, AnswerRaises, DispatchEnds, Cancel,
              AddMessage, Leave, TypeOK
<1> QED BY <1>1, <1>2, <1>3, <1>4

(* A snapshot is the transcript as it is.                                  *)
LEMMA SnapshotStep ==
  ASSUME TypeOK, Next
  PROVE  \A t \in Turns : sent'[t] \in {sent[t], transcript}
<1>1. ASSUME NEW u \in Turns, Ask(u) PROVE \A t \in Turns : sent'[t] \in {sent[t], transcript}
  BY <1>1 DEF Ask, TypeOK
<1>2. CASE UNCHANGED sent
  BY <1>2
<1> QED BY <1>1, <1>2 DEF Next, Arrive, Run, Begin, Extend, Close, ModelAnswers, AnswerCalls,
           AnswerText, AnswerNothing, AnswerLast, AnswerRaises, DispatchEnds, Cancel,
           AddMessage, NextRound, Leave

-----------------------------------------------------------------------------
(* What the trimming leaves over the limit are results of one calls message*)
(* and what threads put between the two.                                   *)
LEMMA TrimBoundsStep ==
  ASSUME TypeOK, AuthorInv, LedInv, OutsideInv,
         NEW p, p = TrimPoint(transcript, MaxMessages)
  PROVE  Len(transcript) - p <= MaxMessages + MaxCalls + outside
<1> DEFINE q == transcript
           e == Len(q) - MaxMessages
           a == e + 1
<1>1. /\ q \in Seq(Messages) /\ MaxMessages \in Nat \ {0} /\ MaxCalls \in Nat
      /\ outside \in Nat
  BY LimitsAssumption, MaxMessagesAssumption DEF TypeOK
<1>2. /\ HasRoles(q) /\ Len(q) \in Nat /\ DOMAIN q = 1..Len(q)
      /\ \A i \in 1..Len(q) : IsMessage(q[i])
  BY <1>1, MessagesTyped
<1>3. \A i \in 1..Len(q) : AuthorOf(q[i])
  BY <1>2 DEF AuthorInv
<1> HIDE DEF Messages
<1>4. /\ p \in 0..Len(q)
      /\ p < e => Splits(q, e) /\ p = Owner(q, a) - 1
  BY <1>1, <1>2, TrimPointBounds
<1>5. CASE p >= e
  <2>1. Len(q) \in Nat /\ p \in Nat /\ p >= Len(q) - MaxMessages
    BY <1>2, <1>4, <1>5
  <2> QED BY <1>1, <2>1
<1>6. CASE p < e
  <2>1. /\ Len(q) \in Nat /\ p \in Nat /\ e \in Nat /\ a \in Nat /\ a = e + 1
        /\ e = Len(q) - MaxMessages /\ MaxMessages \in Nat \ {0} /\ MaxCalls \in Nat
        /\ outside \in Nat /\ p < e
    BY <1>1, <1>2, <1>4, <1>6
  <2>2. a \in 1..Len(q) /\ a \in Nat \ {0}
    BY ONLY <2>1
  <2>3. q[a].role = "tool" /\ Owner(q, a) # 0 /\ Owner(q, a) = p + 1
    <3>1. Splits(q, e) /\ p = Owner(q, a) - 1
      BY <1>4, <1>6
    <3>2. Owner(q, a) \in 0..(a - 1)
      BY <2>2, OwnerIs
    <3>3. q[a].role = "tool" /\ Owner(q, a) # 0
      BY <3>1 DEF Splits
    <3> HIDE DEF a
    <3> QED BY <2>1, <3>1, <3>2, <3>3
  <2> HIDE DEF q, e, a
  <2> DEFINE o == Owner(q, a)
  <2>4. /\ o \in 1..(a - 1) /\ q[o].role = "calls"
        /\ \A j \in (o + 1)..(a - 1) : q[j].role \notin Replies
    BY <2>2, <2>3, OwnerIs
  <2>5. PICK c \in 0..(a - 1) : Led(q, a, c)
    BY <1>2, <2>2, <2>3 DEF LedInv, LedIn, q
  <2>6. ASSUME NEW j \in (c + 1)..a PROVE q[j].role \in {"tool", "user"}
    <3>1. j \in 1..Len(q)
      BY <2>2
    <3>2. AuthorOf(q[j])
      BY <1>3, <3>1
    <3> QED BY <2>5, <3>2 DEF Led, AuthorOf
  <2> HIDE DEF o
  <2>7. c = o
    <3>1. ~(o \in (c + 1)..a)
      BY <2>4, <2>6
    <3>2. c # 0 => q[c].role = "calls"
      BY <2>5 DEF Led
    <3>3. ~(c \in (o + 1)..(a - 1))
      BY <2>4, <3>2 DEF Replies
    <3> QED BY <2>1, <2>4, <3>1, <3>3
  <2> DEFINE n == q[a].n
             f == c + 1
             l == a - n
  <2>8. /\ n \in Nat /\ n >= 1 /\ c # 0 /\ n <= q[c].n /\ c <= a - n
        /\ \A j \in (c + 1)..a : ~(j > a - n) => q[j].by = Outside
    BY <1>2, <2>2, <2>4, <2>5, <2>7 DEF Led, IsMessage
  <2> HIDE DEF n
  <2>9. n <= MaxCalls
    <3>1. c \in 1..Len(q) /\ q[c].role = "calls"
      BY <2>2, <2>4, <2>7
    <3>2. AuthorOf(q[c]) /\ IsMessage(q[c])
      BY <1>2, <1>3, <3>1
    <3>3. q[c].n \in Nat /\ q[c].n <= MaxCalls
      BY <3>1, <3>2 DEF AuthorOf, IsMessage
    <3> QED BY <2>1, <2>8, <3>3
  <2>10. l - c <= outside
    <3>1. CASE l <= c
      BY <2>1, <2>8, <3>1
    <3>2. CASE l > c
      <4>1. c \in Nat /\ 1 <= c /\ c <= a - 1
        BY <2>4, <2>7
      <4>2. f \in 1..Len(q) /\ l \in 1..Len(q) /\ f <= l /\ f \in Nat /\ l \in Nat
        <5>1. n \in Nat /\ n >= 1 /\ a \in 1..Len(q)
          BY <2>2, <2>8
        <5> QED BY ONLY <2>1, <3>2, <4>1, <5>1 DEF f, l
      <4>3. ASSUME NEW j \in f..l PROVE q[j].by = Outside
        <5>1. j \in (c + 1)..a /\ ~(j > a - n)
          <6>1. n \in Nat /\ n >= 1
            BY <2>8
          <6> QED BY <2>1, <4>1, <4>2, <6>1
        <5> QED BY <2>8, <5>1
      <4> HIDE DEF f, l
      <4>4. f \in f..l /\ l \in f..l
        BY <4>2
      <4>5. /\ q[f].n \in Nat /\ q[f].n >= 1
            /\ q[l].n \in Nat /\ q[l].n <= outside
        <5>1. AuthorOf(q[f]) /\ AuthorOf(q[l]) /\ IsMessage(q[f]) /\ IsMessage(q[l])
          BY <1>2, <1>3, <4>2
        <5>2. q[f].by = Outside /\ q[l].by = Outside
          BY <4>3, <4>4
        <5> QED BY <2>1, <5>1, <5>2 DEF AuthorOf, IsMessage
      <4>6. q[l].n >= q[f].n + (l - f)
        <5>1. CASE f = l
          <6>1. q[l].n = q[f].n /\ l - f = 0
            BY <4>2, <5>1
          <6> QED BY ONLY <4>5, <6>1
        <5>2. CASE f < l
          BY <1>2, <4>2, <4>3, <5>2 DEF OutsideInv, Upwards, q
        <5> QED BY <4>2, <5>1, <5>2
      <4>7. l - f = l - c - 1
        BY <4>1, <4>2 DEF f
      <4>8. q[l].n >= l - c
        BY ONLY <4>1, <4>2, <4>5, <4>6, <4>7
      <4> QED BY ONLY <2>1, <4>1, <4>2, <4>5, <4>8
    <3>3. l <= c \/ l > c
      BY <2>1, <2>8
    <3> QED BY <3>1, <3>2, <3>3
  <2>11. Len(q) - p = MaxMessages + n + (l - c)
    <3>1. n \in Nat /\ c = p + 1
      BY <2>3, <2>7, <2>8 DEF o
    <3> QED BY ONLY <2>1, <3>1 DEF l
  <2>12. Len(q) - p <= MaxMessages + MaxCalls + outside
    <3>1. n \in Nat /\ l - c \in Int
      BY <2>1, <2>4, <2>7, <2>8
    <3> HIDE DEF l
    <3> QED BY <2>1, <2>9, <2>10, <2>11, <3>1
  <2> QED BY <2>12 DEF q
<1>7. p >= e \/ p < e
  BY <1>1, <1>2, <1>4
<1> QED BY <1>5, <1>6, <1>7

(* What a step drops is what stood first, and nothing else is gone.        *)
LEMMA OldestStep ==
  ASSUME TypeOK, DistinctInv, transcript' \in Seq(Messages),
         NEW p \in 0..Len(transcript), Moves(p)
  PROVE  LET lost == {i \in DOMAIN transcript :
                        \A j \in DOMAIN transcript' : transcript'[j] # transcript[i]}
             n == Cardinality(lost)
         IN  /\ lost = 1..n
             /\ SubSeq(transcript', 1, Len(transcript) - n)
                  = SubSeq(transcript, n + 1, Len(transcript))
             /\ n > 0 => Len(transcript') >= MaxMessages
<1> DEFINE lost == {i \in DOMAIN transcript :
                      \A j \in DOMAIN transcript' : transcript'[j] # transcript[i]}
<1>1. /\ transcript \in Seq(Messages)
      /\ Len(transcript) \in Nat /\ DOMAIN transcript = 1..Len(transcript)
      /\ Len(transcript') \in Nat /\ DOMAIN transcript' = 1..Len(transcript')
  BY Facts
<1>2. /\ Len(transcript) - p <= Len(transcript')
      /\ \A k \in 1..(Len(transcript) - p) : transcript'[k] = transcript[k + p]
      /\ p > 0 => Len(transcript') >= MaxMessages
      /\ \A k \in 1..Len(transcript') :
           k > Len(transcript) - p => \A a \in 1..Len(transcript) : transcript'[k] # transcript[a]
  BY DEF Moves
<1>3. ASSUME NEW i \in 1..Len(transcript), i > p
      PROVE  i \notin lost
  <2>1. i - p \in 1..(Len(transcript) - p) /\ (i - p) + p = i /\ i - p \in 1..Len(transcript')
    BY <1>1, <1>2, <1>3
  <2>2. transcript'[i - p] = transcript[i]
    BY <1>2, <2>1
  <2> QED BY <1>1, <2>1, <2>2
<1>4. ASSUME NEW i \in 1..Len(transcript), i <= p, NEW j \in 1..Len(transcript'),
             transcript'[j] = transcript[i]
      PROVE  FALSE
  <2>1. ~(j > Len(transcript) - p)
    BY <1>2, <1>4
  <2>2. j \in 1..(Len(transcript) - p) /\ j + p \in 1..Len(transcript) /\ j + p # i
    <3>1. Len(transcript) \in Nat /\ j \in Nat /\ j >= 1
      BY <1>1
    <3> QED BY <1>4, <2>1, <3>1
  <2>3. transcript[j + p] = transcript[i]
    BY <1>2, <1>4, <2>2
  <2> QED BY <1>1, <2>2, <2>3 DEF DistinctInv
<1>5. lost = 1..p
  <2>1. ASSUME NEW i \in lost PROVE i \in 1..p
    <3>1. i \in 1..Len(transcript) /\ ~(i > p)
      BY <1>1, <1>3
    <3> QED BY <3>1
  <2>2. ASSUME NEW i \in 1..p PROVE i \in lost
    <3>1. i \in 1..Len(transcript) /\ i <= p
      BY <1>1
    <3> QED BY <1>1, <1>4, <3>1
  <2> QED BY <2>1, <2>2
<1>6. Cardinality(lost) = p
  <2> HIDE DEF lost
  <2>1. p \in Nat /\ 1 \in Int /\ p \in Int
    BY <1>1
  <2>2. Cardinality(1..p) = IF 1 > p THEN 0 ELSE p - 1 + 1
    BY <2>1, FS_Interval
  <2> QED BY <1>5, <2>1, <2>2
<1>7. SubSeq(transcript', 1, Len(transcript) - p) = SubSeq(transcript, p + 1, Len(transcript))
  <2> HIDE DEF Messages
  <2> DEFINE m == Len(transcript) - p
             x == SubSeq(transcript', 1, m)
             y == SubSeq(transcript, p + 1, Len(transcript))
  <2>1. y \in Seq(Messages) /\ Len(y) = m /\ \A i \in 1..m : y[i] = transcript[i + p]
    BY <1>1, SuffixIs
  <2>2. m \in Nat /\ m <= Len(transcript')
    BY <1>1, <1>2
  <2> HIDE DEF m
  <2>3. x \in Seq(Messages) /\ Len(x) = m /\ \A i \in 1..m : x[i] = transcript'[i]
    BY <1>1, <2>2
  <2>4. \A i \in 1..m : x[i] = y[i]
    BY <1>2, <2>1, <2>3 DEF m
  <2> HIDE DEF x, y
  <2>5. x = y
    BY <2>1, <2>3, <2>4, SeqEqual
  <2> QED BY <2>5 DEF x, y, m
<1> HIDE DEF lost
<1>8. \A n : n = p => /\ lost = 1..n
                      /\ SubSeq(transcript', 1, Len(transcript) - n)
                           = SubSeq(transcript, n + 1, Len(transcript))
                      /\ n > 0 => Len(transcript') >= MaxMessages
  BY <1>2, <1>5, <1>7
<1> QED BY <1>6, <1>8 DEF lost

-----------------------------------------------------------------------------
(* The inductive invariant.                                                *)
Inv ==
  TypeOK /\ TurnsInv /\ OneTurnAtATime /\ ReplyOfNoOther /\ CallsAnswered

LEMMA Start == Init => Inv
<1> SUFFICES ASSUME Init PROVE Inv
  OBVIOUS
<1>1. /\ pc = [t \in Turns |-> "new"] /\ queue = <<>> /\ transcript = <<>>
      /\ round = [t \in Turns |-> 0] /\ sent = [t \in Turns |-> <<>>]
      /\ chats = [t \in Turns |-> 0] /\ restored = [t \in Turns |-> 0]
      /\ results = [t \in Turns |-> 0] /\ reply = [t \in Turns |-> NoMessage]
      /\ outside = 0
  BY DEF Init
<1>2. MaxTurns \in Nat \ {0} /\ MaxCalls \in Nat
  BY LimitsAssumption
<1>3. TypeOK
  <2>1. NoMessage \in Messages
    BY DEF NoMessage, Messages, Roles
  <2> HIDE DEF Messages
  <2> QED BY <1>1, <1>2, <2>1 DEF TypeOK, PCs
<1>4. DOMAIN transcript = {} /\ DOMAIN queue = {} /\ \A t \in Turns : DOMAIN sent[t] = {}
  BY <1>1
<1>5. LockInv /\ RoundInv /\ ReplyInv /\ PendingInv
  BY <1>1, <1>2, <1>4 DEF LockInv, RoundInv, ReplyInv, PendingInv, Inside
<1>6. AuthorInv /\ LastInv /\ LedInv /\ OutsideInv /\ DistinctInv
  BY <1>4 DEF AuthorInv, LastInv, LedInv, LedIn, OutsideInv, Upwards, DistinctInv
<1>7. SentInv
  BY <1>4 DEF SentInv, NoOrphans
<1>8. OneTurnAtATime /\ ReplyOfNoOther /\ CallsAnswered
  BY <1>1, <1>4 DEF OneTurnAtATime, ReplyOfNoOther, CallsAnswered
<1> QED BY <1>3, <1>5, <1>6, <1>7, <1>8 DEF Inv, TurnsInv

LEMMA Step ==
  ASSUME Inv, [Next]_vars
  PROVE  Inv'
<1>1. CASE Next
  <2>1. /\ TypeOK /\ LockInv /\ RoundInv /\ AuthorInv /\ LastInv /\ ReplyInv
        /\ PendingInv /\ LedInv /\ OutsideInv /\ DistinctInv /\ SentInv
        /\ OneTurnAtATime /\ ReplyOfNoOther /\ CallsAnswered
    BY DEF Inv, TurnsInv
  <2>2. transcript' \in Seq(Messages) /\ StepKind
    BY <1>1, <2>1, KindIs
  <2>3. TypeOK' /\ LockInv' /\ RoundInv'
    BY <1>1, <2>1, TypeStep, LockStep, RoundStep
  <2>4. AuthorInv' /\ LastInv' /\ OneTurnAtATime'
    BY <2>1, <2>2, <2>3, AuthorStep, LastStep
  <2>5. ReplyInv' /\ PendingInv' /\ ReplyOfNoOther' /\ CallsAnswered'
    BY <1>1, <2>1, <2>2, <2>3, ReplyStep, PendingStep, AnswerStep, AnsweredStep
  <2>6. LedInv' /\ OutsideInv' /\ DistinctInv'
    BY <2>1, <2>2, LedStep, OutsideStep, DistinctStep
  <2>7. SentInv'
    BY <1>1, <2>1, <2>2, SentStep, SnapshotStep
  <2> QED BY <2>3, <2>4, <2>5, <2>6, <2>7 DEF Inv, TurnsInv
<1>2. CASE UNCHANGED vars
  <2>1. /\ pc' = pc /\ queue' = queue /\ transcript' = transcript /\ round' = round
        /\ sent' = sent /\ chats' = chats /\ restored' = restored
        /\ results' = results /\ reply' = reply /\ outside' = outside
    BY <1>2 DEF vars
  <2> QED BY <2>1 DEF Inv, TurnsInv, TypeOK, LockInv, RoundInv, AuthorInv, AuthorOf,
              LastInv, ReplyInv, PendingInv, LedInv, OutsideInv, DistinctInv, SentInv,
              OneTurnAtATime, ReplyOfNoOther, CallsAnswered
<1> QED BY <1>1, <1>2

(* The turns of a session do not mix and no call is parted from its        *)
(* results: for any number of turns, threads' messages, rounds and tools.  *)
THEOREM ExchangesApartHolds == Spec => []ExchangesApart
<1>1. Inv => ExchangesApart
  <2> SUFFICES ASSUME Inv PROVE ExchangesApart
    OBVIOUS
  <2>1. /\ TypeOK /\ RoundInv /\ SentInv /\ OneTurnAtATime /\ ReplyOfNoOther
        /\ CallsAnswered
    BY DEF Inv, TurnsInv
  <2>2. ChatsBounded
    <3> SUFFICES ASSUME NEW t \in Turns PROVE chats[t] <= MaxTurns + 1
      BY DEF ChatsBounded
    <3>1. /\ chats[t] <= round[t] + 1 /\ chats[t] \in Nat /\ round[t] \in 0..MaxTurns
      BY <2>1 DEF RoundInv, TypeOK
    <3> QED BY <3>1, LimitsAssumption
  <2>3. RequestsWhole
    BY <2>1 DEF SentInv, RequestsWhole
  <2> QED BY <2>1, <2>2, <2>3 DEF ExchangesApart, TurnsApart, ExchangesWhole
<1> QED BY <1>1, Start, Step, PTL DEF Spec

(* A step loses the oldest messages only, what is over the limit, and no   *)
(* call without its results: what the trimming at the end of a turn and    *)
(* that of add_message promise, for transcripts that turns and threads     *)
(* have written together.                                                  *)
THEOREM TrimsTheOldestHolds == Spec => TrimsTheOldest
<1> DEFINE Oldest ==
             LET lost == {i \in DOMAIN transcript :
                            \A j \in DOMAIN transcript' : transcript'[j] # transcript[i]}
                 n == Cardinality(lost)
             IN  /\ lost = 1..n
                 /\ SubSeq(transcript', 1, Len(transcript) - n)
                      = SubSeq(transcript, n + 1, Len(transcript))
                 /\ n > 0 => Len(transcript') >= MaxMessages
           Pairs ==
             \A t \in Turns :
               pc[t] = "closing" /\ pc'[t] = "answered" =>
                 (NoOrphans(transcript) /\ OfTurns(transcript) => NoOrphans(transcript'))
           Bounds ==
             \A t \in Turns :
               pc[t] = "closing" /\ pc'[t] = "answered"
                 => Len(transcript') <= MaxMessages + MaxCalls + outside
<1>1. ASSUME Inv, Next PROVE Oldest /\ Pairs /\ Bounds
  <2>1. /\ TypeOK /\ AuthorInv /\ ReplyInv /\ LedInv /\ OutsideInv /\ DistinctInv
    BY <1>1 DEF Inv, TurnsInv
  <2>2. transcript' \in Seq(Messages) /\ StepKind
    BY <1>1, <2>1, KindIs
  <2>3. Oldest
    <3>1. PICK p \in 0..Len(transcript) : Moves(p)
      BY <2>1, <2>2, StepMoves
    <3> QED BY <2>1, <2>2, <3>1, OldestStep
  <2> SUFFICES ASSUME NEW t \in Turns, pc[t] = "closing", pc'[t] = "answered"
               PROVE  /\ NoOrphans(transcript) /\ OfTurns(transcript)
                           => NoOrphans(transcript')
                      /\ Len(transcript') <= MaxMessages + MaxCalls + outside
    BY <2>3
  <2> DEFINE p == TrimPoint(transcript, MaxMessages)
  <2>4. /\ p \in 0..Len(transcript)
        /\ Len(transcript') = Len(transcript) - p
        /\ \A i \in 1..(Len(transcript) - p) : transcript'[i] = transcript[i + p]
    BY <2>1, <2>2, ClosingDrops
  <2>5. Len(transcript') <= MaxMessages + MaxCalls + outside
    BY <2>1, <2>4, TrimBoundsStep
  <2>6. ASSUME NoOrphans(transcript), OfTurns(transcript) PROVE NoOrphans(transcript')
    <3>1. transcript \in Seq(Messages) /\ LedIn(transcript)
      BY <2>1 DEF TypeOK, LedInv
    <3> HIDE DEF Messages
    <3> QED BY <2>2, <2>4, <2>6, <3>1, KeepsPairs
  <2> QED BY <2>5, <2>6
<1>2. Inv /\ [Next]_vars => [Oldest]_vars /\ [Pairs]_vars /\ [Bounds]_vars
  <2> HIDE DEF Oldest, Pairs, Bounds
  <2> QED BY <1>1
<1>3. OnlyTheOldestGo <=> [][Oldest]_vars
  BY DEF OnlyTheOldestGo
<1>4. TrimKeepsPairs <=> [][Pairs]_vars
  BY DEF TrimKeepsPairs
<1>5. TrimBounds <=> [][Bounds]_vars
  BY DEF TrimBounds
<1> HIDE DEF Oldest, Pairs, Bounds
<1> QED BY <1>2, <1>3, <1>4, <1>5, Start, Step, PTL DEF Spec, TrimsTheOldest
=============================================================================
