-------------------------- MODULE FilesystemProofs ---------------------------
(***************************************************************************)
(* For any number of calls, paths, requests and limits: a file leaves its  *)
(* path only by a call that says so, writes that overlap and all answer ok *)
(* leave nothing of what was there before, answers keep to the limits and  *)
(* to the size that was decided on, and calls that do not meet are those   *)
(* of AtomicFiles.                                                         *)
(***************************************************************************)
EXTENDS Filesystem, FiniteSetTheorems, SequenceTheorems, TLAPS

Piece == Calls \cup {Stranger, Gap}
TextSet == Seq(Piece)

Kinds == {"pending", "refused", "outside", "failed", "cancelled", "ok"}

Answers ==
  {a \in [is : Kinds, text : TextSet, entries : SUBSET Paths, cut : BOOLEAN] :
     /\ Cardinality(a.entries) <= MaxList
     /\ a.cut => Cardinality(a.entries) = MaxList}

Unopened == {"idle", "allowed", "moving", "opening", "opening late"}
Late == {"opening late", "writing late"}
Places == Unopened \cup {"reading", "writing", "writing late", "done"}

Typed ==
  /\ data \in Seq(TextSet) /\ hands \in Seq(SUBSET Calls) /\ Len(hands) = Len(data)
  /\ tree \in [Paths -> {Absent, Dir} \cup 1..Len(data)]
  /\ loop \in Calls \cup {Free}
  /\ pc \in [Calls -> Places]
  /\ req \in [Calls -> Requests \cup {NoRequest}]
  /\ size \in [Calls -> Nat \cup {-1}]
  /\ handle \in [Calls -> 0..Len(data)]
  /\ pos \in [Calls -> Nat]
  /\ got \in [Calls -> TextSet]
  /\ answer \in [Calls -> Answers]
  /\ met \in [Calls -> SUBSET Calls]
  /\ \A c \in Calls : c \notin met[c]

(* Where a call is tells what it has asked for, opened and answered.       *)
Control(c) ==
  /\ pc[c] \in Unopened => handle[c] = 0 /\ pos[c] = 0 /\ got[c] = <<>>
  /\ pc[c] # "idle" => req[c] \in Requests
  /\ loop = c <=> pc[c] \in {"allowed", "moving"}
  /\ pc[c] = "allowed" => ConditionPath(req[c]) \in Paths
  /\ pc[c] = "moving" => /\ req[c].tool = "move"
                         /\ req[c].path \in Paths /\ req[c].to \in Paths
                         /\ req[c].path # req[c].to
  /\ pc[c] = "opening" => req[c].tool \in {"read", "write"} /\ req[c].path \in Paths
  /\ pc[c] = "opening late" => req[c].tool = "write" /\ req[c].path \in Paths
  /\ pc[c] = "reading" => req[c].tool = "read" /\ req[c].path \in Paths /\ handle[c] > 0
  /\ Writing(c) => /\ req[c].tool = "write" /\ req[c].path \in Paths
                   /\ handle[c] > 0 /\ pos[c] < req[c].size
  /\ pc[c] \notin Late \cup {"done"} => answer[c] = Pending
  /\ pc[c] \in Late => Cancelled(c)

(* An action of one call leaves the others where they are.                 *)
Same(d) ==
  /\ pc'[d] = pc[d] /\ req'[d] = req[d] /\ size'[d] = size[d] /\ handle'[d] = handle[d]
  /\ pos'[d] = pos[d] /\ got'[d] = got[d] /\ answer'[d] = answer[d]

Act(c) == Loop(c) \/ Thread(c) \/ Cancel(c)

-----------------------------------------------------------------------------
(* A function on 1..n is a sequence.                                       *)
LEMMA FunctionIsSeq ==
  ASSUME NEW S, NEW n \in Nat, NEW f \in [1..n -> S]
  PROVE  f \in Seq(S) /\ Len(f) = n
<1>1. f \in Seq(S)
  BY SeqDef
<1> QED BY <1>1, LenProperties

LEMMA MaxOfTwo ==
  ASSUME NEW a \in Nat, NEW b \in Nat
  PROVE  Max({a, b}) = IF a >= b THEN a ELSE b
<1> DEFINE m == IF a >= b THEN a ELSE b
<1>1. m \in {a, b} /\ \A y \in {a, b} : m >= y
  OBVIOUS
<1>2. \A x \in {a, b} : (\A y \in {a, b} : x >= y) => x = m
  OBVIOUS
<1> QED BY <1>1, <1>2 DEF Max

(* A text one piece of which is overwritten.                               *)
LEMMA OverwrittenText ==
  ASSUME NEW f \in TextSet, NEW k \in Nat \ {0}, NEW c \in Calls
  PROVE  /\ Overwritten(f, k, c) \in TextSet
         /\ Len(Overwritten(f, k, c)) = IF Len(f) >= k THEN Len(f) ELSE k
         /\ \A j \in 1..Len(Overwritten(f, k, c)) :
              Overwritten(f, k, c)[j] = IF j = k THEN c ELSE IF j <= Len(f) THEN f[j] ELSE Gap
<1> DEFINE n == IF Len(f) >= k THEN Len(f) ELSE k
           g == [j \in 1..n |-> IF j = k THEN c ELSE IF j <= Len(f) THEN f[j] ELSE Gap]
<1>1. Len(f) \in Nat /\ \A j \in 1..Len(f) : f[j] \in Piece
  BY ElementOfSeq, LenProperties DEF TextSet
<1>2. n \in Nat
  BY <1>1
<1>3. g \in [1..n -> Piece]
  BY <1>1, <1>2 DEF Piece
<1>4. Max({Len(f), k}) = n
  BY <1>1, MaxOfTwo
<1>5. Overwritten(f, k, c) = g
  BY <1>4 DEF Overwritten
<1>6. g \in TextSet /\ Len(g) = n
  BY <1>2, <1>3, FunctionIsSeq DEF TextSet
<1> QED BY <1>5, <1>6

LEMMA EmptyText == <<>> \in TextSet /\ Len(<<>>) = 0
BY EmptySeq DEF TextSet

(* Answers without a listing, and listings.                                *)
LEMMA AnswerShape ==
  ASSUME NEW k \in Kinds, NEW t \in TextSet
  PROVE  Answer(k, t, {}, FALSE) \in Answers /\ Answer(k, t, {}, FALSE).is = k
<1>1. Cardinality({}) <= MaxList
  BY FS_EmptySet, FilesystemAssumption
<1> DEFINE a == Answer(k, t, {}, FALSE)
<1>2. a \in [is : Kinds, text : TextSet, entries : SUBSET Paths, cut : BOOLEAN]
  BY DEF Answer
<1>3. a.entries = {} /\ ~a.cut /\ a.is = k
  BY DEF Answer
<1> QED BY <1>1, <1>2, <1>3 DEF Answers

LEMMA PlainAnswer == \A k \in Kinds : Plain(k) \in Answers /\ Plain(k).is = k
BY EmptyText, AnswerShape DEF Plain

LEMMA ListingShape ==
  ASSUME NEW e \in SUBSET Paths
  PROVE  \A b \in BOOLEAN :
           Answer("ok", <<>>, e, b) \in [is : Kinds, text : TextSet, entries : SUBSET Paths, cut : BOOLEAN]
BY EmptyText DEF Answer, Kinds

LEMMA ListingAnswers ==
  ASSUME NEW p, NEW recursive, NEW a \in Listings(p, recursive)
  PROVE  a \in Answers /\ a.is = "ok"
<1> DEFINE all == Present(p, recursive)
<1>1. all \subseteq Paths /\ IsFiniteSet(all)
  BY FilesystemAssumption, FS_Subset DEF Present
<1>3. CASE Cardinality(all) <= MaxList
  <2>1. a = Answer("ok", <<>>, all, FALSE)
    BY <1>3 DEF Listings
  <2>2. a \in [is : Kinds, text : TextSet, entries : SUBSET Paths, cut : BOOLEAN]
    BY <2>1, <1>1, ListingShape
  <2>3. a.entries = all /\ ~a.cut /\ a.is = "ok"
    BY <2>1 DEF Answer
  <2> QED BY <2>2, <2>3, <1>3 DEF Answers
<1>4. CASE ~(Cardinality(all) <= MaxList)
  <2>1. PICK some \in kSubset(MaxList, all) : a = Answer("ok", <<>>, some, TRUE)
    BY <1>4 DEF Listings
  <2>2. some \subseteq Paths /\ Cardinality(some) = MaxList
    BY <2>1, <1>1 DEF kSubset
  <2>3. a \in [is : Kinds, text : TextSet, entries : SUBSET Paths, cut : BOOLEAN]
    BY <2>1, <2>2, ListingShape
  <2>4. a.entries = some /\ a.is = "ok"
    BY <2>1 DEF Answer
  <2> QED BY <2>2, <2>3, <2>4, FilesystemAssumption DEF Answers
<1> QED BY <1>3, <1>4

-----------------------------------------------------------------------------
LEMMA ActionOfOne == [Next]_vars => UNCHANGED vars \/ \E c \in Calls : Act(c)
BY DEF Next, Act

(* What ends, suspends, returns and awaits has in common.                  *)
LEMMA Frame ==
  ASSUME Typed, NEW c \in Calls, Act(c)
  PROVE  \A d \in Calls \ {c} : Same(d)
<1> SUFFICES ASSUME NEW d \in Calls, d # c PROVE Same(d)
  OBVIOUS
<1> USE DEF Typed, Ends, Suspends, Stays, Returns, Awaits, Aside, Same
<1>1. ASSUME NEW r \in Requests, Resolve(c, r) PROVE Same(d)
  BY <1>1 DEF Resolve
<1>2. CASE StartRead(c)
  BY <1>2 DEF StartRead
<1>3. CASE StartWrite(c)
  BY <1>3 DEF StartWrite
<1>4. CASE List(c)
  BY <1>4 DEF List
<1>5. CASE Delete(c)
  BY <1>5 DEF Delete
<1>6. CASE StartMove(c)
  BY <1>6 DEF StartMove
<1>7. CASE Rename(c)
  BY <1>7 DEF Rename
<1>8. CASE OpenToRead(c)
  BY <1>8 DEF OpenToRead
<1>9. CASE ReadPiece(c)
  BY <1>9 DEF ReadPiece
<1>10. CASE EndRead(c)
  BY <1>10 DEF EndRead
<1>11. CASE OpenToWrite(c)
  BY <1>11 DEF OpenToWrite
<1>12. CASE WritePiece(c)
  BY <1>12 DEF WritePiece
<1>13. CASE WriteStops(c)
  BY <1>13 DEF WriteStops
<1>14. CASE Cancel(c)
  BY <1>14 DEF Cancel
<1> QED BY <1>1, <1>2, <1>3, <1>4, <1>5, <1>6, <1>7, <1>8, <1>9, <1>10, <1>11, <1>12, <1>13, <1>14
        DEF Act, Loop, Thread

-----------------------------------------------------------------------------
(* Types and control.                                                      *)
ControlInv == \A c \in Calls : Control(c)

LEMMA NoRequestShape == NoRequest \notin Requests
BY FilesystemAssumption DEF NoRequest, Request, Tools

LEMMA SeedShape ==
  /\ Len(Seed) \in Nat /\ DOMAIN Seed = 1..Len(Seed)
  /\ \A i \in 1..Len(Seed) : Seed[i].path \in Paths /\ Seed[i].size \in Nat
<1>1. Seed \in Seq([path : Paths, size : Nat])
  BY FilesystemAssumption
<1>2. Len(Seed) \in Nat /\ DOMAIN Seed = 1..Len(Seed)
  BY <1>1, LenProperties
<1>3. \A i \in 1..Len(Seed) : Seed[i] \in [path : Paths, size : Nat]
  BY <1>1, ElementOfSeq
<1> QED BY <1>2, <1>3

LEMMA InitData ==
  ASSUME Init
  PROVE  /\ data \in Seq(TextSet) /\ Len(data) = Len(Seed)
         /\ hands \in Seq(SUBSET Calls) /\ Len(hands) = Len(Seed)
         /\ \A i \in 1..Len(Seed) : hands[i] = {}
<1>1. \A i \in 1..Len(Seed) : [k \in 1..Seed[i].size |-> Stranger] \in TextSet
  <2> SUFFICES ASSUME NEW i \in 1..Len(Seed) PROVE [k \in 1..Seed[i].size |-> Stranger] \in TextSet
    OBVIOUS
  <2>1. [k \in 1..Seed[i].size |-> Stranger] \in [1..Seed[i].size -> Piece]
    BY DEF Piece
  <2> QED BY <2>1, SeedShape, FunctionIsSeq DEF TextSet
<1>2. data \in [1..Len(Seed) -> TextSet] /\ hands \in [1..Len(Seed) -> SUBSET Calls]
  BY <1>1, SeedShape DEF Init
<1> QED BY <1>2, SeedShape, FunctionIsSeq DEF Init

LEMMA InitTree ==
  ASSUME Init
  PROVE  /\ tree \in [Paths -> {Absent, Dir} \cup 1..Len(Seed)]
         /\ \A p, q \in Paths : tree[p] > 0 /\ tree[p] = tree[q] => p = q
<1> DEFINE has(p) == \E i \in 1..Len(Seed) : Seed[i].path = p
           at(p) == CHOOSE i \in 1..Len(Seed) : Seed[i].path = p
<1>1. \A p \in Paths : has(p) => at(p) \in 1..Len(Seed) /\ Seed[at(p)].path = p
  OBVIOUS
<1>2. \A p \in Paths : /\ has(p) => tree[p] = at(p)
                       /\ ~has(p) => tree[p] \in {Absent, Dir}
  BY SeedShape DEF Init
<1>3. tree = [p \in Paths |-> tree[p]]
  BY DEF Init
<1> HIDE DEF has, at
<1>4. \A p \in Paths : tree[p] \in {Absent, Dir} \cup 1..Len(Seed)
  BY <1>1, <1>2
<1>5. tree \in [Paths -> {Absent, Dir} \cup 1..Len(Seed)]
  BY <1>3, <1>4
<1>6. \A p \in Paths : tree[p] > 0 => has(p) /\ Seed[tree[p]].path = p
  BY <1>1, <1>2, SeedShape DEF Absent, Dir
<1> QED BY <1>5, <1>6

LEMMA InitTyped == Init => Typed /\ ControlInv
<1> SUFFICES ASSUME Init PROVE Typed /\ ControlInv
  OBVIOUS
<1>1. Pending \in Answers /\ Pending.is = "pending"
  BY PlainAnswer DEF Pending, Kinds
<1>2. Typed
  BY <1>1, InitData, InitTree, SeedShape, EmptyText DEF Init, Typed, Places, Unopened
<1>3. ControlInv
  BY <1>1, FilesystemAssumption DEF Init, ControlInv, Control, Unopened, Late, Writing
<1> QED BY <1>2, <1>3

(* Only the call that has the loop gives it away, only a free one is taken.*)
LEMMA LoopStep ==
  ASSUME Typed, ControlInv, NEW c \in Calls, Act(c), NEW d \in Calls \ {c}
  PROVE  loop' = d <=> loop = d
<1>0. Free \notin Calls /\ Control(c)
  BY FilesystemAssumption DEF ControlInv
<1> USE DEF Ends, Suspends, Returns, Awaits, Aside, Stretch
<1>1. ASSUME NEW r \in Requests, Resolve(c, r) PROVE loop' = d <=> loop = d
  BY <1>0, <1>1 DEF Resolve
<1>2. CASE StartRead(c)
  BY <1>0, <1>2 DEF StartRead
<1>3. CASE StartWrite(c)
  BY <1>0, <1>3 DEF StartWrite
<1>4. CASE List(c)
  BY <1>0, <1>4 DEF List
<1>5. CASE Delete(c)
  BY <1>0, <1>5 DEF Delete
<1>6. CASE StartMove(c)
  BY <1>0, <1>6 DEF StartMove
<1>7. CASE Rename(c)
  BY <1>0, <1>7 DEF Rename, Control
<1>8. CASE Thread(c) \/ Cancel(c)
  BY <1>8 DEF Thread, OpenToRead, ReadPiece, EndRead, OpenToWrite, WritePiece, WriteStops, Cancel
<1> QED BY <1>1, <1>2, <1>3, <1>4, <1>5, <1>6, <1>7, <1>8 DEF Act, Loop

LEMMA OthersControl ==
  ASSUME Typed, ControlInv, NEW c \in Calls, Act(c)
  PROVE  \A d \in Calls \ {c} : Control(d)'
<1> SUFFICES ASSUME NEW d \in Calls \ {c} PROVE Control(d)'
  OBVIOUS
<1>1. Same(d) /\ Control(d) /\ (loop' = d <=> loop = d)
  BY Frame, LoopStep DEF ControlInv
<1> QED BY <1>1 DEF Same, Control, Writing, Cancelled, Late

(* What a call that ends or waits has answered.                            *)
LEMMA EndsTyped ==
  ASSUME Typed, NEW c \in Calls, NEW a \in Answers, Ends(c, a), a.is # "pending"
  PROVE  /\ answer' \in [Calls -> Answers]
         /\ pc' = [pc EXCEPT ![c] = "done"] /\ pc' \in [Calls -> Places]
         /\ answer'[c] = IF Cancelled(c) THEN answer[c] ELSE a
BY DEF Typed, Ends, Places

LEMMA SuspendsTyped ==
  ASSUME Typed, NEW c \in Calls, NEW at \in Places, Suspends(c, at)
  PROVE  /\ answer' = answer /\ answer' \in [Calls -> Answers]
         /\ pc' \in [Calls -> Places] /\ pc'[c] = at
BY DEF Typed, Suspends

(* The answers by name.                                                    *)
LEMMA Replies ==
  \A k \in {"refused", "outside", "failed", "cancelled", "ok"} :
    Plain(k) \in Answers /\ Plain(k).is = k /\ Plain(k).is # "pending"
BY PlainAnswer DEF Kinds

LEMMA ResolveTyped ==
  ASSUME Typed, ControlInv, NEW c \in Calls, NEW r \in Requests, Resolve(c, r)
  PROVE  Typed' /\ Control(c)'
<1>0. /\ Control(c) /\ pc[c] = "idle" /\ loop = Free /\ Free \notin Calls
      /\ r \in Request /\ Outside \notin Paths
      /\ answer[c] = Pending /\ Pending.is = "pending"
  BY FilesystemAssumption, PlainAnswer DEF ControlInv, Resolve, Control, Late, Pending, Kinds
<1>1. req' = [req EXCEPT ![c] = r] /\ UNCHANGED <<tree, data, hands, handle, pos, got>>
  BY DEF Resolve, Stays
<1>2. CASE ConditionPath(r) = Outside
  <2>1. Ends(c, Plain("refused")) /\ UNCHANGED <<loop, size, met>>
    BY <1>2 DEF Resolve
  <2>2. /\ answer' \in [Calls -> Answers] /\ pc' \in [Calls -> Places]
        /\ pc'[c] = "done"
    BY <2>1, EndsTyped, Replies DEF Typed
  <2>3. Typed'
    BY <1>1, <2>1, <2>2 DEF Typed
  <2>4. Control(c)'
    BY <1>0, <1>1, <2>1, <2>2 DEF Typed, Control, Unopened, Late, Writing
  <2> QED BY <2>3, <2>4
<1>3. CASE ConditionPath(r) # Outside
  <2>1. ConditionPath(r) \in Paths
    BY <1>0, <1>3 DEF ConditionPath, Request
  <2>2. Suspends(c, "allowed") /\ loop' = c
    BY <1>3 DEF Resolve
  <2>3. answer' = answer /\ answer' \in [Calls -> Answers] /\ pc' \in [Calls -> Places] /\ pc'[c] = "allowed"
    BY <2>2, SuspendsTyped DEF Places, Unopened
  <2>4. size' \in [Calls -> Nat \cup {-1}]
    <3>1. \A p \in Paths : IsFile(p) => SizeOf(p) \in Nat
      BY ElementOfSeq, LenProperties DEF IsFile, SizeOf, Typed, TextSet, Absent, Dir
    <3> QED BY <1>3, <2>1, <3>1 DEF Resolve, Typed
  <2>5. met' \in [Calls -> SUBSET Calls] /\ \A d \in Calls : d \notin met'[d]
    <3>1. ~InFlight(c)
      BY <1>0 DEF InFlight
    <3> DEFINE others == {d \in Calls : InFlight(d) /\ Meet(r, req[d])}
    <3>2. met' = [d \in Calls |-> IF d = c THEN others
                                  ELSE IF d \in others THEN met[d] \cup {c} ELSE met[d]]
      BY <1>3 DEF Resolve
    <3>3. others \subseteq Calls /\ c \notin others
      BY <3>1
    <3> HIDE DEF others
    <3> QED BY <3>2, <3>3 DEF Typed
  <2>6. Typed'
    BY <1>1, <2>2, <2>3, <2>4, <2>5 DEF Typed
  <2>7. Control(c)'
    BY <1>0, <1>1, <2>1, <2>2, <2>3 DEF Typed, Control, Unopened, Late, Writing, Cancelled
  <2> QED BY <2>6, <2>7
<1> QED BY <1>2, <1>3

(* A stretch that ends in an answer, or at an await before a file is open. *)
LEMMA ReturnsTyped ==
  ASSUME Typed, ControlInv, NEW c \in Calls, NEW a \in Answers, a.is # "pending",
         pc[c] \in {"allowed", "moving"}, Returns(c, a),
         UNCHANGED <<data, hands, handle>>,
         tree' \in [Paths -> {Absent, Dir} \cup 1..Len(data)]
  PROVE  Typed' /\ Control(c)'
<1>1. Control(c) /\ Free \notin Calls
  BY FilesystemAssumption DEF ControlInv
<1>2. /\ answer' \in [Calls -> Answers] /\ pc' \in [Calls -> Places] /\ pc'[c] = "done"
      /\ loop' = Free /\ UNCHANGED <<req, size, pos, got, met>>
  BY EndsTyped DEF Returns, Typed
<1>3. Typed'
  BY <1>2 DEF Typed
<1>4. Control(c)'
  BY <1>1, <1>2 DEF Typed, Control, Unopened, Late, Writing
<1> QED BY <1>3, <1>4

LEMMA OpensTyped ==
  ASSUME Typed, ControlInv, NEW c \in Calls, pc[c] = "allowed", Awaits(c, "opening"),
         req[c].tool \in {"read", "write"}, UNCHANGED <<data, hands, handle>>,
         tree' \in [Paths -> {Absent, Dir} \cup 1..Len(data)]
  PROVE  Typed' /\ Control(c)'
<1>1. Control(c) /\ Free \notin Calls
  BY FilesystemAssumption DEF ControlInv
<1>2. /\ answer' = answer /\ answer' \in [Calls -> Answers] /\ pc' \in [Calls -> Places] /\ pc'[c] = "opening"
      /\ loop' = Free /\ UNCHANGED <<req, size, pos, got, met>>
  BY SuspendsTyped DEF Awaits, Places, Unopened
<1>3. Typed'
  BY <1>2 DEF Typed
<1>4. Control(c)'
  BY <1>1, <1>2 DEF Typed, Control, Unopened, Late, Writing, ConditionPath, Cancelled
<1> QED BY <1>3, <1>4

LEMMA WithParentsTyped ==
  ASSUME Typed, NEW p \in Paths
  PROVE  WithParents(p) \in [Paths -> {Absent, Dir} \cup 1..Len(data)]
BY DEF WithParents, Typed

LEMMA LoopTyped ==
  ASSUME Typed, ControlInv, NEW c \in Calls,
         StartRead(c) \/ StartWrite(c) \/ List(c) \/ Delete(c) \/ StartMove(c) \/ Rename(c)
  PROVE  Typed' /\ Control(c)'
<1>0. Control(c) /\ tree \in [Paths -> {Absent, Dir} \cup 1..Len(data)]
  BY DEF ControlInv, Typed
<1>1. CASE StartRead(c)
  <2>1. pc[c] = "allowed" /\ req[c].tool = "read" /\ UNCHANGED <<data, hands, handle, tree>>
    BY <1>1 DEF StartRead, Stretch, Stays
  <2>2. Returns(c, Plain("refused")) \/ Awaits(c, "opening")
    BY <1>1 DEF StartRead
  <2> QED BY <1>0, <2>1, <2>2, ReturnsTyped, OpensTyped, Replies
<1>2. CASE StartWrite(c)
  <2>1. /\ pc[c] = "allowed" /\ req[c].tool = "write" /\ UNCHANGED <<data, hands, handle>>
        /\ req[c].path \in Paths
    BY <1>0, <1>2 DEF StartWrite, Stretch, Control, ConditionPath
  <2>2. tree' = tree \/ tree' = WithParents(req[c].path)
    BY <1>2 DEF StartWrite
  <2>3. tree' \in [Paths -> {Absent, Dir} \cup 1..Len(data)]
    BY <1>0, <2>1, <2>2, WithParentsTyped
  <2>4. Returns(c, Plain("outside")) \/ Returns(c, Plain("refused")) \/ Awaits(c, "opening")
    BY <1>2 DEF StartWrite
  <2> QED BY <2>1, <2>3, <2>4, ReturnsTyped, OpensTyped, Replies
<1>3. CASE List(c)
  <2>1. pc[c] = "allowed" /\ UNCHANGED <<data, hands, handle, tree>>
    BY <1>3 DEF List, Stretch, Stays
  <2>2. Returns(c, Plain("refused"))
        \/ \E a \in Listings(req[c].path, req[c].recursive) : Returns(c, a)
    BY <1>3 DEF List
  <2>3. \A a \in Listings(req[c].path, req[c].recursive) : a \in Answers /\ a.is # "pending"
    BY ListingAnswers
  <2> QED BY <1>0, <2>1, <2>2, <2>3, ReturnsTyped, Replies
<1>4. CASE Delete(c)
  <2>1. pc[c] = "allowed" /\ UNCHANGED <<data, hands, handle>>
    BY <1>4 DEF Delete, Stretch
  <2>2. tree' = tree \/ tree' = [tree EXCEPT ![req[c].path] = Absent]
    BY <1>4 DEF Delete
  <2>3. tree' \in [Paths -> {Absent, Dir} \cup 1..Len(data)]
    BY <1>0, <2>2
  <2>4. Returns(c, Plain("refused")) \/ Returns(c, Plain("ok"))
    BY <1>4 DEF Delete
  <2> QED BY <2>1, <2>3, <2>4, ReturnsTyped, Replies
<1>5. CASE StartMove(c)
  <2>1. pc[c] = "allowed" /\ req[c].tool = "move" /\ UNCHANGED <<data, hands, handle, tree>>
    BY <1>5 DEF StartMove, Stretch, Stays
  <2>2. CASE Returns(c, Plain("outside")) \/ Returns(c, Plain("refused"))
    BY <1>0, <2>1, <2>2, ReturnsTyped, Replies
  <2>3. CASE /\ req[c].path # Outside /\ IsFile(req[c].path) /\ ~Exists(req[c].to)
             /\ Suspends(c, "moving") /\ UNCHANGED <<loop, req, size, pos, got, met>>
    <3>1. /\ answer' = answer /\ answer' \in [Calls -> Answers] /\ pc' \in [Calls -> Places]
          /\ pc'[c] = "moving"
      BY <2>3, SuspendsTyped DEF Places, Unopened
    <3>2. Typed'
      BY <2>1, <2>3, <3>1 DEF Typed
    <3>3. req[c].to \in Paths /\ req[c].path \in Paths /\ req[c].path # req[c].to
      BY <1>0, <2>1, <2>3 DEF Control, ConditionPath, IsFile, Exists, Typed, Absent
    <3>4. Control(c)'
      BY <1>0, <2>1, <2>3, <3>1, <3>3 DEF Typed, Control, Unopened, Late, Writing, Cancelled
    <3> QED BY <3>2, <3>4
  <2> QED BY <1>5, <2>2, <2>3 DEF StartMove
<1>6. CASE Rename(c)
  <2>1. pc[c] = "moving" /\ UNCHANGED <<data, hands, handle>> /\ req[c].to \in Paths /\ req[c].path \in Paths
    BY <1>0, <1>6 DEF Rename, Control
  <2>2. tree' = tree \/ tree' = [WithParents(req[c].to) EXCEPT ![req[c].to] = tree[req[c].path],
                                                              ![req[c].path] = Absent]
    BY <1>6 DEF Rename
  <2>3. tree' \in [Paths -> {Absent, Dir} \cup 1..Len(data)]
    BY <1>0, <2>1, <2>2, WithParentsTyped
  <2>4. Returns(c, Plain("failed")) \/ Returns(c, Plain("ok"))
    BY <1>6 DEF Rename
  <2> QED BY <2>1, <2>3, <2>4, ReturnsTyped, Replies
<1> QED BY <1>1, <1>2, <1>3, <1>4, <1>5, <1>6

-----------------------------------------------------------------------------
(* The threads.                                                            *)
LEMMA DataShape ==
  ASSUME Typed
  PROVE  /\ Len(data) \in Nat /\ Inodes = 1..Len(data) /\ DOMAIN hands = 1..Len(data)
         /\ \A i \in 1..Len(data) : data[i] \in TextSet /\ Len(data[i]) \in Nat /\ hands[i] \subseteq Calls
<1>1. Len(data) \in Nat /\ DOMAIN data = 1..Len(data) /\ DOMAIN hands = 1..Len(data)
  BY LenProperties DEF Typed
<1>2. \A i \in 1..Len(data) : data[i] \in TextSet /\ hands[i] \in SUBSET Calls
  BY ElementOfSeq DEF Typed
<1>3. \A t \in TextSet : Len(t) \in Nat
  BY LenProperties DEF TextSet
<1> QED BY <1>1, <1>2, <1>3 DEF Inodes

LEMMA FileInode ==
  ASSUME Typed
  PROVE  /\ \A p \in Paths : IsFile(p) => tree[p] \in 1..Len(data)
         /\ \A p : IsFile(p) => p \in Paths
BY DataShape DEF IsFile, Typed, Absent, Dir

LEMMA ReadTyped ==
  ASSUME Typed, ControlInv, NEW c \in Calls, OpenToRead(c) \/ ReadPiece(c) \/ EndRead(c)
  PROVE  Typed' /\ Control(c)'
<1>0. Control(c)
  BY DEF ControlInv
<1>1. CASE OpenToRead(c)
  <2>1. /\ pc[c] = "opening" /\ req[c].tool = "read"
        /\ UNCHANGED <<loop, req, size, met, tree, data, hands, pos, got>>
    BY <1>1 DEF OpenToRead, ThreadOf, Aside
  <2>2. CASE IsFile(req[c].path) /\ Suspends(c, "reading")
             /\ handle' = [handle EXCEPT ![c] = tree[req[c].path]]
    <3>1. /\ answer' = answer /\ answer' \in [Calls -> Answers] /\ pc' \in [Calls -> Places]
          /\ pc'[c] = "reading"
      BY <2>2, SuspendsTyped DEF Places
    <3>2. tree[req[c].path] \in 1..Len(data)
      BY <2>2, FileInode
    <3>3. Typed'
      <4>1. handle' \in [Calls -> 0..Len(data)]
        BY <2>2, <3>2, DataShape DEF Typed
      <4> QED BY <2>1, <3>1, <4>1 DEF Typed
    <3>4. Control(c)'
      BY <1>0, <2>1, <2>2, <3>1, <3>2 DEF Typed, Control, Unopened, Late, Writing, Cancelled
    <3> QED BY <3>3, <3>4
  <2>3. CASE Ends(c, Plain("failed")) /\ UNCHANGED handle
    <3>1. /\ answer' \in [Calls -> Answers] /\ pc' \in [Calls -> Places] /\ pc'[c] = "done"
      BY <2>3, EndsTyped, Replies DEF Typed
    <3>2. Typed'
      BY <2>1, <2>3, <3>1 DEF Typed
    <3>3. Control(c)'
      BY <1>0, <2>1, <2>3, <3>1 DEF Typed, Control, Unopened, Late, Writing
    <3> QED BY <3>2, <3>3
  <2> QED BY <1>1, <2>2, <2>3 DEF OpenToRead
<1>2. CASE ReadPiece(c)
  <2>1. /\ pc[c] = "reading" /\ handle[c] \in 1..Len(data) /\ pos[c] \in Nat
        /\ data[handle[c]] \in TextSet
    BY <1>0, <1>2, ElementOfSeq DEF ReadPiece, Control, Typed
  <2>2. data[handle[c]][pos[c] + 1] \in Piece
    <3>1. pos[c] + 1 \in 1..Len(data[handle[c]])
      BY <1>2, <2>1, LenProperties DEF ReadPiece, TextSet
    <3> QED BY <2>1, <3>1, ElementOfSeq DEF TextSet
  <2>3. got' \in [Calls -> TextSet]
    BY <1>2, <2>2, AppendProperties DEF ReadPiece, Typed, TextSet
  <2>4. Typed'
    BY <1>2, <2>1, <2>3 DEF ReadPiece, Aside, Typed
  <2>5. Control(c)'
    BY <1>0, <1>2, <2>1 DEF ReadPiece, Aside, Typed, Control, Unopened, Late, Writing, Cancelled
  <2> QED BY <2>4, <2>5
<1>3. CASE EndRead(c)
  <2>1. \E a \in Answers : a.is # "pending" /\ Ends(c, a)
    BY <1>3, Replies, AnswerShape DEF EndRead, Typed, Kinds
  <2>2. /\ answer' \in [Calls -> Answers] /\ pc' \in [Calls -> Places] /\ pc'[c] = "done"
    BY <2>1, EndsTyped DEF Typed
  <2>3. Typed'
    BY <1>3, <2>2 DEF EndRead, Aside, Typed
  <2>4. Control(c)'
    BY <1>0, <1>3, <2>2 DEF EndRead, Aside, Typed, Control, Unopened, Late, Writing
  <2> QED BY <2>3, <2>4
<1> QED BY <1>1, <1>2, <1>3

(* Opening to write, in its three cases: there is a directory, a file, or  *)
(* nothing.                                                                *)
OpensDirectory(c) ==
  /\ Ends(c, Plain("failed"))
  /\ UNCHANGED <<tree, data, hands, prior, handle>>

OpensFile(c, i) ==
  /\ UNCHANGED tree
  /\ data' = [data EXCEPT ![i] = <<>>]
  /\ hands' = [hands EXCEPT ![i] = (IF WritersOf(i) = {} THEN {} ELSE hands[i]) \cup {c}]

MakesFile(c, i) ==
  /\ i = Len(data) + 1
  /\ tree' = [tree EXCEPT ![req[c].path] = i]
  /\ data' = Append(data, <<>>)
  /\ hands' = Append(hands, {c})

Opens(c, i) ==
  /\ pc' = [pc EXCEPT ![c] = IF pc[c] = "opening" THEN "writing" ELSE "done"]
  /\ handle' = [handle EXCEPT ![c] = i]
  /\ UNCHANGED answer

LEMMA OpenToWriteCases ==
  ASSUME Typed, ControlInv, NEW c \in Calls, OpenToWrite(c)
  PROVE  /\ pc[c] \in {"opening", "opening late"} /\ req[c].tool = "write" /\ req[c].path \in Paths
         /\ UNCHANGED <<loop, req, size, met, pos, got>>
         /\ \/ tree[req[c].path] = Dir /\ OpensDirectory(c)
            \/ /\ tree[req[c].path] \in 1..Len(data)
               /\ Opens(c, tree[req[c].path]) /\ OpensFile(c, tree[req[c].path])
            \/ /\ tree[req[c].path] = Absent
               /\ Opens(c, Len(data) + 1) /\ MakesFile(c, Len(data) + 1)
<1> DEFINE p == req[c].path
<1>1. /\ pc[c] \in {"opening", "opening late"} /\ req[c].tool = "write" /\ p \in Paths
      /\ UNCHANGED <<loop, req, size, met, pos, got>>
  BY DEF OpenToWrite, ThreadOf, Aside, ControlInv, Control
<1>2. tree[p] \in {Absent, Dir} \cup 1..Len(data)
  BY <1>1 DEF Typed
<1>3. CASE tree[p] = Dir
  BY <1>1, <1>3 DEF OpenToWrite, OpensDirectory
<1>4. CASE tree[p] \in 1..Len(data)
  <2>0. tree[p] > 0 /\ tree[p] # -1
    BY <1>4, DataShape
  <2>1. IsFile(p) /\ tree[p] # Dir
    BY <1>1, <2>0 DEF IsFile, Dir
  <2>2. tree' = tree
    BY <1>1, <2>1 DEF OpenToWrite, Typed
  <2> QED BY <1>1, <1>4, <2>1, <2>2 DEF OpenToWrite, Opens, OpensFile, Emptied
<1>5. CASE tree[p] = Absent
  <2>1. ~IsFile(p) /\ tree[p] # Dir
    BY <1>5 DEF IsFile, Absent, Dir
  <2> QED BY <1>1, <1>5, <2>1 DEF OpenToWrite, Opens, MakesFile
<1> QED BY <1>1, <1>2, <1>3, <1>4, <1>5

(* What becomes of the texts.                                              *)
LEMMA OpensFileData ==
  ASSUME Typed, NEW c \in Calls, NEW i \in 1..Len(data), OpensFile(c, i)
  PROVE  /\ data' \in Seq(TextSet) /\ hands' \in Seq(SUBSET Calls)
         /\ Len(data') = Len(data) /\ Len(hands') = Len(data)
         /\ data'[i] = <<>> /\ c \in hands'[i]
         /\ hands'[i] = IF WritersOf(i) = {} THEN {c} ELSE hands[i] \cup {c}
         /\ \A j \in 1..Len(data) : j # i => data'[j] = data[j] /\ hands'[j] = hands[j]
<1> DEFINE h == (IF WritersOf(i) = {} THEN {} ELSE hands[i]) \cup {c}
<1>1. h \in SUBSET Calls /\ <<>> \in TextSet
  BY DataShape, EmptyText
<1>2. /\ data' = [data EXCEPT ![i] = <<>>] /\ hands' = [hands EXCEPT ![i] = h]
      /\ data \in Seq(TextSet) /\ hands \in Seq(SUBSET Calls) /\ Len(hands) = Len(data)
  BY DEF OpensFile, Typed
<1>3. h = IF WritersOf(i) = {} THEN {c} ELSE hands[i] \cup {c}
  OBVIOUS
<1> HIDE DEF h
<1>4. /\ data' \in Seq(TextSet) /\ Len(data') = Len(data)
      /\ \A j \in 1..Len(data) : data'[j] = IF j = i THEN <<>> ELSE data[j]
  BY <1>1, <1>2, ExceptSeq
<1>5. /\ hands' \in Seq(SUBSET Calls) /\ Len(hands') = Len(data)
      /\ \A j \in 1..Len(data) : hands'[j] = IF j = i THEN h ELSE hands[j]
  BY <1>1, <1>2, ExceptSeq
<1> QED BY <1>3, <1>4, <1>5

LEMMA MakesFileData ==
  ASSUME Typed, NEW c \in Calls, NEW i, MakesFile(c, i)
  PROVE  /\ data' \in Seq(TextSet) /\ hands' \in Seq(SUBSET Calls)
         /\ i = Len(data) + 1 /\ Len(data') = i /\ Len(hands') = i
         /\ data'[i] = <<>> /\ hands'[i] = {c}
         /\ \A j \in 1..Len(data) : data'[j] = data[j] /\ hands'[j] = hands[j]
<1>1. /\ data' = Append(data, <<>>) /\ hands' = Append(hands, {c}) /\ i = Len(data) + 1
      /\ data \in Seq(TextSet) /\ hands \in Seq(SUBSET Calls) /\ Len(hands) = Len(data)
  BY DEF MakesFile, Typed
<1>2. /\ data' \in Seq(TextSet) /\ Len(data') = i /\ data'[i] = <<>>
      /\ \A j \in 1..Len(data) : data'[j] = data[j]
  BY <1>1, EmptyText, AppendProperties
<1>3. /\ hands' \in Seq(SUBSET Calls) /\ Len(hands') = i /\ hands'[i] = {c}
      /\ \A j \in 1..Len(data) : hands'[j] = hands[j]
  BY <1>1, AppendProperties
<1> QED BY <1>1, <1>2, <1>3

LEMMA WritePieceData ==
  ASSUME Typed, ControlInv, NEW c \in Calls, WritePiece(c)
  PROVE  LET i == handle[c] IN
         /\ i \in 1..Len(data)
         /\ data' \in Seq(TextSet) /\ Len(data') = Len(data)
         /\ data'[i] = Overwritten(data[i], pos[c] + 1, c)
         /\ \A j \in 1..Len(data) : j # i => data'[j] = data[j]
<1> DEFINE i == handle[c]
<1>0. Control(c) /\ Writing(c) /\ handle[c] \in 0..Len(data) /\ pos[c] \in Nat
  BY DEF WritePiece, ControlInv, Typed
<1>a. handle[c] > 0
  BY <1>0 DEF Control
<1>1. i \in 1..Len(data) /\ pos[c] + 1 \in Nat \ {0}
  BY <1>0, <1>a, DataShape
<1>2. Overwritten(data[i], pos[c] + 1, c) \in TextSet
  BY <1>1, DataShape, OverwrittenText
<1>3. data' = [data EXCEPT ![i] = Overwritten(data[i], pos[c] + 1, c)] /\ data \in Seq(TextSet)
  BY <1>1, DataShape DEF WritePiece, Typed, Inodes
<1>4. /\ data' \in Seq(TextSet) /\ Len(data') = Len(data)
      /\ \A j \in 1..Len(data) :
           data'[j] = IF j = i THEN Overwritten(data[i], pos[c] + 1, c) ELSE data[j]
  BY <1>1, <1>2, <1>3, ExceptSeq
<1> QED BY <1>1, <1>4

LEMMA WriteTyped ==
  ASSUME Typed, ControlInv, NEW c \in Calls, OpenToWrite(c) \/ WritePiece(c) \/ WriteStops(c)
  PROVE  Typed' /\ Control(c)'
<1>0. Control(c) /\ Len(data) \in Nat
  BY DataShape DEF ControlInv
<1>1. CASE OpenToWrite(c)
  <2> DEFINE p == req[c].path
  <2>1. /\ pc[c] \in {"opening", "opening late"} /\ req[c].tool = "write" /\ p \in Paths
        /\ UNCHANGED <<loop, req, size, met, pos, got>>
    BY <1>1, OpenToWriteCases
  <2>2. CASE OpensDirectory(c)
    <3>1. /\ answer' \in [Calls -> Answers] /\ pc' \in [Calls -> Places] /\ pc'[c] = "done"
      BY <2>2, EndsTyped, Replies DEF OpensDirectory, Typed
    <3>2. Typed'
      BY <2>1, <2>2, <3>1 DEF OpensDirectory, Typed
    <3>3. Control(c)'
      BY <1>0, <2>1, <2>2, <3>1 DEF OpensDirectory, Typed, Control, Unopened, Late, Writing
    <3> QED BY <3>2, <3>3
  <2>3. ASSUME NEW i \in 1..(Len(data) + 1), Opens(c, i) PROVE Control(c)'
    <3>1. req[c].size > 0 /\ req[c].size \in Nat
      BY <1>0, <2>1, FilesystemAssumption DEF Control, Request
    <3>i. i > 0
      BY <1>0
    <3>2. /\ handle'[c] = i /\ req'[c] = req[c] /\ answer'[c] = answer[c] /\ loop' = loop
          /\ pos'[c] = pos[c]
      BY <2>1, <2>3 DEF Opens, Typed
    <3>3. pos[c] = 0 /\ loop # c
      BY <1>0, <2>1 DEF Control, Unopened
    <3>4. \/ pc[c] = "opening" /\ pc'[c] = "writing" /\ answer[c] = Pending
          \/ pc'[c] = "done"
      BY <1>0, <2>1, <2>3 DEF Opens, Typed, Control, Late
    <3> QED BY <1>0, <2>1, <3>i, <3>1, <3>2, <3>3, <3>4 DEF Control, Unopened, Late, Writing, Cancelled
  <2>4. CASE tree[p] \in 1..Len(data) /\ Opens(c, tree[p]) /\ OpensFile(c, tree[p])
    <3>0. /\ data' \in Seq(TextSet) /\ hands' \in Seq(SUBSET Calls)
          /\ Len(data') = Len(data) /\ Len(hands') = Len(data) /\ tree' = tree
      BY <2>4, OpensFileData DEF OpensFile
    <3>2. handle' \in [Calls -> 0..Len(data)]
      BY <1>0, <2>4 DEF Opens, Typed
    <3>3. pc' \in [Calls -> Places] /\ answer' = answer
      BY <2>4 DEF Opens, Typed, Places
    <3>1. Typed'
      BY <2>1, <3>0, <3>2, <3>3 DEF Typed
    <3> QED BY <1>0, <2>3, <2>4, <3>1
  <2>5. CASE tree[p] = Absent /\ Opens(c, Len(data) + 1) /\ MakesFile(c, Len(data) + 1)
    <3>1. /\ data' \in Seq(TextSet) /\ hands' \in Seq(SUBSET Calls)
          /\ Len(data') = Len(data) + 1 /\ Len(hands') = Len(data')
      BY <2>5, MakesFileData
    <3>0. Len(data) + 1 \in 1..Len(data') /\ 1..Len(data) \subseteq 1..Len(data')
      BY <1>0, <3>1
    <3>2. tree' \in [Paths -> {Absent, Dir} \cup 1..Len(data')]
      BY <2>1, <2>5, <3>0 DEF MakesFile, Typed
    <3>3. handle' \in [Calls -> 0..Len(data')]
      BY <1>0, <2>5, <3>1 DEF Opens, Typed
    <3>5. pc' \in [Calls -> Places] /\ answer' = answer
      BY <2>5 DEF Opens, Typed, Places
    <3>4. Typed'
      BY <2>1, <3>1, <3>2, <3>3, <3>5 DEF Typed
    <3> QED BY <1>0, <2>3, <2>5, <3>4
  <2> QED BY <1>1, <2>2, <2>4, <2>5, OpenToWriteCases
<1>2. CASE WritePiece(c)
  <2>1. /\ data' \in Seq(TextSet) /\ Len(data') = Len(data)
        /\ UNCHANGED <<tree, hands, handle, got, loop, req, size, met>>
        /\ pos' = [pos EXCEPT ![c] = pos[c] + 1]
        /\ Writing(c) /\ pos[c] < req[c].size
    BY <1>2, WritePieceData DEF WritePiece, Aside
  <2>p. pos' \in [Calls -> Nat] /\ pos'[c] = pos[c] + 1
    BY <2>1 DEF Typed
  <2>2. CASE Ends(c, Plain("ok")) /\ pos[c] + 1 = req[c].size
    <3>1. /\ answer' \in [Calls -> Answers] /\ pc' \in [Calls -> Places] /\ pc'[c] = "done"
      BY <2>2, EndsTyped, Replies DEF Typed
    <3>2. Typed'
      BY <2>1, <2>p, <3>1 DEF Typed
    <3>3. Control(c)'
      BY <1>0, <2>1, <3>1 DEF Typed, Control, Unopened, Late, Writing
    <3> QED BY <3>2, <3>3
  <2>3. CASE UNCHANGED <<pc, answer>> /\ pos[c] + 1 # req[c].size
    <3>1. Typed'
      BY <2>1, <2>p, <2>3 DEF Typed
    <3>2. req[c].size \in Nat /\ pos[c] \in Nat
      BY <1>0, <2>1, FilesystemAssumption DEF Control, Request, Writing, Typed
    <3>4. pos'[c] < req[c].size
      BY <2>1, <2>p, <2>3, <3>2
    <3>3. Control(c)'
      BY <1>0, <2>1, <2>3, <3>4 DEF Control, Unopened, Late, Writing, Cancelled
    <3> QED BY <3>1, <3>3
  <2> QED BY <1>2, <2>2, <2>3 DEF WritePiece
<1>3. CASE WriteStops(c)
  <2>1. /\ answer' \in [Calls -> Answers] /\ pc' \in [Calls -> Places] /\ pc'[c] = "done"
    BY <1>3, EndsTyped, Replies DEF WriteStops, Typed
  <2>2. Typed'
    BY <1>3, <2>1 DEF WriteStops, Aside, Stays, Typed
  <2>3. Control(c)'
    BY <1>0, <1>3, <2>1 DEF WriteStops, Aside, Stays, Typed, Control, Unopened, Late, Writing
  <2> QED BY <2>2, <2>3
<1> QED BY <1>1, <1>2, <1>3

LEMMA CancelTyped ==
  ASSUME Typed, ControlInv, NEW c \in Calls, Cancel(c)
  PROVE  Typed' /\ Control(c)'
<1>0. Control(c)
  BY DEF ControlInv
<1>1. /\ answer' \in [Calls -> Answers] /\ answer'[c].is = "cancelled"
      /\ UNCHANGED <<loop, req, size, met, tree, data, hands, handle, pos, got>>
  BY Replies DEF Cancel, Aside, Stays, Typed
<1>2. \/ pc' = [pc EXCEPT ![c] = "done"]
      \/ /\ req[c].tool = "write" /\ pc[c] # "reading"
         /\ pc' = [pc EXCEPT ![c] = IF pc[c] = "opening" THEN "opening late" ELSE "writing late"]
  BY <1>0 DEF Cancel, Control
<1>3. Typed'
  BY <1>1, <1>2 DEF Typed, Places, Unopened
<1>4. pc[c] \in {"opening", "writing", "reading"}
  BY DEF Cancel
<1>5. Control(c)'
  BY <1>0, <1>1, <1>2, <1>4 DEF Typed, Control, Unopened, Late, Writing, Cancelled
<1> QED BY <1>3, <1>5

LEMMA TypedStep == Typed /\ ControlInv /\ [Next]_vars => Typed' /\ ControlInv'
<1> SUFFICES ASSUME Typed, ControlInv, [Next]_vars PROVE Typed' /\ ControlInv'
  OBVIOUS
<1>1. CASE UNCHANGED vars
  BY <1>1 DEF vars, Typed, ControlInv, Control, Writing, Cancelled, ConditionPath
<1>2. ASSUME NEW c \in Calls, Act(c) PROVE Typed' /\ ControlInv'
  <2>1. Typed' /\ Control(c)'
    BY <1>2, ResolveTyped, LoopTyped, ReadTyped, WriteTyped, CancelTyped DEF Act, Loop, Thread
  <2> QED BY <1>2, <2>1, OthersControl DEF ControlInv
<1> QED BY <1>1, <1>2, ActionOfOne

LEMMA TypedImpliesTypeOK == Typed => TypeOK
<1> SUFFICES ASSUME Typed PROVE TypeOK
  OBVIOUS
<1>1. \A i \in Inodes : data[i] \in Seq(Calls \cup {Stranger, Gap}) /\ hands[i] \subseteq Calls
  BY DataShape DEF TextSet, Piece
<1>2. tree \in [Paths -> {Absent, Dir} \cup Inodes] /\ handle \in [Calls -> Inodes \cup {0}]
  BY DataShape DEF Typed
<1>3. \A c \in Calls : met[c] \subseteq Calls \ {c} /\ pos[c] \in Nat
  BY DEF Typed
<1> QED BY <1>1, <1>2, <1>3 DEF Typed, TypeOK, Places, Unopened

(* The variables of Filesystem keep their types.                           *)
THEOREM TypeCorrect == Spec => []TypeOK
<1>1. Spec => [](Typed /\ ControlInv)
  BY InitTyped, TypedStep, PTL DEF Spec
<1> QED BY <1>1, TypedImpliesTypeOK, PTL

-----------------------------------------------------------------------------
(* Calls that are in flight together, on a path in common, have met.       *)
Meetings ==
  /\ \A c \in Calls : pc[c] = "idle" => met[c] = {}
  /\ \A c, d \in Calls :
       c # d /\ InFlight(c) /\ InFlight(d) /\ Meet(req[c], req[d]) => d \in met[c]

LEMMA MeetSymmetric == \A r, s : Meet(r, s) => Meet(s, r)
BY DEF Meet

LEMMA MeetAt ==
  ASSUME NEW r, NEW s, NEW p \in Paths, r.path = p \/ r.to = p, s.path = p \/ s.to = p,
         ~OnlyReads(r) \/ ~OnlyReads(s)
  PROVE  Meet(r, s)
<1>1. p \in Named(r) /\ p \in Named(s)
  BY FilesystemAssumption DEF Named
<1> QED BY <1>1 DEF Meet

(* What a call asks for, and whom it has met, changes when it begins.      *)
LEMMA BegunStep ==
  ASSUME Typed, ControlInv, NEW c \in Calls, Act(c)
  PROVE  \/ \E r \in Requests : Resolve(c, r)
         \/ UNCHANGED <<req, met>> /\ InFlight(c) /\ pc'[c] # "idle"
<1> USE DEF Returns, Awaits, Aside, Stretch, InFlight, ThreadOf, Writing, Ends, Suspends, Typed
<1>1. CASE StartRead(c) \/ StartWrite(c) \/ List(c) \/ Delete(c) \/ StartMove(c)
  BY <1>1 DEF StartRead, StartWrite, List, Delete, StartMove
<1>2. CASE Rename(c)
  BY <1>2 DEF Rename
<1>3. CASE Thread(c)
  BY <1>3 DEF Thread, OpenToRead, ReadPiece, EndRead, OpenToWrite, WritePiece, WriteStops
<1>4. CASE Cancel(c)
  BY <1>4 DEF Cancel
<1> QED BY <1>1, <1>2, <1>3, <1>4 DEF Act, Loop

LEMMA ResolveMet ==
  ASSUME Typed, ControlInv, Meetings, NEW c \in Calls, NEW r \in Requests, Resolve(c, r)
  PROVE  /\ ~InFlight(c) /\ req' = [req EXCEPT ![c] = r]
         /\ \A d \in Calls : met[d] \subseteq met'[d]
         /\ InFlight(c)' => \A d \in Calls : InFlight(d) /\ Meet(r, req[d])
                                          => d \in met'[c] /\ c \in met'[d]
<1> DEFINE others == {d \in Calls : InFlight(d) /\ Meet(r, req[d])}
<1>1. pc[c] = "idle" /\ req' = [req EXCEPT ![c] = r]
  BY DEF Resolve
<1>2. CASE ConditionPath(r) = Outside
  <2>1. pc'[c] = "done" /\ met' = met
    BY <1>2 DEF Resolve, Ends, Typed
  <2> QED BY <1>1, <2>1 DEF InFlight
<1>3. CASE ConditionPath(r) # Outside
  <2>1. met' = [d \in Calls |-> IF d = c THEN others
                                ELSE IF d \in others THEN met[d] \cup {c} ELSE met[d]]
    BY <1>3 DEF Resolve
  <2>2. ~InFlight(c)
    BY <1>1 DEF InFlight
  <2>4. others \subseteq Calls /\ c \notin others
    BY <2>2
  <2>5. \A d \in Calls : InFlight(d) /\ Meet(r, req[d]) => d \in others
    OBVIOUS
  <2>6. met'[c] = others /\ \A d \in others : met'[d] = met[d] \cup {c}
    BY <2>1, <2>4
  <2>3. met[c] = {}
    BY <1>1 DEF Meetings
  <2>7. \A d \in Calls : met[d] \subseteq met'[d]
    BY <2>1, <2>3
  <2> QED BY <1>1, <2>2, <2>5, <2>6, <2>7
<1> QED BY <1>2, <1>3

LEMMA MetGrows ==
  ASSUME Typed, ControlInv, Meetings, NEW c \in Calls, Act(c)
  PROVE  \A d \in Calls : met[d] \subseteq met'[d]
BY BegunStep, ResolveMet

LEMMA MeetingsStep ==
  ASSUME Typed, ControlInv, Meetings, NEW c \in Calls, Act(c)
  PROVE  Meetings'
<1>0. /\ \A d \in Calls \ {c} : pc'[d] = pc[d] /\ req'[d] = req[d]
      /\ \A d \in Calls : met[d] \subseteq met'[d] /\ met'[d] \subseteq Calls
  BY Frame, MetGrows, TypedStep DEF Same, Typed, Act, Next
<1>1. ASSUME NEW r \in Requests, Resolve(c, r) PROVE Meetings'
  <2>1. /\ req'[c] = r /\ pc[c] = "idle" /\ pc'[c] \in {"done", "allowed"}
    BY <1>1 DEF Resolve, Ends, Suspends, Typed
  <2>2. ASSUME NEW d \in Calls, pc'[d] = "idle" PROVE met'[d] = {}
    <3>1. d # c /\ pc[d] = "idle"
      BY <1>0, <2>1, <2>2
    <3>2. ~InFlight(d) /\ met[d] = {}
      BY <3>1 DEF InFlight, Meetings
    <3> QED BY <1>1, <3>1, <3>2 DEF Resolve, Typed
  <2>3. ASSUME NEW d \in Calls, NEW e \in Calls, d # e, InFlight(d)', InFlight(e)', Meet(req'[d], req'[e])
        PROVE  e \in met'[d]
    <3>1. CASE d # c /\ e # c
      BY <1>0, <2>3, <3>1 DEF InFlight, Meetings
    <3>2. CASE d = c
      BY <1>0, <1>1, <2>1, <2>3, <3>2, ResolveMet DEF InFlight
    <3>3. CASE e = c
      BY <1>0, <1>1, <2>1, <2>3, <3>3, ResolveMet, MeetSymmetric DEF InFlight
    <3> QED BY <3>1, <3>2, <3>3
  <2> QED BY <2>2, <2>3 DEF Meetings
<1>2. CASE UNCHANGED <<req, met>> /\ InFlight(c) /\ pc'[c] # "idle"
  BY <1>0, <1>2 DEF InFlight, Meetings
<1> QED BY <1>1, <1>2, BegunStep

-----------------------------------------------------------------------------
(* What an action does to the files of the tree: nothing, or it deletes,   *)
(* moves or makes one.                                                     *)
StayAt(q) == tree[q] > 0 \/ tree'[q] > 0 => tree'[q] = tree[q]

FilesStay == \A q \in Paths : StayAt(q)

Answered(c) == answer[c].is = "pending" /\ answer'[c].is = "ok"

Deletes(c) ==
  /\ Answered(c) /\ req[c].tool = "delete" /\ req[c].path \in Paths
  /\ tree'[req[c].path] = Absent
  /\ \A q \in Paths \ {req[c].path} : StayAt(q)

Moves(c) ==
  /\ pc[c] = "moving" /\ Answered(c) /\ req[c].tool = "move"
  /\ req[c].path \in Paths /\ req[c].to \in Paths /\ req[c].path # req[c].to
  /\ tree'[req[c].path] = Absent /\ tree'[req[c].to] = tree[req[c].path]
  /\ \A q \in Paths \ {req[c].path, req[c].to} : StayAt(q)

Makes(c) ==
  /\ req[c].path \in Paths /\ req[c].tool = "write"
  /\ tree[req[c].path] = Absent /\ tree'[req[c].path] = Len(data) + 1
  /\ Opens(c, Len(data) + 1) /\ MakesFile(c, Len(data) + 1)
  /\ \A q \in Paths \ {req[c].path} : StayAt(q)

LEMMA WithParentsStay ==
  ASSUME Typed, NEW p \in Paths, ~FileAbove(p)
  PROVE  \A q \in Paths : tree[q] > 0 \/ WithParents(p)[q] > 0 => WithParents(p)[q] = tree[q]
BY FilesystemAssumption DEF FileAbove, IsFile, WithParents, Typed, Dir, Absent

LEMMA RepliesOk ==
  ASSUME Typed, ControlInv, NEW c \in Calls, pc[c] \in {"allowed", "moving"}, Returns(c, Plain("ok"))
  PROVE  Answered(c)
<1>1. answer[c] = Pending /\ Pending.is = "pending"
  BY PlainAnswer DEF ControlInv, Control, Late, Pending, Kinds
<1>2. answer'[c] = Plain("ok")
  BY <1>1 DEF Returns, Ends, Typed, Cancelled
<1> QED BY <1>1, <1>2, Replies DEF Answered

LEMMA TreeStep ==
  ASSUME Typed, ControlInv, NEW c \in Calls, Act(c)
  PROVE  FilesStay \/ Deletes(c) \/ Moves(c) \/ Makes(c)
<1>0. Control(c) /\ tree \in [Paths -> {Absent, Dir} \cup 1..Len(data)]
  BY DEF ControlInv, Typed
<1>1. UNCHANGED tree => FilesStay
  BY DEF FilesStay, StayAt
<1>2. ASSUME NEW r \in Requests, Resolve(c, r) PROVE FilesStay
  BY <1>1, <1>2 DEF Resolve, Stays
<1>3. CASE StartRead(c) \/ List(c) \/ StartMove(c) \/ WriteStops(c) \/ Cancel(c)
  BY <1>1, <1>3 DEF StartRead, List, StartMove, WriteStops, Cancel, Stays
<1>4. CASE StartWrite(c)
  <2>1. req[c].path \in Paths
    BY <1>0, <1>4 DEF StartWrite, Stretch, Control, ConditionPath
  <2>2. UNCHANGED tree \/ (~FileAbove(req[c].path) /\ tree' = WithParents(req[c].path))
    BY <1>4 DEF StartWrite
  <2> QED BY <1>1, <2>1, <2>2, WithParentsStay DEF FilesStay, StayAt
<1>5. CASE Delete(c)
  <2>1. pc[c] = "allowed" /\ req[c].tool = "delete"
    BY <1>5 DEF Delete, Stretch
  <2>2. CASE IsFile(req[c].path)
    <3>1. tree' = [tree EXCEPT ![req[c].path] = Absent] /\ Returns(c, Plain("ok")) /\ req[c].path \in Paths
      BY <1>5, <2>2 DEF Delete, IsFile
    <3>2. Answered(c)
      BY <2>1, <3>1, RepliesOk
    <3> QED BY <1>0, <2>1, <3>1, <3>2 DEF Deletes, StayAt
  <2> QED BY <1>1, <1>5, <2>2 DEF Delete
<1>6. CASE Rename(c)
  <2> DEFINE p == req[c].path
             q == req[c].to
  <2>1. pc[c] = "moving" /\ req[c].tool = "move" /\ p \in Paths /\ q \in Paths /\ p # q
    BY <1>0, <1>6 DEF Rename, Control
  <2>2. CASE ~FileAbove(q)
    <3>1. /\ tree' = [WithParents(q) EXCEPT ![q] = tree[p], ![p] = Absent]
          /\ Returns(c, Plain("ok"))
      BY <1>6, <2>2 DEF Rename
    <3>2. Answered(c)
      BY <2>1, <3>1, RepliesOk
    <3>3. WithParents(q) \in [Paths -> {Absent, Dir} \cup 1..Len(data)]
      BY <2>1, WithParentsTyped
    <3>4. /\ tree'[p] = Absent /\ tree'[q] = tree[p]
          /\ \A r \in Paths \ {p, q} : tree'[r] = WithParents(q)[r]
      BY <2>1, <3>1, <3>3
    <3>5. \A r \in Paths \ {p, q} : StayAt(r)
      BY <2>1, <2>2, <3>4, WithParentsStay DEF StayAt
    <3> QED BY <2>1, <3>2, <3>4, <3>5 DEF Moves
  <2> QED BY <1>1, <1>6, <2>2 DEF Rename
<1>7. CASE OpenToRead(c) \/ ReadPiece(c) \/ EndRead(c) \/ WritePiece(c)
  BY <1>1, <1>7 DEF OpenToRead, ReadPiece, EndRead, WritePiece
<1>8. CASE OpenToWrite(c)
  <2>1. /\ req[c].path \in Paths /\ req[c].tool = "write"
        /\ \/ UNCHANGED tree
           \/ /\ tree[req[c].path] = Absent
              /\ Opens(c, Len(data) + 1) /\ MakesFile(c, Len(data) + 1)
    BY <1>8, OpenToWriteCases DEF OpensFile, OpensDirectory
  <2> QED BY <1>0, <1>1, <2>1 DEF Makes, MakesFile, StayAt
<1> QED BY <1>2, <1>3, <1>4, <1>5, <1>6, <1>7, <1>8 DEF Act, Loop, Thread

(* What it does to the texts, and to the handles.                          *)
OpensTheFile(c) ==
  /\ pc[c] \in {"opening", "opening late"} /\ req[c].tool = "write" /\ req[c].path \in Paths
  /\ tree[req[c].path] \in 1..Len(data)
  /\ Opens(c, tree[req[c].path]) /\ OpensFile(c, tree[req[c].path])
  /\ UNCHANGED pos

OpensANewFile(c) ==
  /\ pc[c] \in {"opening", "opening late"} /\ req[c].tool = "write" /\ req[c].path \in Paths
  /\ tree[req[c].path] = Absent
  /\ Opens(c, Len(data) + 1) /\ MakesFile(c, Len(data) + 1)
  /\ UNCHANGED pos

LEMMA DataStep ==
  ASSUME Typed, ControlInv, NEW c \in Calls, Act(c)
  PROVE  \/ UNCHANGED <<data, hands>> /\ ~(Writing(c)' /\ ~Writing(c))
         \/ OpensTheFile(c)
         \/ OpensANewFile(c)
         \/ WritePiece(c)
<1> USE DEF Stays, Ends, Suspends, Returns, Awaits, Writing, Typed
<1>1. ASSUME NEW r \in Requests, Resolve(c, r) PROVE UNCHANGED <<data, hands>> /\ ~Writing(c)'
  BY <1>1 DEF Resolve
<1>2. CASE StartRead(c) \/ StartWrite(c) \/ List(c)
  BY <1>2 DEF StartRead, StartWrite, List
<1>3. CASE Delete(c) \/ StartMove(c) \/ Rename(c)
  BY <1>3 DEF Delete, StartMove, Rename
<1>4. CASE OpenToRead(c) \/ ReadPiece(c) \/ EndRead(c) \/ WriteStops(c)
  BY <1>4 DEF OpenToRead, ReadPiece, EndRead, WriteStops
<1>5. CASE Cancel(c)
  <2>1. UNCHANGED <<data, hands>>
    BY <1>5 DEF Cancel
  <2>2. pc[c] = "reading" => req[c].tool = "read"
    BY DEF ControlInv, Control
  <2> QED BY <1>5, <2>1, <2>2 DEF Cancel
<1>6. CASE OpenToWrite(c)
  BY <1>6, OpenToWriteCases DEF OpensDirectory, OpensTheFile, OpensANewFile
<1> QED BY <1>1, <1>2, <1>3, <1>4, <1>5, <1>6 DEF Act, Loop, Thread

(* A call opens one file at most.                                          *)
OpensAt(c) ==
  /\ handle[c] = 0 /\ req[c].path \in Paths /\ tree'[req[c].path] > 0
  /\ handle' = [handle EXCEPT ![c] = tree'[req[c].path]]
  /\ pc[c] \in {"opening", "opening late"} /\ pc'[c] \in {"reading", "writing", "done"}

LEMMA HandleStep ==
  ASSUME Typed, ControlInv, NEW c \in Calls, Act(c)
  PROVE  /\ UNCHANGED handle \/ OpensAt(c)
         /\ \A d \in Calls : handle[d] > 0 => handle'[d] = handle[d]
<1>0. Control(c) /\ handle \in [Calls -> 0..Len(data)]
  BY DEF ControlInv, Typed
<1>n. Len(data) \in Nat
  BY DataShape
<1>a. UNCHANGED handle \/ OpensAt(c)
  <2>1. ASSUME NEW r \in Requests, Resolve(c, r) PROVE UNCHANGED handle
    BY <2>1 DEF Resolve, Stays
  <2>2. CASE \/ StartRead(c) \/ StartWrite(c) \/ List(c) \/ Delete(c) \/ StartMove(c) \/ Rename(c)
             \/ ReadPiece(c) \/ EndRead(c) \/ WritePiece(c) \/ WriteStops(c) \/ Cancel(c)
    BY <2>2 DEF StartRead, StartWrite, List, Delete, StartMove, Rename, ReadPiece, EndRead,
                WritePiece, WriteStops, Cancel, Stays
  <2>3. CASE OpenToRead(c)
    <3>1. pc[c] = "opening" /\ UNCHANGED tree /\ handle[c] = 0
      BY <1>0, <2>3 DEF OpenToRead, ThreadOf, Control, Unopened
    <3>2. CASE IsFile(req[c].path)
      BY <1>0, <2>3, <3>1, <3>2 DEF OpenToRead, OpensAt, IsFile, Suspends, Typed
    <3>3. CASE ~IsFile(req[c].path)
      BY <2>3, <3>3 DEF OpenToRead
    <3> QED BY <3>2, <3>3
  <2>4. CASE OpenToWrite(c)
    <3>1. /\ pc[c] \in {"opening", "opening late"} /\ req[c].path \in Paths /\ handle[c] = 0
          /\ Len(data) \in Nat
      BY <1>0, <2>4, OpenToWriteCases, DataShape DEF Control, Unopened
    <3>2. CASE OpensDirectory(c)
      BY <3>2 DEF OpensDirectory
    <3>3. CASE tree[req[c].path] \in 1..Len(data) /\ Opens(c, tree[req[c].path]) /\ OpensFile(c, tree[req[c].path])
      <4>1. tree' = tree
        BY <3>3 DEF OpensFile
      <4>4. tree[req[c].path] \in 1..Len(data)
        BY <3>3
      <4>2. tree[req[c].path] > 0
        BY <1>n, <4>4
      <4>3. handle' = [handle EXCEPT ![c] = tree[req[c].path]] /\ pc'[c] \in {"writing", "done"}
        BY <3>3 DEF Opens, Typed
      <4> QED BY <3>1, <4>1, <4>2, <4>3 DEF OpensAt
    <3>4. CASE Opens(c, Len(data) + 1) /\ MakesFile(c, Len(data) + 1)
      <4>1. tree'[req[c].path] = Len(data) + 1
        BY <3>1, <3>4 DEF MakesFile, Typed
      <4>2. Len(data) + 1 > 0
        BY <1>n
      <4>3. handle' = [handle EXCEPT ![c] = Len(data) + 1] /\ pc'[c] \in {"writing", "done"}
        BY <3>4 DEF Opens, Typed
      <4> QED BY <3>1, <4>1, <4>2, <4>3 DEF OpensAt
    <3> QED BY <2>4, <3>2, <3>3, <3>4, OpenToWriteCases
  <2> QED BY <2>1, <2>2, <2>3, <2>4 DEF Act, Loop, Thread
<1>b. ASSUME NEW d \in Calls, handle[d] > 0, OpensAt(c) PROVE handle'[d] = handle[d]
  <2>0. handle[c] = 0
    BY <1>b DEF OpensAt
  <2>1. d # c
    BY <1>0, <1>n, <1>b, <2>0
  <2> QED BY <1>0, <1>b, <2>1 DEF OpensAt
<1> QED BY <1>a, <1>b

-----------------------------------------------------------------------------
(* No inode is at two paths.                                               *)
OnePath == \A p, q \in Paths : tree[p] > 0 /\ tree[p] = tree[q] => p = q

LEMMA OnePathStep ==
  ASSUME Typed, ControlInv, OnePath, NEW c \in Calls, Act(c)
  PROVE  OnePath'
<1>0. tree \in [Paths -> {Absent, Dir} \cup 1..Len(data)] /\ Len(data) \in Nat
  BY DataShape DEF Typed
<1>1. CASE FilesStay
  BY <1>1 DEF OnePath, FilesStay, StayAt
<1>2. CASE Deletes(c)
  BY <1>2 DEF OnePath, Deletes, StayAt, Absent
<1>3. CASE Moves(c)
  BY <1>3 DEF OnePath, Moves, StayAt, Absent
<1>4. CASE Makes(c)
  <2>1. \A q \in Paths : tree[q] # Len(data) + 1
    BY <1>0 DEF Absent, Dir
  <2> QED BY <1>0, <1>4, <2>1 DEF OnePath, Makes, StayAt, Absent
<1> QED BY <1>1, <1>2, <1>3, <1>4, TreeStep

-----------------------------------------------------------------------------
(* Who has written an inode since it was at rest.                          *)
HandsInv ==
  /\ \A i \in 1..Len(data) : \A d \in hands[i] :
       /\ handle[d] = i /\ req[d].tool = "write" /\ req[d] \in Requests
       /\ Writing(d) \/ pc[d] = "done"
       /\ answer[d].is = "ok" => pos[d] = req[d].size
  /\ \A d \in Calls : Writing(d) => d \in hands[handle[d]]

(* A call that is in these hands, or writes.                               *)
LEMMA WriterStep ==
  ASSUME Typed, ControlInv, HandsInv, NEW c \in Calls, Act(c), NEW i \in 1..Len(data), c \in hands[i]
  PROVE  /\ handle'[c] = i /\ req'[c] = req[c]
         /\ Writing(c)' \/ pc'[c] = "done"
         /\ answer'[c].is = "ok" => pos'[c] = req[c].size
<1>0. /\ Control(c) /\ Typed' /\ Control(c)'
      /\ handle[c] = i /\ req[c].tool = "write" /\ (Writing(c) \/ pc[c] = "done")
      /\ i > 0
  BY TypedStep, DataShape DEF HandsInv, ControlInv, Act, Next
<1>1. WritePiece(c) \/ WriteStops(c) \/ Cancel(c)
  BY <1>0 DEF Act, Loop, Thread, Resolve, StartRead, StartWrite, List, Delete, StartMove, Rename,
              Stretch, OpenToRead, ReadPiece, EndRead, OpenToWrite, ThreadOf, Writing
<1>h. handle'[c] = i /\ req'[c] = req[c]
  <2>1. handle' = handle /\ req' = req
    BY <1>1 DEF WritePiece, WriteStops, Cancel, Aside, Stays
  <2>2. handle[c] = i
    BY DEF HandsInv
  <2> QED BY <2>1, <2>2
<1>2. Writing(c) /\ UNCHANGED <<req, handle>> /\ answer[c].is # "ok"
  <2>1. Writing(c) /\ UNCHANGED <<req, handle>>
    BY <1>0, <1>1 DEF WritePiece, WriteStops, Cancel, Aside, Stays, Writing
  <2>2. Pending.is = "pending"
    BY PlainAnswer DEF Pending, Kinds
  <2> QED BY <1>0, <2>1, <2>2 DEF Control, Writing, Late, Cancelled
<1>3. CASE WritePiece(c)
  <2>1. CASE pos[c] + 1 = req[c].size
    <3>1. pos'[c] = pos[c] + 1 /\ pc'[c] = "done"
      BY <1>3, <2>1 DEF WritePiece, Ends, Typed
    <3>2. handle'[c] = i /\ req'[c] = req[c]
      BY <1>h
    <3> QED BY <2>1, <3>1, <3>2
  <2>2. CASE pos[c] + 1 # req[c].size
    BY <1>0, <1>2, <1>3, <2>2 DEF WritePiece, Writing
  <2> QED BY <2>1, <2>2
<1>4. CASE WriteStops(c)
  <2>1. pc'[c] = "done" /\ answer'[c] \in {answer[c], Plain("failed")}
    BY <1>4 DEF WriteStops, Ends, Typed
  <2>2. answer'[c].is # "ok"
    BY <1>2, <2>1, Replies
  <2>3. handle'[c] = i /\ req'[c] = req[c]
    BY <1>h
  <2> QED BY <2>1, <2>2, <2>3
<1>5. CASE Cancel(c)
  BY <1>0, <1>2, <1>5, Replies DEF Cancel, Typed, Writing
<1> QED BY <1>1, <1>3, <1>4, <1>5

LEMMA HandsStep ==
  ASSUME Typed, ControlInv, HandsInv, NEW c \in Calls, Act(c)
  PROVE  HandsInv'
<1>n. Len(data) \in Nat /\ Len(data) + 1 \in Nat
  BY DataShape
<1>w. ASSUME NEW d \in Calls \ {c}, Writing(d)'
      PROVE  /\ Writing(d) /\ handle'[d] = handle[d] /\ handle[d] \in 1..Len(data)
             /\ d \in hands[handle[d]]
  <2>1. Writing(d) /\ handle'[d] = handle[d]
    BY <1>w, Frame DEF Same, Writing
  <2>2. handle[d] > 0 /\ handle[d] \in 0..Len(data)
    BY <2>1 DEF ControlInv, Control, Typed
  <2>3. handle[d] \in 1..Len(data)
    BY <1>n, <2>2
  <2> QED BY <2>1, <2>3 DEF HandsInv
<1>0. /\ \A d \in Calls \ {c} : Same(d) /\ (Writing(d)' <=> Writing(d))
      /\ Typed' /\ ControlInv' /\ Control(c) /\ Control(c)' /\ Len(data) \in Nat
      /\ \A i \in 1..Len(data) : hands[i] \subseteq Calls
  BY Frame, TypedStep, DataShape DEF Same, Writing, ControlInv, Act, Next
(* The hands that were there. *)
<1>1. ASSUME NEW i \in 1..Len(data), NEW d \in hands[i]
      PROVE  /\ handle'[d] = i /\ req'[d].tool = "write" /\ req'[d] \in Requests
             /\ Writing(d)' \/ pc'[d] = "done"
             /\ answer'[d].is = "ok" => pos'[d] = req'[d].size
  <2>1. d \in Calls
    BY <1>0, <1>1
  <2>2. CASE d = c
    BY <2>2, <1>1, WriterStep DEF HandsInv
  <2>3. CASE d # c
    BY <1>0, <1>1, <2>1, <2>3 DEF HandsInv, Same
  <2> QED BY <2>2, <2>3
<1>2. CASE UNCHANGED <<data, hands>> /\ ~(Writing(c)' /\ ~Writing(c))
  <2>1. ASSUME NEW d \in Calls, Writing(d)' PROVE d \in hands'[handle'[d]]
    <3>1. Writing(d)
      BY <1>0, <1>2, <2>1
    <3>2. handle[d] > 0 /\ d \in hands[handle[d]]
      BY <3>1 DEF HandsInv, ControlInv, Control
    <3> QED BY <1>2, <3>2, HandleStep
  <2> QED BY <1>1, <1>2, <2>1 DEF HandsInv
<1>3. CASE WritePiece(c)
  <2>1. hands' = hands /\ handle' = handle /\ Writing(c) /\ Len(data') = Len(data)
    BY <1>3, WritePieceData DEF WritePiece
  <2> QED BY <1>0, <1>1, <2>1 DEF HandsInv
(* The call that opens. *)
<1>4. ASSUME NEW i \in Nat, Opens(c, i), pc[c] \in {"opening", "opening late"}, UNCHANGED <<req, pos>>,
             req[c].tool = "write"
      PROVE  /\ handle'[c] = i /\ req'[c].tool = "write" /\ req'[c] \in Requests
             /\ Writing(c)' \/ pc'[c] = "done"
             /\ answer'[c].is # "ok"
  <2>1. answer'[c].is # "ok"
    BY <1>0, <1>4, PlainAnswer DEF Opens, Control, Late, Cancelled, Pending, Kinds
  <2> QED BY <1>0, <1>4, <2>1 DEF Opens, Typed, Control, Writing
<1>5. CASE OpensTheFile(c)
  <2> DEFINE i == tree[req[c].path]
  <2>1. /\ i \in 1..Len(data) /\ Len(data') = Len(data) /\ c \in hands'[i]
        /\ hands'[i] \subseteq hands[i] \cup {c}
        /\ \A d \in hands[i] : Writing(d) => d \in hands'[i]
        /\ \A j \in 1..Len(data) : j # i => hands'[j] = hands[j]
    <3>1. i \in 1..Len(data) /\ OpensFile(c, i)
      BY <1>5 DEF OpensTheFile
    <3>2. \A d \in hands[i] : Writing(d) => WritersOf(i) # {}
      BY <1>0, <3>1 DEF WritersOf, HandsInv
    <3> QED BY <3>1, <3>2, OpensFileData
  <2>2. UNCHANGED req
    BY <1>5, BegunStep DEF OpensTheFile, Resolve
  <2>i. i \in Nat
    BY <1>n, <2>1
  <2>3. /\ handle'[c] = i /\ req'[c].tool = "write" /\ req'[c] \in Requests
        /\ Writing(c)' \/ pc'[c] = "done"
        /\ answer'[c].is # "ok"
    BY <1>4, <1>5, <2>i, <2>2 DEF OpensTheFile
  <2>4. ASSUME NEW d \in Calls, Writing(d)' PROVE d \in hands'[handle'[d]]
    <3>1. CASE d = c
      BY <2>1, <2>3, <3>1
    <3>2. CASE d # c
      <4>1. Writing(d) /\ handle'[d] = handle[d] /\ handle[d] \in 1..Len(data) /\ d \in hands[handle[d]]
        BY <1>w, <2>4, <3>2
      <4> QED BY <2>1, <4>1
    <3> QED BY <3>1, <3>2
  <2> QED BY <1>1, <2>1, <2>3, <2>4 DEF HandsInv
<1>6. CASE OpensANewFile(c)
  <2> DEFINE i == Len(data) + 1
  <2>1. /\ i \in Nat /\ Len(data') = i /\ hands'[i] = {c}
        /\ \A j \in 1..Len(data) : hands'[j] = hands[j]
    BY <1>n, <1>6, MakesFileData DEF OpensANewFile
  <2>2. UNCHANGED req
    BY <1>6, BegunStep DEF OpensANewFile, Resolve
  <2>3. /\ handle'[c] = i /\ req'[c].tool = "write" /\ req'[c] \in Requests
        /\ Writing(c)' \/ pc'[c] = "done"
        /\ answer'[c].is # "ok"
    BY <1>4, <1>6, <2>1, <2>2 DEF OpensANewFile
  <2>4. ASSUME NEW d \in Calls, Writing(d)' PROVE d \in hands'[handle'[d]]
    <3>1. CASE d = c
      BY <2>1, <2>3, <3>1
    <3>2. CASE d # c
      <4>1. Writing(d) /\ handle'[d] = handle[d] /\ handle[d] \in 1..Len(data) /\ d \in hands[handle[d]]
        BY <1>w, <2>4, <3>2
      <4> QED BY <2>1, <4>1
    <3> QED BY <3>1, <3>2
  <2>5. \A j \in 1..Len(data') : j \in 1..Len(data) \/ j = i
    BY <1>n, <2>1
  <2> QED BY <1>1, <2>1, <2>3, <2>4, <2>5 DEF HandsInv
<1> QED BY <1>2, <1>3, <1>5, <1>6, DataStep

-----------------------------------------------------------------------------
(* What overlapping writes have left so far: a call of theirs is at the    *)
(* end of the text, and the end is no gap.                                 *)
TextInv ==
  \A i \in 1..Len(data) :
    hands[i] # {} =>
      /\ \A k \in 1..Len(data[i]) : data[i][k] \in hands[i] \cup {Gap}
      /\ \E d \in hands[i] : pos[d] = Len(data[i])
      /\ Len(data[i]) > 0 => data[i][Len(data[i])] # Gap

LEMMA WritePieceText ==
  ASSUME Typed, ControlInv, HandsInv, TextInv, NEW c \in Calls, WritePiece(c)
  PROVE  LET i == handle[c] IN
         /\ \A k \in 1..Len(data'[i]) : data'[i][k] \in hands[i] \cup {Gap}
         /\ \E d \in hands[i] : pos'[d] = Len(data'[i])
         /\ data'[i][Len(data'[i])] # Gap
<1> DEFINE i == handle[c]
           f == data[i]
           n == pos[c] + 1
<1>1. /\ i \in 1..Len(data) /\ data'[i] = Overwritten(f, n, c)
  BY WritePieceData
<1>2. f \in TextSet /\ Len(f) \in Nat /\ hands[i] \subseteq Calls
  BY <1>1, DataShape
<1>3. pos[c] \in Nat /\ n \in Nat \ {0} /\ c # Gap
  BY FilesystemAssumption DEF Typed
<1>4. c \in hands[i] /\ pos' = [pos EXCEPT ![c] = n]
  BY DEF WritePiece, HandsInv
<1>5. \A d \in Calls : pos'[d] = IF d = c THEN n ELSE pos[d]
  BY <1>4 DEF Typed
<1>7. /\ \A k \in 1..Len(f) : f[k] \in hands[i] \cup {Gap}
      /\ \E d \in hands[i] : pos[d] = Len(f)
      /\ Len(f) > 0 => f[Len(f)] # Gap
  BY <1>1, <1>4 DEF TextInv
<1> HIDE DEF n, f, i
<1>o. /\ Len(Overwritten(f, n, c)) = IF Len(f) >= n THEN Len(f) ELSE n
      /\ \A j \in 1..Len(Overwritten(f, n, c)) :
           Overwritten(f, n, c)[j] = IF j = n THEN c ELSE IF j <= Len(f) THEN f[j] ELSE Gap
  BY <1>2, <1>3, OverwrittenText
<1>6. /\ Len(data'[i]) = IF Len(f) >= n THEN Len(f) ELSE n
      /\ \A j \in 1..Len(data'[i]) :
           data'[i][j] = IF j = n THEN c ELSE IF j <= Len(f) THEN f[j] ELSE Gap
  BY <1>1, <1>o
<1>8. \A k \in 1..Len(data'[i]) : data'[i][k] \in hands[i] \cup {Gap}
  BY <1>2, <1>3, <1>4, <1>6, <1>7
<1>9. CASE Len(f) >= n + 1
  <2>1. Len(data'[i]) = Len(f) /\ Len(f) \in 1..Len(data'[i]) /\ Len(f) # n /\ Len(f) > 0
    BY <1>2, <1>3, <1>6, <1>9
  <2>2. PICK d \in hands[i] : pos[d] = Len(f)
    BY <1>7
  <2>3. d # c
    BY <1>2, <1>3, <1>9, <2>2 DEF n
  <2>4. pos'[d] = Len(data'[i])
    BY <1>2, <1>5, <2>1, <2>2, <2>3
  <2>5. data'[i][Len(data'[i])] = f[Len(f)]
    BY <1>2, <1>6, <2>1
  <2> QED BY <1>7, <1>8, <2>1, <2>4, <2>5 DEF i
<1>10. CASE ~(Len(f) >= n + 1)
  <2>1. Len(data'[i]) = n /\ n \in 1..Len(data'[i])
    BY <1>2, <1>3, <1>6, <1>10
  <2>2. data'[i][Len(data'[i])] = c
    BY <1>6, <2>1
  <2>3. pos'[c] = Len(data'[i])
    BY <1>5, <2>1
  <2> QED BY <1>3, <1>4, <1>8, <2>2, <2>3 DEF i
<1> QED BY <1>9, <1>10

LEMMA TextStep ==
  ASSUME Typed, ControlInv, HandsInv, TextInv, NEW c \in Calls, Act(c)
  PROVE  TextInv'
<1>n. Len(data) \in Nat /\ \A i \in 1..Len(data) : hands[i] \subseteq Calls
  BY DataShape
<1>s. \A d \in Calls \ {c} : pos'[d] = pos[d]
  BY Frame DEF Same
(* An inode that is not touched. *)
<1>u. ASSUME NEW i \in 1..Len(data), data'[i] = data[i], hands'[i] = hands[i],
             \A d \in hands[i] : pos'[d] = pos[d]
      PROVE  hands'[i] # {} =>
               /\ \A k \in 1..Len(data'[i]) : data'[i][k] \in hands'[i] \cup {Gap}
               /\ \E d \in hands'[i] : pos'[d] = Len(data'[i])
               /\ Len(data'[i]) > 0 => data'[i][Len(data'[i])] # Gap
  BY <1>u DEF TextInv
(* One that is new, or emptied. *)
<1>e. ASSUME NEW i, data'[i] = <<>>, c \in hands'[i], pos'[c] = 0
      PROVE  hands'[i] # {} =>
               /\ \A k \in 1..Len(data'[i]) : data'[i][k] \in hands'[i] \cup {Gap}
               /\ \E d \in hands'[i] : pos'[d] = Len(data'[i])
               /\ Len(data'[i]) > 0 => data'[i][Len(data'[i])] # Gap
  <2>1. Len(data'[i]) = 0
    BY <1>e, EmptyText
  <2> QED BY <1>e, <2>1
<1>1. CASE UNCHANGED <<data, hands>> /\ ~WritePiece(c)
  <2>1. ASSUME NEW i \in 1..Len(data), NEW d \in hands[i] PROVE pos'[d] = pos[d]
    <3>1. d \in Calls /\ (Writing(d) \/ pc[d] = "done")
      BY <1>n, <2>1 DEF HandsInv
    <3>2. CASE d = c
      BY <1>1, <3>1, <3>2 DEF Act, Loop, Thread, Resolve, StartRead, StartWrite, List, Delete, StartMove,
              Rename, Stretch, OpenToRead, ReadPiece, EndRead, OpenToWrite, ThreadOf, WriteStops, Cancel, Writing
    <3> QED BY <1>s, <3>1, <3>2
  <2> QED BY <1>1, <1>u, <2>1 DEF TextInv
<1>2. CASE OpensTheFile(c)
  <2> DEFINE i == tree[req[c].path]
  <2>1. /\ i \in 1..Len(data) /\ OpensFile(c, i) /\ UNCHANGED pos /\ pos[c] = 0
    BY <1>2 DEF OpensTheFile, ControlInv, Control, Unopened
  <2>2. /\ Len(data') = Len(data) /\ data'[i] = <<>> /\ c \in hands'[i]
        /\ \A j \in 1..Len(data) : j # i => data'[j] = data[j] /\ hands'[j] = hands[j]
    BY <2>1, OpensFileData
  <2> HIDE DEF i
  <2> QED BY <1>u, <1>e, <2>1, <2>2 DEF TextInv
<1>3. CASE OpensANewFile(c)
  <2> DEFINE i == Len(data) + 1
  <2>1. MakesFile(c, i) /\ UNCHANGED pos /\ pos[c] = 0
    BY <1>3 DEF OpensANewFile, ControlInv, Control, Unopened
  <2>2. /\ Len(data') = i /\ data'[i] = <<>> /\ c \in hands'[i]
        /\ \A j \in 1..Len(data) : data'[j] = data[j] /\ hands'[j] = hands[j]
    BY <2>1, MakesFileData
  <2>3. \A j \in 1..Len(data') : j \in 1..Len(data) \/ j = i
    BY <1>n, <2>2
  <2> HIDE DEF i
  <2> QED BY <1>u, <1>e, <2>1, <2>2, <2>3 DEF TextInv
<1>4. CASE WritePiece(c)
  <2> DEFINE i == handle[c]
  <2>1. /\ i \in 1..Len(data) /\ Len(data') = Len(data) /\ hands' = hands
        /\ \A j \in 1..Len(data) : j # i => data'[j] = data[j]
    BY <1>4, WritePieceData DEF WritePiece
  <2>2. \A j \in 1..Len(data) : j # i => c \notin hands[j]
    BY DEF HandsInv
  <2>3. \A j \in 1..Len(data) : j # i => \A d \in hands[j] : pos'[d] = pos[d]
    BY <1>n, <1>s, <2>2
  <2>4. /\ \A k \in 1..Len(data'[i]) : data'[i][k] \in hands[i] \cup {Gap}
        /\ \E d \in hands[i] : pos'[d] = Len(data'[i])
        /\ data'[i][Len(data'[i])] # Gap
    BY <1>4, WritePieceText
  <2> HIDE DEF i
  <2> QED BY <1>u, <2>1, <2>3, <2>4 DEF TextInv
<1> QED BY <1>1, <1>2, <1>3, <1>4, DataStep

LEMMA TextsSettled ==
  ASSUME Typed, HandsInv, TextInv
  PROVE  Settled
<1> SUFFICES ASSUME NEW i \in 1..Len(data), hands[i] # {}, \A c \in hands[i] : answer[c].is = "ok"
             PROVE  SettledFile(i)
  BY DataShape DEF Settled
<1>1. PICK d \in hands[i] : pos[d] = Len(data[i])
  BY DEF TextInv
<1>2. pos[d] = req[d].size /\ req[d].size > 0
  BY <1>1, FilesystemAssumption DEF HandsInv
<1>3. /\ \A k \in 1..Len(data[i]) : data[i][k] \in hands[i] \cup {Gap}
      /\ Len(data[i]) > 0 => data[i][Len(data[i])] # Gap
  BY DEF TextInv
<1>4. Len(data[i]) = req[d].size /\ Len(data[i]) > 0
  BY <1>1, <1>2
<1> QED BY <1>1, <1>3, <1>4 DEF SettledFile

-----------------------------------------------------------------------------
(* A move that finds a file where it found nothing: the file is made by a  *)
(* call that the move has met.                                             *)
MovingPast(c) ==
  pc[c] = "moving" /\ tree[req[c].to] > 0 => hands[tree[req[c].to]] \cap met[c] # {}

Moving == \A c \in Calls : MovingPast(c)

(* The call that starts to move found a file, and nothing in its way.      *)
LEMMA MovingStarts ==
  ASSUME Typed, ControlInv, NEW c \in Calls, Act(c), pc'[c] = "moving"
  PROVE  tree'[req'[c].to] = Absent /\ tree'[req'[c].path] > 0
<1>0. Control(c) /\ Typed' /\ Control(c)'
  BY TypedStep DEF ControlInv, Act, Next
<1>1. StartMove(c)
  <2>1. ASSUME NEW r \in Requests, Resolve(c, r) PROVE FALSE
    BY <2>1 DEF Resolve, Ends, Suspends, Typed
  <2>2. CASE StartRead(c) \/ StartWrite(c) \/ List(c) \/ Delete(c) \/ Rename(c)
    BY <2>2 DEF StartRead, StartWrite, List, Delete, Rename, Returns, Awaits, Ends, Suspends, Typed
  <2>3. CASE OpenToRead(c) \/ EndRead(c) \/ WriteStops(c) \/ Cancel(c)
    BY <2>3 DEF OpenToRead, EndRead, WriteStops, Cancel, Ends, Suspends, Typed
  <2>4. CASE ReadPiece(c)
    BY <2>4 DEF ReadPiece
  <2>5. CASE WritePiece(c)
    BY <2>5 DEF WritePiece, Writing, Ends, Typed
  <2>6. CASE OpenToWrite(c)
    <3>1. \/ pc'[c] = "done"
          \/ pc' = [pc EXCEPT ![c] = IF pc[c] = "opening" THEN "writing" ELSE "done"]
      BY <2>6, OpenToWriteCases DEF OpensDirectory, Opens, Ends, Typed
    <3> QED BY <3>1 DEF Typed
  <2> QED BY <2>1, <2>2, <2>3, <2>4, <2>5, <2>6 DEF Act, Loop, Thread
<1>2. ~Exists(req[c].to) /\ IsFile(req[c].path) /\ UNCHANGED <<tree, req>>
  BY <1>1 DEF StartMove, Returns, Ends, Stays, Typed
<1>3. req[c].to \in Paths
  BY <1>0, <1>2 DEF Control
<1> QED BY <1>2, <1>3 DEF Exists, IsFile

(* An inode a call has in hand stays in its hands while others act, and    *)
(* no file comes to a path but by the one who moves or makes it.           *)
LEMMA MovingStep ==
  ASSUME Typed, ControlInv, Meetings, OnePath, Moving, NEW c \in Calls, Act(c)
  PROVE  Moving'
<1> SUFFICES ASSUME NEW d \in Calls, pc'[d] = "moving", tree'[req'[d].to] > 0
             PROVE  hands'[tree'[req'[d].to]] \cap met'[d] # {}
  BY DEF Moving, MovingPast
<1>1. d # c
  BY MovingStarts DEF Absent
<1> DEFINE p == req[d].to
<1>2. /\ pc[d] = "moving" /\ req'[d] = req[d] /\ Control(d) /\ Control(c)
  BY <1>1, Frame DEF Same, ControlInv
<1>3. /\ p \in Paths /\ loop = d /\ req[d].tool = "move" /\ Len(data) \in Nat
      /\ tree[p] \in {Absent, Dir} \cup 1..Len(data)
  BY <1>2, DataShape DEF Control, Typed
<1>4. loop # Free /\ loop # c /\ pc[c] \notin {"allowed", "moving"}
  BY <1>1, <1>2, <1>3, FilesystemAssumption DEF Control
<1>5. Thread(c) \/ Cancel(c)
  BY <1>4 DEF Act, Loop, Resolve, StartRead, StartWrite, List, Delete, StartMove, Rename, Stretch
<1>6. UNCHANGED <<met, req>>
  BY <1>5 DEF Thread, Cancel, OpenToRead, ReadPiece, EndRead, OpenToWrite, WritePiece, WriteStops, Aside
<1>7. hands[tree[p]] \cap met[d] # {} \/ ~(tree[p] > 0)
  BY <1>2 DEF Moving, MovingPast
(* Whoever has a file open to write at the path has been met. *)
<1>8. ASSUME pc[c] \in {"opening", "opening late"}, req[c].tool = "write", req[c].path = p
      PROVE  c \in met[d]
  <2>1. InFlight(c) /\ InFlight(d)
    BY <1>2, <1>8 DEF InFlight
  <2>2. Meet(req[d], req[c])
    BY <1>3, <1>8, MeetAt DEF OnlyReads
  <2> QED BY <1>1, <2>1, <2>2 DEF Meetings
<1> HIDE DEF p
<1>9. tree'[p] > 0
  BY <1>2 DEF p
<1>10. CASE UNCHANGED <<tree, hands>>
  BY <1>2, <1>6, <1>7, <1>9, <1>10 DEF p
<1>11. CASE OpensTheFile(c)
  <2> DEFINE i == tree[req[c].path]
  <2>1. /\ UNCHANGED tree /\ i \in 1..Len(data) /\ OpensFile(c, i) /\ req[c].path \in Paths
        /\ pc[c] \in {"opening", "opening late"} /\ req[c].tool = "write"
    BY <1>11 DEF OpensTheFile, OpensFile
  <2>2. /\ c \in hands'[i] /\ \A j \in 1..Len(data) : j # i => hands'[j] = hands[j]
    BY <2>1, OpensFileData
  <2>3. tree[p] > 0 /\ tree[p] \in 1..Len(data)
    <3>1. tree'[p] = tree[p]
      BY <2>1
    <3>2. tree[p] > 0
      BY <1>9, <3>1
    <3> QED BY <1>3, <3>2 DEF Absent, Dir
  <2>4. CASE tree[p] = i
    <3>1. req[c].path = p
      BY <1>3, <2>1, <2>3, <2>4 DEF OnePath
    <3>2. c \in met[d]
      BY <1>8, <2>1, <3>1
    <3> QED BY <1>2, <1>6, <2>1, <2>2, <2>4, <3>2 DEF p
  <2>5. CASE tree[p] # i
    <3>1. hands'[tree[p]] = hands[tree[p]]
      BY <2>2, <2>3, <2>5
    <3> QED BY <1>2, <1>6, <1>7, <2>1, <2>3, <3>1 DEF p
  <2> QED BY <2>4, <2>5
<1>12. CASE OpensANewFile(c)
  <2> DEFINE i == Len(data) + 1
  <2>1. /\ MakesFile(c, i) /\ req[c].path \in Paths /\ tree[req[c].path] = Absent
        /\ pc[c] \in {"opening", "opening late"} /\ req[c].tool = "write"
    BY <1>12 DEF OpensANewFile
  <2>2. hands'[i] = {c} /\ \A j \in 1..Len(data) : hands'[j] = hands[j]
    BY <2>1, MakesFileData
  <2>3. tree' = [tree EXCEPT ![req[c].path] = i] /\ tree \in [Paths -> {Absent, Dir} \cup 1..Len(data)]
    BY <2>1 DEF MakesFile, Typed
  <2>4. CASE req[c].path = p
    <3>1. c \in met[d] /\ tree'[p] = i
      BY <1>3, <1>8, <2>1, <2>3, <2>4
    <3> QED BY <1>2, <1>6, <2>2, <3>1 DEF p
  <2>5. CASE req[c].path # p
    <3>1. tree'[p] = tree[p] /\ tree[p] > 0
      BY <1>3, <1>9, <2>3, <2>5
    <3>2. tree[p] \in 1..Len(data)
      BY <1>3, <3>1 DEF Absent, Dir
    <3>3. hands'[tree[p]] = hands[tree[p]]
      BY <2>2, <3>2
    <3> QED BY <1>2, <1>6, <1>7, <3>1, <3>3 DEF p
  <2> QED BY <2>4, <2>5
<1>13. UNCHANGED <<tree, hands>> \/ OpensTheFile(c) \/ OpensANewFile(c)
  <2>1. CASE OpenToWrite(c)
    BY <2>1, OpenToWriteCases DEF OpensDirectory, OpensTheFile, OpensANewFile
  <2>2. CASE Cancel(c) \/ WriteStops(c)
    BY <2>2 DEF Cancel, WriteStops, Stays
  <2>3. CASE OpenToRead(c) \/ ReadPiece(c) \/ EndRead(c) \/ WritePiece(c)
    BY <2>3 DEF OpenToRead, ReadPiece, EndRead, WritePiece
  <2> QED BY <1>5, <2>1, <2>2, <2>3 DEF Thread
<1> QED BY <1>10, <1>11, <1>12, <1>13

(* What is seen of the tree in one step.                                   *)
LEMMA StepVanishes ==
  ASSUME Typed, ControlInv, Moving, NEW c \in Calls, Act(c), NEW p \in Paths,
         IsFile(p), tree'[p] # tree[p]
  PROVE  Removes(c, p)
<1>0. tree[p] > 0
  BY DEF IsFile
<1>1. CASE FilesStay
  BY <1>0, <1>1 DEF FilesStay, StayAt
<1>2. CASE Deletes(c)
  BY <1>0, <1>2 DEF Deletes, StayAt, Answered, Removes
<1>3. CASE Moves(c)
  <2>1. p \in {req[c].path, req[c].to}
    BY <1>0, <1>3 DEF Moves, StayAt
  <2>2. p = req[c].to => hands[tree[p]] \cap met[c] # {}
    BY <1>0, <1>3 DEF Moves, Moving, MovingPast
  <2> QED BY <1>3, <2>1, <2>2 DEF Moves, Answered, Removes
<1>4. CASE Makes(c)
  BY <1>0, <1>4 DEF Makes, StayAt, Absent
<1> QED BY <1>1, <1>2, <1>3, <1>4, TreeStep

-----------------------------------------------------------------------------
(* A file that is not where the call that has it open asked for it has     *)
(* been moved, and the call has met the one that moved it.                 *)
Foreign ==
  \A e \in Calls, p \in Paths :
    InFlight(e) /\ handle[e] > 0 /\ tree[p] = handle[e] => p = req[e].path \/ met[e] # {}

LEMMA MetAt ==
  ASSUME Typed, Meetings, NEW c \in Calls, NEW d \in Calls, c # d, InFlight(c), InFlight(d),
         req[c].path \in Paths, req[d].path = req[c].path \/ req[d].to = req[c].path,
         ~OnlyReads(req[c]) \/ ~OnlyReads(req[d])
  PROVE  d \in met[c] /\ c \in met[d]
<1>1. Meet(req[c], req[d]) /\ Meet(req[d], req[c])
  BY MeetAt
<1> QED BY <1>1 DEF Meetings

(* A call that has a file open goes on with it.                            *)
LEMMA OpenedStep ==
  ASSUME Typed, ControlInv, NEW c \in Calls, Act(c), NEW e \in Calls, InFlight(e)', handle[e] > 0
  PROVE  /\ InFlight(e) /\ req'[e] = req[e] /\ handle'[e] = handle[e]
         /\ pc'[e] = "reading" => pc[e] = "reading"
         /\ Writing(e)' => Writing(e)
<1>0. Control(e) /\ Control(e)' /\ handle'[e] = handle[e] /\ handle[e] \in 0..Len(data)
  BY TypedStep, HandleStep DEF ControlInv, Typed, Act, Next
<1>1. handle[e] # 0
  BY DataShape, <1>0
<1>2. CASE e # c
  BY <1>0, <1>2, Frame DEF Same, InFlight, Writing
<1>3. CASE e = c
  <2>1. pc[c] # "idle"
    BY <1>0, <1>1, <1>3 DEF Control, Unopened
  <2>2. InFlight(c) /\ UNCHANGED req
    BY <2>1, BegunStep DEF Resolve
  <2>3. pc[e] \in {"reading", "writing", "writing late"}
    BY <1>0, <1>1, <1>3, <2>2 DEF Control, Unopened, InFlight, Typed, Places
  <2> QED BY <1>0, <1>3, <2>2, <2>3 DEF Control, Writing
<1> QED BY <1>2, <1>3

LEMMA ForeignStep ==
  ASSUME Typed, ControlInv, Meetings, OnePath, Foreign, NEW c \in Calls, Act(c)
  PROVE  Foreign'
<1> SUFFICES ASSUME NEW e \in Calls, NEW p \in Paths, InFlight(e)', handle'[e] > 0, tree'[p] = handle'[e]
             PROVE  p = req'[e].path \/ met'[e] # {}
  BY DEF Foreign
<1>0. /\ met[e] \subseteq met'[e] /\ handle[e] \in 0..Len(data) /\ Len(data) \in Nat
      /\ tree'[p] > 0
  BY MetGrows, DataShape DEF Typed
<1>1. CASE handle[e] > 0
  <2>1. InFlight(e) /\ req'[e] = req[e] /\ handle'[e] = handle[e]
    BY <1>1, OpenedStep
  <2>2. CASE tree[p] = handle[e]
    BY <1>0, <1>1, <2>1, <2>2 DEF Foreign
  <2>3. CASE tree[p] # handle[e]
    <3>1. ~StayAt(p)
      BY <1>0, <2>1, <2>3 DEF StayAt
    <3>2. ~FilesStay
      BY <3>1 DEF FilesStay
    <3>3. ~Deletes(c)
      BY <1>0, <3>1 DEF Deletes, Absent
    <3>4. ~Makes(c)
      <4>1. ASSUME Makes(c) PROVE p = req[c].path /\ tree'[p] = Len(data) + 1
        BY <3>1, <4>1 DEF Makes
      <4> QED BY <1>0, <2>1, <4>1
    <3>5. Moves(c)
      BY <3>2, <3>3, <3>4, TreeStep
    <3>6. p = req[c].to /\ tree[req[c].path] = handle[e] /\ req[c].path \in Paths
      BY <1>0, <2>1, <3>1, <3>5 DEF Moves, Absent
    <3>7. InFlight(c) /\ handle[c] = 0 /\ ~OnlyReads(req[c])
      BY <3>5 DEF Moves, InFlight, OnlyReads, ControlInv, Control, Unopened
    <3>8. CASE met[e] # {}
      BY <1>0, <3>8
    <3>9. CASE met[e] = {}
      <4>1. req[c].path = req[e].path
        BY <1>1, <2>1, <3>6, <3>9 DEF Foreign
      <4>2. c # e
        BY <1>1, <3>7
      <4>3. c \in met[e]
        BY <2>1, <3>6, <3>7, <4>1, <4>2, MetAt
      <4> QED BY <3>9, <4>3
    <3> QED BY <3>8, <3>9
  <2> QED BY <2>2, <2>3
<1>2. CASE ~(handle[e] > 0)
  <2>0. handle'[e] # handle[e]
    BY <1>0, <1>2
  <2>1. OpensAt(c)
    BY <2>0, HandleStep
  <2>2. e = c /\ handle'[e] = tree'[req[e].path] /\ req[e].path \in Paths
    BY <2>0, <2>1 DEF OpensAt, Typed
  <2>3. UNCHANGED req
    <3>1. pc[c] # "idle"
      BY <2>1 DEF OpensAt
    <3> QED BY <3>1, BegunStep DEF Resolve
  <2>4. OnePath'
    BY OnePathStep
  <2>5. tree'[p] = tree'[req[e].path]
    BY <2>2
  <2>6. p = req[e].path
    BY <1>0, <2>2, <2>4, <2>5 DEF OnePath
  <2> QED BY <2>3, <2>6
<1> QED BY <1>1, <1>2

(* A file that was opened by a call that has met another.                  *)
Tainted(i) == \E d \in Calls : handle[d] = i /\ met[d] # {}
TaintedNext(i) == \E d \in Calls : handle'[d] = i /\ met'[d] # {}

LEMMA TaintedStep ==
  ASSUME Typed, ControlInv, Meetings, NEW c \in Calls, Act(c), NEW i \in Nat, i > 0, Tainted(i)
  PROVE  TaintedNext(i)
<1>1. PICK d \in Calls : handle[d] = i /\ met[d] # {}
  BY DEF Tainted
<1>2. handle'[d] = i
  BY <1>1, HandleStep
<1>3. met[d] \subseteq met'[d]
  BY MetGrows
<1> QED BY <1>1, <1>2, <1>3 DEF TaintedNext

(* Who reads a file while another writes it has met that one, or it has    *)
(* met a third.                                                            *)
Shared ==
  \A c, e \in Calls : pc[c] = "reading" /\ Writing(e) /\ handle[c] = handle[e] => Tainted(handle[c])

LEMMA SharedStep ==
  ASSUME Typed, ControlInv, Meetings, OnePath, Foreign, Shared, NEW a \in Calls, Act(a)
  PROVE  Shared'
<1> SUFFICES ASSUME NEW c \in Calls, NEW e \in Calls, pc'[c] = "reading", Writing(e)',
                    handle'[c] = handle'[e]
             PROVE  TaintedNext(handle'[c])
  BY DEF Shared, Tainted, TaintedNext
<1>0. /\ Control(c)' /\ Control(e)' /\ InFlight(c)' /\ InFlight(e)' /\ Typed' /\ Meetings' /\ Foreign'
  BY TypedStep, MeetingsStep, ForeignStep DEF ControlInv, InFlight, Writing, Act, Next
<1>1. /\ handle'[c] > 0 /\ handle'[c] \in Nat /\ handle'[e] > 0
      /\ req'[c].tool = "read" /\ req'[e].tool = "write" /\ req'[c].path \in Paths /\ req'[e].path \in Paths
  <2>1. Len(data') \in Nat /\ handle'[c] \in 0..Len(data')
    BY <1>0, LenProperties DEF Typed
  <2>2. handle'[c] \in Nat
    BY <2>1
  <2>3. handle'[c] > 0 /\ req'[c].tool = "read" /\ req'[c].path \in Paths
    BY <1>0 DEF Control
  <2>4. handle'[e] > 0 /\ req'[e].tool = "write" /\ req'[e].path \in Paths
    BY <1>0 DEF Control
  <2> QED BY <2>2, <2>3, <2>4
<1>2. c # e
  BY <1>1
<1>3. CASE handle[c] > 0 /\ handle[e] > 0
  <2>1. /\ pc[c] = "reading" /\ handle'[c] = handle[c]
        /\ Writing(e) /\ handle'[e] = handle[e]
    BY <1>0, <1>3, OpenedStep
  <2>2. Tainted(handle[c])
    BY <2>1 DEF Shared
  <2> QED BY <1>1, <2>1, <2>2, TaintedStep
(* The one that has just opened the file found it at its path. *)
<1>4. CASE ~(handle[c] > 0 /\ handle[e] > 0)
  <2>1. handle' # handle
    BY <1>1, <1>4
  <2>2. OpensAt(a)
    BY <2>1, HandleStep
  <2>3. UNCHANGED req
    <3>1. pc[a] # "idle"
      BY <2>2 DEF OpensAt
    <3> QED BY <3>1, BegunStep DEF Resolve
  <2>4. handle'[a] = tree'[req'[a].path] /\ \A d \in Calls \ {a} : handle'[d] = handle[d]
    BY <2>2, <2>3 DEF OpensAt, Typed
  <2>5. a = c \/ a = e
    BY <1>1, <1>4, <2>4
  <2>6. \/ req'[c].path = req'[e].path
        \/ met'[c] # {}
        \/ met'[e] # {}
    <3>1. CASE a = c
      <4>1. tree'[req'[c].path] = handle'[e]
        BY <2>4, <3>1
      <4> QED BY <1>0, <1>1, <4>1 DEF Foreign
    <3>2. CASE a = e
      <4>1. tree'[req'[e].path] = handle'[c]
        BY <2>4, <3>2
      <4> QED BY <1>0, <1>1, <4>1 DEF Foreign
    <3> QED BY <2>5, <3>1, <3>2
  <2>7. ASSUME req'[c].path = req'[e].path PROVE e \in met'[c]
    <3>1. Meet(req'[c], req'[e])
      BY <1>1, <2>7, MeetAt DEF OnlyReads
    <3> QED BY <1>0, <1>2, <3>1 DEF Meetings
  <2>8. met'[c] # {} \/ met'[e] # {}
    BY <2>6, <2>7
  <2> QED BY <2>8 DEF TaintedNext
<1> QED BY <1>3, <1>4

-----------------------------------------------------------------------------
(* What a read has decided on is what is there, and what it reads, unless  *)
(* it has met another or the file is tainted.                              *)
ReadAllowed(c) ==
  pc[c] = "allowed" /\ met[c] = {} /\ tree[req[c].path] > 0
    => Tainted(tree[req[c].path]) \/ SizeOf(req[c].path) = size[c]

ReadOpening(c) ==
  pc[c] = "opening" /\ met[c] = {}
    => /\ tree[req[c].path] > 0
       /\ \/ Tainted(tree[req[c].path])
          \/ SizeOf(req[c].path) = size[c] /\ size[c] <= MaxRead

ReadGoesOn(c) ==
  pc[c] = "reading"
    => \/ Tainted(handle[c])
       \/ Len(data[handle[c]]) = size[c] /\ size[c] <= MaxRead /\ pos[c] <= size[c] /\ Len(got[c]) = pos[c]

ReadDone(c) ==
  pc[c] = "done" /\ answer[c].is = "ok"
    => /\ handle[c] > 0
       /\ Tainted(handle[c]) \/ (Len(answer[c].text) = size[c] /\ size[c] <= MaxRead)

Reads(c) == ReadAllowed(c) /\ ReadOpening(c) /\ ReadGoesOn(c) /\ ReadDone(c)

ReadInv == \A c \in Calls : req[c].tool = "read" => Reads(c)

(* Only opening it to write, and writing, change a text.                   *)
LEMMA TextOf ==
  ASSUME Typed, ControlInv, NEW d \in Calls, Act(d), NEW i \in 1..Len(data)
  PROVE  \/ data'[i] = data[i]
         \/ OpensTheFile(d) /\ i = tree[req[d].path]
         \/ WritePiece(d) /\ i = handle[d]
<1>1. CASE UNCHANGED <<data, hands>>
  BY <1>1
<1>2. CASE OpensTheFile(d)
  BY <1>2, OpensFileData DEF OpensTheFile
<1>3. CASE OpensANewFile(d)
  BY <1>3, MakesFileData DEF OpensANewFile
<1>4. CASE WritePiece(d)
  BY <1>4, WritePieceData
<1> QED BY <1>1, <1>2, <1>3, <1>4, DataStep

(* The path of a call stays as it is, unless the call meets who changes it.*)
LEMMA PathStays ==
  ASSUME Typed, ControlInv, Meetings, NEW c \in Calls, NEW d \in Calls \ {c}, Act(d),
         InFlight(c), req[c].path \in Paths, met[c] = {}
  PROVE  StayAt(req[c].path)
<1> SUFFICES ASSUME ~StayAt(req[c].path) PROVE FALSE
  OBVIOUS
<1>1. ~FilesStay
  BY DEF FilesStay
<1>2. tree' # tree
  BY DEF StayAt
<1>3. InFlight(d)
  <2>1. ASSUME NEW r \in Requests, Resolve(d, r) PROVE FALSE
    BY <1>2, <2>1 DEF Resolve, Stays
  <2> QED BY <2>1, BegunStep
<1>4. /\ req[d].path = req[c].path \/ req[d].to = req[c].path
      /\ ~OnlyReads(req[d])
  BY <1>1, TreeStep DEF Deletes, Moves, Makes, OnlyReads
<1>5. d \in met[c]
  BY <1>3, <1>4, MetAt
<1> QED BY <1>5

(* And so does the text that is there, unless a writer of it is tainted.   *)
LEMMA TextStays ==
  ASSUME Typed, ControlInv, Meetings, OnePath, Foreign, NEW c \in Calls, NEW d \in Calls \ {c}, Act(d),
         InFlight(c), req[c].tool = "read", req[c].path \in Paths, met[c] = {},
         tree[req[c].path] > 0
  PROVE  LET i == tree[req[c].path] IN i \in 1..Len(data) /\ (data'[i] = data[i] \/ Tainted(i))
<1> DEFINE i == tree[req[c].path]
<1>1. i \in 1..Len(data)
  BY FileInode DEF IsFile
<1>2. CASE OpensTheFile(d) /\ i = tree[req[d].path]
  <2>1. /\ pc[d] \in {"opening", "opening late"} /\ req[d].tool = "write" /\ req[d].path \in Paths
    BY <1>2 DEF OpensTheFile
  <2>2. req[d].path = req[c].path
    BY <1>2, <2>1 DEF OnePath
  <2>3. d \in met[c]
    BY <2>1, <2>2, MetAt DEF InFlight, OnlyReads
  <2> QED BY <2>3
<1>3. CASE WritePiece(d) /\ i = handle[d]
  <2>1. Writing(d) /\ InFlight(d) /\ req[d].tool = "write" /\ handle[d] > 0
    BY <1>3 DEF WritePiece, Writing, InFlight, ControlInv, Control
  <2>2. CASE req[c].path = req[d].path
    <3>1. d \in met[c]
      BY <2>1, <2>2, MetAt DEF OnlyReads
    <3> QED BY <3>1
  <2>3. CASE req[c].path # req[d].path
    <3>1. met[d] # {}
      BY <1>3, <2>1, <2>3 DEF Foreign
    <3> QED BY <1>1, <1>3, <3>1 DEF Tainted
  <2> QED BY <2>2, <2>3
<1> QED BY <1>1, <1>2, <1>3, TextOf

(* The text of an inode that a read has open stays as it is, or is tainted.*)
LEMMA ReadStays ==
  ASSUME Typed, ControlInv, Meetings, OnePath, Foreign, Shared, NEW c \in Calls,
         NEW d \in Calls \ {c}, Act(d), pc[c] = "reading"
  PROVE  handle[c] \in 1..Len(data) /\ (data'[handle[c]] = data[handle[c]] \/ Tainted(handle[c]))
<1>0. /\ handle[c] > 0 /\ handle[c] \in 0..Len(data) /\ InFlight(c)
      /\ req[c].tool = "read" /\ req[c].path \in Paths
  BY DEF ControlInv, Control, Typed, InFlight
<1>1. handle[c] \in 1..Len(data)
  BY <1>0, DataShape
<1>2. CASE OpensTheFile(d) /\ handle[c] = tree[req[d].path]
  <2>1. /\ pc[d] \in {"opening", "opening late"} /\ req[d].tool = "write" /\ req[d].path \in Paths
    BY <1>2 DEF OpensTheFile
  <2>2. CASE req[d].path = req[c].path
    <3>1. d \in met[c]
      BY <1>0, <2>1, <2>2, MetAt DEF InFlight, OnlyReads
    <3> QED BY <1>1, <3>1 DEF Tainted
  <2>3. CASE req[d].path # req[c].path
    <3>1. met[c] # {}
      BY <1>0, <1>2, <2>1, <2>3 DEF Foreign
    <3> QED BY <1>1, <3>1 DEF Tainted
  <2> QED BY <2>2, <2>3
<1>3. CASE WritePiece(d) /\ handle[c] = handle[d]
  <2>1. Writing(d)
    BY <1>3 DEF WritePiece
  <2> QED BY <1>1, <1>3, <2>1 DEF Shared
<1> QED BY <1>1, <1>2, <1>3, TextOf

(* While others act.                                                       *)
LEMMA OthersRead ==
  ASSUME Typed, ControlInv, Meetings, OnePath, Foreign, Shared, NEW c \in Calls,
         NEW d \in Calls \ {c}, Act(d), req[c].tool = "read", Reads(c)
  PROVE  Reads(c)'
<1>0. /\ pc'[c] = pc[c] /\ req'[c] = req[c] /\ size'[c] = size[c] /\ handle'[c] = handle[c]
      /\ pos'[c] = pos[c] /\ got'[c] = got[c] /\ answer'[c] = answer[c]
  BY Frame DEF Same
<1>1. Control(c) /\ (met'[c] = {} => met[c] = {})
  BY MetGrows DEF ControlInv
<1>2. \A i \in Nat : i > 0 /\ Tainted(i) => TaintedNext(i)
  BY TaintedStep
<1>n. Len(data) \in Nat /\ handle[c] \in Nat
  BY DataShape DEF Typed
<1> DEFINE p == req[c].path
(* Before it has the file open. *)
<1>3. ASSUME pc[c] \in {"allowed", "opening"}, met[c] = {}
      PROVE  /\ tree[p] > 0 \/ tree'[p] > 0 => tree'[p] = tree[p]
             /\ tree[p] > 0 => \/ Len(data'[tree'[p]]) = SizeOf(p)
                               \/ TaintedNext(tree'[p])
             /\ tree[p] > 0 /\ Tainted(tree[p]) => TaintedNext(tree'[p])
  <2>1. InFlight(c) /\ p \in Paths
    BY <1>1, <1>3 DEF InFlight, Control, ConditionPath
  <2>2. tree[p] > 0 \/ tree'[p] > 0 => tree'[p] = tree[p]
    BY <1>3, <2>1, PathStays DEF StayAt
  <2>3. ASSUME tree[p] > 0
        PROVE  /\ Len(data'[tree'[p]]) = SizeOf(p) \/ TaintedNext(tree'[p])
               /\ Tainted(tree[p]) => TaintedNext(tree'[p])
    <3>1. tree[p] \in 1..Len(data) /\ (data'[tree[p]] = data[tree[p]] \/ Tainted(tree[p]))
      BY <1>3, <2>1, <2>3, TextStays
    <3>2. tree'[p] = tree[p] /\ tree[p] \in Nat
      BY <1>n, <2>2, <2>3, <3>1
    <3>3. Tainted(tree[p]) => TaintedNext(tree'[p])
      BY <1>2, <2>3, <3>2
    <3> QED BY <3>1, <3>2, <3>3 DEF SizeOf
  <2> QED BY <2>2, <2>3
<1> HIDE DEF p
<1>4. ReadAllowed(c)'
  <2> SUFFICES ASSUME pc'[c] = "allowed", met'[c] = {}, tree'[p] > 0
               PROVE  TaintedNext(tree'[p]) \/ Len(data'[tree'[p]]) = size[c]
    BY <1>0 DEF ReadAllowed, p, SizeOf, Tainted, TaintedNext
  <2>1. pc[c] = "allowed" /\ met[c] = {} /\ tree[p] > 0
    BY <1>0, <1>1, <1>3
  <2>2. Tainted(tree[p]) \/ SizeOf(p) = size[c]
    BY <2>1 DEF Reads, ReadAllowed, p
  <2> QED BY <1>3, <2>1, <2>2
<1>5. ReadOpening(c)'
  <2> SUFFICES ASSUME pc'[c] = "opening", met'[c] = {}
               PROVE  /\ tree'[p] > 0
                      /\ TaintedNext(tree'[p]) \/ (Len(data'[tree'[p]]) = size[c] /\ size[c] <= MaxRead)
    BY <1>0 DEF ReadOpening, p, SizeOf, Tainted, TaintedNext
  <2>1. pc[c] = "opening" /\ met[c] = {}
    BY <1>0, <1>1
  <2>2. tree[p] > 0 /\ (Tainted(tree[p]) \/ (SizeOf(p) = size[c] /\ size[c] <= MaxRead))
    BY <2>1 DEF Reads, ReadOpening, p
  <2>3. tree'[p] > 0
    BY <1>3, <2>1, <2>2
  <2> QED BY <1>3, <2>1, <2>2, <2>3
<1>6. ReadGoesOn(c)'
  <2> SUFFICES ASSUME pc[c] = "reading"
               PROVE  \/ TaintedNext(handle[c])
                      \/ /\ Len(data'[handle[c]]) = size[c] /\ size[c] <= MaxRead
                         /\ pos[c] <= size[c] /\ Len(got[c]) = pos[c]
    BY <1>0 DEF ReadGoesOn, Tainted, TaintedNext
  <2>1. data'[handle[c]] = data[handle[c]] \/ Tainted(handle[c])
    BY ReadStays
  <2>2. handle[c] > 0
    BY <1>1 DEF Control
  <2>3. Tainted(handle[c]) => TaintedNext(handle[c])
    BY <1>2, <1>n, <2>2
  <2>4. \/ Tainted(handle[c])
        \/ /\ Len(data[handle[c]]) = size[c] /\ size[c] <= MaxRead
           /\ pos[c] <= size[c] /\ Len(got[c]) = pos[c]
    BY DEF Reads, ReadGoesOn
  <2> QED BY <2>1, <2>3, <2>4
<1>7. ReadDone(c)'
  <2> SUFFICES ASSUME pc[c] = "done", answer[c].is = "ok"
               PROVE  /\ handle[c] > 0
                      /\ TaintedNext(handle[c]) \/ (Len(answer[c].text) = size[c] /\ size[c] <= MaxRead)
    BY <1>0 DEF ReadDone, Tainted, TaintedNext
  <2>1. /\ handle[c] > 0
        /\ Tainted(handle[c]) \/ (Len(answer[c].text) = size[c] /\ size[c] <= MaxRead)
    BY DEF Reads, ReadDone
  <2> QED BY <1>2, <1>n, <2>1
<1> QED BY <1>4, <1>5, <1>6, <1>7 DEF Reads

(* While it acts itself.  Most of what it may answer is no text.           *)
LEMMA ReadEnds ==
  ASSUME NEW c \in Calls, pc'[c] = "done", answer'[c].is # "ok"
  PROVE  Reads(c)'
BY DEF Reads, ReadAllowed, ReadOpening, ReadGoesOn, ReadDone

LEMMA OwnRead ==
  ASSUME Typed, ControlInv, Meetings, NEW c \in Calls, Act(c), req'[c].tool = "read",
         req[c].tool = "read" => Reads(c)
  PROVE  Reads(c)'
<1>0. /\ Control(c) /\ Typed' /\ Control(c)' /\ Len(data) \in Nat
      /\ answer[c] = Pending => answer[c].is = "pending"
  BY TypedStep, DataShape, PlainAnswer DEF ControlInv, Pending, Kinds, Act, Next
<1>p. Pending.is = "pending"
  BY PlainAnswer DEF Pending, Kinds
<1>1. ASSUME NEW r \in Requests, Resolve(c, r) PROVE Reads(c)'
  <2>1. req'[c] = r /\ UNCHANGED <<tree, data>> /\ pc[c] = "idle"
    BY <1>1 DEF Resolve, Stays, Typed
  <2>2. CASE ConditionPath(r) = Outside
    <3>1. Ends(c, Plain("refused"))
      BY <1>1, <2>2 DEF Resolve
    <3>2. pc'[c] = "done" /\ answer'[c] \in {answer[c], Plain("refused")}
      BY <3>1 DEF Ends, Typed
    <3>3. answer[c] = Pending
      BY <1>0, <2>1 DEF Control, Late
    <3>4. answer'[c].is # "ok"
      BY <1>0, <3>2, <3>3, Replies
    <3> QED BY <3>2, <3>4, ReadEnds
  <2>3. CASE ConditionPath(r) # Outside
    <3>1. pc'[c] = "allowed" /\ size' = [size EXCEPT ![c] = IF IsFile(ConditionPath(r)) THEN SizeOf(ConditionPath(r)) ELSE -1]
      BY <1>1, <2>3 DEF Resolve, Suspends, Typed
    <3>2. ConditionPath(r) = r.path /\ r.path \in Paths
      BY <1>0, <2>1, <3>1 DEF ConditionPath, Control
    <3>3. tree[r.path] > 0 => size'[c] = SizeOf(r.path)
      BY <3>1, <3>2 DEF IsFile, Typed
    <3>4. ReadAllowed(c)'
      BY <2>1, <3>3 DEF ReadAllowed, SizeOf
    <3> QED BY <3>1, <3>4 DEF Reads, ReadOpening, ReadGoesOn, ReadDone
  <2> QED BY <2>2, <2>3
<1>2. CASE StartRead(c)
  <2>1. /\ pc[c] = "allowed" /\ req[c].tool = "read" /\ UNCHANGED <<tree, data, handle>>
        /\ UNCHANGED <<req, size, met>>
        /\ answer[c] = Pending
    BY <1>0, <1>2 DEF StartRead, Stretch, Stays, Returns, Awaits, Control, Late
  <2>2. CASE Returns(c, Plain("refused"))
    <3>1. pc'[c] = "done" /\ answer'[c] \in {answer[c], Plain("refused")}
      BY <2>2 DEF Returns, Ends, Typed
    <3>2. answer'[c].is # "ok"
      BY <1>0, <2>1, <3>1, Replies
    <3> QED BY <3>1, <3>2, ReadEnds
  <2>3. CASE ~Returns(c, Plain("refused"))
    <3>1. IsFile(req[c].path) /\ SizeOf(req[c].path) <= MaxRead /\ pc'[c] = "opening"
      <4>1. ~(~IsFile(req[c].path) \/ SizeOf(req[c].path) > MaxRead) /\ Awaits(c, "opening")
        BY <1>2, <2>3 DEF StartRead
      <4>2. pc'[c] = "opening"
        BY <4>1 DEF Awaits, Suspends, Typed
      <4>3. SizeOf(req[c].path) \in Nat
        BY <4>1, DataShape, FileInode DEF SizeOf
      <4>4. MaxRead \in Nat
        BY FilesystemAssumption
      <4> QED BY <4>1, <4>2, <4>3, <4>4
    <3>2. met[c] = {} => Tainted(tree[req[c].path]) \/ SizeOf(req[c].path) = size[c]
      BY <2>1, <3>1 DEF IsFile, Reads, ReadAllowed
    <3>3. tree[req[c].path] > 0
      BY <3>1 DEF IsFile
    <3>4. ReadOpening(c)'
      BY <2>1, <3>1, <3>2, <3>3 DEF ReadOpening, SizeOf, Tainted
    <3> QED BY <3>1, <3>4 DEF Reads, ReadAllowed, ReadGoesOn, ReadDone
  <2> QED BY <2>2, <2>3
<1>3. CASE OpenToRead(c)
  <2> DEFINE i == tree[req[c].path]
  <2>1. /\ pc[c] = "opening" /\ req[c].tool = "read" /\ req[c].path \in Paths
        /\ UNCHANGED <<tree, data, pos, got>> /\ UNCHANGED <<req, size, met>>
        /\ pos[c] = 0 /\ got[c] = <<>> /\ handle[c] = 0
        /\ answer[c] = Pending
    BY <1>0, <1>3 DEF OpenToRead, ThreadOf, Aside, Control, Unopened, Late
  <2>2. CASE ~IsFile(req[c].path)
    <3>1. pc'[c] = "done" /\ answer'[c] \in {answer[c], Plain("failed")}
      BY <1>3, <2>2 DEF OpenToRead, Ends, Typed
    <3>2. answer'[c].is # "ok"
      BY <1>0, <2>1, <3>1, Replies
    <3> QED BY <3>1, <3>2, ReadEnds
  <2>3. CASE IsFile(req[c].path)
    <3>1. pc'[c] = "reading" /\ handle' = [handle EXCEPT ![c] = i] /\ handle'[c] = i
      BY <1>3, <2>3 DEF OpenToRead, Suspends, Typed
    <3>2. CASE met[c] # {}
      <4>1. TaintedNext(i)
        BY <2>1, <3>1, <3>2 DEF TaintedNext
      <4>2. ReadGoesOn(c)'
        BY <3>1, <4>1 DEF ReadGoesOn, Tainted, TaintedNext
      <4> QED BY <3>1, <4>2 DEF Reads, ReadAllowed, ReadOpening, ReadDone
    <3>3. CASE met[c] = {}
      <4>1. i \in 1..Len(data) /\ i \in Nat /\ i > 0
        BY <1>0, <2>1, <2>3, FileInode
      <4>2. Tainted(i) \/ (Len(data[i]) = size[c] /\ size[c] <= MaxRead)
        BY <2>1, <3>3 DEF Reads, ReadOpening, SizeOf
      <4>3. Tainted(i) => TaintedNext(i)
        BY <4>1, TaintedStep
      <4>4. Len(data[i]) \in Nat /\ Len(got[c]) = 0
        BY <2>1, <4>1, DataShape, EmptyText
      <4>5. TaintedNext(i) \/ (/\ Len(data[i]) = size[c] /\ size[c] <= MaxRead
                               /\ pos[c] <= size[c] /\ Len(got[c]) = pos[c])
        BY <2>1, <4>2, <4>3, <4>4
      <4> HIDE DEF i
      <4>6. ReadGoesOn(c)'
        BY <2>1, <3>1, <4>5 DEF ReadGoesOn, Tainted, TaintedNext
      <4> QED BY <3>1, <4>6 DEF Reads, ReadAllowed, ReadOpening, ReadDone
    <3> QED BY <3>2, <3>3
  <2> QED BY <2>2, <2>3
<1>r. ASSUME pc[c] = "reading"
      PROVE  /\ handle[c] \in Nat /\ handle[c] > 0 /\ req[c].tool = "read" /\ answer[c] = Pending
             /\ pos[c] \in Nat /\ got[c] \in TextSet /\ Len(data[handle[c]]) \in Nat
             /\ \/ Tainted(handle[c])
                \/ /\ Len(data[handle[c]]) = size[c] /\ size[c] <= MaxRead
                   /\ pos[c] <= size[c] /\ Len(got[c]) = pos[c]
  <2>1. handle[c] > 0 /\ req[c].tool = "read" /\ answer[c] = Pending
    BY <1>0, <1>r DEF Control, Late
  <2>2. handle[c] \in 0..Len(data) /\ pos[c] \in Nat /\ got[c] \in TextSet
    BY DEF Typed
  <2>3. handle[c] \in Nat /\ handle[c] \in 1..Len(data)
    BY <1>0, <2>1, <2>2
  <2>4. Len(data[handle[c]]) \in Nat
    BY <2>3, DataShape
  <2> QED BY <1>r, <2>1, <2>2, <2>3, <2>4 DEF Reads, ReadGoesOn
<1>4. CASE ReadPiece(c)
  <2>1. /\ pc[c] = "reading" /\ pc'[c] = "reading" /\ UNCHANGED <<data, handle, size>>
        /\ pos'[c] = pos[c] + 1 /\ pos[c] < Len(data[handle[c]])
        /\ got'[c] = Append(got[c], data[handle[c]][pos[c] + 1])
    BY <1>4 DEF ReadPiece, Aside, Typed
  <2>2. Tainted(handle[c]) => TaintedNext(handle[c])
    BY <1>r, <2>1, TaintedStep
  <2>3. Len(got'[c]) = Len(got[c]) + 1
    BY <1>r, <2>1, AppendProperties DEF TextSet
  <2>4. \/ TaintedNext(handle[c])
        \/ /\ Len(data[handle[c]]) = size[c] /\ size[c] <= MaxRead
           /\ pos'[c] <= size[c] /\ Len(got'[c]) = pos'[c]
    BY <1>r, <2>1, <2>2, <2>3
  <2>5. ReadGoesOn(c)'
    BY <2>1, <2>4 DEF ReadGoesOn, Tainted, TaintedNext
  <2> QED BY <2>1, <2>5 DEF Reads, ReadAllowed, ReadOpening, ReadDone
<1>5. CASE EndRead(c)
  <2>1. /\ pc[c] = "reading" /\ pc'[c] = "done" /\ UNCHANGED <<handle, size>>
        /\ pos[c] >= Len(data[handle[c]])
        /\ answer'[c] \in {answer[c], Plain("outside"), Answer("ok", got[c], {}, FALSE)}
    BY <1>5 DEF EndRead, Aside, Ends, Typed
  <2>2. CASE answer'[c].is # "ok"
    BY <2>1, <2>2, ReadEnds
  <2>3. CASE answer'[c].is = "ok"
    <3>1. answer'[c] = Answer("ok", got[c], {}, FALSE)
      BY <1>0, <1>p, <1>r, <2>1, <2>3, Replies
    <3>2. answer'[c].text = got[c]
      BY <3>1 DEF Answer
    <3>3. Tainted(handle[c]) => TaintedNext(handle[c])
      BY <1>r, <2>1, TaintedStep
    <3>4. TaintedNext(handle[c]) \/ (Len(got[c]) = size[c] /\ size[c] <= MaxRead)
      BY <1>r, <2>1, <3>3
    <3>5. ReadDone(c)'
      BY <1>r, <2>1, <3>2, <3>4 DEF ReadDone, Tainted, TaintedNext
    <3> QED BY <2>1, <3>5 DEF Reads, ReadAllowed, ReadOpening, ReadGoesOn
  <2> QED BY <2>2, <2>3
<1>6. CASE Cancel(c)
  <2>1. answer'[c] = Plain("cancelled") /\ UNCHANGED req /\ (pc'[c] = "done" \/ req[c].tool = "write")
    BY <1>6 DEF Cancel, Aside, Typed
  <2>2. pc'[c] = "done" /\ answer'[c].is # "ok"
    BY <2>1, Replies
  <2> QED BY <2>2, ReadEnds
<1>7. CASE StartWrite(c) \/ List(c) \/ Delete(c) \/ StartMove(c) \/ Rename(c)
  <2>1. UNCHANGED req
    BY <1>7 DEF StartWrite, List, Delete, StartMove, Rename, Returns, Awaits
  <2>2. req[c].tool \in {"write", "list", "delete", "move"}
    BY <1>0, <1>7 DEF StartWrite, List, Delete, StartMove, Rename, Stretch, Control
  <2> QED BY <2>1, <2>2
<1>8. CASE OpenToWrite(c) \/ WritePiece(c) \/ WriteStops(c)
  <2>1. UNCHANGED req
    BY <1>8 DEF OpenToWrite, WritePiece, WriteStops, Aside
  <2>2. req[c].tool = "write"
    BY <1>0, <1>8 DEF OpenToWrite, WritePiece, WriteStops, ThreadOf, Control
  <2> QED BY <2>1, <2>2
<1> QED BY <1>1, <1>2, <1>3, <1>4, <1>5, <1>6, <1>7, <1>8 DEF Act, Loop, Thread

LEMMA ReadInvStep ==
  ASSUME Typed, ControlInv, Meetings, OnePath, Foreign, Shared, ReadInv, NEW d \in Calls, Act(d)
  PROVE  ReadInv'
<1> SUFFICES ASSUME NEW c \in Calls, req'[c].tool = "read" PROVE Reads(c)'
  BY DEF ReadInv
<1>1. CASE c = d
  BY <1>1, OwnRead DEF ReadInv
<1>2. CASE c # d
  <2>1. req[c].tool = "read"
    BY <1>2, Frame DEF Same
  <2> QED BY <1>2, <2>1, OthersRead DEF ReadInv
<1> QED BY <1>1, <1>2

LEMMA ReadsAccounted ==
  ASSUME Typed, ControlInv, ReadInv, NEW c \in Calls
  PROVE  ReadAccounted(c) /\ ListAccounted(c)
<1>1. ListAccounted(c)
  BY DEF Typed, Answers, ListAccounted
<1>2. ASSUME req[c].tool = "read", answer[c].is = "ok"
      PROVE  \/ Len(answer[c].text) <= MaxRead /\ Len(answer[c].text) = size[c]
             \/ \E d \in Calls : handle[d] = handle[c] /\ met[d] # {}
  <2>1. pc[c] = "done"
    <3>1. answer[c] # Pending /\ ~Cancelled(c)
      BY <1>2, PlainAnswer DEF Pending, Kinds, Cancelled
    <3> QED BY <3>1 DEF ControlInv, Control
  <2>2. Tainted(handle[c]) \/ (Len(answer[c].text) = size[c] /\ size[c] <= MaxRead)
    BY <1>2, <2>1 DEF ReadInv, Reads, ReadDone
  <2> QED BY <2>2 DEF Tainted
<1> QED BY <1>1, <1>2 DEF ReadAccounted

-----------------------------------------------------------------------------
(* What holds in every state.                                              *)
IInv ==
  /\ Typed /\ ControlInv /\ Meetings /\ OnePath
  /\ HandsInv /\ TextInv /\ Moving
  /\ Foreign /\ Shared /\ ReadInv

LEMMA InitIInv == Init => IInv
<1> SUFFICES ASSUME Init PROVE IInv
  OBVIOUS
<1>1. Typed /\ ControlInv
  BY InitTyped
<1>2. \A c \in Calls : pc[c] = "idle" /\ met[c] = {} /\ req[c].tool = "none"
  BY DEF Init, NoRequest
<1>3. Meetings /\ Moving
  BY <1>2 DEF Meetings, Moving, MovingPast, InFlight
<1>4. OnePath
  BY InitTree DEF OnePath
<1>5. \A i \in 1..Len(data) : hands[i] = {}
  BY InitData
<1>6. HandsInv /\ TextInv
  BY <1>2, <1>5 DEF HandsInv, TextInv, Writing
<1>7. Foreign /\ Shared /\ ReadInv
  BY <1>2 DEF Foreign, Shared, ReadInv, InFlight
<1> QED BY <1>1, <1>3, <1>4, <1>6, <1>7 DEF IInv

LEMMA StepIInv == IInv /\ [Next]_vars => IInv'
<1> SUFFICES ASSUME IInv, [Next]_vars PROVE IInv'
  OBVIOUS
<1>0. Typed' /\ ControlInv'
  BY TypedStep DEF IInv
<1>1. CASE UNCHANGED vars
  <2> USE <1>1 DEF vars
  <2>1. Meetings' /\ OnePath'
    BY DEF IInv, Meetings, InFlight, OnePath
  <2>2. HandsInv'
    <3>1. /\ data' = data /\ hands' = hands /\ handle' = handle /\ req' = req
          /\ pc' = pc /\ pos' = pos /\ answer' = answer
      OBVIOUS
    <3>2. \A d \in Calls : Writing(d)' <=> Writing(d)
      BY <3>1 DEF Writing
    <3>3. HandsInv
      BY DEF IInv
    <3>4. ASSUME NEW i \in 1..Len(data), NEW d \in hands[i], d \in Calls
          PROVE  /\ handle[d] = i /\ req[d].tool = "write" /\ req[d] \in Requests
                 /\ Writing(d)' \/ pc[d] = "done"
                 /\ answer[d].is = "ok" => pos[d] = req[d].size
      BY <3>2, <3>3, <3>4 DEF HandsInv
    <3>5. \A i \in 1..Len(data) : hands[i] \subseteq Calls
      BY DataShape DEF IInv
    <3>6. \A d \in Calls : Writing(d)' => d \in hands[handle[d]]
      BY <3>2, <3>3 DEF HandsInv
    <3> HIDE <1>1
    <3> QED BY <3>1, <3>4, <3>5, <3>6 DEF HandsInv
  <2>3. TextInv'
    <3>1. data' = data /\ hands' = hands /\ pos' = pos
      OBVIOUS
    <3> QED BY <3>1 DEF IInv, TextInv
  <2>4. Moving'
    BY DEF IInv, Moving, MovingPast
  <2>5. Foreign' /\ Shared'
    <3>1. tree' = tree /\ pc' = pc /\ handle' = handle /\ met' = met /\ req' = req
      OBVIOUS
    <3> QED BY <3>1 DEF IInv, Foreign, Shared, InFlight, Writing, Tainted
  <2>6. ReadInv'
    <3>1. \A c \in Calls : Reads(c) => Reads(c)'
      BY DEF Reads, ReadAllowed, ReadOpening, ReadGoesOn, ReadDone, Tainted, SizeOf
    <3>2. req' = req
      OBVIOUS
    <3> QED BY <3>1, <3>2 DEF IInv, ReadInv
  <2> QED BY <1>0, <2>1, <2>2, <2>3, <2>4, <2>5, <2>6 DEF IInv
<1>2. ASSUME NEW c \in Calls, Act(c) PROVE IInv'
  <2>1. Meetings' /\ OnePath' /\ HandsInv' /\ TextInv' /\ Moving'
    BY <1>2, MeetingsStep, OnePathStep, HandsStep, TextStep, MovingStep DEF IInv
  <2>2. Foreign' /\ Shared' /\ ReadInv'
    BY <1>2, ForeignStep, SharedStep, ReadInvStep DEF IInv
  <2> QED BY <1>0, <2>1, <2>2 DEF IInv
<1> QED BY <1>1, <1>2, ActionOfOne

LEMMA AlwaysIInv == Spec => []IInv
BY InitIInv, StepIInv, PTL DEF Spec

(* Whatever order the threads of writes to one file come in, and whatever  *)
(* is moved, deleted or cancelled meanwhile: when all of them have         *)
(* answered ok the file is as long as one of them wrote, ends with a piece *)
(* of theirs, and holds nothing of what was there before _write_file().    *)
THEOREM SettledHolds == Spec => []Settled
<1>1. IInv => Settled
  BY TextsSettled DEF IInv
<1> QED BY <1>1, AlwaysIInv, PTL

(* A file leaves its path only by a _delete_file() or a _move_file() that  *)
(* answers ok; and one that a move replaces was made by a write that the   *)
(* move had met.                                                           *)
THEOREM NothingVanishesHolds == Spec => NothingVanishes
<1>1. IInv /\ [Next]_vars => [\A p \in Paths : IsFile(p) /\ tree'[p] # tree[p]
                                                => \E c \in Calls : Removes(c, p)]_vars
  BY StepVanishes, ActionOfOne DEF IInv
<1> QED BY <1>1, AlwaysIInv, PTL DEF Spec, NothingVanishes

(* A read that meets no call on its path, of a file that no such call has  *)
(* open, answers a text as long as the size that was decided on, which     *)
(* _read_file() has found to be within max_read_size; a listing has at     *)
(* most max_list_entries, and that many if it says it was cut.             *)
THEOREM AnswersAccountedHolds == Spec => []AnswersAccounted
<1>1. IInv => AnswersAccounted
  BY TypedImpliesTypeOK, ReadsAccounted DEF IInv, AnswersAccounted
<1> QED BY <1>1, AlwaysIInv, PTL

-----------------------------------------------------------------------------
(* No two calls on one path have met.                                      *)
Calm == \A c \in Calls : met[c] = {}

(* What can be at a path, as a caller sees it.                             *)
Contents == {Nothing, Directory} \cup {File(t) : t \in TextSet}

(* What a write had found at its path was no directory.                    *)
Priors ==
  /\ prior \in [Calls -> Contents]
  /\ \A c \in Calls : Writing(c) => prior[c].is # "directory"

(* What a move will rename is still there, and what a write has made its   *)
(* directories for has them: nothing removes a directory.                  *)
MovingFrom(c) == pc[c] = "moving" => tree[req[c].path] > 0 /\ tree[req[c].to] # Dir

Started(c) == req[c].tool = "write" /\ pc[c] \in {"opening", "opening late", "writing", "writing late"}

HasParents(c) == Started(c) => \A q \in Above[req[c].path] : tree[q] = Dir

Standing == \A c \in Calls : MovingFrom(c) /\ HasParents(c)

LEMMA AboveShape == \A p \in Paths : Above[p] \subseteq Paths
BY FilesystemAssumption

LEMMA ContentShape ==
  ASSUME Typed
  PROVE  /\ \A p : Content(p) \in Contents
         /\ \A p \in Paths : /\ tree[p] > 0 => Content(p) = File(data[tree[p]])
                             /\ tree[p] = Dir => Content(p) = Directory
                             /\ tree[p] = Absent => Content(p) = Nothing
         /\ \A p \in Paths : Content(p).is = "file" <=> tree[p] > 0
         /\ \A p \in Paths : Content(p).is = "directory" <=> tree[p] = Dir
<1>1. \A p : IsFile(p) => data[tree[p]] \in TextSet
  BY FileInode, DataShape
<1>2. \A p : Content(p) = IF IsFile(p) THEN File(data[tree[p]])
                          ELSE IF Exists(p) THEN Directory ELSE Nothing
  BY DEF Content
<1>3. \A p : Content(p) \in Contents
  BY <1>1, <1>2 DEF Contents
<1>4. /\ Nothing.is = "nothing" /\ Directory.is = "directory" /\ \A t : File(t).is = "file"
  BY DEF Nothing, Directory, File
<1>5. \A p \in Paths : tree[p] \in {Absent, Dir} \/ tree[p] > 0
  BY DataShape DEF Typed
<1>6. \A p \in Paths : /\ tree[p] > 0 => Content(p) = File(data[tree[p]])
                       /\ tree[p] = Dir => Content(p) = Directory
                       /\ tree[p] = Absent => Content(p) = Nothing
  BY <1>2 DEF IsFile, Exists, Absent, Dir
<1>7. \A p \in Paths : Content(p).is = "file" <=> tree[p] > 0
  BY <1>4, <1>5, <1>6 DEF Absent, Dir
<1>8. \A p \in Paths : Content(p).is = "directory" <=> tree[p] = Dir
  BY <1>4, <1>5, <1>6 DEF Absent, Dir
<1> QED BY <1>3, <1>6, <1>7, <1>8

(* Only a call that opens a file to write notes what it found.             *)
LEMMA PriorStep ==
  ASSUME Typed, ControlInv, NEW c \in Calls, Act(c)
  PROVE  \/ UNCHANGED prior /\ ~(Writing(c)' /\ ~Writing(c))
         \/ /\ OpenToWrite(c) /\ tree[req[c].path] # Dir
            /\ prior' = [prior EXCEPT ![c] = Content(req[c].path)]
<1> USE DEF Stays, Ends, Suspends, Returns, Awaits, Writing, Typed
<1>1. ASSUME NEW r \in Requests, Resolve(c, r) PROVE UNCHANGED prior /\ ~Writing(c)'
  BY <1>1 DEF Resolve
<1>2. CASE StartRead(c) \/ StartWrite(c) \/ List(c)
  BY <1>2 DEF StartRead, StartWrite, List
<1>3. CASE Delete(c) \/ StartMove(c) \/ Rename(c)
  BY <1>3 DEF Delete, StartMove, Rename
<1>4. CASE OpenToRead(c) \/ ReadPiece(c) \/ EndRead(c) \/ WriteStops(c) \/ WritePiece(c)
  BY <1>4 DEF OpenToRead, ReadPiece, EndRead, WriteStops, WritePiece
<1>5. CASE Cancel(c)
  <2>1. UNCHANGED prior
    BY <1>5 DEF Cancel
  <2>2. pc[c] = "reading" => req[c].tool = "read"
    BY DEF ControlInv, Control
  <2> QED BY <1>5, <2>1, <2>2 DEF Cancel
<1>6. CASE OpenToWrite(c)
  <2>1. CASE tree[req[c].path] = Dir
    BY <1>6, <2>1 DEF OpenToWrite
  <2>2. CASE tree[req[c].path] # Dir
    BY <1>6, <2>2 DEF OpenToWrite
  <2> QED BY <2>1, <2>2
<1> QED BY <1>1, <1>2, <1>3, <1>4, <1>5, <1>6 DEF Act, Loop, Thread

LEMMA PriorsStep ==
  ASSUME Typed, ControlInv, Priors, NEW c \in Calls, Act(c)
  PROVE  Priors'
<1>1. \A d \in Calls \ {c} : Writing(d)' => Writing(d)
  BY Frame DEF Same, Writing
<1>2. CASE UNCHANGED prior /\ ~(Writing(c)' /\ ~Writing(c))
  BY <1>1, <1>2 DEF Priors
<1>3. CASE /\ OpenToWrite(c) /\ tree[req[c].path] # Dir
           /\ prior' = [prior EXCEPT ![c] = Content(req[c].path)]
  <2>1. req[c].path \in Paths
    BY <1>3, OpenToWriteCases
  <2>2. Content(req[c].path) \in Contents /\ Content(req[c].path).is # "directory"
    BY <1>3, <2>1, ContentShape
  <2> QED BY <1>1, <1>3, <2>2 DEF Priors
<1> QED BY <1>2, <1>3, PriorStep

(* A directory stays one.                                                  *)
LEMMA DirStays ==
  ASSUME Typed, ControlInv, Standing, NEW c \in Calls, Act(c), NEW q \in Paths, tree[q] = Dir
  PROVE  tree'[q] = Dir
<1>0. Control(c) /\ tree \in [Paths -> {Absent, Dir} \cup 1..Len(data)] /\ Len(data) \in Nat
  BY DataShape DEF ControlInv, Typed
<1>2. ASSUME NEW r \in Requests, Resolve(c, r) PROVE tree' = tree
  BY <1>2 DEF Resolve, Stays
<1>3. CASE StartRead(c) \/ List(c) \/ StartMove(c) \/ WriteStops(c) \/ Cancel(c)
  BY <1>3 DEF StartRead, List, StartMove, WriteStops, Cancel, Stays
<1>4. CASE StartWrite(c)
  BY <1>4 DEF StartWrite, WithParents
<1>5. CASE Delete(c)
  <2>1. tree' = tree \/ (IsFile(req[c].path) /\ tree' = [tree EXCEPT ![req[c].path] = Absent])
    BY <1>5 DEF Delete
  <2>2. IsFile(req[c].path) => q # req[c].path
    BY DEF IsFile, Dir
  <2> QED BY <1>0, <2>1, <2>2
<1>6. CASE Rename(c)
  <2>1. pc[c] = "moving" /\ q # req[c].path /\ q # req[c].to
    BY <1>6 DEF Rename, Standing, MovingFrom, Dir
  <2>2. tree' = tree \/ tree' = [WithParents(req[c].to) EXCEPT ![req[c].to] = tree[req[c].path],
                                                              ![req[c].path] = Absent]
    BY <1>6 DEF Rename
  <2>3. WithParents(req[c].to)[q] = Dir
    BY DEF WithParents
  <2>4. WithParents(req[c].to) = [r \in Paths |-> WithParents(req[c].to)[r]]
    BY DEF WithParents
  <2> QED BY <2>1, <2>2, <2>3, <2>4
<1>7. CASE OpenToRead(c) \/ ReadPiece(c) \/ EndRead(c) \/ WritePiece(c)
  BY <1>7 DEF OpenToRead, ReadPiece, EndRead, WritePiece
<1>8. CASE OpenToWrite(c)
  <2>1. \/ UNCHANGED tree
        \/ /\ tree[req[c].path] = Absent
           /\ MakesFile(c, Len(data) + 1)
    BY <1>8, OpenToWriteCases DEF OpensFile, OpensDirectory
  <2> QED BY <1>0, <2>1 DEF MakesFile, Absent, Dir
<1> QED BY <1>2, <1>3, <1>4, <1>5, <1>6, <1>7, <1>8 DEF Act, Loop, Thread

(* While a call moves a file, only threads come between.                   *)
LEMMA WhileMoving ==
  ASSUME Typed, ControlInv, NEW c \in Calls, Act(c), NEW d \in Calls \ {c}, pc[d] = "moving"
  PROVE  /\ Thread(c) \/ Cancel(c)
         /\ \A p \in Paths : (tree[p] > 0 \/ tree'[p] = Dir) => tree'[p] = tree[p]
<1>0. Control(c) /\ Control(d) /\ tree \in [Paths -> {Absent, Dir} \cup 1..Len(data)] /\ Len(data) \in Nat
  BY DataShape DEF ControlInv, Typed
<1>1. loop # Free /\ loop # c /\ pc[c] \notin {"allowed", "moving"}
  BY <1>0, FilesystemAssumption DEF Control
<1>2. Thread(c) \/ Cancel(c)
  BY <1>1 DEF Act, Loop, Resolve, StartRead, StartWrite, List, Delete, StartMove, Rename, Stretch
<1>3. \/ UNCHANGED tree
      \/ tree[req[c].path] = Absent /\ MakesFile(c, Len(data) + 1)
  <2>1. CASE OpenToWrite(c)
    BY <2>1, OpenToWriteCases DEF OpensDirectory, OpensFile
  <2>2. CASE Cancel(c) \/ WriteStops(c)
    BY <2>2 DEF Cancel, WriteStops, Stays
  <2>3. CASE OpenToRead(c) \/ ReadPiece(c) \/ EndRead(c) \/ WritePiece(c)
    BY <2>3 DEF OpenToRead, ReadPiece, EndRead, WritePiece
  <2> QED BY <1>2, <2>1, <2>2, <2>3 DEF Thread
<1>4. \A p \in Paths : (tree[p] > 0 \/ tree'[p] = Dir) => tree'[p] = tree[p]
  BY <1>0, <1>3 DEF MakesFile, Absent, Dir
<1> QED BY <1>2, <1>4

LEMMA StartedStep ==
  ASSUME Typed, ControlInv, NEW c \in Calls, Act(c), Started(c)'
  PROVE  /\ req'[c] = req[c] /\ req[c].path \in Paths
         /\ Started(c) \/ tree' = WithParents(req[c].path)
<1>0. Control(c)
  BY DEF ControlInv
<1>1. pc'[c] \in {"opening", "opening late", "writing", "writing late"} /\ req'[c].tool = "write"
  BY DEF Started
<1>2. ASSUME NEW r \in Requests, Resolve(c, r) PROVE FALSE
  BY <1>1, <1>2 DEF Resolve, Ends, Suspends, Typed
<1>3. CASE StartRead(c) \/ List(c) \/ Delete(c) \/ StartMove(c) \/ Rename(c)
  <2>1. UNCHANGED req /\ req[c].tool # "write"
    BY <1>0, <1>3 DEF StartRead, List, Delete, StartMove, Rename, Stretch, Returns, Awaits, Control
  <2> QED BY <1>1, <2>1
<1>4. CASE StartWrite(c)
  <2>1. UNCHANGED req /\ req[c].path \in Paths
    BY <1>0, <1>4 DEF StartWrite, Stretch, Returns, Awaits, Control, ConditionPath
  <2>2. ASSUME NEW a, Returns(c, a) PROVE FALSE
    BY <1>1, <2>2 DEF Returns, Ends, Typed
  <2> QED BY <1>4, <2>1, <2>2 DEF StartWrite
<1>5. CASE OpenToRead(c) \/ ReadPiece(c) \/ EndRead(c)
  <2>1. UNCHANGED req /\ req[c].tool # "write"
    BY <1>0, <1>5 DEF OpenToRead, ReadPiece, EndRead, ThreadOf, Aside, Control
  <2> QED BY <1>1, <2>1
<1>6. CASE OpenToWrite(c) \/ WritePiece(c) \/ WriteStops(c)
  <2>1. UNCHANGED req /\ pc[c] \in {"opening", "opening late", "writing", "writing late"}
    BY <1>6 DEF OpenToWrite, WritePiece, WriteStops, ThreadOf, Aside, Writing
  <2> QED BY <1>0, <1>1, <2>1 DEF Started, Control, Writing
<1>7. CASE Cancel(c)
  <2>1. UNCHANGED req /\ pc[c] \in {"opening", "reading", "writing"}
    BY <1>7 DEF Cancel, Aside
  <2> QED BY <1>0, <1>1, <2>1 DEF Started, Control, Writing
<1> QED BY <1>2, <1>3, <1>4, <1>5, <1>6, <1>7 DEF Act, Loop, Thread

LEMMA StandingStep ==
  ASSUME Typed, ControlInv, Standing, NEW c \in Calls, Act(c)
  PROVE  Standing'
<1> SUFFICES ASSUME NEW d \in Calls PROVE MovingFrom(d)' /\ HasParents(d)'
  BY DEF Standing
<1>1. MovingFrom(d)'
  <2> SUFFICES ASSUME pc'[d] = "moving" PROVE tree'[req'[d].path] > 0 /\ tree'[req'[d].to] # Dir
    BY DEF MovingFrom
  <2>1. CASE d = c
    BY <2>1, MovingStarts DEF Absent, Dir
  <2>2. CASE d # c
    <3>0. pc[d] = "moving" /\ req'[d] = req[d]
      BY <2>2, Frame DEF Same
    <3>1. pc[d] = "moving" /\ req'[d] = req[d] /\ req[d].path \in Paths /\ req[d].to \in Paths
      BY <3>0 DEF ControlInv, Control
    <3>2. tree[req[d].path] > 0 /\ tree[req[d].to] # Dir
      BY <3>1 DEF Standing, MovingFrom
    <3>3. \A p \in Paths : (tree[p] > 0 \/ tree'[p] = Dir) => tree'[p] = tree[p]
      BY <2>2, <3>1, WhileMoving
    <3> QED BY <3>1, <3>2, <3>3
  <2> QED BY <2>1, <2>2
<1>2. HasParents(d)'
  <2> SUFFICES ASSUME Started(d)', NEW q \in Above[req'[d].path] PROVE tree'[q] = Dir
    BY DEF HasParents
  <2>1. /\ req'[d] = req[d] /\ req[d].path \in Paths
        /\ Started(d) \/ tree' = WithParents(req[d].path)
    <3>1. CASE d = c
      BY <3>1, StartedStep
    <3>2. CASE d # c
      <4>1. req'[d] = req[d] /\ pc'[d] = pc[d]
        BY <3>2, Frame DEF Same
      <4>2. Started(d)
        BY <4>1 DEF Started
      <4>3. req[d].path \in Paths
        BY <4>2 DEF Started, ControlInv, Control, Writing
      <4> QED BY <4>1, <4>2, <4>3
    <3> QED BY <3>1, <3>2
  <2>2. q \in Paths /\ q \in Above[req[d].path]
    BY <2>1, AboveShape
  <2>3. CASE Started(d)
    <3>1. tree[q] = Dir
      BY <2>2, <2>3 DEF Standing, HasParents
    <3> QED BY <2>2, <3>1, DirStays
  <2>4. CASE tree' = WithParents(req[d].path)
    BY <2>2, <2>4 DEF WithParents
  <2> QED BY <2>1, <2>3, <2>4
<1> QED BY <1>1, <1>2

-----------------------------------------------------------------------------
(* While no two calls on one path have met, an open file is where its call *)
(* asked for it; what a write has written is the whole file, and what a    *)
(* read has read is the beginning of it.                                   *)
Open(c) == InFlight(c) /\ handle[c] > 0

AtHome(c) == Open(c) => tree[req[c].path] = handle[c]

Alone(c) ==
  Writing(c) => /\ Len(data[handle[c]]) = pos[c]
                /\ \A k \in 1..pos[c] : data[handle[c]][k] = c

Untorn(c) ==
  pc[c] = "reading" => /\ Len(data[handle[c]]) >= pos[c] /\ Len(got[c]) = pos[c]
                       /\ \A k \in 1..pos[c] : got[c][k] = data[handle[c]][k]

Homes == Calm => \A c \in Calls : AtHome(c) /\ Alone(c) /\ Untorn(c)

LEMMA CalmBefore ==
  ASSUME Typed, ControlInv, Meetings, NEW c \in Calls, Act(c), Calm'
  PROVE  Calm
BY MetGrows DEF Calm

LEMMA OpenShape ==
  ASSUME Typed, ControlInv, NEW c \in Calls, Open(c)
  PROVE  /\ handle[c] \in 1..Len(data) /\ req[c].path \in Paths
         /\ (pc[c] = "reading" /\ req[c].tool = "read") \/ (Writing(c) /\ req[c].tool = "write")
<1>1. Control(c) /\ handle[c] > 0 /\ handle[c] \in 0..Len(data) /\ Len(data) \in Nat /\ InFlight(c)
  BY DataShape DEF ControlInv, Typed, Open
<1>2. handle[c] \in 1..Len(data) /\ handle[c] # 0
  BY <1>1
<1>3. pc[c] \in {"reading", "writing", "writing late"}
  BY <1>1, <1>2 DEF Control, InFlight, Typed, Places, Unopened
<1> QED BY <1>1, <1>2, <1>3 DEF Control, Writing

LEMMA OpenNow ==
  ASSUME Typed, ControlInv, NEW c \in Calls, Writing(c) \/ pc[c] = "reading"
  PROVE  Open(c)
BY DEF ControlInv, Control, Open, InFlight, Writing

LEMMA AtHomeStep ==
  ASSUME Typed, ControlInv, Meetings, Homes, NEW c \in Calls, Act(c), Calm', NEW d \in Calls, Open(d)'
  PROVE  tree'[req'[d].path] = handle'[d]
<1>0. Calm /\ Len(data) \in Nat /\ handle[d] \in 0..Len(data)
  BY CalmBefore, DataShape DEF Typed
<1>1. CASE handle[d] > 0
  <2>1. Open(d) /\ req'[d] = req[d] /\ handle'[d] = handle[d]
    BY <1>1, OpenedStep DEF Open
  <2>2. /\ tree[req[d].path] = handle[d] /\ req[d].path \in Paths /\ InFlight(d)
        /\ (pc[d] = "reading" /\ req[d].tool = "read") \/ (Writing(d) /\ req[d].tool = "write")
    BY <1>0, <2>1, OpenShape DEF Homes, AtHome, Open
  <2>3. StayAt(req[d].path)
    <3>1. CASE c # d
      BY <1>0, <2>2, <3>1, PathStays DEF Calm
    <3>2. CASE c = d
      <4>1. ~Deletes(c) /\ ~Moves(c)
        BY <2>2, <3>2 DEF Deletes, Moves, Writing
      <4>2. ~Makes(c)
        BY <1>1, <2>2, <3>2 DEF Makes, Absent
      <4> QED BY <2>2, <4>1, <4>2, TreeStep DEF FilesStay
    <3> QED BY <3>1, <3>2
  <2> QED BY <1>1, <2>1, <2>2, <2>3 DEF StayAt
<1>2. CASE ~(handle[d] > 0)
  <2>0. handle'[d] # handle[d]
    BY <1>0, <1>2 DEF Open
  <2>1. OpensAt(c)
    BY <2>0, HandleStep
  <2>2. d = c /\ handle'[d] = tree'[req[d].path]
    BY <2>0, <2>1 DEF OpensAt, Typed
  <2>3. UNCHANGED req
    <3>1. pc[c] # "idle"
      BY <2>1 DEF OpensAt
    <3> QED BY <3>1, BegunStep DEF Resolve
  <2> QED BY <2>2, <2>3
<1> QED BY <1>1, <1>2

(* Another call leaves the text of an open file alone, unless both read.   *)
LEMMA TextIsOwn ==
  ASSUME Typed, ControlInv, Meetings, OnePath, Homes, Calm,
         NEW c \in Calls, Act(c), NEW d \in Calls \ {c}, Open(d)
  PROVE  data'[handle[d]] = data[handle[d]]
<1>1. /\ handle[d] \in 1..Len(data) /\ req[d].path \in Paths
      /\ tree[req[d].path] = handle[d] /\ handle[d] > 0 /\ InFlight(d)
  BY OpenShape DEF Homes, AtHome, Open
<1>2. met[d] = {}
  BY DEF Calm
<1>3. ~(OpensTheFile(c) /\ handle[d] = tree[req[c].path])
  <2> SUFFICES ASSUME OpensTheFile(c), handle[d] = tree[req[c].path] PROVE FALSE
    OBVIOUS
  <2>1. /\ pc[c] \in {"opening", "opening late"} /\ req[c].tool = "write" /\ req[c].path \in Paths
    BY DEF OpensTheFile
  <2>2. req[c].path = req[d].path
    BY <1>1, <2>1 DEF OnePath
  <2>3. c \in met[d]
    BY <1>1, <2>1, <2>2, MetAt DEF InFlight, OnlyReads
  <2> QED BY <1>2, <2>3
<1>4. ~(WritePiece(c) /\ handle[d] = handle[c])
  <2> SUFFICES ASSUME WritePiece(c), handle[d] = handle[c] PROVE FALSE
    OBVIOUS
  <2>1. Writing(c) /\ Open(c) /\ InFlight(c) /\ req[c].tool = "write" /\ req[c].path \in Paths
    BY OpenNow DEF WritePiece, Open, Writing, ControlInv, Control
  <2>2. tree[req[c].path] = handle[d]
    BY <2>1 DEF Homes, AtHome
  <2>3. req[c].path = req[d].path
    BY <1>1, <2>1, <2>2 DEF OnePath
  <2>4. c \in met[d]
    BY <1>1, <2>1, <2>3, MetAt DEF OnlyReads
  <2> QED BY <1>2, <2>4
<1> QED BY <1>1, <1>3, <1>4, TextOf

LEMMA WriterActs ==
  ASSUME Typed, ControlInv, NEW c \in Calls, Act(c), Writing(c)
  PROVE  WritePiece(c) \/ WriteStops(c) \/ Cancel(c)
<1>0. Control(c) /\ req[c].tool = "write"
  BY DEF ControlInv, Control
<1> QED BY <1>0 DEF Act, Loop, Thread, Resolve, StartRead, StartWrite, List, Delete, StartMove, Rename,
              Stretch, OpenToRead, ReadPiece, EndRead, OpenToWrite, ThreadOf, Writing

(* A write that is alone in the file writes on at its end.                 *)
LEMMA WrittenOn ==
  ASSUME Typed, ControlInv, NEW c \in Calls, WritePiece(c),
         Len(data[handle[c]]) = pos[c], \A k \in 1..pos[c] : data[handle[c]][k] = c
  PROVE  /\ Len(data'[handle[c]]) = pos[c] + 1
         /\ \A k \in 1..(pos[c] + 1) : data'[handle[c]][k] = c
<1> DEFINE f == data[handle[c]]
           n == pos[c] + 1
           g == Overwritten(f, n, c)
<1>1. data'[handle[c]] = g /\ handle[c] \in 1..Len(data)
  BY WritePieceData
<1>2. f \in TextSet /\ pos[c] \in Nat /\ n \in Nat \ {0}
  BY <1>1, DataShape DEF Typed
<1>3. Len(f) = pos[c] /\ n = pos[c] + 1 /\ \A k \in 1..pos[c] : f[k] = c
  OBVIOUS
<1> HIDE DEF f, n
<1>w. /\ Len(Overwritten(f, n, c)) = IF Len(f) >= n THEN Len(f) ELSE n
      /\ \A j \in 1..Len(Overwritten(f, n, c)) :
           Overwritten(f, n, c)[j] = IF j = n THEN c ELSE IF j <= Len(f) THEN f[j] ELSE Gap
  BY <1>2, OverwrittenText
<1>g. g = Overwritten(f, n, c)
  OBVIOUS
<1> HIDE DEF g
<1>4. /\ Len(g) = IF Len(f) >= n THEN Len(f) ELSE n
      /\ \A j \in 1..Len(g) : g[j] = IF j = n THEN c ELSE IF j <= Len(f) THEN f[j] ELSE Gap
  BY <1>w, <1>g
<1>5. Len(g) = n
  BY <1>2, <1>3, <1>4
<1>6. ASSUME NEW k \in 1..n PROVE g[k] = c
  <2>1. k = n \/ (k \in 1..pos[c] /\ k <= Len(f))
    BY <1>2, <1>3
  <2> QED BY <1>3, <1>4, <1>5, <2>1
<1> QED BY <1>1, <1>3, <1>5, <1>6

LEMMA AloneStep ==
  ASSUME Typed, ControlInv, Meetings, OnePath, Homes, NEW c \in Calls, Act(c), Calm', NEW d \in Calls,
         Writing(d)'
  PROVE  /\ Len(data'[handle'[d]]) = pos'[d]
         /\ \A k \in 1..pos'[d] : data'[handle'[d]][k] = d
<1>0. Calm
  BY CalmBefore
<1>a. ASSUME Writing(d)
      PROVE  /\ Open(d) /\ handle[d] \in 1..Len(data) /\ pos[d] \in Nat
             /\ Len(data[handle[d]]) = pos[d] /\ \A k \in 1..pos[d] : data[handle[d]][k] = d
  BY <1>0, <1>a, OpenNow, OpenShape DEF Homes, Alone, Typed
<1>1. CASE d # c
  <2>1. Writing(d) /\ handle'[d] = handle[d] /\ pos'[d] = pos[d]
    BY <1>1, Frame DEF Same, Writing
  <2>2. data'[handle[d]] = data[handle[d]]
    BY <1>0, <1>1, <1>a, <2>1, TextIsOwn
  <2> QED BY <1>a, <2>1, <2>2
<1>2. CASE d = c /\ ~Writing(c)
  <2>1. OpensTheFile(c) \/ OpensANewFile(c)
    BY <1>2, DataStep DEF WritePiece
  <2>2. pos'[c] = 0
    BY <2>1 DEF OpensTheFile, OpensANewFile, ControlInv, Control, Unopened
  <2>3. CASE OpensTheFile(c)
    <3>1. data'[tree[req[c].path]] = <<>> /\ handle'[c] = tree[req[c].path]
      BY <2>3, OpensFileData DEF OpensTheFile, Opens, Typed
    <3> QED BY <1>2, <2>2, <3>1, EmptyText
  <2>4. CASE OpensANewFile(c)
    <3>1. data'[Len(data) + 1] = <<>> /\ handle'[c] = Len(data) + 1
      BY <2>4, MakesFileData DEF OpensANewFile, Opens, Typed
    <3> QED BY <1>2, <2>2, <3>1, EmptyText
  <2> QED BY <2>1, <2>3, <2>4
<1>3. CASE d = c /\ Writing(c)
  <2>1. CASE WriteStops(c) \/ Cancel(c)
    <3>1. UNCHANGED <<data, handle, pos>>
      BY <2>1 DEF WriteStops, Cancel, Stays
    <3> QED BY <1>3, <1>a, <3>1
  <2>2. CASE WritePiece(c)
    <3>1. handle' = handle /\ pos'[c] = pos[c] + 1
      BY <2>2 DEF WritePiece, Typed
    <3> QED BY <1>3, <1>a, <2>2, <3>1, WrittenOn
  <2> QED BY <1>3, <2>1, <2>2, WriterActs
<1> QED BY <1>1, <1>2, <1>3

LEMMA ReaderActs ==
  ASSUME Typed, ControlInv, NEW c \in Calls, Act(c), pc'[c] = "reading"
  PROVE  OpenToRead(c) \/ ReadPiece(c)
<1> USE DEF Ends, Suspends, Typed
<1>1. ASSUME NEW r \in Requests, Resolve(c, r) PROVE FALSE
  BY <1>1 DEF Resolve
<1>2. CASE StartRead(c) \/ StartWrite(c) \/ List(c) \/ Delete(c) \/ StartMove(c) \/ Rename(c)
  BY <1>2 DEF StartRead, StartWrite, List, Delete, StartMove, Rename, Returns, Awaits
<1>3. CASE EndRead(c) \/ WriteStops(c) \/ Cancel(c)
  BY <1>3 DEF EndRead, WriteStops, Cancel
<1>4. CASE WritePiece(c)
  BY <1>4 DEF WritePiece, Writing
<1>5. CASE OpenToWrite(c)
  BY <1>5, OpenToWriteCases DEF OpensDirectory, Opens
<1> QED BY <1>1, <1>2, <1>3, <1>4, <1>5 DEF Act, Loop, Thread

LEMMA UntornStep ==
  ASSUME Typed, ControlInv, Meetings, OnePath, Homes, NEW c \in Calls, Act(c), Calm', NEW d \in Calls,
         pc'[d] = "reading"
  PROVE  /\ Len(data'[handle'[d]]) >= pos'[d] /\ Len(got'[d]) = pos'[d]
         /\ \A k \in 1..pos'[d] : got'[d][k] = data'[handle'[d]][k]
<1>0. Calm
  BY CalmBefore
<1>a. ASSUME pc[d] = "reading"
      PROVE  /\ Open(d) /\ handle[d] \in 1..Len(data) /\ pos[d] \in Nat /\ got[d] \in TextSet
             /\ data[handle[d]] \in TextSet /\ Len(data[handle[d]]) \in Nat
             /\ Len(data[handle[d]]) >= pos[d] /\ Len(got[d]) = pos[d]
             /\ \A k \in 1..pos[d] : got[d][k] = data[handle[d]][k]
  <2>1. Open(d) /\ handle[d] \in 1..Len(data)
    BY <1>a, OpenNow, OpenShape
  <2> QED BY <1>0, <1>a, <2>1, DataShape DEF Homes, Untorn, Typed
<1>1. CASE d # c
  <2>1. pc[d] = "reading" /\ handle'[d] = handle[d] /\ pos'[d] = pos[d] /\ got'[d] = got[d]
    BY <1>1, Frame DEF Same
  <2>2. data'[handle[d]] = data[handle[d]]
    BY <1>0, <1>1, <1>a, <2>1, TextIsOwn
  <2> QED BY <1>a, <2>1, <2>2
<1>2. CASE d = c /\ OpenToRead(c)
  <2>1. pc[c] = "opening" /\ UNCHANGED <<data, pos, got>>
    BY <1>2 DEF OpenToRead, ThreadOf
  <2>2. pos'[c] = 0 /\ got'[c] = <<>>
    BY <2>1 DEF ControlInv, Control, Unopened
  <2>3. Typed' /\ ControlInv'
    BY TypedStep DEF Act, Next
  <2>4. handle'[c] \in 1..Len(data)
    <3>1. IsFile(req[c].path)
      BY <1>2 DEF OpenToRead, Ends, Typed
    <3>2. handle'[c] = tree[req[c].path]
      BY <1>2, <3>1 DEF OpenToRead, Typed
    <3> QED BY <3>1, <3>2, FileInode
  <2>5. Len(data[handle'[c]]) \in Nat
    BY <2>4, DataShape
  <2> QED BY <1>2, <2>1, <2>2, <2>5, EmptyText
<1>3. CASE d = c /\ ReadPiece(c)
  <2>1. /\ pc[c] = "reading" /\ data' = data /\ handle' = handle
        /\ pos'[c] = pos[c] + 1 /\ pos[c] < Len(data[handle[c]])
        /\ got'[c] = Append(got[c], data[handle[c]][pos[c] + 1])
    BY <1>3 DEF ReadPiece, Typed
  <2> DEFINE f == data[handle[c]]
             g == got[c]
             n == pos[c]
  <2>2. /\ n \in Nat /\ g \in Seq(Piece) /\ Len(f) \in Nat /\ Len(g) = n
        /\ \A k \in 1..n : g[k] = f[k]
    BY <1>3, <1>a, <2>1 DEF TextSet
  <2>3. f[n + 1] \in Piece
    <3>1. n + 1 \in 1..Len(f) /\ f \in TextSet
      BY <1>3, <1>a, <2>1
    <3> QED BY <3>1, ElementOfSeq DEF TextSet
  <2> HIDE DEF f, g, n
  <2>4. /\ Len(Append(g, f[n + 1])) = n + 1 /\ Append(g, f[n + 1])[n + 1] = f[n + 1]
        /\ \A k \in 1..n : Append(g, f[n + 1])[k] = g[k]
    BY <2>2, <2>3, AppendProperties
  <2>5. \A k \in 1..(n + 1) : Append(g, f[n + 1])[k] = f[k]
    <3>1. \A k \in 1..(n + 1) : k = n + 1 \/ k \in 1..n
      BY <2>2
    <3> QED BY <2>2, <2>4, <3>1
  <2>6. Len(f) >= n + 1
    BY <2>1, <2>2 DEF f, n
  <2> QED BY <1>3, <2>1, <2>4, <2>5, <2>6 DEF f, g, n
<1> QED BY <1>1, <1>2, <1>3, ReaderActs

LEMMA HomesStep ==
  ASSUME Typed, ControlInv, Meetings, OnePath, Homes, NEW c \in Calls, Act(c)
  PROVE  Homes'
BY AtHomeStep, AloneStep, UntornStep DEF Homes, AtHome, Alone, Untorn

(* What holds in every state, for the promise of AtomicFiles.              *)
RInv == IInv /\ Priors /\ Standing /\ Homes

LEMMA InitRInv == Init => RInv
<1> SUFFICES ASSUME Init PROVE RInv
  OBVIOUS
<1>1. IInv
  BY InitIInv
<1>2. \A c \in Calls : pc[c] = "idle"
  BY DEF Init
<1>3. Priors
  BY <1>2 DEF Init, Priors, Contents, Writing
<1>4. Standing
  BY <1>2 DEF Standing, MovingFrom, HasParents, Started
<1>5. Homes
  BY <1>2 DEF Homes, AtHome, Alone, Untorn, Open, InFlight, Writing
<1> QED BY <1>1, <1>3, <1>4, <1>5 DEF RInv

LEMMA StepRInv == RInv /\ [Next]_vars => RInv'
<1> SUFFICES ASSUME RInv, [Next]_vars PROVE RInv'
  OBVIOUS
<1>1. IInv'
  BY StepIInv DEF RInv
<1>2. CASE UNCHANGED vars
  <2>1. Priors' /\ Standing'
    BY <1>2 DEF vars, RInv, Priors, Standing, MovingFrom, HasParents, Started, Writing
  <2>2. Homes'
    BY <1>2 DEF vars, RInv, Homes, Calm, AtHome, Alone, Untorn, Open, InFlight, Writing
  <2> QED BY <1>1, <2>1, <2>2 DEF RInv
<1>3. ASSUME NEW c \in Calls, Act(c) PROVE RInv'
  BY <1>1, <1>3, PriorsStep, StandingStep, HomesStep DEF RInv, IInv
<1> QED BY <1>2, <1>3, ActionOfOne

LEMMA AlwaysRInv == Spec => []RInv
BY InitRInv, StepRInv, PTL DEF Spec

-----------------------------------------------------------------------------
(* What a file shows, while no two calls on one path have met: what was    *)
(* there when the call that writes it opened it, or what is there.         *)
OneAtATime ==
  RInv /\ Calm =>
    \A p \in Paths :
      /\ \A w \in Calls : Writing(w) /\ req[w].path = p => FilesSeen[p] = prior[w]
      /\ (\A w \in Calls : Writing(w) => req[w].path # p) => FilesSeen[p] = Content(p)

LEMMA OneWriter ==
  ASSUME RInv, Calm, NEW v \in Calls, NEW w \in Calls, InFlight(v), InFlight(w),
         req[w].path \in Paths, req[v].path = req[w].path \/ req[v].to = req[w].path,
         ~OnlyReads(req[v]) \/ ~OnlyReads(req[w])
  PROVE  v = w
BY MetAt DEF RInv, IInv, Calm

LEMMA WriterShape ==
  ASSUME RInv, Calm, NEW w \in Calls, Writing(w)
  PROVE  /\ InFlight(w) /\ req[w].tool = "write" /\ req[w].path \in Paths /\ ~OnlyReads(req[w])
         /\ tree[req[w].path] = handle[w] /\ handle[w] > 0 /\ handle[w] \in 1..Len(data)
         /\ req[w] \in Requests /\ pos[w] \in Nat /\ pos[w] < req[w].size
<1>1. Typed /\ ControlInv /\ Homes
  BY DEF RInv, IInv
<1>2. Open(w)
  BY <1>1, OpenNow
<1>3. req[w].tool = "write" /\ pos[w] < req[w].size /\ req[w] \in Requests /\ pos[w] \in Nat
  BY <1>1 DEF ControlInv, Control, Writing, Typed
<1> QED BY <1>1, <1>2, <1>3, OpenShape DEF Homes, AtHome, Open, OnlyReads

LEMMA SeenAt ==
  \A p \in Paths :
    FilesSeen[p] = IF IsFile(p) /\ WritersOf(tree[p]) # {}
                     THEN prior[CHOOSE w \in WritersOf(tree[p]) : TRUE] ELSE Content(p)
BY DEF FilesSeen

LEMMA WritesOneAtATime == OneAtATime
<1> SUFFICES ASSUME RInv, Calm, NEW p \in Paths
             PROVE  /\ \A w \in Calls : Writing(w) /\ req[w].path = p => FilesSeen[p] = prior[w]
                    /\ (\A w \in Calls : Writing(w) => req[w].path # p) => FilesSeen[p] = Content(p)
  BY DEF OneAtATime
<1>1. ASSUME NEW v \in Calls, Writing(v), handle[v] = tree[p]
      PROVE  req[v].path = p
  BY <1>1, WriterShape DEF RInv, IInv, OnePath
<1>2. ASSUME NEW w \in Calls, Writing(w), req[w].path = p PROVE FilesSeen[p] = prior[w]
  <2>1. tree[p] = handle[w] /\ handle[w] > 0
    BY <1>2, WriterShape
  <2>2. IsFile(p)
    BY <2>1 DEF IsFile
  <2>3. \A v \in Calls : Writing(v) /\ handle[v] = tree[p] => v = w
    BY <1>1, <1>2, WriterShape, OneWriter
  <2>4. WritersOf(tree[p]) = {w}
    BY <1>2, <2>1, <2>3 DEF WritersOf
  <2>5. (CHOOSE v \in WritersOf(tree[p]) : TRUE) = w /\ WritersOf(tree[p]) # {}
    BY <2>4
  <2> QED BY <2>2, <2>5, SeenAt
<1>3. ASSUME \A w \in Calls : Writing(w) => req[w].path # p PROVE FilesSeen[p] = Content(p)
  <2>1. WritersOf(tree[p]) = {}
    BY <1>1, <1>3 DEF WritersOf
  <2> QED BY <2>1, SeenAt
<1> QED BY <1>2, <1>3

LEMMA WritesOneAtATimeNext == OneAtATime'
BY WritesOneAtATime, PTL

(* Where no file is, what is there is seen.                                *)
PlainToSee ==
  Typed =>
    \A p \in Paths :
      /\ tree[p] = Dir => FilesSeen[p] = Directory
      /\ tree[p] = Absent => FilesSeen[p] = Nothing
      /\ tree[p] > 0 => Content(p) = File(data[tree[p]])

LEMMA SeenPlainly == PlainToSee
<1> SUFFICES ASSUME Typed, NEW p \in Paths
             PROVE  /\ tree[p] = Dir => FilesSeen[p] = Directory
                    /\ tree[p] = Absent => FilesSeen[p] = Nothing
                    /\ tree[p] > 0 => Content(p) = File(data[tree[p]])
  BY DEF PlainToSee
<1>1. tree[p] = Dir \/ tree[p] = Absent => ~IsFile(p)
  BY DEF IsFile, Dir, Absent
<1> QED BY <1>1, SeenAt, ContentShape

LEMMA SeenPlainlyNext == PlainToSee'
BY SeenPlainly, PTL

LEMMA KindsOfContent == Nothing.is = "nothing" /\ Directory.is = "directory" /\ \A t : File(t).is = "file"
BY DEF Nothing, Directory, File

LEMMA TreeShape ==
  ASSUME Typed, NEW p \in Paths
  PROVE  tree[p] = Dir \/ tree[p] = Absent \/ tree[p] > 0
BY DataShape DEF Typed

(* Nothing changes that can be seen.                                       *)
LEMMA SeenStays ==
  ASSUME UNCHANGED <<tree, data, prior>>, \A d \in Calls : Writing(d)' <=> Writing(d),
         \A d \in Calls : Writing(d) => handle'[d] = handle[d]
  PROVE  UNCHANGED FilesSeen
<1>1. \A i : {d \in Calls : Writing(d)' /\ handle'[d] = i} = {d \in Calls : Writing(d) /\ handle[d] = i}
  OBVIOUS
<1>2. tree' = tree /\ data' = data /\ prior' = prior
  OBVIOUS
<1>3. ASSUME NEW p \in Paths
      PROVE  (IF IsFile(p) /\ WritersOf(tree[p]) # {}
               THEN prior[CHOOSE w \in WritersOf(tree[p]) : TRUE] ELSE Content(p))'
             = IF IsFile(p) /\ WritersOf(tree[p]) # {}
                 THEN prior[CHOOSE w \in WritersOf(tree[p]) : TRUE] ELSE Content(p)
  <2>1. WritersOf(tree[p])' = WritersOf(tree[p])
    BY <1>1, <1>2 DEF WritersOf
  <2>2. IsFile(p)' = IsFile(p) /\ Content(p)' = Content(p)
    BY <1>2 DEF IsFile, Content, Exists
  <2> QED BY <1>2, <2>1, <2>2
<1> QED BY <1>3 DEF FilesSeen

(* A step of one call, while no two on one path have met.                  *)
Calmly(c) == RInv /\ RInv' /\ Calm /\ Calm' /\ Act(c)

LEMMA CalmlyTyped ==
  ASSUME NEW c \in Calls, Calmly(c)
  PROVE  Typed /\ ControlInv /\ Control(c) /\ Typed' /\ ControlInv' /\ Control(c)'
BY DEF Calmly, RInv, IInv, ControlInv

LEMMA SeenKept ==
  ASSUME NEW c \in Calls, Calmly(c), UNCHANGED req, NEW p \in Paths, tree'[p] = tree[p],
         tree[p] > 0 => data'[tree[p]] = data[tree[p]],
         \/ req[c].path # p
         \/ (Writing(c)' <=> Writing(c)) /\ (Writing(c) => prior'[c] = prior[c])
  PROVE  FilesSeen'[p] = FilesSeen[p]
<1>0. Typed /\ ControlInv /\ Typed'
  BY CalmlyTyped
<1>1. \A w \in Calls \ {c} : (Writing(w)' <=> Writing(w)) /\ prior'[w] = prior[w]
  <2>1. \A w \in Calls \ {c} : Writing(w)' <=> Writing(w)
    BY <1>0, Frame DEF Calmly, Same, Writing
  <2>2. prior \in [Calls -> Contents]
    BY DEF Calmly, RInv, Priors
  <2>3. UNCHANGED prior \/ prior' = [prior EXCEPT ![c] = Content(req[c].path)]
    BY <1>0, PriorStep DEF Calmly
  <2> QED BY <2>1, <2>2, <2>3
<1>2. ASSUME NEW w \in Calls, req[w].path = p
      PROVE  (Writing(w)' <=> Writing(w)) /\ (Writing(w) => prior'[w] = prior[w])
  BY <1>1, <1>2
<1>3. CASE \E w \in Calls : Writing(w) /\ req[w].path = p
  <2>1. PICK w \in Calls : Writing(w) /\ req[w].path = p
    BY <1>3
  <2>2. FilesSeen[p] = prior[w]
    BY <2>1, WritesOneAtATime DEF OneAtATime, Calmly
  <2>3. FilesSeen'[p] = prior'[w]
    BY <1>2, <2>1, WritesOneAtATimeNext DEF OneAtATime, Calmly
  <2> QED BY <1>2, <2>1, <2>2, <2>3
<1>4. CASE ~ \E w \in Calls : Writing(w) /\ req[w].path = p
  <2>1. FilesSeen[p] = Content(p)
    BY <1>4, WritesOneAtATime DEF OneAtATime, Calmly
  <2>2. FilesSeen'[p] = Content(p)'
    BY <1>2, <1>4, WritesOneAtATimeNext DEF OneAtATime, Calmly
  <2>3. Content(p)' = Content(p)
    <3>1. CASE tree[p] > 0
      <4>1. Content(p) = File(data[tree[p]])
        BY <1>0, <3>1, SeenPlainly DEF PlainToSee
      <4>2. tree'[p] > 0
        BY <3>1
      <4>3. Content(p)' = File(data'[tree'[p]])
        BY <1>0, <4>2, SeenPlainlyNext DEF PlainToSee
      <4> QED BY <3>1, <4>1, <4>3
    <3>2. CASE tree[p] = Dir \/ tree[p] = Absent
      <4>1. FilesSeen'[p] = FilesSeen[p]
        BY <1>0, <3>2, SeenPlainly, SeenPlainlyNext DEF PlainToSee
      <4> QED BY <2>1, <2>2, <4>1
    <3> QED BY <1>0, <3>1, <3>2, TreeShape
  <2> QED BY <2>1, <2>2, <2>3
<1> QED BY <1>3, <1>4

LEMMA SeenUnmoved ==
  ASSUME NEW c \in Calls, Calmly(c), UNCHANGED <<tree, data, prior>>,
         \/ ~Writing(c) /\ ~Writing(c)'
         \/ UNCHANGED handle /\ (Writing(c)' <=> Writing(c))
  PROVE  UNCHANGED FilesSeen
<1>1. \A d \in Calls \ {c} : (Writing(d)' <=> Writing(d)) /\ handle'[d] = handle[d]
  BY CalmlyTyped, Frame DEF Calmly, Same, Writing
<1> QED BY <1>1, SeenStays

(* The words of AtomicFiles.                                               *)
LEMMA SameWords ==
  /\ A!Nothing = Nothing /\ A!Directory = Directory /\ \A t : A!File(t) = File(t)
  /\ \A k : A!Plain(k) = Plain(k)
  /\ \A k, t, e, b : A!Reply(k, t, e, b) = Answer(k, t, e, b)
  /\ A!Pending = Pending
BY DEF A!Nothing, Nothing, A!Directory, Directory, A!File, File, A!Plain, Plain, A!Reply, Answer,
       A!Pending, Pending

LEMMA SameFiles ==
  \A p \in Paths : A!IsFile(p) <=> FilesSeen[p].is = "file"
BY DEF A!IsFile

Effect(c) == A!CallTakesEffect(c) \/ A!Arrive(c) \/ UNCHANGED <<FilesSeen, req, answer>>

LEMMA Awaiting ==
  ASSUME NEW c \in Calls, Calmly(c), pc[c] \notin Late \cup {"done"}
  PROVE  answer[c] = Pending /\ answer[c].is = "pending" /\ ~Cancelled(c)
<1>1. answer[c] = Pending
  BY CalmlyTyped DEF Control
<1> QED BY <1>1, PlainAnswer DEF Pending, Kinds, Cancelled

LEMMA EndsAnswers ==
  ASSUME NEW c \in Calls, Calmly(c), pc[c] \notin Late \cup {"done"}, NEW a, Ends(c, a)
  PROVE  A!Answer(c, a) /\ answer' = [answer EXCEPT ![c] = a] /\ answer'[c] = a
<1>1. answer[c].is = "pending" /\ ~Cancelled(c)
  BY Awaiting
<1>2. answer' = [answer EXCEPT ![c] = a] /\ answer \in [Calls -> Answers]
  BY <1>1, CalmlyTyped DEF Ends, Typed
<1> QED BY <1>1, <1>2 DEF A!Answer

LEMMA EndsLate ==
  ASSUME NEW c \in Calls, Calmly(c), Cancelled(c), NEW a, Ends(c, a)
  PROVE  UNCHANGED answer
BY CalmlyTyped DEF Ends, Typed

LEMMA GivesUp ==
  ASSUME NEW c \in Calls, Calmly(c), pc[c] \notin Late \cup {"done"},
         NEW k \in {"refused", "outside", "failed", "cancelled"}, Ends(c, Plain(k)),
         UNCHANGED <<FilesSeen, req>>
  PROVE  Effect(c)
<1>1. A!Answer(c, A!Plain(k))
  BY EndsAnswers, SameWords
<1> QED BY <1>1 DEF Effect, A!CallTakesEffect, A!GiveUp

-----------------------------------------------------------------------------
(* What happens on the loop.                                               *)
LEMMA ResolveEffect ==
  ASSUME NEW c \in Calls, Calmly(c), NEW r \in Requests, Resolve(c, r)
  PROVE  Effect(c)
<1>0. pc[c] = "idle" /\ req \in [Calls -> Requests \cup {NoRequest}] /\ pc \in [Calls -> Places]
  BY CalmlyTyped DEF Resolve, Typed
<1>1. req' = [req EXCEPT ![c] = r] /\ UNCHANGED <<tree, data, prior>>
  BY DEF Resolve, Stays
<1>2. pc'[c] \in {"done", "allowed"}
  BY <1>0 DEF Resolve, Ends, Suspends
<1>3. UNCHANGED FilesSeen
  BY <1>0, <1>1, <1>2, SeenUnmoved DEF Writing
<1>4. answer' = answer \/ A!Answer(c, A!Plain("refused"))
  BY <1>0, EndsAnswers, SameWords DEF Resolve, Suspends, Late
<1>5. answer[c].is = "pending"
  BY <1>0, Awaiting DEF Late
<1> QED BY <1>0, <1>1, <1>3, <1>4, <1>5 DEF Effect, A!Arrive

LEMMA StartReadEffect ==
  ASSUME NEW c \in Calls, Calmly(c), StartRead(c)
  PROVE  Effect(c)
<1>0. pc[c] = "allowed" /\ UNCHANGED <<tree, data, prior, req>>
  BY DEF StartRead, Stretch, Stays, Returns, Awaits
<1>1. pc'[c] \in {"done", "opening"}
  BY CalmlyTyped DEF StartRead, Returns, Awaits, Ends, Suspends, Typed
<1>2. UNCHANGED FilesSeen
  BY <1>0, <1>1, SeenUnmoved DEF Writing
<1>3. Ends(c, Plain("refused")) \/ UNCHANGED answer
  BY DEF StartRead, Returns, Awaits, Suspends
<1> QED BY <1>0, <1>2, <1>3, GivesUp DEF Late, Effect

LEMMA StartWriteEffect ==
  ASSUME NEW c \in Calls, Calmly(c), StartWrite(c)
  PROVE  Effect(c)
<1> DEFINE p == req[c].path
<1>0. pc[c] = "allowed" /\ UNCHANGED <<data, prior, handle, req>> /\ req[c].tool = "write" /\ p \in Paths
  BY CalmlyTyped DEF StartWrite, Stretch, Returns, Awaits, Control, ConditionPath
<1>1. pc'[c] \in {"done", "opening"}
  BY CalmlyTyped DEF StartWrite, Returns, Awaits, Ends, Suspends, Typed
<1>2. CASE UNCHANGED tree /\ (Ends(c, Plain("outside")) \/ Ends(c, Plain("refused")))
  <2>1. UNCHANGED FilesSeen
    BY <1>0, <1>1, <1>2, SeenUnmoved DEF Writing
  <2> QED BY <1>0, <1>2, <2>1, GivesUp DEF Late
<1>3. CASE UNCHANGED answer /\ ~FileAbove(p) /\ tree' = WithParents(p)
  <2>1. Above[p] \subseteq Paths
    BY <1>0, AboveShape
  <2>2. ASSUME NEW q \in Above[p] PROVE FilesSeen'[q] = Directory /\ ~A!IsFile(q)
    <3>1. q \in Paths /\ tree'[q] = Dir
      BY <1>3, <2>1 DEF WithParents
    <3>2. FilesSeen'[q] = Directory
      BY <3>1, CalmlyTyped, SeenPlainlyNext DEF PlainToSee
    <3>3. tree[q] = Dir \/ tree[q] = Absent
      BY <1>3, <3>1, CalmlyTyped, TreeShape DEF FileAbove, IsFile
    <3>4. FilesSeen[q] = Directory \/ FilesSeen[q] = Nothing
      BY <3>1, <3>3, CalmlyTyped, SeenPlainly DEF PlainToSee
    <3> QED BY <3>1, <3>2, <3>4, SameFiles, KindsOfContent
  <2>3. ASSUME NEW q \in Paths, q \notin Above[p] PROVE FilesSeen'[q] = FilesSeen[q]
    <3>1. tree'[q] = tree[q]
      BY <1>3, <2>3 DEF WithParents
    <3>2. ~Writing(c) /\ ~Writing(c)'
      BY <1>0, <1>1 DEF Writing
    <3> QED BY <1>0, <3>1, <3>2, SeenKept
  <2>4. FilesSeen' = [q \in Paths |-> IF q \in Above[p] THEN Directory ELSE FilesSeen[q]]
    <3>1. FilesSeen' = [q \in Paths |-> FilesSeen'[q]]
      BY DEF FilesSeen
    <3>2. \A q \in Paths : FilesSeen'[q] = IF q \in Above[p] THEN Directory ELSE FilesSeen[q]
      BY <2>2, <2>3
    <3> QED BY <3>1, <3>2
  <2>5. A!MakeDirectories(c)
    BY <1>0, <1>3, <2>2, <2>4, SameWords DEF A!MakeDirectories
  <2> QED BY <1>0, <2>5 DEF Effect, A!CallTakesEffect
<1> QED BY <1>2, <1>3 DEF StartWrite, Returns, Awaits, Suspends

(* Whoever has its path in an open file, no other call has.                *)
LEMMA NobodyWrites ==
  ASSUME NEW c \in Calls, Calmly(c), InFlight(c), ~Writing(c), NEW p \in Paths,
         req[c].path = p \/ req[c].to = p
  PROVE  FilesSeen[p] = Content(p)
<1>1. ASSUME NEW w \in Calls, Writing(w), req[w].path = p PROVE FALSE
  BY <1>1, WriterShape, OneWriter DEF Calmly
<1> QED BY <1>1, WritesOneAtATime DEF OneAtATime, Calmly

LEMMA ListEffect ==
  ASSUME NEW c \in Calls, Calmly(c), List(c)
  PROVE  Effect(c)
<1> DEFINE p == req[c].path
           wanted == {q \in Paths : /\ p \in Above[q]
                                    /\ FilesSeen[q] # A!Nothing
                                    /\ req[c].recursive \/ Above[q] = Above[p] \cup {p}}
<1>0. pc[c] = "allowed" /\ UNCHANGED <<tree, data, prior, req>> /\ req[c].tool = "list" /\ p \in Paths
  BY CalmlyTyped DEF List, Stretch, Stays, Returns, Control, ConditionPath
<1>1. pc'[c] = "done"
  BY CalmlyTyped DEF List, Returns, Ends, Typed
<1>2. UNCHANGED FilesSeen
  BY <1>0, <1>1, SeenUnmoved DEF Writing
<1>3. CASE Ends(c, Plain("refused"))
  BY <1>0, <1>2, <1>3, GivesUp DEF Late
<1>4. CASE /\ Exists(p) /\ ~IsFile(p)
           /\ \E a \in Listings(p, req[c].recursive) : Ends(c, a)
  <2>1. PICK a \in Listings(p, req[c].recursive) : Ends(c, a)
    BY <1>4
  <2>2. A!Answer(c, a) /\ answer'[c] = a
    BY <1>0, <2>1, EndsAnswers DEF Late
  <2>3. FilesSeen[p] = A!Directory
    <3>1. tree[p] = Dir
      BY <1>0, <1>4, CalmlyTyped, TreeShape DEF Exists, IsFile
    <3> QED BY <1>0, <3>1, CalmlyTyped, SeenPlainly, SameWords DEF PlainToSee
  <2>4. ASSUME NEW q \in Paths, p \in Above[q] PROVE FilesSeen[q] # A!Nothing <=> Exists(q)
    <3>1. ASSUME NEW w \in Calls, Writing(w), req[w].path = q PROVE FALSE
      <4>1. InFlight(w) /\ req[w].tool = "write" /\ w # c /\ InFlight(c)
        BY <1>0, <3>1, WriterShape DEF Calmly, Writing, InFlight
      <4>2. p \in Named(req[c]) /\ q \in Named(req[w])
        BY <1>0, <3>1, FilesystemAssumption DEF Named
      <4>3. Meet(req[c], req[w])
        BY <2>4, <4>1, <4>2 DEF Meet, OnlyReads
      <4>4. w \in met[c]
        BY <4>1, <4>3 DEF Calmly, RInv, IInv, Meetings
      <4> QED BY <4>4 DEF Calmly, Calm
    <3>2. FilesSeen[q] = Content(q)
      BY <3>1, WritesOneAtATime DEF OneAtATime, Calmly
    <3>3. Content(q) = Nothing <=> tree[q] = Absent
      BY CalmlyTyped, ContentShape, TreeShape, KindsOfContent
    <3> QED BY <3>2, <3>3, SameWords DEF Exists
  <2>5. wanted = Present(p, req[c].recursive)
    BY <2>4 DEF Present
  <2> HIDE DEF wanted
  <2>6. \E e \in SUBSET Paths, b \in BOOLEAN :
          /\ a = Answer("ok", <<>>, e, b)
          /\ IF b THEN e \subseteq wanted /\ Cardinality(e) = MaxList ELSE e = wanted
    <3>1. wanted \subseteq Paths
      BY <2>5 DEF Present
    <3>2. CASE Cardinality(wanted) <= MaxList
      <4>1. a = Answer("ok", <<>>, wanted, FALSE)
        BY <2>5, <3>2 DEF Listings
      <4> QED BY <3>1, <4>1
    <3>3. CASE ~(Cardinality(wanted) <= MaxList)
      <4>1. PICK some \in kSubset(MaxList, wanted) : a = Answer("ok", <<>>, some, TRUE)
        BY <2>5, <3>3 DEF Listings
      <4>2. some \subseteq wanted /\ Cardinality(some) = MaxList
        BY <4>1 DEF kSubset
      <4>3. some \in SUBSET Paths /\ TRUE \in BOOLEAN
        BY <3>1, <4>2
      <4> QED BY <4>1, <4>2, <4>3
    <3> QED BY <3>2, <3>3
  <2>7. PICK e \in SUBSET Paths, b \in BOOLEAN :
          /\ a = Answer("ok", <<>>, e, b)
          /\ IF b THEN e \subseteq wanted /\ Cardinality(e) = MaxList ELSE e = wanted
    BY <2>6
  <2>8. a.entries = e /\ a.cut = b
    BY <2>7 DEF Answer
  <2>9. A!Cardinality(e) = Cardinality(e)
    BY DEF A!Cardinality, Cardinality
  <2>10. A!Answer(c, A!Reply("ok", <<>>, e, b))
    BY <2>2, <2>7, SameWords
  <2>11. A!List(c, e, b)
    BY <1>0, <1>2, <2>3, <2>7, <2>9, <2>10 DEF A!List, wanted
  <2> QED BY <1>0, <2>2, <2>8, <2>11 DEF Effect, A!CallTakesEffect
<1> QED BY <1>3, <1>4 DEF List, Returns

LEMMA DeleteEffect ==
  ASSUME NEW c \in Calls, Calmly(c), Delete(c)
  PROVE  Effect(c)
<1> DEFINE p == req[c].path
<1>0. pc[c] = "allowed" /\ UNCHANGED <<data, prior, req>> /\ req[c].tool = "delete"
  BY DEF Delete, Stretch, Returns
<1>1. pc'[c] = "done"
  BY CalmlyTyped DEF Delete, Returns, Ends, Typed
<1>2. ~Writing(c) /\ ~Writing(c)' /\ InFlight(c)
  BY <1>0, <1>1 DEF Writing, InFlight
<1>3. CASE ~IsFile(p)
  <2>1. UNCHANGED tree /\ Ends(c, Plain("refused"))
    BY <1>3 DEF Delete, Returns
  <2>2. UNCHANGED FilesSeen
    BY <1>0, <1>2, <2>1, SeenUnmoved
  <2> QED BY <1>0, <2>1, <2>2, GivesUp DEF Late
<1>4. CASE IsFile(p)
  <2>1. p \in Paths /\ tree[p] > 0 /\ tree' = [tree EXCEPT ![p] = Absent] /\ Ends(c, Plain("ok"))
    BY <1>4 DEF IsFile, Delete, Returns
  <2>2. tree'[p] = Absent /\ \A q \in Paths \ {p} : tree'[q] = tree[q]
    BY <2>1, CalmlyTyped DEF Typed
  <2>3. A!IsFile(p)
    BY <1>2, <2>1, CalmlyTyped, NobodyWrites, ContentShape, SameFiles
  <2>4. FilesSeen'[p] = Nothing
    BY <2>1, <2>2, CalmlyTyped, SeenPlainlyNext DEF PlainToSee
  <2>5. \A q \in Paths \ {p} : FilesSeen'[q] = FilesSeen[q]
    BY <1>0, <1>2, <2>2, SeenKept
  <2>6. FilesSeen' = [FilesSeen EXCEPT ![p] = Nothing]
    <3>1. FilesSeen' = [q \in Paths |-> FilesSeen'[q]] /\ FilesSeen = [q \in Paths |-> FilesSeen[q]]
      BY DEF FilesSeen
    <3> QED BY <2>1, <2>4, <2>5, <3>1
  <2>7. A!Answer(c, A!Plain("ok"))
    BY <1>0, <2>1, EndsAnswers, SameWords DEF Late
  <2>8. A!Delete(c)
    BY <1>0, <2>3, <2>6, <2>7, SameWords DEF A!Delete
  <2> QED BY <1>0, <2>8 DEF Effect, A!CallTakesEffect
<1> QED BY <1>3, <1>4

LEMMA StartMoveEffect ==
  ASSUME NEW c \in Calls, Calmly(c), StartMove(c)
  PROVE  Effect(c)
<1>0. pc[c] = "allowed" /\ UNCHANGED <<tree, data, prior, req>>
  BY DEF StartMove, Stretch, Stays, Returns
<1>1. pc'[c] \in {"done", "moving"}
  BY CalmlyTyped DEF StartMove, Returns, Ends, Suspends, Typed
<1>2. UNCHANGED FilesSeen
  BY <1>0, <1>1, SeenUnmoved DEF Writing
<1>3. Ends(c, Plain("outside")) \/ Ends(c, Plain("refused")) \/ UNCHANGED answer
  BY DEF StartMove, Returns, Suspends
<1> QED BY <1>0, <1>2, <1>3, GivesUp DEF Late, Effect

LEMMA RenameEffect ==
  ASSUME NEW c \in Calls, Calmly(c), Rename(c)
  PROVE  Effect(c)
<1> DEFINE p == req[c].path
           q == req[c].to
<1>0. /\ pc[c] = "moving" /\ UNCHANGED <<data, prior, req>>
      /\ req[c].tool = "move" /\ p \in Paths /\ q \in Paths /\ p # q
  BY CalmlyTyped DEF Rename, Returns, Control
<1>1. pc'[c] = "done"
  BY CalmlyTyped DEF Rename, Returns, Ends, Typed
<1>2. ~Writing(c) /\ ~Writing(c)' /\ InFlight(c)
  BY <1>0, <1>1 DEF Writing, InFlight
<1>3. CASE FileAbove(q)
  <2>1. UNCHANGED tree /\ Ends(c, Plain("failed"))
    BY <1>3 DEF Rename, Returns
  <2>2. UNCHANGED FilesSeen
    BY <1>0, <1>2, <2>1, SeenUnmoved
  <2> QED BY <1>0, <2>1, <2>2, GivesUp DEF Late
<1>4. CASE ~FileAbove(q)
  <2>1. tree' = [WithParents(q) EXCEPT ![q] = tree[p], ![p] = Absent] /\ Ends(c, Plain("ok"))
    BY <1>4 DEF Rename, Returns
  <2>2. tree[p] > 0 /\ tree[q] = Absent
    <3>1. tree[p] > 0 /\ tree[q] # Dir
      BY <1>0 DEF Calmly, RInv, Standing, MovingFrom
    <3>2. ~(tree[q] > 0)
      BY <1>0 DEF Calmly, RInv, IInv, Moving, MovingPast, Calm
    <3> QED BY <1>0, <3>1, <3>2, CalmlyTyped, TreeShape
  <2>3. /\ tree'[p] = Absent /\ tree'[q] = tree[p]
        /\ \A r \in Paths \ {p, q} : tree'[r] = IF r \in Above[q] THEN Dir ELSE tree[r]
    <3>1. WithParents(q) = [r \in Paths |-> IF r \in Above[q] THEN Dir ELSE tree[r]]
      BY DEF WithParents
    <3> QED BY <1>0, <2>1, <3>1
  <2>4. Above[q] \subseteq Paths
    BY <1>0, AboveShape
  <2>5. A!IsFile(p) /\ FilesSeen[p] = Content(p) /\ Content(p) = File(data[tree[p]])
    BY <1>0, <1>2, <2>2, CalmlyTyped, NobodyWrites, ContentShape, SameFiles
  <2>6. FilesSeen[q] = Nothing
    BY <1>0, <2>2, CalmlyTyped, SeenPlainly DEF PlainToSee
  <2>7. ASSUME NEW d \in Above[q] PROVE d \in Paths /\ ~A!IsFile(d)
    <3>1. d \in Paths /\ (tree[d] = Dir \/ tree[d] = Absent)
      BY <1>4, <2>4, CalmlyTyped, TreeShape DEF FileAbove, IsFile
    <3>2. FilesSeen[d] = Directory \/ FilesSeen[d] = Nothing
      BY <3>1, CalmlyTyped, SeenPlainly DEF PlainToSee
    <3> QED BY <3>1, <3>2, SameFiles, KindsOfContent
  <2>8. FilesSeen'[p] = Nothing
    BY <1>0, <2>3, CalmlyTyped, SeenPlainlyNext DEF PlainToSee
  <2>9. FilesSeen'[q] = FilesSeen[p]
    <3>1. ASSUME NEW w \in Calls, Writing(w)', req'[w].path = q PROVE FALSE
      <4>1. w # c
        BY <1>2, <3>1
      <4>2. Writing(w) /\ req[w].path = q
        BY <1>0, <3>1, <4>1, CalmlyTyped, Frame DEF Calmly, Same, Writing
      <4> QED BY <1>0, <1>2, <4>1, <4>2, WriterShape, OneWriter DEF Calmly
    <3>2. FilesSeen'[q] = Content(q)'
      BY <1>0, <3>1, WritesOneAtATimeNext DEF OneAtATime, Calmly
    <3>3. tree'[q] > 0
      BY <2>2, <2>3
    <3>4. Content(q)' = File(data'[tree'[q]])
      BY <1>0, <3>3, CalmlyTyped, SeenPlainlyNext DEF PlainToSee
    <3> QED BY <1>0, <2>3, <2>5, <3>2, <3>4
  <2>10. ASSUME NEW r \in Paths \ {p, q}, r \in Above[q] PROVE FilesSeen'[r] = Directory
    <3>1. tree'[r] = Dir
      BY <2>3, <2>10
    <3> QED BY <3>1, CalmlyTyped, SeenPlainlyNext DEF PlainToSee
  <2>11. ASSUME NEW r \in Paths \ {p, q}, r \notin Above[q] PROVE FilesSeen'[r] = FilesSeen[r]
    <3>1. tree'[r] = tree[r]
      BY <2>3, <2>11
    <3> QED BY <1>0, <1>2, <3>1, SeenKept
  <2>12. FilesSeen' = [r \in Paths |-> IF r = p THEN Nothing
                                       ELSE IF r = q THEN FilesSeen[p]
                                       ELSE IF r \in Above[q] THEN Directory ELSE FilesSeen[r]]
    <3>1. FilesSeen' = [r \in Paths |-> FilesSeen'[r]]
      BY DEF FilesSeen
    <3>2. \A r \in Paths : FilesSeen'[r] = IF r = p THEN Nothing
                                           ELSE IF r = q THEN FilesSeen[p]
                                           ELSE IF r \in Above[q] THEN Directory ELSE FilesSeen[r]
      BY <2>8, <2>9, <2>10, <2>11
    <3> QED BY <3>1, <3>2
  <2>13. A!Answer(c, A!Plain("ok"))
    BY <1>0, <2>1, EndsAnswers, SameWords DEF Late
  <2>14. A!Move(c)
    BY <1>0, <2>5, <2>6, <2>7, <2>12, <2>13, SameWords DEF A!Move
  <2> QED BY <1>0, <2>14 DEF Effect, A!CallTakesEffect
<1> QED BY <1>3, <1>4

-----------------------------------------------------------------------------
(* What the threads do.                                                    *)
LEMMA OpenToReadEffect ==
  ASSUME NEW c \in Calls, Calmly(c), OpenToRead(c)
  PROVE  Effect(c)
<1>0. pc[c] = "opening" /\ UNCHANGED <<tree, data, prior, req>>
  BY DEF OpenToRead, ThreadOf, Aside
<1>1. pc'[c] \in {"done", "reading"}
  BY CalmlyTyped DEF OpenToRead, Ends, Suspends, Typed
<1>2. UNCHANGED FilesSeen
  BY <1>0, <1>1, SeenUnmoved DEF Writing
<1>3. Ends(c, Plain("failed")) \/ UNCHANGED answer
  BY DEF OpenToRead, Suspends
<1> QED BY <1>0, <1>2, <1>3, GivesUp DEF Late, Effect

LEMMA ReadPieceEffect ==
  ASSUME NEW c \in Calls, Calmly(c), ReadPiece(c)
  PROVE  Effect(c)
<1>0. UNCHANGED <<tree, data, prior, req, pc, handle, answer>>
  BY DEF ReadPiece, Aside
<1>1. UNCHANGED FilesSeen
  BY <1>0, SeenUnmoved DEF Writing
<1> QED BY <1>0, <1>1 DEF Effect

LEMMA EndReadEffect ==
  ASSUME NEW c \in Calls, Calmly(c), EndRead(c)
  PROVE  Effect(c)
<1> DEFINE p == req[c].path
<1>0. pc[c] = "reading" /\ UNCHANGED <<tree, data, prior, req>>
  BY DEF EndRead, Aside
<1>1. pc'[c] = "done"
  BY CalmlyTyped DEF EndRead, Ends, Typed
<1>2. UNCHANGED FilesSeen
  BY <1>0, <1>1, SeenUnmoved DEF Writing
<1>3. CASE ~req[c].fits
  <2>1. Ends(c, Plain("outside"))
    BY <1>3 DEF EndRead
  <2> QED BY <1>0, <1>2, <2>1, GivesUp DEF Late
<1>4. CASE req[c].fits
  <2>1. Ends(c, Answer("ok", got[c], {}, FALSE)) /\ pos[c] >= Len(data[handle[c]])
    BY <1>4 DEF EndRead
  <2>2. /\ Open(c) /\ handle[c] \in 1..Len(data) /\ handle[c] > 0 /\ p \in Paths /\ req[c].tool = "read"
    BY <1>0, CalmlyTyped, OpenNow, OpenShape DEF Open, Writing
  <2>3. /\ tree[p] = handle[c]
        /\ Len(data[handle[c]]) >= pos[c] /\ Len(got[c]) = pos[c]
        /\ \A k \in 1..pos[c] : got[c][k] = data[handle[c]][k]
    BY <1>0, <2>2 DEF Calmly, RInv, Homes, AtHome, Untorn
  <2>4. got[c] = data[handle[c]]
    <3>1. /\ got[c] \in Seq(Piece) /\ data[handle[c]] \in Seq(Piece) /\ pos[c] \in Nat
          /\ Len(data[handle[c]]) \in Nat
      BY <2>2, CalmlyTyped, DataShape DEF Typed, TextSet
    <3>2. Len(data[handle[c]]) = pos[c]
      BY <2>1, <2>3, <3>1
    <3> QED BY <2>3, <3>1, <3>2, SeqEqual
  <2>5. FilesSeen[p] = File(got[c])
    <3>1. InFlight(c) /\ ~Writing(c)
      BY <1>0 DEF InFlight, Writing
    <3>2. FilesSeen[p] = Content(p)
      BY <2>2, <3>1, NobodyWrites
    <3>3. Content(p) = File(data[tree[p]])
      BY <2>2, <2>3, CalmlyTyped, ContentShape
    <3> QED BY <2>3, <2>4, <3>2, <3>3
  <2>6. FilesSeen[p].is = "file" /\ FilesSeen[p].text = got[c]
    BY <2>5 DEF File
  <2>7. A!Answer(c, A!Reply("ok", FilesSeen[p].text, {}, FALSE))
    BY <1>0, <2>1, <2>6, EndsAnswers, SameWords DEF Late
  <2>8. A!Read(c)
    BY <1>2, <2>2, <2>6, <2>7, SameFiles DEF A!Read
  <2> QED BY <1>0, <2>8 DEF Effect, A!CallTakesEffect
<1> QED BY <1>3, <1>4

LEMMA SameTexts ==
  ASSUME NEW n \in Nat, NEW t \in TextSet, Len(t) = n, NEW c \in Calls, \A k \in 1..n : t[k] = c
  PROVE  t = [k \in 1..n |-> c]
<1> DEFINE s == [k \in 1..n |-> c]
<1>1. s \in [1..n -> Piece]
  BY DEF Piece
<1>2. s \in Seq(Piece) /\ Len(s) = n
  BY <1>1, FunctionIsSeq
<1>3. \A k \in 1..n : s[k] = c
  OBVIOUS
<1> HIDE DEF s
<1>4. t \in Seq(Piece) /\ \A k \in 1..Len(t) : t[k] = s[k]
  BY <1>3 DEF TextSet
<1>5. t = s
  BY <1>2, <1>4, SeqEqual
<1> QED BY <1>5 DEF s

(* The path of a write shows what it has written.                          *)
LEMMA Wrote ==
  ASSUME NEW c \in Calls, Calmly(c), Started(c), UNCHANGED req, FilesSeen[req[c].path].is # "directory",
         NEW n \in Nat, NEW t \in TextSet, Len(t) = n, \A k \in 1..n : t[k] = c,
         FilesSeen'[req[c].path] = File(t),
         \A q \in Paths \ {req[c].path} : FilesSeen'[q] = FilesSeen[q]
  PROVE  A!Write(c, n)
<1> DEFINE p == req[c].path
<1>1. req[c].tool = "write" /\ p \in Paths
  BY CalmlyTyped DEF Started, Control, Writing
<1>2. ASSUME NEW q \in Above[p] PROVE FilesSeen[q].is = "directory"
  <2>1. q \in Paths /\ tree[q] = Dir
    BY <1>1, AboveShape DEF Calmly, RInv, Standing, HasParents
  <2> QED BY <2>1, CalmlyTyped, SeenPlainly, KindsOfContent DEF PlainToSee
<1>3. t = [k \in 1..n |-> c]
  BY SameTexts
<1>4. FilesSeen' = [FilesSeen EXCEPT ![p] = File([k \in 1..n |-> c])]
  <2>1. FilesSeen' = [q \in Paths |-> FilesSeen'[q]] /\ FilesSeen = [q \in Paths |-> FilesSeen[q]]
    BY DEF FilesSeen
  <2>2. FilesSeen'[p] = File([k \in 1..n |-> c])
    BY <1>3
  <2> QED BY <1>1, <2>1, <2>2
<1> QED BY <1>1, <1>2, <1>4, SameWords DEF A!Write

(* A write that ends.                                                      *)
LEMMA WriterDone ==
  ASSUME NEW c \in Calls, Calmly(c), Writing(c), pc'[c] = "done", UNCHANGED <<req, tree, prior>>,
         NEW n \in Nat, Len(data'[handle[c]]) = n, \A k \in 1..n : data'[handle[c]][k] = c,
         \A j \in 1..Len(data) : j # handle[c] => data'[j] = data[j],
         Len(data') = Len(data)
  PROVE  A!Write(c, n)
<1> DEFINE p == req[c].path
<1>1. /\ InFlight(c) /\ p \in Paths /\ tree[p] = handle[c] /\ handle[c] > 0 /\ handle[c] \in 1..Len(data)
      /\ ~OnlyReads(req[c])
  BY WriterShape DEF Calmly
<1>2. Started(c)
  BY WriterShape DEF Calmly, Started, Writing
<1>3. FilesSeen[p].is # "directory"
  <2>1. FilesSeen[p] = prior[c]
    BY <1>1, WritesOneAtATime DEF OneAtATime, Calmly
  <2> QED BY <2>1 DEF Calmly, RInv, Priors
<1>4. data'[handle[c]] \in TextSet
  <2>1. data' \in Seq(TextSet)
    BY CalmlyTyped DEF Typed
  <2> QED BY <1>1, <2>1, ElementOfSeq
<1>5. FilesSeen'[p] = File(data'[handle[c]])
  <2>1. ASSUME NEW w \in Calls, Writing(w)', req'[w].path = p PROVE FALSE
    <3>1. w # c
      BY <2>1 DEF Writing
    <3>2. Writing(w) /\ req[w].path = p
      BY <2>1, <3>1, CalmlyTyped, Frame DEF Calmly, Same, Writing
    <3> QED BY <1>1, <3>1, <3>2, WriterShape, OneWriter DEF Calmly
  <2>2. FilesSeen'[p] = Content(p)'
    BY <1>1, <2>1, WritesOneAtATimeNext DEF OneAtATime, Calmly
  <2>3. tree'[p] > 0
    BY <1>1
  <2>4. Content(p)' = File(data'[tree'[p]])
    BY <1>1, <2>3, CalmlyTyped, SeenPlainlyNext DEF PlainToSee
  <2> QED BY <1>1, <2>2, <2>4
<1>6. ASSUME NEW q \in Paths \ {p} PROVE FilesSeen'[q] = FilesSeen[q]
  <2>1. tree[q] > 0 => data'[tree[q]] = data[tree[q]]
    <3>1. tree[q] > 0 => tree[q] \in 1..Len(data) /\ tree[q] # tree[p]
      BY <1>1, CalmlyTyped, FileInode DEF IsFile, Calmly, RInv, IInv, OnePath
    <3> QED BY <1>1, <3>1
  <2> QED BY <2>1, SeenKept
<1> QED BY <1>2, <1>3, <1>4, <1>5, <1>6, Wrote

(* A write that goes on shows what was there before.                       *)
LEMMA WriterGoesOn ==
  ASSUME NEW c \in Calls, Calmly(c), Writing(c), Writing(c)', UNCHANGED <<req, tree, prior>>,
         \A j \in 1..Len(data) : j # handle[c] => data'[j] = data[j]
  PROVE  UNCHANGED FilesSeen
<1> DEFINE p == req[c].path
<1>1. p \in Paths /\ tree[p] = handle[c]
  BY WriterShape DEF Calmly
<1>2. FilesSeen'[p] = FilesSeen[p]
  <2>1. FilesSeen[p] = prior[c]
    BY <1>1, WritesOneAtATime DEF OneAtATime, Calmly
  <2>2. FilesSeen'[p] = prior'[c]
    BY <1>1, WritesOneAtATimeNext DEF OneAtATime, Calmly
  <2> QED BY <2>1, <2>2
<1>3. ASSUME NEW q \in Paths \ {p} PROVE FilesSeen'[q] = FilesSeen[q]
  <2>1. tree[q] > 0 => data'[tree[q]] = data[tree[q]]
    <3>1. tree[q] > 0 => tree[q] \in 1..Len(data) /\ tree[q] # tree[p]
      BY <1>1, CalmlyTyped, FileInode DEF IsFile, Calmly, RInv, IInv, OnePath
    <3> QED BY <1>1, <3>1
  <2> QED BY <2>1, SeenKept
<1>4. FilesSeen' = [q \in Paths |-> FilesSeen'[q]] /\ FilesSeen = [q \in Paths |-> FilesSeen[q]]
  BY DEF FilesSeen
<1> QED BY <1>2, <1>3, <1>4

LEMMA LateAnswer ==
  ASSUME NEW c \in Calls, Calmly(c), pc[c] \in Late
  PROVE  answer[c].is = "cancelled" /\ Cancelled(c)
BY CalmlyTyped DEF Control, Cancelled

LEMMA AliveWriter ==
  ASSUME NEW c \in Calls, Calmly(c), Writing(c), pc[c] \notin Late
  PROVE  pc[c] \notin Late \cup {"done"}
BY DEF Writing, Late

LEMMA WritePieceEffect ==
  ASSUME NEW c \in Calls, Calmly(c), WritePiece(c)
  PROVE  Effect(c)
<1>0. Writing(c) /\ UNCHANGED <<req, tree, prior, handle>>
  BY DEF WritePiece, Aside
<1>1. /\ Len(data') = Len(data) /\ \A j \in 1..Len(data) : j # handle[c] => data'[j] = data[j]
  BY CalmlyTyped, WritePieceData
<1>2. CASE pos[c] + 1 # req[c].size
  <2>1. UNCHANGED <<pc, answer>>
    BY <1>2 DEF WritePiece
  <2>2. UNCHANGED FilesSeen
    BY <1>0, <1>1, <2>1, WriterGoesOn DEF Writing
  <2> QED BY <1>0, <2>1, <2>2 DEF Effect
<1>3. CASE pos[c] + 1 = req[c].size
  <2>1. Ends(c, Plain("ok")) /\ pc'[c] = "done"
    BY <1>3, CalmlyTyped DEF WritePiece, Ends, Typed
  <2>2. /\ Len(data'[handle[c]]) = pos[c] + 1
        /\ \A k \in 1..(pos[c] + 1) : data'[handle[c]][k] = c
    <3>1. Len(data[handle[c]]) = pos[c] /\ \A k \in 1..pos[c] : data[handle[c]][k] = c
      BY <1>0 DEF Calmly, RInv, Homes, Alone
    <3> QED BY <3>1, CalmlyTyped, WrittenOn
  <2>3. req[c].size \in Nat
    BY <1>3, CalmlyTyped DEF Typed
  <2>4. A!Write(c, req[c].size)
    BY <1>0, <1>1, <1>3, <2>1, <2>2, <2>3, WriterDone
  <2>5. CASE pc[c] \in Late
    <3>1. UNCHANGED answer /\ answer[c].is = "cancelled"
      BY <2>1, <2>5, LateAnswer, EndsLate
    <3>2. req[c].size \in 0..req[c].size
      BY <2>3
    <3>3. A!WriteLate(c)
      BY <2>4, <3>1, <3>2 DEF A!WriteLate
    <3> QED BY <1>0, <3>3 DEF Effect, A!CallTakesEffect
  <2>6. CASE pc[c] \notin Late
    <3>1. A!Answer(c, A!Plain("ok"))
      BY <1>0, <2>1, <2>6, AliveWriter, EndsAnswers, SameWords
    <3>2. A!WriteSucceeds(c)
      BY <2>4, <3>1 DEF A!WriteSucceeds
    <3> QED BY <1>0, <3>2 DEF Effect, A!CallTakesEffect
  <2> QED BY <2>5, <2>6
<1> QED BY <1>2, <1>3

(* A write that breaks off leaves what it has written.                     *)
LEMMA BreaksOff ==
  ASSUME NEW c \in Calls, Calmly(c), Writing(c), pc'[c] = "done", UNCHANGED <<req, tree, prior, data>>
  PROVE  A!Write(c, pos[c]) /\ pos[c] \in 0..req[c].size
<1>1. pos[c] \in Nat /\ pos[c] < req[c].size /\ req[c] \in Requests
  BY WriterShape DEF Calmly
<1>2. req[c].size \in Nat
  BY <1>1, FilesystemAssumption DEF Request
<1>3. Len(data[handle[c]]) = pos[c] /\ \A k \in 1..pos[c] : data[handle[c]][k] = c
  BY DEF Calmly, RInv, Homes, Alone
<1> QED BY <1>1, <1>2, <1>3, WriterDone

LEMMA WriteStopsEffect ==
  ASSUME NEW c \in Calls, Calmly(c), WriteStops(c)
  PROVE  Effect(c)
<1>0. Writing(c) /\ UNCHANGED <<req, tree, prior, data>> /\ Ends(c, Plain("failed"))
  BY DEF WriteStops, Aside, Stays
<1>1. pc'[c] = "done"
  BY <1>0, CalmlyTyped DEF Ends, Typed
<1>2. A!Write(c, pos[c]) /\ pos[c] \in 0..req[c].size
  BY <1>0, <1>1, BreaksOff
<1>3. CASE pc[c] \in Late
  <2>1. UNCHANGED answer /\ answer[c].is = "cancelled"
    BY <1>0, <1>3, LateAnswer, EndsLate
  <2>2. A!WriteLate(c)
    BY <1>2, <2>1 DEF A!WriteLate
  <2> QED BY <1>0, <2>2 DEF Effect, A!CallTakesEffect
<1>4. CASE pc[c] \notin Late
  <2>1. A!Answer(c, A!Plain("failed"))
    BY <1>0, <1>4, AliveWriter, EndsAnswers, SameWords
  <2>2. A!WriteBreaks(c)
    BY <1>2, <2>1 DEF A!WriteBreaks
  <2> QED BY <1>0, <2>2 DEF Effect, A!CallTakesEffect
<1> QED BY <1>3, <1>4

LEMMA CancelEffect ==
  ASSUME NEW c \in Calls, Calmly(c), Cancel(c)
  PROVE  Effect(c)
<1>0. /\ pc[c] \in {"opening", "reading", "writing"} /\ UNCHANGED <<req, tree, prior, data, handle>>
      /\ answer' = [answer EXCEPT ![c] = Plain("cancelled")]
  BY DEF Cancel, Aside, Stays
<1>1. A!Answer(c, A!Plain("cancelled"))
  <2>1. answer[c].is = "pending"
    BY <1>0, Awaiting DEF Late
  <2> QED BY <1>0, <2>1, SameWords DEF A!Answer
<1>2. \/ pc'[c] = "done"
      \/ /\ req[c].tool = "write"
         /\ pc'[c] = IF pc[c] = "opening" THEN "opening late" ELSE "writing late"
  BY CalmlyTyped DEF Cancel, Typed
<1>3. CASE Writing(c) /\ pc'[c] = "done"
  <2>1. A!WriteBreaks(c)
    BY <1>0, <1>1, <1>3, BreaksOff DEF A!WriteBreaks
  <2> QED BY <1>0, <2>1 DEF Effect, A!CallTakesEffect
<1>4. CASE ~(Writing(c) /\ pc'[c] = "done")
  <2>1. pc[c] = "reading" => req[c].tool = "read"
    BY CalmlyTyped DEF Control
  <2>2. Writing(c)' <=> Writing(c)
    BY <1>0, <1>2, <1>4, <2>1 DEF Writing
  <2>3. UNCHANGED FilesSeen
    BY <1>0, <2>2, SeenUnmoved
  <2> QED BY <1>0, <1>1, <2>3 DEF Effect, A!CallTakesEffect, A!GiveUp
<1> QED BY <1>3, <1>4

LEMMA OpenToWriteEffect ==
  ASSUME NEW c \in Calls, Calmly(c), OpenToWrite(c)
  PROVE  Effect(c)
<1> DEFINE p == req[c].path
<1>0. /\ pc[c] \in {"opening", "opening late"} /\ req[c].tool = "write" /\ p \in Paths
      /\ UNCHANGED <<loop, req, size, met, pos, got>>
  BY CalmlyTyped, OpenToWriteCases
<1>1. InFlight(c) /\ ~Writing(c) /\ ~OnlyReads(req[c]) /\ Started(c)
  BY <1>0 DEF InFlight, Writing, OnlyReads, Started
<1>2. CASE tree[p] = Dir /\ OpensDirectory(c)
  <2>1. Ends(c, Plain("failed")) /\ UNCHANGED <<tree, data, prior, handle>>
    BY <1>2 DEF OpensDirectory
  <2>2. pc'[c] = "done"
    BY <2>1, CalmlyTyped DEF Ends, Typed
  <2>3. UNCHANGED FilesSeen
    BY <1>1, <2>1, <2>2, SeenUnmoved DEF Writing
  <2>4. CASE pc[c] = "opening"
    BY <1>0, <2>1, <2>3, <2>4, GivesUp DEF Late
  <2>5. CASE pc[c] = "opening late"
    <3>1. UNCHANGED answer
      BY <2>1, <2>5, LateAnswer, EndsLate DEF Late
    <3> QED BY <1>0, <2>3, <3>1 DEF Effect
  <2> QED BY <1>0, <2>4, <2>5
(* A file is there now. *)
<1>3. ASSUME NEW i, Opens(c, i), i > 0, i \in 1..Len(data'), tree'[p] = i, data'[i] = <<>>, tree[p] # Dir,
             \A q \in Paths \ {p} : tree'[q] = tree[q],
             \A q \in Paths \ {p} : tree[q] > 0 => data'[tree[q]] = data[tree[q]]
      PROVE  Effect(c)
  <2>1. FilesSeen[p] = Content(p) /\ Content(p).is # "directory"
    BY <1>0, <1>1, <1>3, CalmlyTyped, NobodyWrites, ContentShape
  <2>2. prior'[c] = Content(p)
    <3>1. prior' = [prior EXCEPT ![c] = Content(p)]
      BY <1>3 DEF OpenToWrite
    <3> QED BY <3>1 DEF Calmly, RInv, Priors
  <2>3. \A q \in Paths \ {p} : FilesSeen'[q] = FilesSeen[q]
    BY <1>0, <1>3, SeenKept
  <2>4. UNCHANGED answer /\ pc'[c] = IF pc[c] = "opening" THEN "writing" ELSE "done"
    BY <1>3, CalmlyTyped DEF Opens, Typed
  <2>5. CASE pc[c] = "opening"
    <3>1. Writing(c)'
      BY <2>4, <2>5 DEF Writing
    <3>2. FilesSeen'[p] = prior'[c]
      BY <1>0, <3>1, WritesOneAtATimeNext DEF OneAtATime, Calmly
    <3>3. FilesSeen' = [q \in Paths |-> FilesSeen'[q]] /\ FilesSeen = [q \in Paths |-> FilesSeen[q]]
      BY DEF FilesSeen
    <3>4. UNCHANGED FilesSeen
      BY <2>1, <2>2, <2>3, <3>2, <3>3
    <3> QED BY <1>0, <2>4, <3>4 DEF Effect
  <2>6. CASE pc[c] = "opening late"
    <3>1. FilesSeen'[p] = File(<<>>)
      <4>1. ASSUME NEW w \in Calls, Writing(w)', req'[w].path = p PROVE FALSE
        <5>1. w # c
          BY <2>4, <2>6, <4>1 DEF Writing
        <5>2. Writing(w) /\ req[w].path = p
          BY <1>0, <4>1, <5>1, CalmlyTyped, Frame DEF Calmly, Same, Writing
        <5> QED BY <1>0, <1>1, <5>1, <5>2, WriterShape, OneWriter DEF Calmly
      <4>2. FilesSeen'[p] = Content(p)'
        BY <1>0, <4>1, WritesOneAtATimeNext DEF OneAtATime, Calmly
      <4>3. Content(p)' = File(data'[tree'[p]])
        BY <1>0, <1>3, CalmlyTyped, SeenPlainlyNext DEF PlainToSee
      <4> QED BY <1>3, <4>2, <4>3
    <3>0. 0 \in Nat /\ <<>> \in TextSet /\ Len(<<>>) = 0 /\ \A k \in 1..0 : <<>>[k] = c
      BY EmptyText DEF TextSet
    <3>1a. Calmly(c) /\ Started(c) /\ UNCHANGED req /\ FilesSeen[req[c].path].is # "directory"
      BY <1>0, <1>1, <2>1
    <3>2. A!Write(c, 0)
      BY <2>3, <3>0, <3>1, <3>1a, Wrote
    <3>3. 0 \in 0..req[c].size
      <4>1. req[c] \in Requests
        BY <1>0, CalmlyTyped DEF Control
      <4>2. req[c].size \in Nat
        BY <4>1, FilesystemAssumption DEF Request
      <4> QED BY <4>2
    <3>4. answer[c].is = "cancelled"
      BY <2>6, LateAnswer DEF Late
    <3>5. A!WriteLate(c)
      BY <2>4, <3>2, <3>3, <3>4 DEF A!WriteLate
    <3> QED BY <1>0, <3>5 DEF Effect, A!CallTakesEffect
  <2> QED BY <1>0, <2>5, <2>6
<1>n. Len(data) \in Nat
  BY CalmlyTyped, DataShape
<1>4. ASSUME NEW q \in Paths \ {p}, tree[q] > 0 PROVE tree[q] # tree[p] /\ tree[q] \in 1..Len(data)
  BY <1>0, <1>4, CalmlyTyped, FileInode DEF IsFile, Calmly, RInv, IInv, OnePath
<1>5. CASE tree[p] \in 1..Len(data) /\ Opens(c, tree[p]) /\ OpensFile(c, tree[p])
  <2> DEFINE i == tree[p]
  <2>1. /\ data'[i] = <<>> /\ Len(data') = Len(data) /\ tree' = tree
        /\ \A j \in 1..Len(data) : j # i => data'[j] = data[j]
    BY <1>5, CalmlyTyped, OpensFileData DEF OpensFile
  <2>2. i > 0 /\ i # Dir
    BY <1>n, <1>5 DEF Dir
  <2>3. \A q \in Paths \ {p} : tree[q] > 0 => data'[tree[q]] = data[tree[q]]
    BY <1>4, <2>1
  <2> QED BY <1>3, <1>5, <2>1, <2>2, <2>3
<1>6. CASE tree[p] = Absent /\ Opens(c, Len(data) + 1) /\ MakesFile(c, Len(data) + 1)
  <2> DEFINE i == Len(data) + 1
  <2>1. /\ data'[i] = <<>> /\ Len(data') = i
        /\ \A j \in 1..Len(data) : data'[j] = data[j]
    BY <1>6, CalmlyTyped, MakesFileData
  <2>2. tree' = [tree EXCEPT ![p] = i] /\ tree \in [Paths -> {Absent, Dir} \cup 1..Len(data)]
    BY <1>6, CalmlyTyped DEF MakesFile, Typed
  <2>3. tree'[p] = i /\ \A q \in Paths \ {p} : tree'[q] = tree[q]
    BY <1>0, <2>2
  <2>4. \A q \in Paths \ {p} : tree[q] > 0 => data'[tree[q]] = data[tree[q]]
    BY <1>4, <2>1
  <2>5. i > 0 /\ i \in 1..Len(data') /\ tree[p] # Dir
    BY <1>n, <1>6, <2>1 DEF Absent, Dir
  <2> QED BY <1>3, <1>6, <2>1, <2>3, <2>4, <2>5
<1> QED BY <1>2, <1>5, <1>6, CalmlyTyped, OpenToWriteCases

-----------------------------------------------------------------------------
LEMMA EveryEffect ==
  ASSUME NEW c \in Calls, Calmly(c)
  PROVE  Effect(c)
<1>1. Loop(c) => Effect(c)
  BY ResolveEffect, StartReadEffect, StartWriteEffect, ListEffect, DeleteEffect, StartMoveEffect,
     RenameEffect DEF Loop
<1>2. Thread(c) => Effect(c)
  BY OpenToReadEffect, ReadPieceEffect, EndReadEffect, OpenToWriteEffect, WritePieceEffect,
     WriteStopsEffect DEF Thread
<1> QED BY <1>1, <1>2, CancelEffect DEF Calmly, Act

LEMMA AtomicInit == Init => A!Init
<1> SUFFICES ASSUME Init PROVE A!Init
  OBVIOUS
<1>0. \A c \in Calls : pc[c] = "idle" /\ met[c] = {}
  BY DEF Init
<1>1. RInv /\ Calm
  BY <1>0, InitRInv DEF Calm
<1>2. ASSUME NEW p \in Paths PROVE FilesSeen[p] \in {A!Nothing, A!Directory} \/ A!IsFile(p)
  <2>1. FilesSeen[p] = Content(p)
    BY <1>0, <1>1, WritesOneAtATime DEF OneAtATime, Writing
  <2>2. Typed
    BY <1>1 DEF RInv, IInv
  <2> QED BY <2>1, <2>2, ContentShape, TreeShape, SameWords, SameFiles
<1>3. answer = [c \in Calls |-> A!Pending]
  BY SameWords DEF Init
<1> QED BY <1>0, <1>2, <1>3 DEF A!Init

LEMMA AtomicStep ==
  ASSUME RInv, RInv', [Next]_vars
  PROVE  [A!Next]_<<FilesSeen, req, answer, \A c \in Calls : met[c] = {}>>
<1>1. CASE UNCHANGED vars
  <2>1. UNCHANGED FilesSeen
    BY <1>1, SeenStays DEF vars, Writing
  <2> QED BY <1>1, <2>1 DEF vars
<1>2. ASSUME NEW c \in Calls, Act(c)
      PROVE  A!Next \/ UNCHANGED <<FilesSeen, req, answer, \A d \in Calls : met[d] = {}>>
  <2>1. CASE ~Calm'
    BY <2>1 DEF A!Next, Calm
  <2>2. CASE Calm'
    <3>1. Calm
      BY <1>2, <2>2, CalmBefore DEF RInv, IInv
    <3>2. Effect(c)
      BY <1>2, <2>2, <3>1, EveryEffect DEF Calmly
    <3>3. (\A d \in Calls : met[d] = {}) /\ (\A d \in Calls : met'[d] = {})
      BY <2>2, <3>1 DEF Calm
    <3>4. CASE A!CallTakesEffect(c) \/ A!Arrive(c)
      BY <3>3, <3>4 DEF A!Next
    <3>5. CASE UNCHANGED <<FilesSeen, req, answer>>
      BY <3>3, <3>5
    <3> QED BY <3>2, <3>4, <3>5 DEF Effect
  <2> QED BY <2>1, <2>2
<1> QED BY <1>1, <1>2, ActionOfOne

(* As long as no two calls on one path are in flight together, every       *)
(* behaviour of the tools is one in which each call takes effect at one    *)
(* moment: a file changes from what it was to what one write says, is      *)
(* moved or deleted whole, and is read as it was at one moment, whatever   *)
(* the threads do in between and wherever a call is cancelled              *)
(* (filesystem.py:247-412).                                                *)
THEOREM ImplementsAtomicHolds == Spec => ImplementsAtomic
BY AlwaysRInv, AtomicInit, AtomicStep, PTL DEF Spec, ImplementsAtomic, A!Spec
=============================================================================
