------------------------------ MODULE AuditLog ------------------------------
(***************************************************************************)
(* The authorization trail: AuditLogger of core/audit.py, which appends    *)
(* one line for a decision and reads the lines back under one lock, and    *)
(* the query tool of modules/observability/audit.py, which reads the same  *)
(* file without that lock, a line at a time, while it grows.               *)
(*                                                                         *)
(* A line reaches the file in two parts, of which the second ends it, as   *)
(* one that exceeds the buffers does; the process may die between the two, *)
(* and the storage may fail.  What is left is a line without an end, and   *)
(* the next line is appended to it.                                        *)
(***************************************************************************)
EXTENDS Naturals, Sequences, FiniteSets, SequencesExt

CONSTANTS Sessions,    \* sessions whose decisions are logged, one at a time
          Limits,      \* the limits read_entries() is given
          Queries,     \* calls of the query tool
          Asked,       \* what they ask for
          MaxResults,  \* max_results
          MaxEntries,  \* bound of the model: entries made
          MaxTears,    \* bound of the model: lines left without an end
          MaxFaults    \* bound of the model: failures to open the file

None == "none"

ASSUME AuditAssumption ==
  /\ None \notin Sessions
  /\ MaxResults \in Nat \ {0}
  /\ MaxEntries \in Nat /\ MaxTears \in Nat /\ MaxFaults \in Nat
  /\ Limits \subseteq 1..(MaxEntries + 1)  \* the last stands for None
  /\ \A q \in Asked : q.limit \in Nat

Unlimited == MaxEntries + 1  \* the limit None
Decisions == {"ALLOWED", "DENIED_IMPLICIT"}

(* Where the part of a line that is written first ends: inside the record, *)
(* inside a character of several bytes, or before the newline only.        *)
Cuts == {"record", "character", "newline"}

VARIABLES file,     \* the lines in the file, whole or begun
          lock,     \* the writer that holds _lock, None if nobody does
          writing,  \* the entry a session's log() is about, 0 if there is none
          stamped,     \* the entries stamped, each known by its place: its timestamp
          logged,   \* the entries whose log() returned
          tears,    \* how many lines were left without an end
          faults,   \* how often the file could not be opened
          asked,    \* what a query asks for, and the trail when it began
          reading,  \* how far a query is in the file, and what it has
          found     \* what queries answered

auditVars == <<file, lock, writing, stamped, logged, tears, faults, asked, reading, found>>
queries == <<asked, reading, found>>

Entries == 1..Len(stamped)

Line(e, c) == [of |-> e, part |-> c]

(* An answer of the query tool.  Its entries are in the order of their     *)
(* timestamps, which differ: their set says it all.                        *)
Finding(state, entries, cut) == [state |-> state, entries |-> entries, cut |-> cut]

NotYet == Finding("none", {}, FALSE)

NotAsked == [had |-> {}]

(* A query has read the first lines of the file, the last of them half if  *)
(* it came to it before its end, and got some entries; met, a history:     *)
(* the entries whose lines it came to before their end.                    *)
PlaceOf(at, half, got, met) == [at |-> at, half |-> half, got |-> got, met |-> met]

Opened == PlaceOf(0, FALSE, {}, {})

AuditInit ==
  /\ file = <<>>
  /\ lock = None
  /\ writing = [s \in Sessions |-> 0]
  /\ stamped = <<>>
  /\ logged = {}
  /\ tears = 0 /\ faults = 0
  /\ asked = [q \in Queries |-> NotAsked]
  /\ reading = [q \in Queries |-> Opened]
  /\ found = [q \in Queries |-> NotYet]

-----------------------------------------------------------------------------
(* What a reader makes of the text f: an entry for every line that holds   *)
(* one record and nothing else.  A last line that lacks its newline only   *)
(* is one of them.                                                         *)
IsRecord(f, i) ==
  /\ i = 1 \/ f[i - 1].part = "whole"
  /\ f[i].part = "whole" \/ (i = Len(f) /\ f[i].part = "newline")

Parsed(f) == [i \in {i \in DOMAIN f : IsRecord(f, i)} |-> f[i].of]

(* Half a character makes the whole text unreadable, not one line of it.   *)
Undecodable(f) == \E i \in DOMAIN f : f[i].part = "character"

(* The first of the entries e that a reader has made, a function of the    *)
(* places of their lines.                                                  *)
Upto(e, i) == {j \in DOMAIN e : j <= i}
FirstOf(e, limit) == Restrict(e, {i \in DOMAIN e : Cardinality(Upto(e, i)) <= limit})

Trail == Parsed(file)
InTrail == Range(Trail)

-----------------------------------------------------------------------------
(* log(): the dispatcher stamps the entry and makes it before it asks for  *)
(* the lock, so lines need not be in the order of their timestamps.        *)
Make(s, d) ==
  /\ writing[s] = 0
  /\ Len(stamped) < MaxEntries
  /\ stamped' = Append(stamped, [session |-> s, decision |-> d])
  /\ writing' = [writing EXCEPT ![s] = Len(stamped) + 1]
  /\ UNCHANGED <<file, lock, logged, tears, faults, queries>>

(* A mutant of WriteFirst: the lock is not waited for.                     *)
WriteFirstUnlocked(s, c) ==
  /\ writing[s] # 0
  /\ lock' = s
  /\ file' = Append(file, Line(writing[s], c))
  /\ UNCHANGED <<writing, stamped, logged, tears, faults, queries>>

(* A mutant of WriteFirst: the file is opened anew for every line.         *)
WriteFirstAnew(s, c) ==
  /\ writing[s] # 0
  /\ lock = None
  /\ lock' = s
  /\ file' = <<Line(writing[s], c)>>
  /\ UNCHANGED <<writing, stamped, logged, tears, faults, queries>>

WriteFirst(s, c) ==
  /\ writing[s] # 0
  /\ lock = None
  /\ lock' = s
  /\ file' = Append(file, Line(writing[s], c))
  /\ UNCHANGED <<writing, stamped, logged, tears, faults, queries>>

WriteRest(s) ==
  /\ lock = s
  /\ lock' = None
  /\ file' = [file EXCEPT ![Len(file)] = Line(writing[s], "whole")]
  /\ logged' = logged \cup {writing[s]}
  /\ writing' = [writing EXCEPT ![s] = 0]
  /\ UNCHANGED <<stamped, tears, faults, queries>>

(* The file cannot be opened: nothing is written, log() raises.            *)
OpenFails(s) ==
  /\ writing[s] # 0
  /\ lock = None
  /\ faults < MaxFaults
  /\ faults' = faults + 1
  /\ writing' = [writing EXCEPT ![s] = 0]
  /\ UNCHANGED <<file, lock, stamped, logged, tears, queries>>

(* A mutant of WriteFails: an exception keeps the lock.                    *)
WriteFailsLocked(s) ==
  /\ lock = s
  /\ tears < MaxTears
  /\ tears' = tears + 1
  /\ writing' = [writing EXCEPT ![s] = 0]
  /\ UNCHANGED <<file, lock, stamped, logged, faults, queries>>

(* The storage is full in the middle of a line: log() raises, and gives    *)
(* the lock back.                                                          *)
WriteFails(s) ==
  /\ lock = s
  /\ tears < MaxTears
  /\ tears' = tears + 1
  /\ lock' = None
  /\ writing' = [writing EXCEPT ![s] = 0]
  /\ UNCHANGED <<file, stamped, logged, faults, queries>>

(* The process dies and another is started on the same file.               *)
Crash ==
  /\ lock # None => tears < MaxTears
  /\ tears' = IF lock = None THEN tears ELSE tears + 1
  /\ lock' = None
  /\ writing' = [s \in Sessions |-> 0]
  /\ asked' = [c \in Queries |-> IF found[c] = NotYet THEN NotAsked ELSE asked[c]]
  /\ reading' = [c \in Queries |-> IF found[c] = NotYet THEN Opened ELSE reading[c]]
  /\ UNCHANGED <<file, stamped, logged, faults, found>>

-----------------------------------------------------------------------------
(* A mutant of Reads: the lines are taken without the lock.                *)
ReadsUnlocked(limit) ==
  {[raised |-> Undecodable(file), entries |-> Range(FirstOf(Trail, limit))]}

(* read_entries(limit): the lines are taken under the lock, in one go, and *)
(* parsed afterwards.  It changes nothing: this is what it may return now, *)
(* nothing at all if it has to wait.                                       *)
Reads(limit) ==
  {r \in {[raised |-> Undecodable(file), entries |-> Range(FirstOf(Trail, limit))]} :
     lock = None}

-----------------------------------------------------------------------------
(* _entry_matches_filters(): an entry has no field "action", so only a     *)
(* pattern that matches nothing matches it; its decision is spelled as in  *)
(* models.Decision, but for the case.                                      *)
Lower(d) == IF d = "ALLOWED" THEN "allowed" ELSE "denied_implicit"

Matches(e, q) ==
  /\ e \in q.within
  /\ q.session # None => stamped[e].session = q.session
  /\ q.action \in {None, "*"}
  /\ q.decision # None => Lower(stamped[e].decision) = q.decision

LimitOf(q) == IF q.limit > MaxResults THEN MaxResults ELSE q.limit

Error == Finding("raised", {}, FALSE)

(* A mutant of Results: only what exceeds the limit counts as cut.         *)
ResultsOver(entries, q) ==
  Finding("returned", entries, Cardinality(entries) > LimitOf(q))

(* What was read first to last is sorted afterwards.  As many as the limit *)
(* count as cut.                                                           *)
Results(entries, q) ==
  Finding("returned", entries, Cardinality(entries) >= LimitOf(q))

(* execute() of the query tool opens the file.                             *)
Ask(c, q) ==
  /\ asked[c] = NotAsked
  /\ found[c] = NotYet
  /\ IF q.limit = 0
       THEN found' = [found EXCEPT ![c] = Error] /\ UNCHANGED asked
       ELSE /\ asked' = [asked EXCEPT ![c] = [what |-> q, had |-> logged]]
            /\ UNCHANGED found
  /\ UNCHANGED <<file, lock, writing, stamped, logged, tears, faults, reading>>

InQuery(c) == asked[c] # NotAsked /\ found[c] = NotYet
Enough(c) == Cardinality(reading[c].got) >= LimitOf(asked[c].what)

(* What is ahead of a query up to the line j, and does it end there?       *)
Ahead(c, j) == (reading[c].at + 1)..j
EndsAt(c, j) ==
  /\ file[j].part = "whole" \/ j = Len(file)
  /\ \A i \in Ahead(c, j - 1) : file[i].part # "whole"

(* The rest of a line that was read half and has been ended since.         *)
HasRest(c) == reading[c].half /\ file[reading[c].at].part = "whole"

(* What is read up to the line j is a record if it is this line alone, and *)
(* that lacks its newline at most.                                         *)
IsAlone(c, j) == j = reading[c].at + 1 /\ file[j].part \in {"whole", "newline"}

(* The next line of the text, to its newline or to the end of the file: a  *)
(* line that is being written is taken as it is, and a torn one together   *)
(* with what was appended to it, unless it was taken half before that.     *)
(* A bound of the range without a time zone cannot be compared with the    *)
(* timestamp of an entry, which has one.                                   *)
ReadLine(c) ==
  /\ InQuery(c)
  /\ ~Enough(c)
  /\ ~HasRest(c)
  /\ \E j \in Ahead(c, Len(file)) :
       /\ EndsAt(c, j)
       /\ \A i \in Ahead(c, j) : file[i].part # "character"
       /\ ~(IsAlone(c, j) /\ asked[c].what.naive)
       /\ LET e == file[j].of
              r == reading[c]
          IN reading' = [reading EXCEPT ![c] = PlaceOf(j, file[j].part # "whole",
               IF IsAlone(c, j) /\ Matches(e, asked[c].what) THEN r.got \cup {e} ELSE r.got,
               IF file[j].part = "whole" THEN r.met ELSE r.met \cup {e})]
  /\ UNCHANGED <<file, lock, writing, stamped, logged, tears, faults, asked, found>>

(* The rest of a line is no record, or nothing but a newline.              *)
ReadRest(c) ==
  /\ InQuery(c)
  /\ ~Enough(c)
  /\ HasRest(c)
  /\ reading' = [reading EXCEPT ![c] = [@ EXCEPT !.half = FALSE]]
  /\ UNCHANGED <<file, lock, writing, stamped, logged, tears, faults, asked, found>>

(* The file is decoded ahead of the lines, half a character at its end     *)
(* when that is come to.                                                   *)
ReadRaises(c) ==
  /\ InQuery(c)
  /\ ~Enough(c)
  /\ \E j \in Ahead(c, Len(file)) :
       \/ file[j].part = "character" /\ (j < Len(file) \/ EndsAt(c, j))
       \/ ~HasRest(c) /\ EndsAt(c, j) /\ IsAlone(c, j) /\ asked[c].what.naive
  /\ found' = [found EXCEPT ![c] = Error]
  /\ UNCHANGED <<file, lock, writing, stamped, logged, tears, faults, asked, reading>>

(* It has enough, or there is nothing more to read.                        *)
Find(c) ==
  /\ InQuery(c)
  /\ Enough(c) \/ (reading[c].at = Len(file) /\ ~HasRest(c))
  /\ found' = [found EXCEPT ![c] = Results(reading[c].got, asked[c].what)]
  /\ UNCHANGED <<file, lock, writing, stamped, logged, tears, faults, asked, reading>>

(* The file cannot be opened or read: that is logged, and the answer is    *)
(* that there is nothing.                                                  *)
FindFails(c) ==
  /\ InQuery(c)
  /\ faults < MaxFaults
  /\ faults' = faults + 1
  /\ found' = [found EXCEPT ![c] = Finding("gave_up", {}, FALSE)]
  /\ UNCHANGED <<file, lock, writing, stamped, logged, tears, asked, reading>>

AuditNext ==
  \/ \E s \in Sessions :
       \/ \E d \in Decisions : Make(s, d)
       \/ \E c \in Cuts : WriteFirst(s, c)
       \/ WriteRest(s) \/ OpenFails(s) \/ WriteFails(s)
  \/ Crash
  \/ \E c \in Queries :
       \/ \E q \in Asked : Ask(c, q)
       \/ ReadLine(c) \/ ReadRest(c) \/ ReadRaises(c) \/ Find(c) \/ FindFails(c)

AuditSpec == AuditInit /\ [][AuditNext]_auditVars

-----------------------------------------------------------------------------
Findings ==
  [state : {"none", "returned", "raised", "gave_up"}, entries : SUBSET Entries, cut : BOOLEAN]

(* What the variables hold; and the lock is held by the session whose line *)
(* is begun and not ended, which is the last thing in the file.            *)
TypeOK ==
  /\ lock \in Sessions \cup {None}
  /\ writing \in [Sessions -> 0..Len(stamped)]
  /\ stamped \in Seq([session : Sessions, decision : Decisions])
  /\ logged \subseteq Entries
  /\ tears \in 0..MaxTears /\ faults \in 0..MaxFaults
  /\ \A i \in DOMAIN file : file[i].of \in Entries /\ file[i].part \in Cuts \cup {"whole"}
  /\ \A c \in Queries :
       /\ found[c] \in Findings
       /\ reading[c].at \in 0..Len(file) /\ reading[c].half \in BOOLEAN
       /\ reading[c].got \subseteq Entries /\ reading[c].met \subseteq Entries
  /\ lock # None => file # <<>> /\ Last(file).of = writing[lock] /\ Last(file).part # "whole"

(* A decision whose log() returned is in the trail.  A line left without   *)
(* an end takes at most the next one with it, however many sessions log at *)
(* a time and wherever the process died.                                   *)
LossBounded == Cardinality(logged \ InTrail) <= tears

(* What was logged and can be read now can be read ever after, in the same *)
(* order: the file is only appended to.                                    *)
Kept == Restrict(Trail, {i \in DOMAIN Trail : Trail[i] \in logged})

Begins(e, f) ==
  /\ \A i \in DOMAIN e : i \in DOMAIN f /\ f[i] = e[i]
  /\ \A i \in DOMAIN e, j \in DOMAIN f \ DOMAIN e : i < j

TrailGrows == [][Begins(Kept, Kept')]_auditVars

(* read_entries() raises only for a file in which a line was torn, and     *)
(* what it returns is everything that has been logged, but for what was    *)
(* torn, or as much as was asked for.                                      *)
ReadsTheTrail ==
  \A limit \in Limits : \A r \in Reads(limit) :
    /\ r.raised => tears > 0
    /\ ~r.raised =>
         /\ Cardinality(r.entries) <= limit
         /\ Cardinality(r.entries) < limit => Cardinality(logged \ r.entries) <= tears

(* A query that does not say "truncated" has found every decision of those *)
(* it asks for that was logged before it began, unless the storage failed  *)
(* it or the line was torn.                                                *)
Complete ==
  \A c \in Queries :
    found[c].state = "returned" /\ ~found[c].cut =>
      \A e \in asked[c].had \cap InTrail :
        Matches(e, asked[c].what) => e \in found[c].entries

(* A query never answers with more than max_results or than its limit, nor *)
(* with a decision it was not asked for.  What it leaves out, of what can  *)
(* be read, was logged after what it answers with, unless its line was     *)
(* being written when the query came to it: such a gap is not told, but it *)
(* is never one of the decisions that were logged when the query began.    *)
NoGaps ==
  \A c \in Queries :
    found[c].state = "returned" =>
      LET answer == found[c].entries
          met == reading[c].met
      IN
      /\ Cardinality(answer) <= MaxResults
      /\ Cardinality(answer) <= LimitOf(asked[c].what)
      /\ \A e \in answer : Matches(e, asked[c].what)
      /\ \A i, j \in DOMAIN Trail :
           i < j /\ Trail[j] \in answer /\ Matches(Trail[i], asked[c].what)
             => Trail[i] \in answer \cup met
      /\ met \cap asked[c].had = {}

(* What one expects of a trail in the order of its decisions: an answer    *)
(* has no gaps at all.                                                     *)
NoGapsAtAll ==
  \A c \in Queries :
    found[c].state = "returned" =>
      \A i, j \in DOMAIN Trail :
        i < j /\ Trail[j] \in found[c].entries /\ Matches(Trail[i], asked[c].what)
          => Trail[i] \in found[c].entries

(* "Filter by decision": a query for the decisions that allowed a call,    *)
(* neither truncated nor failed, finds those that were logged.             *)
FindsDecisions ==
  \A c \in Queries :
    found[c].state = "returned" /\ ~found[c].cut /\ asked[c].what.decision = "allow" =>
      \A e \in asked[c].had \cap InTrail \cap asked[c].what.within :
        stamped[e].decision = "ALLOWED" => e \in found[c].entries

(* A query whose file could not be read answers, with success, that there  *)
(* is nothing; it would be as well if there were nothing.                  *)
NothingMeansNothing ==
  \A c \in Queries :
    found[c].state = "gave_up" =>
      \A e \in asked[c].had \cap InTrail : ~Matches(e, asked[c].what)

(* The query tool finds what it should and tells what it leaves out.       *)
QuerySound == Complete /\ NoGaps

(* What was logged is there and can be read, but for what a torn line      *)
(* takes; and the variables have their types.                              *)
TrailSound == TypeOK /\ LossBounded /\ ReadsTheTrail
=============================================================================
