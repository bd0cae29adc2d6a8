---------------------------- MODULE AtomicFiles -----------------------------
(***************************************************************************)
(* What the filesystem tools promise to calls that do not meet: a tree of  *)
(* files in which each call takes effect at one moment, and answers what   *)
(* was so at one moment.  When calls on paths that are equal or lie one    *)
(* within the other have met, nothing is promised any more.                *)
(***************************************************************************)
EXTENDS Naturals, Sequences, FiniteSets

CONSTANTS Calls,   \* calls of the tools
          Paths,   \* the paths below the root, and the root
          Above,   \* the directories above a path
          MaxList  \* how many entries a listing has at most

VARIABLES files,    \* what is at each path
          requests, \* what each call asks for
          answers,  \* what each call has answered
          calm      \* no two calls have met

Nothing == [is |-> "nothing", text |-> <<>>]
Directory == [is |-> "directory", text |-> <<>>]
File(text) == [is |-> "file", text |-> text]

Reply(kind, text, entries, cut) ==
  [is |-> kind, text |-> text, entries |-> entries, cut |-> cut]
Plain(kind) == Reply(kind, <<>>, {}, FALSE)
Pending == Plain("pending")

IsFile(p) == p \in Paths /\ files[p].is = "file"

Answer(c, a) ==
  /\ answers[c].is = "pending"
  /\ answers' = [answers EXCEPT ![c] = a]

(* What is at the path of a write is the call's text or a part of it.      *)
Write(c, size) ==
  LET p == requests[c].path IN
  /\ requests[c].tool = "write"
  /\ p \in Paths /\ files[p].is # "directory"
  /\ \A q \in Above[p] : files[q].is = "directory"
  /\ files' = [files EXCEPT ![p] = File([i \in 1..size |-> c])]

(* A write that succeeds is whole.  One that fails or is cancelled may     *)
(* leave a part of its text, when it is cancelled also afterwards.         *)
WriteSucceeds(c) == Write(c, requests[c].size) /\ Answer(c, Plain("ok"))

WriteBreaks(c) ==
  /\ \E size \in 0..requests[c].size : Write(c, size)
  /\ Answer(c, Plain("failed")) \/ Answer(c, Plain("cancelled"))

WriteLate(c) ==
  /\ answers[c].is = "cancelled"
  /\ \E size \in 0..requests[c].size : Write(c, size)
  /\ UNCHANGED answers

MakeDirectories(c) ==
  LET r == requests[c] IN
  /\ r.tool = "write" /\ r.path \in Paths
  /\ \A q \in Above[r.path] : ~IsFile(q)
  /\ files' = [q \in Paths |-> IF q \in Above[r.path] THEN Directory ELSE files[q]]
  /\ UNCHANGED answers

Delete(c) ==
  /\ requests[c].tool = "delete"
  /\ IsFile(requests[c].path)
  /\ files' = [files EXCEPT ![requests[c].path] = Nothing]
  /\ Answer(c, Plain("ok"))

(* A move makes the directories it needs, and never replaces anything.     *)
Move(c) ==
  LET p == requests[c].path
      q == requests[c].to IN
  /\ requests[c].tool = "move"
  /\ IsFile(p)
  /\ q \in Paths /\ files[q] = Nothing
  /\ \A d \in Above[q] : ~IsFile(d)
  /\ files' = [r \in Paths |-> IF r = p THEN Nothing
                               ELSE IF r = q THEN files[p]
                               ELSE IF r \in Above[q] THEN Directory ELSE files[r]]
  /\ Answer(c, Plain("ok"))

Read(c) ==
  /\ requests[c].tool = "read"
  /\ IsFile(requests[c].path)
  /\ Answer(c, Reply("ok", files[requests[c].path].text, {}, FALSE))
  /\ UNCHANGED files

(* A listing is complete, or says that it was cut and is as long as one    *)
(* may be.                                                                 *)
List(c, entries, cut) ==
  LET r == requests[c]
      wanted == {q \in Paths : /\ r.path \in Above[q]
                               /\ files[q] # Nothing
                               /\ r.recursive \/ Above[q] = Above[r.path] \cup {r.path}} IN
  /\ r.tool = "list"
  /\ r.path \in Paths /\ files[r.path] = Directory
  /\ IF cut THEN entries \subseteq wanted /\ Cardinality(entries) = MaxList
            ELSE entries = wanted
  /\ Answer(c, Reply("ok", <<>>, entries, cut))
  /\ UNCHANGED files

(* A call that is refused, fails or is cancelled changes nothing.          *)
GiveUp(c) ==
  /\ \E kind \in {"refused", "outside", "failed", "cancelled"} : Answer(c, Plain(kind))
  /\ UNCHANGED files

Init ==
  /\ \A p \in Paths : files[p] \in {Nothing, Directory} \/ IsFile(p)
  /\ answers = [c \in Calls |-> Pending]
  /\ calm = TRUE

CallTakesEffect(c) ==
  /\ \/ GiveUp(c)
     \/ WriteSucceeds(c) \/ WriteBreaks(c) \/ WriteLate(c) \/ MakeDirectories(c)
     \/ Delete(c) \/ Move(c) \/ Read(c)
     \/ List(c, answers'[c].entries, answers'[c].cut)
  /\ UNCHANGED requests

(* A call makes its request before it takes effect; it may be turned away  *)
(* at once.                                                                *)
Arrive(c) ==
  /\ answers[c].is = "pending"
  /\ \A d \in Calls \ {c} : requests'[d] = requests[d]
  /\ answers' = answers \/ Answer(c, Plain("refused"))
  /\ UNCHANGED files

Next ==
  \/ ~calm'
  \/ calm /\ calm' /\ \E c \in Calls : Arrive(c) \/ CallTakesEffect(c)

Spec == Init /\ [][Next]_<<files, requests, answers, calm>>
=============================================================================
