----------------------------- MODULE Filesystem -----------------------------
(***************************************************************************)
(* The tools of FilesystemModule (modules/filesystem/filesystem.py), as    *)
(* calls of several sessions meet in one tree.  What a coroutine does      *)
(* between two awaits it does on the event loop, alone there: it resolves  *)
(* the conditions, is allowed, checks and acts.  Files are opened, read    *)
(* and written by threads of a pool, which run beside the loop and beside  *)
(* each other.  An open file is a handle on an inode, whatever becomes of  *)
(* the path.                                                               *)
(*                                                                         *)
(* A text is a sequence of pieces, each known by the call that wrote it; a *)
(* piece is what one system call reads or writes.                          *)
(***************************************************************************)
EXTENDS Integers, Sequences, FiniteSets, FiniteSetsExt

CONSTANTS Calls,
          Paths,     \* the root and the paths below it
          Above,     \* the directories above each path
          Outside,   \* a path outside the root
          Requests,  \* what is asked for
          Seed,      \* the files in the beginning
          Stranger,  \* who wrote those
          MaxRead,   \* max_read_size
          MaxWrite,  \* max_write_size
          MaxList    \* max_list_entries

Absent == 0
Dir == -1

Gap == "gap"  \* a piece of a file that nobody wrote
Free == "free"

Tools == {"read", "write", "list", "delete", "move"}

Request == [tool : Tools, path : Paths \cup {Outside}, to : Paths \cup {Outside}, size : Nat,
            fits : BOOLEAN, recursive : BOOLEAN]

ASSUME FilesystemAssumption ==
  /\ MaxRead \in Nat \ {0} /\ MaxWrite \in Nat \ {0} /\ MaxList \in Nat \ {0}
  /\ IsFiniteSet(Paths)
  /\ Above \in [Paths -> SUBSET Paths]
  /\ Outside \notin Paths
  /\ {Stranger, Gap, Free} \cap Calls = {}
  /\ Stranger # Gap
  /\ Seed \in Seq([path : Paths, size : Nat])
  /\ \A i, j \in DOMAIN Seed : Seed[i].path = Seed[j].path => i = j
  /\ Requests \subseteq Request
  /\ \A r \in Requests : r.tool = "write" => r.size > 0

VARIABLES tree,    \* what is at each path: Absent, Dir or an inode
          data,    \* the text of each inode
          loop,    \* the call whose stretch the event loop runs, or Free
          pc,      \* where a call is
          req,     \* what it asks for
          size,    \* filesystem:FileSize, resolved for it; -1 if not
          handle,  \* the inode it has open
          pos,     \* where it reads or writes next
          got,     \* what it has read
          answer,  \* what it has answered
          met,     \* history: calls it was in flight with, on a path in common
          prior,   \* history: what was at its path when it opened it to write
          hands    \* history: calls that wrote an inode since it was last at rest

vars == <<tree, data, loop, pc, req, size, handle, pos, got, answer, met, prior, hands>>

-----------------------------------------------------------------------------
IsFile(p) == p \in Paths /\ tree[p] > 0
SizeOf(p) == Len(data[tree[p]])
Exists(p) == p \in Paths /\ tree[p] # Absent

Nothing == [is |-> "nothing", text |-> <<>>]
Directory == [is |-> "directory", text |-> <<>>]
File(text) == [is |-> "file", text |-> text]

Content(p) ==
  IF IsFile(p) THEN File(data[tree[p]]) ELSE IF Exists(p) THEN Directory ELSE Nothing

NoRequest == [tool |-> "none", path |-> Outside, to |-> Outside, size |-> 0,
              fits |-> TRUE, recursive |-> FALSE]

Answer(kind, text, entries, cut) ==
  [is |-> kind, text |-> text, entries |-> entries, cut |-> cut]
Plain(kind) == Answer(kind, <<>>, {}, FALSE)
Pending == Plain("pending")

Cancelled(c) == answer[c].is = "cancelled"

(* In flight, and after a cancellation as long as a thread works for it.   *)
InFlight(c) == pc[c] \notin {"idle", "done"}

Writing(c) == pc[c] \in {"writing", "writing late"}
WritersOf(i) == {c \in Calls : Writing(c) /\ handle[c] = i}

Named(r) == {r.path, r.to} \ {Outside}
OnlyReads(r) == r.tool \in {"read", "list"}

Meet(r, s) ==
  /\ ~(OnlyReads(r) /\ OnlyReads(s))
  /\ \E p \in Named(r), q \in Named(s) : p = q \/ p \in Above[q] \/ q \in Above[p]

Inodes == DOMAIN data

Init ==
  /\ tree = [p \in Paths |->
               IF \E i \in DOMAIN Seed : Seed[i].path = p
                 THEN CHOOSE i \in DOMAIN Seed : Seed[i].path = p
               ELSE IF \E i \in DOMAIN Seed : p \in Above[Seed[i].path] THEN Dir ELSE Absent]
  /\ data = [i \in DOMAIN Seed |-> [k \in 1..Seed[i].size |-> Stranger]]
  /\ loop = Free
  /\ pc = [c \in Calls |-> "idle"]
  /\ req = [c \in Calls |-> NoRequest]
  /\ size = [c \in Calls |-> -1]
  /\ handle = [c \in Calls |-> 0]
  /\ pos = [c \in Calls |-> 0]
  /\ got = [c \in Calls |-> <<>>]
  /\ answer = [c \in Calls |-> Pending]
  /\ met = [c \in Calls |-> {}]
  /\ prior = [c \in Calls |-> Nothing]
  /\ hands = [i \in DOMAIN Seed |-> {}]

-----------------------------------------------------------------------------
(* Ends a stretch on the loop, or the work of a thread.                    *)
Ends(c, a) ==
  /\ answer' = [answer EXCEPT ![c] = IF Cancelled(c) THEN answer[c] ELSE a]
  /\ pc' = [pc EXCEPT ![c] = "done"]

Suspends(c, at) ==
  /\ pc' = [pc EXCEPT ![c] = at]
  /\ UNCHANGED answer

Stays == UNCHANGED <<tree, data, hands, prior, handle>>

(* The path conditions are resolved for: of a move, the destination.       *)
ConditionPath(r) == IF r.tool = "move" THEN r.to ELSE r.path

(* resolve_conditions(); it raises for a path outside the root, and the    *)
(* dispatcher refuses the call.  Otherwise the call is taken to be allowed *)
(* and goes on without an await.                                           *)
Resolve(c, r) ==
  LET p == ConditionPath(r)
      others == {d \in Calls : InFlight(d) /\ Meet(r, req[d])} IN
  /\ pc[c] = "idle"
  /\ loop = Free
  /\ req' = [req EXCEPT ![c] = r]
  /\ IF p = Outside
       THEN Ends(c, Plain("refused")) /\ UNCHANGED <<loop, size, met>>
       ELSE /\ Suspends(c, "allowed")
            /\ loop' = c
            /\ size' = [size EXCEPT ![c] = IF IsFile(p) THEN SizeOf(p) ELSE -1]
            /\ met' = [d \in Calls |-> IF d = c THEN others
                                       ELSE IF d \in others THEN met[d] \cup {c} ELSE met[d]]
  /\ Stays /\ UNCHANGED <<pos, got>>

Stretch(c, tool) == pc[c] = "allowed" /\ loop = c /\ req[c].tool = tool

Returns(c, a) == Ends(c, a) /\ loop' = Free /\ UNCHANGED <<req, size, pos, got, met>>

Awaits(c, at) == Suspends(c, at) /\ loop' = Free /\ UNCHANGED <<req, size, pos, got, met>>

FileAbove(p) == \E q \in Above[p] : IsFile(q)

WithParents(p) == [q \in Paths |-> IF q \in Above[p] THEN Dir ELSE tree[q]]

(* Slip: the size is not checked.                                          *)
StartReadAnySize(c) ==
  LET p == req[c].path IN
  /\ Stretch(c, "read")
  /\ IF ~IsFile(p) THEN Returns(c, Plain("refused")) ELSE Awaits(c, "opening")
  /\ Stays

(* _read_file() up to its first await.                                     *)
StartRead(c) ==
  LET p == req[c].path IN
  /\ Stretch(c, "read")
  /\ IF ~IsFile(p) \/ SizeOf(p) > MaxRead
       THEN Returns(c, Plain("refused"))
       ELSE Awaits(c, "opening")
  /\ Stays

(* _write_file() up to its first await.  A text the encoding does not have *)
(* raises a ValueError, which execute() takes for one of _resolve_path().  *)
StartWrite(c) ==
  LET r == req[c] IN
  /\ Stretch(c, "write")
  /\ IF ~r.fits THEN Returns(c, Plain("outside")) /\ UNCHANGED tree
     ELSE IF r.size > MaxWrite \/ (Exists(r.path) /\ ~IsFile(r.path)) \/ FileAbove(r.path)
       THEN Returns(c, Plain("refused")) /\ UNCHANGED tree
       ELSE Awaits(c, "opening") /\ tree' = WithParents(r.path)
  /\ UNCHANGED <<data, hands, prior, handle>>

Present(p, recursive) ==
  {q \in Paths : /\ Exists(q)
                 /\ p \in Above[q]
                 /\ recursive \/ Above[q] = Above[p] \cup {p}}

(* The entries, or any max_list_entries of them.                           *)
Listings(p, recursive) ==
  LET all == Present(p, recursive) IN
  IF Cardinality(all) <= MaxList THEN {Answer("ok", <<>>, all, FALSE)}
  ELSE {Answer("ok", <<>>, some, TRUE) : some \in kSubset(MaxList, all)}

(* _list_directory(), which awaits nothing; a pattern with ".." is refused.*)
List(c) ==
  LET r == req[c] IN
  /\ Stretch(c, "list")
  /\ IF ~Exists(r.path) \/ IsFile(r.path) \/ ~r.fits
       THEN Returns(c, Plain("refused"))
       ELSE \E a \in Listings(r.path, r.recursive) : Returns(c, a)
  /\ Stays

(* _delete_file()                                                          *)
Delete(c) ==
  LET p == req[c].path IN
  /\ Stretch(c, "delete")
  /\ IF IsFile(p) THEN tree' = [tree EXCEPT ![p] = Absent] /\ Returns(c, Plain("ok"))
                  ELSE UNCHANGED tree /\ Returns(c, Plain("refused"))
  /\ UNCHANGED <<data, hands, prior, handle>>

(* Slip: a destination that is a file is not refused.                      *)
StartMoveOver(c) ==
  LET r == req[c] IN
  /\ Stretch(c, "move")
  /\ IF r.path = Outside THEN Returns(c, Plain("outside"))
     ELSE IF ~IsFile(r.path) \/ (Exists(r.to) /\ ~IsFile(r.to)) THEN Returns(c, Plain("refused"))
     ELSE Suspends(c, "moving") /\ UNCHANGED <<loop, req, size, pos, got, met>>
  /\ Stays

(* _move_file(), the checks.  Only threads can come between them and what  *)
(* follows.                                                                *)
StartMove(c) ==
  LET r == req[c] IN
  /\ Stretch(c, "move")
  /\ IF r.path = Outside THEN Returns(c, Plain("outside"))
     ELSE IF ~IsFile(r.path) \/ Exists(r.to) THEN Returns(c, Plain("refused"))
     ELSE Suspends(c, "moving") /\ UNCHANGED <<loop, req, size, pos, got, met>>
  /\ Stays

(* _move_file(), mkdir() and rename(), which replaces a file that is there *)
(* by now.                                                                 *)
Rename(c) ==
  LET r == req[c] IN
  /\ pc[c] = "moving"
  /\ IF FileAbove(r.to) THEN UNCHANGED tree /\ Returns(c, Plain("failed"))
     ELSE /\ tree' = [WithParents(r.to) EXCEPT ![r.to] = tree[r.path], ![r.path] = Absent]
          /\ Returns(c, Plain("ok"))
  /\ UNCHANGED <<data, hands, prior, handle>>

-----------------------------------------------------------------------------
(* The threads.                                                            *)
ThreadOf(c, at, tool) == pc[c] = at /\ req[c].tool = tool

Aside == UNCHANGED <<loop, req, size, met>>

OpenToRead(c) ==
  /\ ThreadOf(c, "opening", "read")
  /\ IF IsFile(req[c].path)
       THEN Suspends(c, "reading") /\ handle' = [handle EXCEPT ![c] = tree[req[c].path]]
       ELSE Ends(c, Plain("failed")) /\ UNCHANGED handle
  /\ Aside /\ UNCHANGED <<tree, data, hands, prior, pos, got>>

ReadPiece(c) ==
  /\ pc[c] = "reading"
  /\ pos[c] < Len(data[handle[c]])
  /\ got' = [got EXCEPT ![c] = Append(got[c], data[handle[c]][pos[c] + 1])]
  /\ pos' = [pos EXCEPT ![c] = pos[c] + 1]
  /\ Aside /\ UNCHANGED <<tree, data, hands, prior, handle, pc, answer>>

(* The end of the file.  A text the encoding cannot decode raises a        *)
(* ValueError, as above.                                                   *)
EndRead(c) ==
  /\ pc[c] = "reading"
  /\ pos[c] >= Len(data[handle[c]])
  /\ Ends(c, IF req[c].fits THEN Answer("ok", got[c], {}, FALSE) ELSE Plain("outside"))
  /\ Aside /\ UNCHANGED <<tree, data, hands, prior, handle, pos, got>>

(* Slip: the file is opened without being cut.                             *)
Kept(i) == data[i]

Emptied(i) == <<>>

(* Opening a file to write empties it, or makes it.  For a call that was   *)
(* cancelled meanwhile nothing is written into it.                         *)
OpenToWrite(c) ==
  LET p == req[c].path
      i == IF IsFile(p) THEN tree[p] ELSE Len(data) + 1
      at == IF pc[c] = "opening" THEN "writing" ELSE "done" IN
  /\ ThreadOf(c, "opening", "write") \/ ThreadOf(c, "opening late", "write")
  /\ IF tree[p] = Dir
       THEN Ends(c, Plain("failed")) /\ UNCHANGED <<tree, data, hands, prior, handle>>
       ELSE /\ pc' = [pc EXCEPT ![c] = at]
            /\ UNCHANGED answer
            /\ tree' = [tree EXCEPT ![p] = i]
            /\ data' = IF IsFile(p) THEN [data EXCEPT ![i] = Emptied(i)] ELSE Append(data, <<>>)
            /\ hands' = IF IsFile(p)
                          THEN [hands EXCEPT ![i] = (IF WritersOf(i) = {} THEN {} ELSE @) \cup {c}]
                          ELSE Append(hands, {c})
            /\ prior' = [prior EXCEPT ![c] = Content(p)]
            /\ handle' = [handle EXCEPT ![c] = i]
  /\ Aside /\ UNCHANGED <<pos, got>>

(* The text f after piece k was written by c: a write behind the end       *)
(* leaves a gap.                                                           *)
Overwritten(f, k, c) ==
  [j \in 1..Max({Len(f), k}) |-> IF j = k THEN c ELSE IF j <= Len(f) THEN f[j] ELSE Gap]

WritePiece(c) ==
  /\ Writing(c)
  /\ pos[c] < req[c].size
  /\ data' = [data EXCEPT ![handle[c]] = Overwritten(@, pos[c] + 1, c)]
  /\ pos' = [pos EXCEPT ![c] = pos[c] + 1]
  /\ IF pos[c] + 1 = req[c].size THEN Ends(c, Plain("ok")) ELSE UNCHANGED <<pc, answer>>
  /\ Aside /\ UNCHANGED <<tree, hands, prior, handle, got>>

(* Slip: the failure is not noticed.                                       *)
WriteStopsQuietly(c) ==
  /\ Writing(c)
  /\ Ends(c, Plain("ok"))
  /\ Aside /\ Stays /\ UNCHANGED <<pos, got>>

(* The storage fails, or a cancelled thread has nothing more to write.     *)
WriteStops(c) ==
  /\ Writing(c)
  /\ Ends(c, Plain("failed"))
  /\ Aside /\ Stays /\ UNCHANGED <<pos, got>>

(* The coroutine is cancelled at an await.  A job that no thread has taken *)
(* is dropped; one that a thread has taken goes on.                        *)
Cancel(c) ==
  /\ pc[c] \in {"opening", "reading", "writing"}
  /\ answer' = [answer EXCEPT ![c] = Plain("cancelled")]
  /\ \/ pc' = [pc EXCEPT ![c] = "done"]
     \/ /\ req[c].tool = "write"
        /\ pc' = [pc EXCEPT ![c] = IF pc[c] = "opening" THEN "opening late" ELSE "writing late"]
  /\ Aside /\ Stays /\ UNCHANGED <<pos, got>>

-----------------------------------------------------------------------------
Loop(c) ==
  \/ \E r \in Requests : Resolve(c, r)
  \/ StartRead(c) \/ StartWrite(c) \/ List(c) \/ Delete(c) \/ StartMove(c) \/ Rename(c)

Thread(c) ==
  \/ OpenToRead(c) \/ ReadPiece(c) \/ EndRead(c)
  \/ OpenToWrite(c) \/ WritePiece(c) \/ WriteStops(c)

Next == \E c \in Calls : Loop(c) \/ Thread(c) \/ Cancel(c)

Spec == Init /\ [][Next]_vars

-----------------------------------------------------------------------------
TypeOK ==
  /\ tree \in [Paths -> {Absent, Dir} \cup Inodes]
  /\ \A i \in Inodes : data[i] \in Seq(Calls \cup {Stranger, Gap}) /\ hands[i] \subseteq Calls
  /\ loop \in Calls \cup {Free}
  /\ pc \in [Calls -> {"idle", "allowed", "moving", "opening", "opening late",
                       "reading", "writing", "writing late", "done"}]
  /\ req \in [Calls -> Requests \cup {NoRequest}]
  /\ size \in [Calls -> Nat \cup {-1}] /\ handle \in [Calls -> Inodes \cup {0}]
  /\ \A c \in Calls : met[c] \subseteq Calls \ {c} /\ pos[c] \in Nat

(* The tools do what AtomicFiles promises as long as no two calls on one   *)
(* path meet: nobody sees a file that is half written, a write is whole    *)
(* when it answers ok, and a call that fails has changed nothing else.     *)
FilesSeen ==
  [p \in Paths |->
     IF IsFile(p) /\ WritersOf(tree[p]) # {}
       THEN prior[CHOOSE w \in WritersOf(tree[p]) : TRUE]
       ELSE Content(p)]

A == INSTANCE AtomicFiles
       WITH files <- FilesSeen, requests <- req, answers <- answer,
            calm <- \A c \in Calls : met[c] = {}

ImplementsAtomic == A!Spec

(* A file leaves its path only by a call that says so: by its deletion or  *)
(* its move, which answer ok.  The file a move replaces is one that a      *)
(* write it met made after the move had found nothing there.               *)
Removes(c, p) ==
  /\ answer[c].is = "pending" /\ answer'[c].is = "ok"
  /\ req[c].tool \in {"delete", "move"}
  /\ req[c].path = p \/ (req[c].to = p /\ hands[tree[p]] \cap met[c] # {})

NothingVanishes ==
  [][\A p \in Paths : IsFile(p) /\ tree'[p] # tree[p] => \E c \in Calls : Removes(c, p)]_vars

(* Whatever order the threads of writes to one file come in, when all of   *)
(* them have answered ok the file is as long as one of them wrote, ends    *)
(* with a piece of theirs, and holds nothing of what was there before.     *)
SettledFile(i) ==
  /\ Len(data[i]) \in {req[c].size : c \in hands[i]}
  /\ data[i][Len(data[i])] # Gap
  /\ \A k \in 1..Len(data[i]) : data[i][k] \in hands[i] \cup {Gap}

Settled ==
  \A i \in Inodes :
    (hands[i] # {} /\ WritersOf(i) = {} /\ \A c \in hands[i] : answer[c].is = "ok")
      => SettledFile(i)

(* What is answered keeps to the limits, and to the size that was decided  *)
(* on, unless the call met another or the file it read had been opened by  *)
(* a call that did: one can be moved while it is written, and read where   *)
(* it is now.  A listing that says it was cut is as long as one may be.    *)
ReadAccounted(c) ==
  LET n == Len(answer[c].text) IN
  (req[c].tool = "read" /\ answer[c].is = "ok")
    => \/ n <= MaxRead /\ n = size[c]
       \/ \E d \in Calls : handle[d] = handle[c] /\ met[d] # {}

ListAccounted(c) ==
  LET n == Cardinality(answer[c].entries) IN
  n <= MaxList /\ (answer[c].cut => n = MaxList)

AnswersAccounted == TypeOK /\ \A c \in Calls : ReadAccounted(c) /\ ListAccounted(c)
=============================================================================
