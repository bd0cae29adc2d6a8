------------------------------ MODULE Commands ------------------------------
(***************************************************************************)
(* The two tools that run a program: shell:execute, which is ShellRun, and *)
(* the git operations (modules/coding/git.py).  The process, the pipes, the*)
(* kill and the wait after it are the same.  Git lets communicate() gather *)
(* all output until both pipes end and the process is dead, under one      *)
(* deadline, and cuts it afterwards.                                       *)
(***************************************************************************)
EXTENDS ShellRun

VARIABLES called,  \* which of the two was called
          code   \* what git will exit with, unless it is killed

commandVars == <<shellVars, called, code>>

Codes == {"zero", "other"}

-----------------------------------------------------------------------------
(* The operations: the parameters one cannot do without, and those that it *)
(* checks: no value may look like a flag, and a URL needs a known scheme.  *)
Takes(needs, checks) == [needs |-> needs, checks |-> checks]

RemoteOps == [
  clone |-> Takes({"url"}, {"url", "destination", "branch"}),
  pull  |-> Takes({}, {"remote", "branch"}),
  push  |-> Takes({}, {"remote", "branch"})]

CommitOps == [
  commit        |-> Takes({"message"}, {}),
  branchList    |-> Takes({}, {}),
  branchCurrent |-> Takes({}, {})]

BranchOps == [
  branchCreate |-> Takes({"name"}, {"name"}),
  branchDelete |-> Takes({"name"}, {"name"}),
  merge        |-> Takes({"branch"}, {"branch"})]

HistoryOps == [
  status |-> Takes({}, {}),
  log    |-> Takes({}, {"branch", "path"}),
  diff   |-> Takes({}, {"commit1", "commit2", "path"})]

TagOps == [
  tagList   |-> Takes({}, {}),
  tagCreate |-> Takes({"name"}, {"name", "commit"}),
  tagDelete |-> Takes({"name"}, {"name"})]

Tables == {RemoteOps, CommitOps, BranchOps, HistoryOps, TagOps}

(* A call names an operation and some of its parameters, of which some are *)
(* malformed.  An unknown operation or action is refused like a bad one.   *)
Accepted(table, op, given, malformed) ==
  /\ table[op].needs \subseteq given
  /\ table[op].checks \cap malformed = {}

Called(accepted) ==
  \E table \in Tables : \E op \in DOMAIN table :
    \E given \in SUBSET (table[op].needs \cup table[op].checks) :
      \E malformed \in SUBSET given :
        Accepted(table, op, given, malformed) = accepted

-----------------------------------------------------------------------------
GitRefuse ==
  /\ Called(FALSE)
  /\ RefuseRun
  /\ UNCHANGED code

(* No git executable, or no such directory.                                *)
GitMissing ==
  /\ main = "new"
  /\ Called(TRUE)
  /\ main' = "returned"
  /\ result' = "error"
  /\ UNCHANGED <<now, world, pipe, task, until, code>>

GitStart ==
  /\ main = "new"
  /\ Called(TRUE)
  /\ process' = "running"
  /\ reader' = Each("reading")
  /\ main' = "reading"
  /\ code' \in Codes
  /\ UNCHANGED <<now, child, shut, broken, written, pipe, got, cut, limitHit, until, result>>

(* communicate() keeps whatever arrives.                                   *)
GitRead(s) ==
  /\ main = "reading"
  /\ reader[s] = "reading"
  /\ s \notin broken
  /\ pipe[s] > 0
  /\ pipe' = [pipe EXCEPT ![s] = 0]
  /\ got' = [got EXCEPT ![s] = @ + pipe[s]]
  /\ UNCHANGED <<now, world, reader, cut, limitHit, main, until, result, code>>

(* Slip: communicate() replaced by wait(): what is still in the pipes is   *)
(* not looked at.                                                          *)
Waited == process = "dead"

Communicated ==
  /\ \A s \in Streams : reader[s] = "done"
  /\ process = "dead"

GitTimesOut ==
  /\ main = "reading"
  /\ now >= Timeout
  /\ ~Communicated
  /\ process' = Killed
  /\ main' = "draining"
  /\ UNCHANGED <<now, child, shut, broken, written, pipe, task, until, result, code>>

(* communicate() raises what a broken pipe raised: git is killed, and      *)
(* communicate() called once more.                                         *)
GitReadFails ==
  /\ main = "reading"
  /\ \E s \in broken : reader[s] = "reading"
  /\ process' = Killed
  /\ main' = "draining"
  /\ UNCHANGED <<now, child, shut, broken, written, pipe, task, until, result, code>>

(* Both streams are cut, each to the limit; the exit code decides.         *)
GitAnswer ==
  /\ main = "reading"
  /\ Communicated
  /\ got' = [s \in Streams |-> IF got[s] > MaxOutput THEN MaxOutput ELSE got[s]]
  /\ cut' = [s \in Streams |-> got[s] > MaxOutput]
  /\ main' = "returned"
  /\ result' = IF code = "zero" THEN "ok" ELSE "failed"
  /\ UNCHANGED <<now, world, pipe, reader, limitHit, until, code>>

-----------------------------------------------------------------------------
GitProgress ==
  \/ GitStart
  \/ \E s \in Streams : GitRead(s)
  \/ (\E s \in Streams : ReadEOF(s)) /\ UNCHANGED code
  \/ GitTimesOut \/ GitReadFails
  \/ (Reap \/ Drained \/ DrainFails \/ Tick) /\ UNCHANGED code
  \/ GitAnswer

ShellProgress == Progress /\ UNCHANGED code

CommandProgress ==
  /\ \/ called = "shell" /\ ShellProgress
     \/ called = "git" /\ GitProgress
  /\ UNCHANGED called

(* What need never happen: what the process does, a refusal, a cancelled   *)
(* task.                                                                   *)
MayHappen ==
  /\ \/ (Environment \/ CancelRun) /\ UNCHANGED code
     \/ called = "shell" /\ RefuseRun /\ UNCHANGED code
     \/ called = "git" /\ (GitRefuse \/ GitMissing)
  /\ UNCHANGED called

CommandInit == ShellInit /\ called \in {"shell", "git"} /\ code = "zero"

CommandNext == CommandProgress \/ MayHappen

(* As in ShellRun: ready tasks run, timers fire, SIGKILL works; git and its*)
(* children need do nothing.                                               *)
CommandSpec ==
  CommandInit /\ [][CommandNext]_commandVars /\ WF_commandVars(CommandProgress)

-----------------------------------------------------------------------------
(* Type invariant; what a call returns fits the limit: both streams        *)
(* together for the shell, each for git.                                   *)
CommandTypes ==
  /\ called \in {"shell", "git"}
  /\ code \in Codes
  /\ called = "shell" => ShellTypes
  /\ called = "git" =>
       /\ result \in {"none", "ok", "failed", "error", "timed_out"}
       /\ got \in [Streams -> 0..MaxWritten]
       /\ result \in {"ok", "failed"} => got \in [Streams -> 0..MaxOutput]

(* What git answers with its exit code is what it wrote: it ended by       *)
(* itself, nothing of either stream is left in a pipe, and what was dropped*)
(* lies beyond the limit of that stream and is marked (_run_git).          *)
GitAnswerWhole ==
  called = "git" /\ result \in {"ok", "failed"} =>
    /\ process = "dead"
    /\ \A s \in Streams :
         IF cut[s] THEN got[s] = MaxOutput /\ written[s] > MaxOutput
         ELSE got[s] = written[s]

(* git.py:1147-1148 sets output_truncated, and no operation hands it on: a *)
(* caller of git:log is not told that commits are missing.                 *)
LossReachesCaller ==
  called = "git" /\ result = "ok" => ~cut["stdout"]

(* Output is within its limit, or its loss is told, by either tool, unless *)
(* a pipe breaks; and the variables have their types.                      *)
OutputAccounted == CommandTypes /\ LossIsTold

(* A call leaves neither untold output behind, but what is in a pipe that  *)
(* breaks, nor a process of its own.                                       *)
NothingLeftBehind == OutputAccounted /\ NoneLeftRunning
=============================================================================
