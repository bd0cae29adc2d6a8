------------------------------ MODULE ShellRun ------------------------------
(***************************************************************************)
(* ShellModule.execute (modules/coding/shell.py): one call, the process it *)
(* starts and the two pipes it reads.  Two reader tasks collect output up  *)
(* to a common limit and a common deadline; the call waits for both, then  *)
(* for the process.  The process, and a child of it that inherits the      *)
(* pipes, write, close and end as they like, and a pipe may break under its*)
(* reader.  Output is counted, in units.                                   *)
(***************************************************************************)
EXTENDS Naturals

CONSTANTS Timeout,     \* the time-out of the call, clamped to max_timeout
          MaxOutput,   \* max_output_size
          PipeSize,    \* what a pipe and its StreamReader hold
          Children,    \* whether the process may start a child
          MaxWritten,  \* bound of the model: output of a stream
          MaxTime      \* bound of the model: the clock stops here

ASSUME ShellAssumption ==
  /\ Timeout \in Nat \ {0}
  /\ MaxOutput \in Nat /\ PipeSize \in Nat \ {0}
  /\ Children \in BOOLEAN
  /\ MaxWritten \in Nat /\ MaxTime \in Nat

Streams == {"stdout", "stderr"}

VARIABLES now,       \* the time since execute() was called
          process,   \* none, running, killed (not yet dead) or dead
          child,     \* a child that holds the pipes is running
          shut,      \* pipes the process has closed
          broken,    \* pipes that cannot be read any more
          written,   \* output of a stream so far
          pipe,      \* of which not read
          reader,    \* where the task that reads a stream is
          got,       \* collected_stdout, collected_stderr
          cut,       \* stdout_truncated, stderr_truncated
          limitHit,  \* limits_hit
          main,      \* where execute() is
          until,     \* when the process.wait() that it is in times out
          result     \* what it returned

world == <<process, child, shut, broken, written>>
task == <<reader, got, cut, limitHit>>
shellVars == <<now, process, child, shut, broken, written, pipe, reader, got, cut, limitHit,
          main, until, result>>

Each(x) == [s \in Streams |-> x]

Total == got["stdout"] + got["stderr"]

AtEOF(s) == pipe[s] = 0 /\ ~child /\ (process = "dead" \/ s \in shut)

ShellInit ==
  /\ now = 0
  /\ process = "none"
  /\ child = FALSE
  /\ shut = {}
  /\ broken = {}
  /\ written = Each(0)
  /\ pipe = Each(0)
  /\ reader = Each("none")
  /\ got = Each(0)
  /\ cut = Each(FALSE)
  /\ limitHit = FALSE
  /\ main = "new"
  /\ until = 0
  /\ result = "none"

-----------------------------------------------------------------------------
(* The process and its child.                                              *)
Write(s) ==
  /\ s \notin broken
  /\ (process = "running" /\ s \notin shut) \/ child
  /\ pipe[s] < PipeSize
  /\ written[s] < MaxWritten
  /\ written' = [written EXCEPT ![s] = @ + 1]
  /\ pipe' = [pipe EXCEPT ![s] = @ + 1]
  /\ UNCHANGED <<now, process, child, shut, broken, task, main, until, result>>

Shut(s) ==
  /\ process = "running"
  /\ s \notin shut
  /\ shut' = shut \cup {s}
  /\ UNCHANGED <<now, process, child, broken, written, pipe, task, main, until, result>>

Spawn ==
  /\ Children
  /\ process = "running"
  /\ shut = {}
  /\ child' = TRUE
  /\ UNCHANGED <<now, process, shut, broken, written, pipe, task, main, until, result>>

Exit ==
  /\ process = "running"
  /\ process' = "dead"
  /\ UNCHANGED <<now, child, shut, broken, written, pipe, task, main, until, result>>

ChildExit ==
  /\ child
  /\ child' = FALSE
  /\ UNCHANGED <<now, process, shut, broken, written, pipe, task, main, until, result>>

(* The operating system fails to read a pipe: its StreamReader holds the   *)
(* exception from then on, and raises it before it gives what it has.      *)
PipeBreaks(s) ==
  /\ main \in {"reading", "draining"}
  /\ s \notin broken
  /\ ~AtEOF(s)
  /\ broken' = broken \cup {s}
  /\ UNCHANGED <<now, process, child, shut, written, pipe, task, main, until, result>>

(* A process that was sent SIGKILL is dead before long; its child is not.  *)
Reap ==
  /\ process = "killed"
  /\ process' = "dead"
  /\ UNCHANGED <<now, child, shut, broken, written, pipe, task, main, until, result>>

-----------------------------------------------------------------------------
(* Bad parameters, or a program that cannot be started.                    *)
RefuseRun ==
  /\ main = "new"
  /\ main' = "returned"
  /\ result' = "error"
  /\ UNCHANGED <<now, world, pipe, task, until>>

Start ==
  /\ main = "new"
  /\ process' = "running"
  /\ reader' = Each("created")
  /\ main' = "reading"
  /\ UNCHANGED <<now, child, shut, broken, written, pipe, got, cut, limitHit, until, result>>

(* The tasks start in the order they were created.  One that finds the     *)
(* limit reached reads nothing.                                            *)
Enter(s) ==
  /\ main = "reading"
  /\ reader[s] = "created"
  /\ s = "stderr" => reader["stdout"] # "created"
  /\ reader' = [reader EXCEPT ![s] = IF limitHit THEN "done" ELSE "reading"]
  /\ UNCHANGED <<now, world, pipe, got, cut, limitHit, main, until, result>>

(* Slip: a chunk is kept whole when there is any room.                     *)
ReadWhole(s) ==
  LET n == pipe[s]
      over == Total >= MaxOutput
  IN  /\ main = "reading"
      /\ reader[s] = "reading"
      /\ s \notin broken
      /\ n > 0
      /\ pipe' = [pipe EXCEPT ![s] = 0]
      /\ got' = [got EXCEPT ![s] = IF over THEN @ ELSE @ + n]
      /\ cut' = [cut EXCEPT ![s] = over]
      /\ limitHit' = (limitHit \/ over)
      /\ reader' = [reader EXCEPT ![s] = IF over THEN "done" ELSE "reading"]
      /\ UNCHANGED <<now, world, main, until, result>>

(* A chunk arrives.  What exceeds the room that both streams have left is  *)
(* dropped and ends the task.                                              *)
Read(s) ==
  LET n == pipe[s]
      room == MaxOutput - Total
      over == n > room
  IN  /\ main = "reading"
      /\ reader[s] = "reading"
      /\ s \notin broken
      /\ n > 0
      /\ pipe' = [pipe EXCEPT ![s] = 0]
      /\ got' = [got EXCEPT ![s] = @ + (IF over THEN room ELSE n)]
      /\ cut' = [cut EXCEPT ![s] = over]
      /\ limitHit' = (limitHit \/ over)
      /\ reader' = [reader EXCEPT ![s] = IF over THEN "done" ELSE "reading"]
      /\ UNCHANGED <<now, world, main, until, result>>

(* Slip: the end of the process is taken for the end of its output.        *)
ReadUntilExit(s) ==
  /\ main = "reading"
  /\ reader[s] = "reading"
  /\ s \notin broken
  /\ process = "dead" \/ AtEOF(s)
  /\ reader' = [reader EXCEPT ![s] = "done"]
  /\ UNCHANGED <<now, world, pipe, got, cut, limitHit, main, until, result>>

ReadEOF(s) ==
  /\ main = "reading"
  /\ reader[s] = "reading"
  /\ s \notin broken
  /\ AtEOF(s)
  /\ reader' = [reader EXCEPT ![s] = "done"]
  /\ UNCHANGED <<now, world, pipe, got, cut, limitHit, main, until, result>>

(* The pipe is broken: the task ends as at the end of the output.          *)
ReadFails(s) ==
  /\ main = "reading"
  /\ reader[s] = "reading"
  /\ s \in broken
  /\ reader' = [reader EXCEPT ![s] = "done"]
  /\ UNCHANGED <<now, world, pipe, got, cut, limitHit, main, until, result>>

Killed == IF process = "running" THEN "killed" ELSE process

(* Slip: nobody kills the process.                                         *)
RunTimesOutAlive ==
  /\ \/ main = "reading" /\ now >= Timeout /\ \E s \in Streams : reader[s] # "done"
     \/ main = "waiting" /\ now >= until /\ process # "dead"
  /\ main' = "draining"
  /\ UNCHANGED <<now, world, pipe, task, until, result>>

(* The deadline, in a task or in the call: both tasks are cancelled and    *)
(* the process is killed.  The same when process.wait() times out.         *)
RunTimesOut ==
  /\ \/ main = "reading" /\ now >= Timeout /\ \E s \in Streams : reader[s] # "done"
     \/ main = "waiting" /\ now >= until /\ process # "dead"
  /\ process' = Killed
  /\ main' = "draining"
  /\ UNCHANGED <<now, child, shut, broken, written, pipe, task, until, result>>

(* communicate() after the kill: until the process is dead and nobody      *)
(* holds a pipe.  There is no time-out.                                    *)
Drained ==
  /\ main = "draining"
  /\ broken = {}
  /\ process = "dead" /\ ~child
  /\ pipe' = Each(0)
  /\ main' = "returned"
  /\ result' = "timed_out"
  /\ UNCHANGED <<now, world, task, until>>

(* Or a pipe is broken: what communicate() raises ends the call.           *)
DrainFails ==
  /\ main = "draining"
  /\ broken # {}
  /\ main' = "returned"
  /\ result' = "error"
  /\ UNCHANGED <<now, world, pipe, task, until>>

(* Slip: a process whose output was cut is left alone.                     *)
CutOffAlive ==
  /\ main = "reading"
  /\ \A s \in Streams : reader[s] = "done"
  /\ limitHit
  /\ main' = "returned"
  /\ result' = "ok"
  /\ UNCHANGED <<now, world, pipe, task, until>>

(* Both tasks have ended and the limit was reached: the process is killed, *)
(* and its end awaited for a moment.                                       *)
CutOff ==
  /\ main = "reading"
  /\ \A s \in Streams : reader[s] = "done"
  /\ limitHit
  /\ process' = Killed
  /\ main' = "returned"
  /\ result' = "ok"
  /\ UNCHANGED <<now, child, shut, broken, written, pipe, task, until>>

(* Both have ended at the end of the output: the process is awaited, for   *)
(* as long as the call may take, once more.                                *)
AwaitExit ==
  /\ main = "reading"
  /\ \A s \in Streams : reader[s] = "done"
  /\ ~limitHit
  /\ main' = "waiting"
  /\ until' = now + Timeout
  /\ UNCHANGED <<now, world, pipe, task, result>>

Succeed ==
  /\ main = "waiting"
  /\ process = "dead"
  /\ main' = "returned"
  /\ result' = "ok"
  /\ UNCHANGED <<now, world, pipe, task, until>>

(* The call is cancelled: nothing catches that, the process goes on.       *)
CancelRun ==
  /\ main \in {"reading", "waiting", "draining"}
  /\ main' = "cancelled"
  /\ UNCHANGED <<now, world, pipe, task, until, result>>

(* Timers are served: while the call can time out the clock does not pass  *)
(* the time it does.                                                       *)
Tick ==
  /\ now < MaxTime
  /\ main = "reading" => now < Timeout
  /\ main = "waiting" => now < until
  /\ main # "new"
  /\ now' = now + 1
  /\ UNCHANGED <<world, pipe, task, main, until, result>>

Environment ==
  \/ \E s \in Streams : Write(s) \/ Shut(s) \/ PipeBreaks(s)
  \/ Spawn \/ Exit \/ ChildExit

Progress ==
  \/ Start \/ Reap
  \/ \E s \in Streams : Enter(s) \/ Read(s) \/ ReadEOF(s) \/ ReadFails(s)
  \/ RunTimesOut \/ Drained \/ DrainFails \/ CutOff \/ AwaitExit \/ Succeed \/ Tick

ShellNext == Environment \/ Progress \/ RefuseRun \/ CancelRun

(* The event loop runs what is ready, timers fire and SIGKILL works; the   *)
(* process and its child need do nothing.                                  *)
ShellSpec == ShellInit /\ [][ShellNext]_shellVars /\ WF_shellVars(Progress)

-----------------------------------------------------------------------------
(* Type invariant.                                                         *)
ShellTypes ==
  /\ now \in 0..MaxTime
  /\ process \in {"none", "running", "killed", "dead"}
  /\ child \in BOOLEAN
  /\ shut \subseteq Streams
  /\ broken \subseteq Streams
  /\ written \in [Streams -> 0..MaxWritten]
  /\ pipe \in [Streams -> 0..PipeSize]
  /\ reader \in [Streams -> {"none", "created", "reading", "done"}]
  /\ got \in [Streams -> 0..MaxOutput]
  /\ Total <= MaxOutput
  /\ cut \in [Streams -> BOOLEAN]
  /\ limitHit \in BOOLEAN
  /\ main \in {"new", "reading", "waiting", "draining", "returned", "cancelled"}
  /\ until \in 0..(MaxTime + Timeout)
  /\ result \in {"none", "ok", "error", "timed_out"}

(* What a stream wrote and its reader did not get: nothing, unless the pipe*)
(* broke; then it is what was in it.                                       *)
Unread(s) == IF s \in broken THEN pipe[s] ELSE 0

(* A call that succeeds returns all of the output, or says that it does    *)
(* not (output_truncated), wherever the limit falls in the two streams.    *)
(* What is missing without a word is what was in a pipe when it broke, and *)
(* no more.                                                                *)
LossIsTold ==
  result = "ok" =>
    \/ \E s \in Streams : cut[s]
    \/ \A s \in Streams : got[s] + Unread(s) = written[s]

(* shell.py:355 "Read from stream until EOF, byte limit, or deadline".     *)
ReadToTheEnd == result = "ok" /\ ~limitHit => \A s \in Streams : AtEOF(s)

(* A call that returns leaves no process of its own behind.                *)
NoneLeftRunning == main = "returned" => process # "running"

(* A call returns in the end, whatever the process does; for the case that *)
(* a child holds the pipes for ever see TimeoutBounds.                     *)
Returns == <>(main \in {"returned", "cancelled"}) \/ <>[]child

(* shell.py:102-103: the time-out is there "to prevent indefinitely        *)
(* long-running processes": every call returns in the end.                 *)
TimeoutBounds == <>(main \in {"returned", "cancelled"})

(* shell.py:332 "Kills process if output exceeds limit": a call whose      *)
(* output exceeds the limit does not wait for its time-out.                *)
LimitKills == limitHit => result # "timed_out"

(* shell.py:331 "Tracks total elapsed time against timeout deadline": the  *)
(* process does not outlive it.                                            *)
DeadlineKept == main \in {"reading", "waiting"} => now <= Timeout

(* shell.py:105 "Maximum bytes retained for each output stream".           *)
EachToItsLimit ==
  \A s \in Streams : result = "ok" /\ written[s] <= MaxOutput => got[s] = written[s]
=============================================================================
