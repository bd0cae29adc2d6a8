# SafeAgent: a TLA+ model of the framework

SafeAgent is a Python framework that lets a language model call tools under
access policies. This directory holds TLA+ modules translated from its source,
configurations with which TLC checks them on small instances, and proofs that
TLAPS checks for every value of their constants. Paths of code are relative to
`src/src/safe_agent/`, those of documents to `src/`.

1. [The system](#1-the-system)
2. [Modules](#2-modules) and how they correspond to the code
3. [Runs](#3-runs), their bounds, and what they show
4. [Fairness](#4-fairness)
5. [Proofs](#5-proofs)
6. [What the documents promise and the code does not keep](#6-what-the-documents-promise-and-the-code-does-not-keep)
7. [What is not modelled](#7-what-is-not-modelled)
8. [Plan](#8-plan)

To check: `tlc -config Dispatch.cfg MCDispatch.tla` and so on (the table in
section 3 names the module of every configuration), `tlapm DispatchProofs.tla`.

## 1. The system

A front end calls `Gateway.submit()`. It finds or creates a session in the
`SessionManager` and awaits `EventLoop.process_turn()`, which appends the user
message, asks the LLM, and hands each tool call of the answer to
`ToolDispatcher.dispatch()`. The dispatcher resolves conditions with the module
of the tool, asks the `PolicyEvaluator` about each resource, records each
decision with the `AuditLogger`, and only then lets the module `execute()`.
Modules are found by the `ModuleRegistry`. All of this runs on one asyncio
event loop; the session manager and the audit logger are also meant for OS
threads.

| component | state | operations | what is hard | what makes it correct |
|---|---|---|---|---|
| dispatcher (`core/dispatcher.py`) | none of its own; the audit log, the execution of tools | `dispatch` | calls of several sessions interleave at every await; an audit write, the resolution, the evaluation or the tool may fail, the call may be cancelled | no tool runs without a recorded permission for each resource; failing writes deny; the trail can be read back |
| session manager (`core/session.py`) | an OrderedDict of sessions, their histories and message locks, a callback | `create`, `get`, `close`, `list_active`, `add_message`, `set_eviction_callback` | threads; expiry, LRU and closing remove sessions others use; `add_message` takes two locks one after the other | capacity; age in the dict and by time agree; one callback for each session gone; no message lost from the middle |
| event loop (`core/event_loop.py`) | a lock per session | `process_turn`, `release_session`, trimming | turns wait for a lock, await the model and tools, may fail or be cancelled; threads append to the same history; trimming may cut a group of a call and its results | one turn at a time; calls answered; groups whole; turns end |
| gateway (`core/gateway.py`) | none of its own | `submit` | the session may be evicted between being found, locked and used | turns of one session never overlap |
| policy engine (`access/*.py`) | statements, a frozen cache | `load`, `add_policy`, `freeze`, `get_all_statements`, `evaluate` | a load that fails half way; readers while the store is set up; missing context, negated and unknown operators | all or nothing; decided by all policies; the strictest policy decides |
| audit trail (`core/audit.py`, `modules/observability/audit.py`) | a JSONL file, a lock | `log`, `read_entries`, `iter_entries`, the query tool | the process dies inside a line; the query reads line by line without the lock | a torn line costs at most the next; an answer is complete for what was logged before it, or says "truncated" |
| registry (`modules/registry.py`) | two maps and a flag | `register`, `discover`, lookups | plugin code runs inside `discover()` and may call it or `register()` | the maps agree; a failed discovery leaves nothing |
| remote SSH (`modules/security/remote_ssh.py`) | a map of sessions by host, a lock | `connect`, `execute_command`, `push_config`, `close_all_sessions` | check and use are apart by awaits; idle time-out; dropped connections | limit; which connections may be lost, and which closed under a command |
| shell, git (`modules/coding/shell.py`, `git.py`) | one process and two pipes a call | `execute`; ten git tools | output limit, deadline, a process or its child that hangs, a pipe that breaks, cancellation | lost output is told; nothing is left running; calls return |
| scm (`modules/coding/scm.py`) | a shared HTTP client per provider | the requests, `close` | retries after an unknown outcome; closing under a call; a close that fails | duplicates are accounted for; answers tell what was done |
| web (`modules/web/api.py`, `browse.py`) | a shared client with a pool | requests, `close` | pool exhaustion, redirections with a body, slow bodies, chunks put together from pieces, a limit that falls on a chunk | connections come back; cut bodies are told; calls end unless they are fed for ever |
| filesystem (`modules/filesystem/filesystem.py`) | a tree of files | `read_file`, `write_file`, `list_directory`, `delete_file`, `move_file` | checks and moves happen on the event loop, files are opened, read and written by threads beside it; opening to write empties a file; cancelled calls leave threads at work | calls that do not meet are atomic; overlapping writes leave nothing of what was there; files go only where a call sends them |
| adapters: database, search, vault, email, calendar, messaging, alerting, dashboard, error tracking, logging, metrics, and scm on top of its providers | none; backends behind Protocols | 31 tools | parameters are read once for the conditions and once for the backend, nothing validates them in between; SQL is sorted by a scanner | what is decided on is what is done; a call that keeps to its description gets through; statements are what they are taken for |

`PROJECT.json` lists each component with its status and every hazard at its line.

## 2. Modules

Three abstract specifications say what a component promises; the detailed ones
implement them: **CodeGate** (a tool call owes one obligation for each
resource, each is discharged by a recorded Allow, nothing runs while one is
owed), **SerialTurns** (each turn is for one session, the turns of a session
are active one after the other) and **AtomicFiles** (each call of a file tool
takes effect, and answers what was so, at one moment, as long as no two calls on
one path meet).

| module | code | state and actions |
|---|---|---|
| `Dispatch` | `ToolDispatcher.dispatch` | `pc` is where a call waits or has ended, `todo` the resources still to be evaluated, `denied` the flag of the loop, `log` the accepted entries, `alarms` the security events logged when a write was refused. One action for each stretch between awaits and for each early return; any write may be refused. Cancellation where the coroutine awaits a module. |
| `Sessions` | `SessionManager` | the OrderedDict is the set `tracked` with its order `older`; `released` counts callbacks; `appending` is a thread between the two lock sections of `add_message`. One action per operation, each with the cleanup it makes. |
| `Trim`, `TrimLoop` | `_trim_messages_preserve_pairs` | `Trim` says where a transcript is cut, as operators; `TrimLoop` is the two while loops, one iteration a step, and arrives there. |
| `Turns`, `MCTurns` | `process_turn` | one session, several coroutines, threads that append. `queue` is the asyncio lock (holder first), `transcript` the history. Uses `Trim`. `MCTurns` puts `Turns` and `TrimLoop` side by side. |
| `Gateway` | `submit`, `release_session`, the lock map | composes an INSTANCE of `Sessions` with the locks: `locks` maps a session to a lock, a lock is named after the turn that made it. |
| `Evaluator`, `PolicyStore` | `PolicyEvaluator`, `PolicyStore` | `Evaluator` is the five steps and all condition operators as operators; `PolicyStore` the writer (one file of a directory a step) and the readers (flag read, statements fetched, decision). |
| `AuditLog` | `AuditLogger`, the query tool | `file` is a sequence of pieces of lines; a line is written in two parts; `Parsed` is what the reader makes of it, by the place of the line. The query tool goes through the file line by line (`ReadLine`, `ReadRest`), without the lock, while writers append: `reading` is how far it is, whether the last line it took was half a line, and what it has. Its answer is a set of entries: sorted by their timestamps, which differ, they have one order. |
| `Registry` | `ModuleRegistry` | `running` is the stack of nested `discover()` calls with their staging maps; `accepted`, `overtaken` are history for the properties. |
| `SshSessions` | `RemoteSSHModule` | `session` by host, `open` connections, calls that connect or run a command; `raced`, a history, has the connections that were stored while another call was connecting to the same host. |
| `ShellRun` | `ShellModule.execute` | the process, a child that inherits the pipes, the pipes, which may break (`broken`), the two reader tasks, the call. |
| `Commands` | `GitModule`, and `ShellRun` | extends `ShellRun` by git: a table of the operations with what each requires and checks, and `_run_git` on the same process, pipes, kill and wait. |
| `ScmProvider` | `GitHubSCM`, `GitLabSCM`, `SCMModule.execute` | the client and its `close()`, which may fail in `aclose()` (`CloseFails`; `stuck`, a history, has the clients it failed for), one or two requests a call, back-off; the server performs a request, late, or never. |
| `WebFetch` | `WebApiModule`, `WebBrowseModule` | a pool, calls that wait, read the body of a redirection to its end, are redirected, read pieces that make chunks of `ChunkSize`; the limit is tested for whole chunks. The time-out is httpx's: one for each wait, and each piece ends a wait. |
| `Filesystem` | `FilesystemModule` | `tree` maps paths to inodes, `data` inodes to texts. What a coroutine does between awaits is done by the call that has the event loop (`loop`); the threads of the pool open, read and write pieces beside it. A handle is an inode, so a file that is deleted or moved is still read and written. `met`, `prior`, `hands` are history. |
| `Statements` | `database.py`, `_parse_duration` of `alerting.py` | SQL and durations as sequences of tokens: the scanner for literals, DDL, SELECT, the table name, minutes; and what a literal is, said without a scanner. |
| `AdapterTables`, `Adapters` | the adapters and `SCMModule` | the tables say for each tool what its description, its `resolve_conditions()` and its handler make of the parameters; `Adapters` is one call: resolved, denied or allowed, refused by the handler or handed to the backend. |
| `AdapterSamples`, `MCToolbox` | -- | the calls that are checked; `MCToolbox` puts `Filesystem` and `Adapters` side by side. |

`MC*` modules hold values of constants, and the two above that share a run but no
state put two components side by side, one of them idle in each behaviour. Definitions that begin with the
comment "Slip" are not part of a specification: each is an action with a
plausible mistake, kept next to the action it spoils, and the property it
would violate is named in `PROJECT.json` under `mutants`.

The small operators of `AdapterTables` (`Get`, `Or`, `IfGiven` and so on) each
stand for a way of reading a parameter that many modules use; `PROJECT.json` maps
each to one place where it is seen.

The granularity is the same everywhere: what runs between two awaits of a
coroutine, or under a lock in code that threads call, is one action.

## 3. Runs

| run | module, configuration | distinct states | what it shows |
|---|---|---|---|
| `dispatch` | `MCDispatch`, `Dispatch.cfg` | 101,832 | Two calls in flight that share an audit log which may refuse any write: no tool runs without a recorded permission for each of its resources, the trail of a call can be read back, and the dispatcher implements the code gate. Properties: `RecordFaithful`, `NoBypass`, `FailClosed`, `ImplementsGate`. |
| `sessions` | `MCSessions`, `Sessions.cfg` | 146,024 | Three sessions where two fit, a clock that passes the TTL and two threads that add messages: who is evicted, in which order, how often the callback is called and what is left of a history. Properties: `KeptInOrder`, `ReleasedOnce`, `HistoryIsSuffix`, `EvictedForCause`. |
| `turns` | `MCTurns`, `Turns.cfg` | 73,513 | Two turns of one session and a message of a thread: one turn at a time, every tool call answered, no request with an orphaned result, nothing lost but the oldest messages, every turn ends. And the two loops of _trim_messages_preserve_pairs, on every transcript of up to six messages, end, cut where TrimPoint says and keep whole groups whole. Properties: `ExchangesApart`, `TrimSound`, `TrimsTheOldest`, `TurnsReturn`. |
| `gateway` | `MCGateway`, `Gateway.cfg` | 101,289 | Three turns and one session more than fits, sessions closed, evicted and expired under turns in flight, all on the event loop: the turns of a session never overlap and no lock is left behind. Properties: `LocksExclude`, `QueuesSound`, `ImplementsSerial`. |
| `policy_store` | `MCPolicyStore`, `PolicyStore.cfg` | 133,946 | A store is set up by one thread and read by another: load() is all or nothing, a decision is made by all policies, combines those of the single policies, and no missing context grants anything. Properties: `StoreWhole`, `ContextGrantsNothing`, `PoliciesCombine`. |
| `ssh_sessions` | `MCSshSessions`, `SshSessions.cfg` | 1,297,681 | Two calls on two hosts where one session fits, that may connect to one host together and run commands longer than the idle time-out, connections that drop: how far the limit is exceeded, that only connections that raced for a host are lost, and only commands longer than the idle time-out lose theirs. Properties: `SessionsBounded`, `LostToRaces`, `OnlyLongCommandsCut`. |
| `scm_provider` | `MCScmProvider`, `ScmProvider.cfg` | 6,066,596 | Two calls and two calls of close(), which may fail, on a provider: what a retry may duplicate, what an answer says of what was done, which clients are left open, and who meets a closed one. Properties: `DeedsAccounted`, `ClientsAccounted`. |
| `audit_log` | `MCAuditLog`, `AuditLog.cfg` | 2,121,601 | Two sessions that log, a process that may die inside a line, readers under the lock and a query that reads line by line without it: what the trail keeps and what a reader is told. Properties: `TrailSound`, `QuerySound`, `TrailGrows`. |
| `registry` | `MCRegistry`, `Registry.cfg` | 3,159 | Modules that collide in every way, entry points that fail, and plugins that call register() and discover() from within discover(): the two maps agree, and nothing of a failed call is seen. Properties: `MapsSound`, `NoneOfAFailed`. |
| `web_fetch` | `WebFetch`, `WebFetch.cfg` | 55,696 | Two calls that share one connection, with redirections that have a body, a slow server, chunks of two bytes and a body around the limit: connections come back, a cut body is told, no more is read than the limit and the chunks allow, and a call ends unless the server feeds it for ever. Properties: `FetchSound`, `CallsEnd`. |
| `commands` | `Commands`, `Commands.cfg` | 696,112 | One shell:execute or git call with every output of up to four units on two streams where three fit, a process that may hang, a child that may hold the pipes and pipes that may break: no output is lost untold but what was in a pipe that broke, nothing is left running by a call that returns, and calls return unless a child holds the pipes for ever. Properties: `NothingLeftBehind`, `GitAnswerWhole`, `Returns`. |
| `toolbox` | `MCToolbox`, `Toolbox.cfg` | 1,062,083 | Three calls of the filesystem tools on one tree, next to threads that open, read and write files and to cancellation: what is atomic, what writes that overlap leave, where files can go. And one call of each tool of the adapters, with every parameter missing, None or odd and every SQL text of up to five tokens: what is decided on is what is done. Properties: `Settled`, `AnswersAccounted`, `ImplementsAtomic`, `NothingVanishes`, `DecidedIsDone`, `DescribedIsDone`, `StatementsSorted`. |

Several properties are conjunctions of named parts, each stated with its own
comment in the module: `RecordFaithful` is `TypeOK`, `FullPicture` (every
decision of a refused call is in the log), `ExecutionNoticed` (no tool runs
unnoticed) and `TrailReadable`; `ExchangesApart` is `TypeOK`,
`OneTurnAtATime`, `ReplyOfNoOther`, `ChatsBounded`, `RequestsWhole` and
`CallsAnswered`; `TrimsTheOldest` is `OnlyTheOldestGo`, `TrimKeepsPairs` and
`TrimBounds`; `DecidedIsDone` is `KeysAgree`, `ResourcesAgree` and
`RepositoryAgrees`; and so on. One liveness property that holds,
`EvaluationEnds` of `Dispatch`, is not part of the regular runs.

Why the bounds are enough.

- `dispatch`: two calls, because the only thing calls share is the log and its
  refusals; parameters with none, one and two resources and every answer of
  the evaluator at each position, so that a denial, a fault and a refused write
  fall before, on and after each other.
- `sessions`, `gateway`: one session more than fits, and time for a session
  to expire while another is used; two threads (or three turns) make every
  pair of steps meet. The gateway has three turns so that one holds a lock, one
  waits and one comes late.
- `turns`: for the loops, every transcript of up to six messages over a limit of
  two, so that a group may begin before the cut, be cut anywhere, be broken, or
  be missing; for the turns, a limit that cuts into the groups of both turns, and the last call of
  the model after the round that may call tools. `MaxCalls`, `MaxAdded` bound
  the model only.
- `policy_store`: five policies that differ in everything `evaluate()` looks at,
  two directories of which one has a broken file, one reader: readers do not
  meet each other.
- `audit_log`: three decisions so that a torn line has one before and one after
  it; one tear and one failure, since each is alone in what it can do.
- `registry`: modules that collide in every way the code tells apart, three
  nested calls of `discover()`.
- `ssh_sessions`: two hosts where one session fits; three connections, so that
  one can be dropped or expire and be replaced, and two can be made for one
  host. A command may take longer than the idle time-out, as it may with the
  defaults (`CommandTime` 2 over `IdleTimeout` 1).
- `audit_log` has one query: queries change nothing for each other.
- `commands`: four units on each stream where three fit, and two fit a pipe; the
  limit falls into a chunk, between chunks and between the streams.
- `scm_provider`: one retry; the second differs from the first only in its
  number. `MaxClients` counts clients ever made. Two
  closers, of which each may fail, so that a failed close meets a call, a
  second close, and neither.
- `toolbox`: three calls, so that two writes overlap under a reader, a move or a
  deletion; a file that can be read, one that is too large, a directory that the
  calls make; texts of up to two pieces (three in the file that is too large),
  so that writes of different lengths overlap. Five SQL tokens are a keyword
  between two quotes that are doubled or escaped; `Worth`, `Words`, `Providers`
  are the tokens that occur.
- `web_fetch`: one connection for two calls, one redirection with a body of any
  length, pieces of none, one and three bytes in chunks of two around a limit of
  three: a piece ends a chunk, is less than one, or makes more than one, and the
  limit falls into a chunk.

`CHECK_DEADLOCK FALSE` is said where the calls of the model end; in `SshSessions`
there is always something to do.

## 4. Fairness

Fairness is assumed only where a liveness property needs it.

- `Dispatch`: weak fairness of the evaluation of each call (for
  `EvaluationEnds`). It is a loop without await; nothing else on the event loop
  can come in between for ever.
- `Turns`: weak fairness of each coroutine that is ready (asyncio serves its
  ready queue in order and the lock its waiters), and, as an assumption about
  the environment, that the model and the tools answer or raise. `process_turn`
  has no time-out of its own, so without it no turn need end.
- `TrimLoop` (in `MCTurns`): a sequential function goes on.
- `Commands`: ready tasks run, timers fire, and a process that was sent SIGKILL
  dies. What the process, its child and the task that may cancel do, need never
  happen. `Returns` therefore allows for a child that holds the pipes for ever.
- `WebFetch`: the clock of a call goes on and httpx raises its time-outs; the
  server need never answer. `CallsEnd` is about calls to which the server does
  not send pieces for ever, which the code does not prevent (`EveryCallEnds`).

The others state no liveness: there is nothing in them that the code could make
happen by itself.

## 5. Proofs

| module | theorem | assumes | by |
|---|---|---|---|
| `DispatchProofs` | `TypeCorrect`, `NoBypassHolds`, `FailClosedHolds`, `Refinement` (of `CodeGate`), `RecordFaithfulHolds` | the named assumptions on tools, parameters and verdicts | `IInv`: types; `LoopInv`, what holds of a call before and in the loop; and `ProgressInv`: while nothing is denied, every resource no longer in `todo` is allowed and recorded. Without the last nothing is known when the loop ends. The refinement needs `FreshInv` too: a call that has not started has no entry in the log, so nothing is discharged before it is owed. `RecordInv` adds, call by call, what the log holds: the trail can be read back (`TrailReadable`); an open call has only decisions in it, all of resources before those to come (`Open`); what is no longer to be evaluated has its decision there, or something failed and left a sign (`Pictured`); and a tool that ran has left an entry or an alarm (`Noticed`). |
| `GatewayProofs` | `QueuesSoundHolds` (types, queues), `LocksExcludeHolds` (`TurnsExclusive`, `LocksFollowSessions`), `ImplementsSerialHolds` (of `SerialTurns`) | nothing for the first; for the others `~ManagerThreads`: the manager is called on the event loop only | `Inv`: a lock in the map belongs to a tracked session; a routed turn has a session that was handed out; a turn in a queue is in the queue of the lock it fetched; and turns of one session in queues share one lock, or the session is gone. Step lemmas about the manager (`CreateMoves` ...) reduce its actions to what may happen to `tracked` and `released`. `QueueInv`: a turn that waits or is active is in the queue of the lock it fetched (`Queued`), once (`Once`), and who is in a queue waits or is active there, for the session of the lock (`Belongs`); a turn that has named no lock yet has no queue (`Unnamed`). |
| `TurnsProofs` (of `Turns`, `TrimLoop`) | `ExchangesApartHolds` (types, turns, calls and results), `TrimsTheOldestHolds` (the three action properties) | the limits of `Turns`; `Outside` is no turn | `Inv`: who waits or works is in the queue of the lock once, the worker first (`LockInv`), so while a turn works nobody but threads writes (`LastInv`); whose messages there are and from which rounds (`AuthorInv`); a round that is dispatched has its calls last but for threads, or threads have replaced everything (`PendingInv`); before each result are its elder ones and before them only messages of threads, back to the calls or to the beginning (`LedInv`): with it a trimming that parts no group of turns parts no result. `DistinctInv` and `OutsideInv` number the messages, for "lost" to have a meaning and for the bound. The actions are sorted by what they do to the transcript first (`StepKind`), and each invariant is proved for the kinds. |
| | `TrimSoundHolds` | `MaxMessages` at least 1 | `LoopInv`: where the outer loop is, nothing before it was a place to stop (`Walked`); where the inner loop is, nothing behind it was a reply (`LookedBack`). `Least` and `Greatest` are what they say by well-founded induction on the numbers (`LeastNat`); `TrimSafe` and `TrimmedGroups` say that the cut is in front of an owner or behind its group. |
| `StateProofs` (of `PolicyStore`, `Registry`, `Sessions`) | `StoreWholeHolds` (types, `AllOrNothing`, `DecidedByAll`), `PoliciesCombineHolds`, `ContextGrantsNothingHolds` | the named assumptions on patterns and numbers | what is staged stays apart from the store until the last file; a cache, when there is one, is all statements and the store is frozen; the flag a reader saw is at most as old as the cache. The last two theorems follow from the definition of `Evaluate`: a condition that is satisfied with a context is satisfied with a larger one. |
| | `MapsSoundHolds` (types, `Agree`, `NothingLost`), `DiscoverIsAtomic` | the named assumptions on classes | the same predicate `Good` holds of the live maps and of the staging maps of every nested call: they agree, hold modules of finished calls or of the call itself only, and everything accepted that was not overtaken. Swapping is then one step for all. |
| | `KeptInOrderHolds` (types, capacity, order), `ReleasedOnceHolds`, `HistoryIsSuffixHolds`, `EvictedForCauseHolds` | limits at least 1, `NoId` is no identifier | `IInv`, the conjunction of the invariants and the finiteness of `tracked`, is inductive; the lemmas say what removing from the front and moving to the end do to an order. |
| `SshProofs` | `SessionsBoundedHolds` (types, `OvershootBounded`), `LostToRacesHolds`, `OnlyLongCommandsCutHolds` | finite `Calls` | sessions have distinct connections; a call in flight passed the check when there was room; while a call connects, the connection of its host is closed, or was stored meanwhile and has raced (`Raced`), so that what it overwrites has, too; the session of the connection a command runs on was used no earlier than the command began (`Fresh`). |
| `FilesystemProofs` (of `Filesystem`) | `SettledHolds`, `NothingVanishesHolds`, `AnswersAccountedHolds`, `TypeCorrect` | finitely many paths; no write of nothing | `IInv`: types and control; calls in flight on a path in common have met (`Meetings`); no inode is at two paths (`OnePath`); those who wrote an inode since it was at rest have it open or are done, and one of them is at the end of its text (`HandsInv`, `TextInv`); what a move finds at its destination after it looked was made by a call it has met (`Moving`); a file that is open but not at the path it was asked for was moved by a call that has been met (`Foreign`, `Shared`). `ReadInv` carries the size that was decided on from the resolution to the last piece; it holds unless one of them was met. |
| | `ImplementsAtomicHolds` (of `AtomicFiles`) | the same | `RInv` adds to `IInv` what a write had found at its path (`Priors`); that what a move is about to rename and the directories a write has made are still there (`Standing`); and that, while nobody has met anybody, an open file is where its call asked for it, what a write has written is the whole of it, and what a read has read is its beginning (`Homes`). A caller sees a file that is being written as it was before, so opening it changes nothing and the answer, or the cancellation, changes it at once. Each action of a call is then one of `Effect`: an action of `AtomicFiles`, its arrival, or nothing; once two calls have met, `AtomicFiles` allows everything. |
| `ToolProofs` (of `WebFetch`, `ScmProvider`, `Commands`, `AuditLog`) | `FetchSoundHolds` (types, connections, cut bodies, what is taken) | `FetchAssumption` | `FetchInv`: the phases of a call come in order, and what is kept of a body lags behind what has arrived by less than a chunk as long as it is read (`InOrder`); the set of busy connections is finite, so that it can be counted. |
| | `DeedsAccountedHolds`, `ClientsAccountedHolds` | `ScmAssumption` | `ScmInv`: a write is done once more at most than attempts were lost, and no more than they while one is due (`Deeds`); what will entitle a call to its answer has happened when it is served or at its second request (`Said`); who may come upon a closed client saw `close()` (`Cause`); a closed client that is not forgotten is in the hands of a call of `close()`, of one only unless two met, or is one whose close failed (`Shared`). |
| | `NothingLeftBehindHolds`, `GitAnswerWholeHolds` | `ShellAssumption` | `RunInv`: until a limit is hit, what a stream has written is what was read and what is in the pipe, and a reader that is done has come to the end of its stream, or, of `shell`, its pipe is broken (`Flow`); no stream is over its limit but while git still runs (`Sized`); and the result of a call agrees with what became of the process and with what its readers have got (`Verdict`). |
| | `TrailSoundHolds` (types, losses, `read_entries()`), `TrailGrowsHolds`, `QuerySoundHolds` | `AuditAssumption` | `LinesInv`: an entry has one line at most (`Single`); who holds the lock has begun the last line and nothing else (`Begun`); what was logged has a whole line (`HasLine`), so it is lost only behind a line without an end, and there are no more of these than tears (`TornCounted`). `Grows` says of every step what it does to the file: a line is added, or the last one is ended. `ReadingInv` says of a query on its way: of the lines it came past, those that are records and that it was asked for it has, or met before their end (`Passed`), and what it met so was not logged when it began (`MetInv`); a line it has taken half is one it met (`HalfMet`). An answer has what was read, and every entry that was logged before lies behind it unless it is cut (`AnswerInv`). `FirstPart` counts the first lines of a trail by a pigeonhole argument. |
| `AdaptersProofs` (of `Adapters`, `AdapterTables`, `Statements`) | `ScannerReadsLiterals` | texts of tokens | The scanner and the definition of a literal are recursive functions. `Recursion` says that a definition that descends by a rank has a fixed point, so each of them is the function it describes (`AfterLiteralIs`, `StrippedFromIs`, `OpenIs`). From inside a literal the scanner arrives where the reading is outside again, or at the end, and passes nothing bare (`LiteralSkipped`); from there on the rest of the text and what is left of it `Agree`. The last place where they did not would be at a token (`AgreeAtToken`), a literal (`AgreeAtLiteral`) or the end. |
| | `DecisionTheorem` (keys, resources, repository), `DescriptionTheorem`, `StatementsTheorem` | `WellFormed`: the tools are those there are, a number has a value, no parameter is named `*` | `WaysFit`, shown tool by tool: what a handler cannot do without is required by the description, what it expects is of the kind described, all that is described is read, and what names a resource is handed on. The rest holds for whatever parameters are given: `HandedOnIs` and `PassedOn` say what the backend gets, `EveryKeyAgrees` compares it with the conditions, module by module, and `ResourcesKeyed` and `DefaultIsEmpty` say that a parameter that names a resource and is left out is handed on as the empty resource it was decided on for, or not at all, but for the folder of `read_inbox`. `IInv`: what is resolved and what is sent are functions of the call, and a refusal has its reason in it. |

Every theorem is proved to the last leaf. TLC checked each inductive invariant
or its parts before the proof.

`TrimSoundHolds` is about `MCSpec`, in which `TrimLoop` stands beside `Turns`;
the other two of `TurnsProofs` are about `Turns` alone.

`WellFormed` is what `MCToolbox` assumes of its samples (`AsksAssumption`, which
TLC evaluates) and what the dispatcher guarantees but for one thing:
`list_dashboards` names `*` as the parameter that holds its resource
(`dashboard.py:145`), and a call that does give a parameter of this name is
decided on for its value (`dispatcher.py:191`), which goes to no backend.

Every safety and action property of the runs is proved, and the refinements of
`CodeGate`, `SerialTurns` and `AtomicFiles`. Model-checked only: liveness
(`TurnsReturn`, `CallsEnd`, `Returns`), which is out of the prover's reach under
fairness. Where a proof is about a recursive function there is no rule of
induction to cite; it takes the least or the greatest place where the claim
fails (`Smallest`, `Greatest`, `LeastNat`) and refutes it.

## 6. What the documents promise and the code does not keep

Properties written from a comment or a document, which TLC finds violated. They
are defined in the modules and belong to no run; to see one, put it into the
configuration of its module (`Commands.cfg` for `ShellRun`) with the constants
given.

| property, module | promise | what the code does |
|---|---|---|
| `NoSilentDispatch`, `Dispatch` (`MCDispatch`) | `core/dispatcher.py:56-57` "Every outcome ... produces an audit entry. There is no silent dispatch path." | conditions that are no dict make the entry that would record the failure fail as well; the call raises (`:244`) |
| `NoRevival`, `Sessions` | `core/session.py:76` "Maximum idle time before a session is evicted" | `add_message()` does not clean up first (`:233`), and revives an expired session |
| `TurnsExclusive`, `LocksFollowSessions`, `Gateway`, `ManagerThreads = TRUE` | `core/event_loop.py:184-185` "only one process_turn coroutine is active per session" | a thread that closes a session between the lookup of the session and that of its lock leaves a lock behind, or makes two |
| `ContinuesAfterAnswer`, `Gateway` | `core/gateway.py:55` the identifier is returned "so callers can continue the conversation" | a session can be evicted while its turn is answered |
| `ReplyIsOwn`, `Turns` | `core/event_loop.py:296-300` the lock is there "to prevent a concurrent add_message() thread from injecting a user message between the trim and the read" | the answer is appended in one lock section (`:278`) and read back as `messages[-1]` in the next: a thread in between makes the turn return what it added |
| `MisconfiguredDenies`, `PolicyStore`, `Policies <- TypoPolicies`, `Dirs = {}` | `design/architecture.md:110` "Missing or misconfigured policies result in denial." | a misspelt operator makes a statement silent (`access/evaluator.py:215-217`), a Deny as well; the example of `README.md:147-156` has one ("BoolEquals") |
| `NoneLeaked`, `SshSessions` | `modules/security/remote_ssh.py:66` "Session idle timeout with automatic cleanup", `:591` "Close all active SSH sessions." | of two connections to one host the first is overwritten (`:354`) and nothing reaches it again (`LostToRaces` is what holds) |
| `WithinLimit`, `RefusedAtLimit`, `SshSessions` | `:90` "Maximum number of concurrent SSH sessions allowed" | checked before an await (`:294`): exceeded by the calls in flight (`OvershootBounded` is the bound that holds) |
| `UsedNotClosed`, `SshSessions` | `:559` "Close and remove sessions that have been idle too long" | a session is as old as the start of its command, and closed under one that outlasts the idle time-out, which the defaults allow (`:74`, `:76`, `:389`; `OnlyLongCommandsCut` is what holds) |
| `UsernameIsSessions`, `SshSessions`, `Users = {u1, u2}`, `Credentials <- MCCredentials` | `:198` "Username from username parameter or stored session" | the condition is derived from the credential before the session |
| `TimeoutBounds`, `ShellRun` | `modules/coding/shell.py:102-103`, `design/architecture.md:316` "A shell module should enforce timeouts" | `communicate()` after the kill (`:220`; `git.py:1117`) waits for whoever holds the pipes |
| `LimitKills`, `DeadlineKept`, `EachToItsLimit`, `ShellRun` | `:332` "Kills process if output exceeds limit", `:331` "Tracks total elapsed time against timeout deadline", `:105` "Maximum bytes retained for each output stream" | the kill waits for the other reader (`:432`); the wait for the process has a deadline of its own (`:443`); the limit is that of both streams together |
| `ReadToTheEnd`, `ShellRun` | `modules/coding/shell.py:355` "Read from stream until EOF, byte limit, or deadline" | a read that fails ends the reader (`:372-373`) without a flag; the call may succeed without what was in the pipe (`LossIsTold` is what holds) |
| `NextUnaffected`, `ScmProvider` | `modules/coding/scm.py:364` "Close the HTTP client." | an `aclose()` that raises or is cancelled skips `_client = None` (`:366-367`): the closed client stays, and calls fail until another `close()` |
| `SuccessIsDone`, `ScmProvider` | `modules/base.py:93` "success: Whether the tool execution succeeded" | a redirection that is not followed is a success (`scm.py:416`) |
| `FindsDecisions`, `AuditLog` | `modules/observability/audit.py:119-121` "Filter by decision" | "allow" and "deny" are compared with "ALLOWED" and "DENIED_..." (`:341-344`); the tests write "allow" into their fixtures (`tests/test_modules/test_audit.py:320-372`) |
| `NoGapsAtAll`, `AuditLog` | `modules/observability/audit.py:242` "List of audit log entries matching the filters" | a decision that is being written when the query comes to its line is skipped (`:263-267`), and later ones are returned |
| `NothingMeansNothing`, `AuditLog` | the tool "queries" the log | a file that cannot be read is an empty success (`:284-286`) |
| `NothingEverLost`, `DiscoversOnce`, `Registry` | `modules/registry.py:134-136` "Subsequent calls raise RuntimeError to prevent double-instantiation" | `discover()` and `register()` called by a plugin inside `discover()` are accepted; what the latter adds is lost at the swap (`:264-265`) |
| `TimeoutIsTotal`, `WebFetch` | the comment `modules/web/api.py:269-270` "Use _MAX_TIMEOUT seconds total" | httpx applies it to every wait, and every piece of a body ends one: no bound holds |
| `EveryCallEnds`, `WebFetch` | `modules/web/browse.py:216` "controlled resource limits" | a server that goes on sending keeps a call: pieces start the time-out anew, and the body of a redirection has no limit (`CallsEnd` is what holds) |
| `LossReachesCaller`, `Commands` | -- | `git.py:1147-1148` marks output that was cut, and no operation hands the mark on |

More facts met while reading.

- `limit=0` of `iter_entries` yields one entry (`core/audit.py:235`); a line torn
  inside a multibyte character makes the whole trail unreadable (the model has
  this as `Undecodable`); `raise_for_status` is never called in `web/api.py`, so
  its handler (`:513-527`) is dead.
- A text that the encoding has not, or bytes it cannot decode, raise a
  `ValueError`, which `execute()` takes for a path outside the root
  (`filesystem.py:214`): the model answers "outside", too.
- When calls meet on a path (`met` in `Filesystem`) a read may return an empty or
  a half written text, two writes that both succeed may leave a mixture of both
  or a gap, a call that was cancelled may empty the file after it has answered,
  and a move may replace a file a write has just made (`filesystem.py:399-405`).
  `ImplementsAtomic` therefore promises nothing then; `Settled`,
  `NothingVanishes` and `AnswersAccounted` say what is left. A read need not
  have met anyone itself: a file can be moved while it is written, and be read
  half written at its new path by a call that shares no path with the writer.
- Of a move only the destination is decided on by condition
  (`filesystem.py:234-239`); both paths are resources.
- Nothing validates parameters against the schemas of the descriptions
  (`email.py:111-115` says CodeGate does). A parameter that is given as None has
  no condition key in most modules and reaches the backend as the text "None":
  `DecidedIsDone` names this case (`IsNone`).
- `email:read_inbox` without a folder is decided on for the resource "" and reads
  "inbox" (`email.py:181`, `:306`), which `DecidedIsDone` names, too
  (`UnnamedInbox`); every other default is the resource that was decided on.
- Alerting declares severity and source as condition keys of all its tools; they
  are never resolved for acknowledging, escalating and silencing
  (`alerting.py:344-355`).
- The table name of a `DELETE` or `INSERT ... SELECT` is the one behind the first
  `FROM`, which is looked for first (`database.py:381-387`).

## 7. What is not modelled

- `core/llm.py`, `core/agent.py`, `modules/base.py`: Protocols, wiring and data.
  The model is part of the environment of `Turns`.
- Filesystem: symbolic links, permissions, other processes; a write of an empty
  text; a listing is taken
  at one moment (the loop awaits nothing, threads could come in between).
- Adapters: the backends, which are Protocols, are external and answer, raise or
  are cancelled. Values are a kind and tokens; the query language and the range
  that the metrics module resolves are one value each.
- Everywhere: JSON schemas and descriptors of tools, wording of messages,
  parsing of text that no property speaks of, file permissions, wildcard
  matching (`Glob` is a constant), the parsing of numbers (`Num` is a constant).
- External: asyncio, asyncssh, httpx, git, the operating system. They are
  modelled from how the code uses them, as environment actions.

## 8. Plan

Done, in this order: dispatcher; session manager; trimming and turns; gateway;
policies; SSH; shell and git; scm; audit trail; registry; web; filesystem;
adapters.

Next:

1. A composition of `Dispatch` and `AuditLog`: the decisions of a call in a
   trail that may be torn, so that `NoBypass` can be stated of the file.
2. The conditions of `web_api`, `web_browse`, `git`, `shell` and `remote_ssh` in
   the tables of the adapters.
3. Proofs about the composition once it is there.
