# Crucible AI Agents: a verification development

TLA+ models of the Crucible AI Agents platform, checked with TLC, and theorems
about them proved with TLAPS. The platform registers packages of agent code,
runs them as local processes or Docker containers, once, on a schedule or as
daemons, and keeps everything it knows in one PostgreSQL database. Its actors
(API threads, worker processes and their pool and monitor threads, the Docker
engine, the package watcher) share that database, the engine and a directory,
and send each other nothing: what can go wrong is what they write from a state
that has changed since they read it, and what a crash or a failed call leaves
behind. That is what these models are about.

Paths below are relative to the repository's root.

## 1. Inventory

| Component | State | Operations | Interacts through | What is hard |
|---|---|---|---|---|
| Batch runs (`worker/worker.py`, `container_worker.py`, `local_worker.py`) | `runs` rows: status, container_id; a pool of `MAX_CONCURRENT_RUNS` threads | claim, execute (local process or `docker run`), timeout, cleanup, record, reconcile | row locks on `runs`; the Docker engine | claims of several workers; the reconciler judging a row a thread is working on; a crash anywhere; failing `docker` and database calls; row locks held across several rows |
| Daemon runs (`worker/worker.py`, `daemon_manager.py`, `daemon_monitor.py`) | the same rows: container_id, restart_count | auto-start, claim, detached start, poll, restart by policy | `runs` rows, written by three threads from stale reads; containers that outlive the worker | restart racing auto-start; starts that time out after the container is up; a row that is being started taken for a lost one |
| Submission of runs (`api/services/run_service.py`) | inserts `pending` rows; refuses while secrets are missing | create | `runs`, `package_secrets` | none alone |
| Scheduler (`worker/scheduler.py`) | `package_schedules`: last_run_time, next_run_time | tick: due rows, busy check, insert, advance | one transaction per tick against the API's writes | overlap of runs; rows skipped while busy; a failing row in a shared transaction |
| Schedules, secrets, activation (`schedule_service.py`, `secret_service.py`, `package_service.py`) | schedules, secrets, flags in the package's JSON | create, update, activate, deactivate, delete; set, add, update, delete secrets; register | sessions with `autoflush=False` that write the columns they changed | a session's own pending rows are not seen by its queries; stale sessions; two commits in a registration |
| Package watcher (`watcher/package_watcher.py`) | zip files in incoming/archives/failed, deployed directories | scan, validate, register, extract, archive, fail | HTTP to the API, the shared directory | registered but not extracted; an answer that is lost or late; the directory removed under a run; a crash between two steps |
| Package registration (`package_service.py`, `routers/packages.py`) | `agent_packages`: name, manifest, storage_path | register: check of the action, two commits | the watcher's and users' requests | two requests for one name; the row and the directory telling different versions |
| Chat memory (`chat_memory_service.py`, `routers/chat.py`) | stored messages and one summary per conversation | chat turn, cap, summary refresh, TTL prune, forced refresh | the database around LLM calls of seconds | concurrent turns; a turn that fails with a summary made of it; the count the summary compares with at the cap |
| Chat tools, tool registry (`chat_tool_service.py`, `mcp_client_service.py`, `mcp_tool_registry_service.py`) | rows of registered tools and their secrets | a chat plans and calls tools; upsert, delete, sync; set, drop, resolve secrets | the registry's rows; HTTP to the MCP server; a database connection held throughout | what a chat read of the registry is old when it calls; syncs against edits; connections |
| MCP server (`mcp_server/`) | a cache of resolved secrets | serve tools, resources, prompts | HTTP back to the API for a tool's secret | what may be remembered; a request that needs what its caller holds |
| LLM providers (`llm_service.py`, `routers/llm_providers.py`) | `llm_providers` and `llm_credentials` rows | create, update, delete; one request per LLM call | foreign keys from credentials and chat memory | no constraint on names and keys; updates that overlap; deletion under a chat |
| Runner (`runner/platform/`) | none beyond its process | find the program in the package, run it | exit code | which directory it is given |
| API shell, `daemon_service`, bot, frontend, scripts | | request/response | | not modelled (section 8) |

What makes each component correct:

* batch: a run is executed once by its claimant; a recorded end is final and
  true; every run that can end does; no container is left that nobody will
  remove; reconcilers neither deadlock nor end runs that are alive;
* daemons: one active run per package; at most `max_restarts` restarts; a run
  recorded as ended has no running container; an auto-start package always gets
  a run again;
* schedules: scheduled runs of a package do not overlap; a due schedule is
  served; handlers and ticks do not undo each other; a package is on hold only
  while a secret is missing;
* deployment: what the row says and what the directory holds are one version; a
  run gets its own package's code whole; a new file replaces nothing; a file is
  archived or failed;
* providers and tools: names are distinct, an update replaces; a tool that is
  disabled or lacks its secret is not called; chats end;
* chat: the stored turns stay within the cap up to the turns in flight, the newest
  are kept, a summary speaks of nothing that was not stored.

`PROJECT.json` lists every component with its status and every hazard with the
line where it bites and the properties that watch it.

## 2. The modules

| Module | What it is |
|---|---|
| `BatchWorker` | the execution of batch runs by any number of workers |
| `RunQueue` | what those workers promise about the table of runs: the abstract specification `BatchWorker` implements |
| `BatchWorkerProofs`, `DaemonWorkerProofs`, `SchedulesProofs`, `ChatMemoryProofs`, `PackageDeployProofs`, `ChatServicesProofs` | the theorems about each and their proofs (section 4); `ChatServicesProofs` is about `LlmProviders` and `ToolRegistry` as well |
| `DaemonWorker` | daemon runs: main loop, pool threads, monitor thread of one container worker |
| `Schedules` | schedules, secrets and registrations of one package, and the scheduler's ticks |
| `ChatMemory` | the stored messages and the summary of one conversation |
| `PackageDeploy` | a zip's way from the incoming directory to the code a run executes: watcher, API, worker, runner |
| `LlmProviders` | the providers and their credentials, and the requests that write them |
| `ToolRegistry` | the registered tools, their secrets, the requests that write them, and the MCP server's cache |
| `ChatServices` | chat requests among them: composes `LlmProviders` and `ToolRegistry` with the pool of connections |
| `MCBatchWorker`, `MCDaemonWorker`, `MCSchedules`, `MCChatMemory`, `MCPackageDeploy`, `MCChatServices` | constants and bounds of the TLC instances |

The operators named "Mutant of ..." in their comments are not part of the
models: each is a plausible slip in the definition that follows it, and TLC finds
the property named for it in `PROJECT.json` violated once it takes that
definition's place. They document what the properties are able to notice.

### BatchWorker

`runs` is three functions: `status`, `ref` (whether container_id is set; the
name and the id that replaces it are the same container) and `lock` (whose open
transaction has the row). `th[w][r]` is where worker `w`'s thread for run `r` is,
`main[w]` where its loop is; `todo`, `ended`, `seen` and `writes` are the
reconciler's open transaction; `proc`, `ctr` and `code` are the child process,
the container and the program's exit.

* `ClaimSelect`, `ClaimCommit`, `ClaimRollback`: `_claim_next_run_for` with `FOR
  UPDATE SKIP LOCKED`; `Claimable` is its WHERE clause, with deployment and
  disabled packages. The lock on the joined package row only delays a second
  claim and is left out.
* `ReconcileSelect` .. `ReconcileRollback`: `reconcile_batch_container_runs`, one
  transaction that writes row by row while `docker inspect` and `docker rm` run
  in between. A row's lock is held from its UPDATE to the commit; the NULLing
  of container_id goes through a second session and waits for row locks too.
* `ThreadStart`, `LocalSpawn`, `NameContainer`, `DockerRun`, `ResolveId`,
  `StoreId`, `WaitReturns`, `Timeout`, `RecordTimeout`, `RemoveContainer`,
  `ClearContainer`, `Record`: `_run_batch_process`, `_execute_local`,
  `_execute_container` in the order of the code, its `finally` included;
  `ThreadDbError` and `RecordException` are the exceptions of a pool thread.
* `LocalExit`, `ContainerCreate`, `ContainerStart`, `ContainerExit`, `AutoRemove`,
  `ClientReturns`: the program and the engine, outside the repository, as
  `docker run --rm` shows them.
* `Start`, `EnterLoop`, `Crash`: the process. A crash loses its threads and its
  open transaction; containers go on.

Programs end or hang by nondeterminism. The pool's order of queued work is not
kept: any queued execution may get the free slot.

### DaemonWorker

One container worker (as docker-compose.yml deploys) with its loop, its pool and
its monitor. `AutoBegin`, `AutoRead`, `AutoInspect`, `AutoDecide`, `AutoCommit` are
`_enqueue_autostart_daemon_runs`, package by package in one transaction;
`Claim`, `DaemonStart`, `StoreContainer`, `RecordFailure` the claim and the detached
start, where `docker run -d` may fail or time out with the container up;
`MonitorPoll`, `MonitorCheck`, `MonitorFail`, `MonitorEnd`, `MonitorRemove`,
`MonitorStart`, `MonitorStore`, `MonitorDbError` the monitor, which works through
a list of rows (`list`) it read at the start of its poll. `watched`, `row` and `seen`
are what a thread has read and may be out of date.

### Schedules

A request is two steps: one that reads and fills a session with changed columns
(`CreateSchedule`, `UpdateSchedule`, `ActivateSchedule`, `DeactivateSchedule`,
`DeleteSchedule`, `SetSecret`, `AddSecret`, `UpdateSecret`, `DeleteSecret`,
`RegisterPackage`, with a schedule or without, `CreateRun`) and `Commit`, which writes exactly those columns
(`Changed`, `Over`), waits for the scheduler's row locks, and fails when a row it
updates has vanished (`Vanished`, then only `Rollback`). `autoflush=False` is in what
a handler's query sees: `SetSecret` and `UpdateSecret` see their own new value,
`AddSecret` does not see its new row, `DeleteSecret` still sees the deleted one.
The scheduler is `TickSelect` (due rows as of then), per row `TickSkip`, or `TickFire`
(the run's INSERT) and `TickAdvance` (the row's UPDATE, which waits for another
worker's), and `TickCommit`. An SQL error in a row aborts the transaction, so `TickFails`
rolls back; an exception of Python between INSERT and UPDATE does not, and `TickSwallows`
leaves the run without its row's UPDATE. The tick's time is read before its SELECT, and the
clock again for a cron or timestamp row (`Advance`).
`NextRun` is the one computation of next_run_time (interval, cron, timestamp)
both sides share. One package: packages meet only in the rollback of a tick.

### ChatMemory

One conversation with one provider. `memory` holds the ids of its rows of
llm_chat_memory (in the order of created_at, which is set at the flush), `summary` its
rows of llm_chat_summary, each as the set of rows its text was made from
(memory_count is their number). A chat request is `Chat` (memory loaded, the LLM
called), `PersistTurn` (`persist_chat_turn` up to the second call of the LLM: rows
flushed, `BeyondCap` marked for deletion, `Refreshes` decides about a summary) and
`CommitTurn` (summary written, session committed); `Rollback` is every failure.
`Seen` is what a query of the session returns: committed rows and its own flushed
ones, those marked for deletion included, since `autoflush=False`. `ForceRefresh`,
`CommitForced` and `Prune` are the other routes that write.

### PackageDeploy

`place` is where each zip is, `watcher` the watcher's place in its scan (`todo` the
rest of its listing, `asks` the API thread it waits for), `handler` the API's
threads that serve a registration, `row` the package's row (`of` the manifest it
was last written from), `code` the deployed directory and `run` the runs.

* `Drop`, `FinishCopy`, `Withdraw`, `Post`: users. A copy that is under way may have
  the same size twice and be taken for complete.
* `CheckAction`, `CommitMetadata`, `CommitPath`: `register_package` of the API, which
  commits twice; `ApiError` is a refusal, the rate limit or a statement that raises,
  `ApiCrash` the process.
* `List`, `Take`, `Validate`, `Register`, `Registered`, `AnswerLost`, `Clear`, `Make`,
  `Extract`, `Archive`, `MoveToFailed`: `scan_incoming_directory` and
  `process_package` in their order; `Refuse` is every check or call that ends a step
  with a failure, `MoveFails` a move that raises and the one retry there is, `Crash`
  and `Start` the process. Removal and extraction take two steps each, so that a run
  can see them halfway.
* `Create`, `Resolve` and `Execute`: the run is created with its package's runtime mode,
  which it keeps; when it is claimed, the worker takes that mode and the package's
  deployment of the moment (`RunMode`), a directory (`Directory`, `Workspaces` with its
  fallbacks) and the program the local worker or the runner finds there (`Programs`).

`lost` and `settled` are history: the packages of a registration whose answer the watcher
did not wait for, and the one archived file a run's package had when it was looked up and
when it ran.

### LlmProviders, ToolRegistry, ChatServices

Both of the first are tables and the requests that write them, each request a session:
it reads (`OpenCreate`, `OpenUpdate`, `OpenDelete`; `BeginUpsert`, `BeginOn`,
`BeginSync`), and commits what it changed in a later step (`CommitCreate` ...
`CommitSync`), or fails. In an update of a provider the lookup of the name and the
deletion of the credentials lie between (`CheckUpdate`). Credentials are the number of
the request that stored them, so that those of two requests can be told apart; a row
and a secret of the registry likewise, so that a session does not write into one that
was made anew. `Conflict`, `Replaced`, `Referenced`, `Refused`, `Resolves` and
`Remember` are the questions the code asks.

`ChatServices` EXTENDS both. `turn` is a chat request: `StartTurn`, `ReadCredentials`,
`List`, `Plan`, `ReadStatus`, `NextTool` per tool, the call (`UseRemembered`,
`Resolve`, `ResolveFails`, `CallFails`), `Answer`, `Store`, `CommitTurn`. Every
session, a chat's, an administrator's or the one that resolves a secret, needs one of
`pool` connections (`Free`). `Administer` lets the administrators' requests run among
the turns; deleting a provider waits for the row that `Store` has locked and is
refused when the memory refers to it. `Prune` is the route that deletes old memory, any of
it: afterwards the provider can be deleted. A turn keeps in `pruned` (history) whether
its provider's memory has been pruned since it was stored. The conversation itself is in
`ChatMemory`.

## 3. The runs

Every instance is small enough to be explored completely.

| Run | Instance | Shows |
|---|---|---|
| `batch_locks` | 2 container workers, 2 runs, one timed, two pool slots; any statement or commit of a reconciliation may raise; the second worker only reconciles, and the second run hangs in `docker run` before its container is made | a run is claimed once (`ClaimedOnce`); reconcilers and their second sessions never wait in a cycle (`NoLockCycle`); every live container has an execution that will remove it or a row that names it (`ContainerAccounted`); the workers implement `RunQueue` (`ImplementsQueue`); types. Two reconcilers and two rows in status running at once are what a cycle needs: both runs are claimed and running here, so that each reconciler can write one row and wait for the other's, and with a SELECT without its ORDER BY TLC finds them doing so |
| `batch_mixed` | a worker for all deployments and a local one, 2 runs, 2 crashes, all faults | recorded ends are final (`TerminalFinal`) and true (`CompletedIsTrue`). No container worker here: with a reconciler both fail, see section 7 |
| `batch_live` | 1 worker, 2 timed runs, 1 pool slot, 1 crash, failing inspect | every run ends although programs may hang (`EveryRunEnds`) and containers are reclaimed (`ContainersReclaimed`) where no crash happens; after a crash a run that was lost while its row named its container is ended and ended rows lose the reference (`LeftoversReconciled`). Two runs on one slot: the second waits |
| `batch_stale_verdict` | 1 worker, 2 runs | *violated*: `ReconcilesOnlyStale` |
| `daemon_ends` | 1 package, on-failure, 2 runs, 2 containers, 1 submission; starts, inspections and database calls fail | a run is completed or stopped only when its containers are dead, and completed only with exit code 0 (`EndedIsDead`) |
| `daemon_live` | 2 runs, 3 containers, 1 crash, failing rm | at most `1 + max_restarts` containers per run (`RestartBudget`); `AlwaysEnqueued`, `ExitNoticed`, `LostIsFailed` |
| `daemon_two_runs` | as above, no faults | *violated*: `OneActiveRun` |
| `schedules` | 2 handler threads (a request goes to the first free one: `InOrder`), 2 requests, 2 schedules, 1 key and 2 secret rows, intervals, 3 instants, 1 error of the scheduler; the package starts with an active schedule, one on hold, or none | scheduled runs never overlap (`NoOverlap`), a stale session does not undo a tick (`LastRunKept`), a due schedule does not stay due (`DueIsServed`). Two requests: a second schedule and one to interfere, or two that interfere with the schedule that is there; three instants: an interval fires twice. Cron and timestamp rows are in the module and its theorems, not in this instance |
| `schedules_blocked` | 1 thread, 3 requests, 1 schedule | *violated*: `BlockedIsMissing`, by deleting the secret and adding it again |
| `chat` | 2 threads, 5 messages, a cap and a trigger of one turn, 2 summaries | the cap is exceeded by at most one turn for the other thread (`CapBound`) and never costs one of the newest messages (`NewestKept`); a summary is made from stored rows only (`SummaryOfStored`). Five messages: a full conversation, and two overlapping turns that pass the cap together |
| `deploy` | 2 packages, 3 zips (a new one that is copied, an update of it to a daemon, a nested one already deployed as a daemon), 1 registration by hand, 2 API threads, 1 run created at any time, 1 fault | the archived file a row was written from is the code (`ArchivedIsServed`), runs of a settled package execute it and nothing else (`SettledRunsServe`), a file with action new disturbs no deployed code (`NewNeverReplaces`), each file ends in archives or failed (`EveryDropEnds`). The update changes deployment and runtime mode between a run's creation and its claim. The other package is what a wrong directory would hold; one fault at every place |
| `chat_services` | 2 ids and 2 kinds of provider, one of which needs a key and starts with the credentials of two requests that overlapped; 2 administrators' threads for providers and 2 for tools with 4 requests between them, 1 tool, 1 chat with up to 2 calls, pools of 1 and 3 connections, 1 restart of the MCP server, any prunes of the memory | `NamesDistinctUnlessRaced`, `AloneReplaces`, `DisabledStays`, `AnsweredIsStored`, `BarredNotCalled`, `FallsBackOnlyWithout`, `TurnsAnswer`. Four requests: register and disable a tool around a sync, or store a secret between two calls; with one connection every request for a secret finds none |

Deadlock is checked everywhere but in `deploy` and `chat_services`, which end when
every zip, registration, run, request and turn is used up. Bounds that stand in guards
are named constants (`MaxCrashes`, `MaxFaults`, `MaxWrites`, `MaxEdits`, `MaxChanges`,
`MaxRestarts`, `MaxTools`, `MaxRuns`, `MaxContainers`, `MaxSubmissions`,
`MaxRequests`, `MaxErrors`, `MaxTime`, `MaxId`, and the set `Runs`);
`SecondOnlyReconciles` and `SecondRunHangs` are the state constraints, `InOrder`, which
only names the threads, the one action constraint. `InspectMayFail`, `RmMayFail`,
`TxMayFail` (the reconciler's transaction), `DbMayFail` (all other sessions),
`StartMayFail` switch a kind of failure on for the whole run: a failure may then
happen at any such call, any number of times.

### Fairness

* A worker that is up goes on with its loop; claiming and reconciling (or
  auto-starting) are each retried for ever, since the loop does both by its clock:
  SF on the steps that begin them, WF on the steps that finish them.
* Pool threads, the monitor and the engine go on.
* A program need not end (`FairSpec`), so `EveryRunEnds` rests on the timeouts.
* Nothing restarts a dead worker (its service in docker-compose.yml has no restart
  policy): liveness is stated under the premise `StaysUp`, that from some
  moment on the workers stay up.
* `PackageDeploy!FairSpec`: the watcher's loop and the API's threads go on while they
  are up. Nothing restarts the watcher either, so `EveryDropEnds` allows a dead one,
  and nothing is assumed of users.
* `ChatServices!FairSpec`: a chat's thread goes on, since the LLM, the MCP server and
  the secret are each waited for with a timeout. Nothing is assumed of administrators,
  whose requests may hold connections for ever.
* `Schedules!FairSpec`: the loop ticks and every run ends (which `EveryRunEnds` shows of
  timed batch runs). Nothing is assumed of the handlers. With two schedules of
  one package whose runs fill all the time there is, the code promises neither
  its turn, since the due rows are not ordered; the finite clock leaves that out.
  Intervals are positive in the run: one of zero seconds is due again at once.

## 4. What is proved

Every safety property the passing runs check is also a theorem, for every value of
the constants: sets of any size, any bound, any combination of the switches for
failures. Each module's proofs are in `<module>Proofs`, from the assumption on its
constants alone unless a hypothesis is named below. The layout is the same
throughout: definitions of the invariant's named parts, one lemma per action or
group of actions, `...Init` and `...Next` (or `...Step`) that put them together,
and the theorems at the end. Every invariant was checked by TLC on an instance
with failures before it was proved.

| Theorem | States | Hypotheses |
|---|---|---|
| `BatchWorkerProofs!TypeCorrect` | `TypeOK` | |
| `ClaimsAreExclusive` | `ClaimedOnce` | |
| `ReconcilersDoNotDeadlock` | `NoLockCycle` | |
| `WorkersImplementQueue` | `ImplementsQueue` | |
| `EndsAreFinal` | `TerminalFinal` | no worker reconciles (`NoContainerWorker`) |
| `CompletedRunsSucceeded` | `CompletedIsTrue` | no worker reconciles |
| `ContainersAreAccounted` | `ContainerAccounted` | docker rm works, and either no worker dies and no thread's session fails, or no worker reconciles |
| `DaemonWorkerProofs!TypeCorrect` | `TypeOK` | |
| `EndedRunsAreDead` | `EndedIsDead` | docker rm works |
| `RestartsAreBounded` | `RestartBudget` | docker rm works, or no worker dies and no session fails |
| `SchedulesProofs!TypeCorrect` | `TypeOK` | |
| `OwnRunsDoNotOverlap` | `NoOverlap` | one worker |
| `LastRunStays` | `LastRunKept` | one worker |
| `ChatMemoryProofs!TypeCorrect` | `TypeOK` | |
| `CapHolds` | `CapBound` | |
| `SummariesAreOfStored` | `SummaryOfStored` | |
| `NewestStay` | `NewestKept` | |
| `PackageDeployProofs!TypeCorrect` | `TypeOK` | |
| `ArchivedServed` | `ArchivedIsServed` | |
| `SettledRunsAreServed` | `SettledRunsServe` | |
| `NewReplacesNothing` | `NewNeverReplaces` | |
| `ChatServicesProofs!TypeCorrect` | `TypeOK` | |
| `NamesStayDistinct` | `NamesDistinctUnlessRaced` | |
| `LoneUpdatesReplace` | `AloneReplaces` | |
| `DisabledToolsStay` | `DisabledStays` | |
| `AnswersAreStored` | `AnsweredIsStored` | |
| `BarredAreNotCalled` | `BarredNotCalled` | |
| `EnvironmentIsExcused` | `FallsBackOnlyWithout` | |

The hypotheses are not there for the prover: without them the property is false,
and TLC shows how (sections 6 and 7). They are what the runs assume too, with one
exception. `daemon_live` checks `RestartBudget` with a worker that dies and a docker
rm that fails, outside the theorem: there the package starts automatically, and the
recovery at start-up fails the run whose restart was not counted before
the monitor sees it again.

### BatchWorker

`ClaimedOnce` is not inductive. Nothing in it keeps a claim's UPDATE from finding the
row already taken, so the invariant `ClaimInv` explains every lock: a locked row is
either the pending row its worker is claiming, or one its reconciler has
written (`LocksExplained`); a run that is unclaimed has left no trace in any thread,
any reconciler's list or any uncommitted write (`NoTrace`); a run has one
owner (`OneOwner`). For the locks, `WritesInOrder` says that a reconciler has
written only rows before those it still looks at, because it takes them in the
order of their ids: two reconcilers that waited for each other would each hold a
row before the other's. `DecidesRunning` is that a verdict is written only on a
row that was running in the SELECT, hence on a claimed one, which makes the
reconciler's commit an `End` of the queue. `WorkersImplementQueue` then takes every
step of the workers to a submission, a claim, an end of a set of runs, or a stutter of
`RunQueue`.

What a thread records and leaves behind needs the engine as well. `ThreadMove` sums
up the fifteen steps a thread has as one relation between a run's place, row, child
process and container before and after, so that each later lemma is a case analysis
over that table. `EngineAgrees` ties the place to the child process and it to the
container (a thread that cleans up has seen its child end). Where nobody
reconciles (`NoReconciling`, which stays so), `StatusAgrees` gives the status each place
of the thread leaves the row in, and for a completed one the exit code: that is
`TerminalFinal` and `CompletedIsTrue`. `ContainerAccounted` follows in two ways:
from `Supervised`, when threads survive, a live container has a thread that is going to
remove it; from `Referenced`, when nobody else writes, it has a row that names it. TLC
violates it with one run, a reconciler and any one of the three faults, and without a
reconciler with a docker rm that fails.

### DaemonWorker

`DaemonInv` says how far the copies that threads work from can be out of date: what
the main loop has read was claimed (`MainReads`); the rows of the monitor have not been
restarted since it read them, none of them had ended, and a container id in
them is the row's (`MonitorReads`, `MonitorDoes`); a container has the run it was started
for (`Engine`), ids are given out in order (`IdsInOrder`) and a run is claimed once
(`Claims`). A run that ended names the container whose exit was seen (`EndedSeen`), but
`EndedIsDead` is about all its containers: each that may be up is the row's, its thread's
or the monitor's (`UpKnown`), or the run is `Doomed`: the container its row names, if any,
is gone, so that the monitor finds it missing and neither ends it as stopped nor
restarts it. `RestartBudget` counts: a run has at most one container more than its row's
restarts, or two while it is `Spent` (`Counted`), and a spent run gets no other: docker rm
having worked, the container its row names is gone; or, where nothing dies or raises, the
monitor still has the run or has seen it fail and will not see it again. Both arguments
need that a restart which was not counted leaves no exited container behind for the
monitor to find again; with a docker rm that fails TLC breaks both properties with three
containers of one run.

### Schedules

Types are the hard part here, since a session is a partial function from columns to
values: `TypeInv` adds that each session writes values of the column's type to columns
it may write, which makes `Over` give back a row (`WrittenSchedule`, `WrittenSecret`,
`WrittenPackage`). Configurations are any natural intervals and timestamps.
`AloneInv`, that a tick inserts at most one run and only while the
package has none, makes `NoOverlap` inductive for one worker; with two, TLC lets both
insert a run before either commits, and the wait for the row's lock in between does not help,
since the check for an active run came before it. `ClockInv` says that a tick's reading of the clock is at
least as late as every last_run_time of the table, so that a commit of a tick never
takes one back; that a handler does not either is in `TypeInv`, where only a deletion
touches last_run_time.

### ChatMemory

`CapBound` is a bound on a committed state, and the session that breaks it decided
about it long before. `CommitBound` bounds what each open session would leave if
it committed now: the cap, and one turn for each other thread less those that flushed
before it and are still open (`Earlier`), for these the session could not see but
they have not committed either. Sessions are in the order of their flushes
(`FlushedInOrder`), which decides between two of them whose rows each has seen.
`DoomedAreOld` keeps, of every session that deletes, that it has seen `2 * MaxTurns`
newer rows than any it deletes, which is `NewestKept`. `CapCaps` is the lemma about
`BeyondCap` that both rest on.

### PackageDeploy

`DeployInv` follows a file through the watcher and the API's threads. `FileHeld`: nobody
but the watcher moves the file it holds; `Asked` and `HandlersKnown`: it waits for the
thread that serves that file, and a thread that serves a file nobody waits for serves
a package that is in `lost`; `Through` and `RowClaimed`: once the registration went
through, the row is the file's or a later request's by hand, until the file is
archived; `Extracted`: a file about to be archived is the code. Together they make
`ArchivedIsServed` inductive. `Checks` and `NewIsFirst` are that a "new" file passed its
check with no row and therefore with no code, the latter because code has a row
(`RowsKnown`). `ResolvedThere` is that a settled package's run was given its own
directory.

### LlmProviders, ToolRegistry, ChatServices

`ServicesInv` is `ProvidersInv /\ RegistryInv /\ TurnsInv`. The first two say that
requests which overlap know it (`TheyKnow`, `RivalsKnow`); what one that overlaps no other
has read is still so when it commits: its name is not another's (`Looked`), the
credentials it deleted are all there were (`AllGone`), the tool's row is as it was
unless it was replaced (`StillSo`), which `IdsDiffer` tells. `TurnsInv` holds of every
chat (`Sound`): a tool being called was let through, one that does without its secret
has its excuse recorded, and a turn that is being stored has its provider,
which the row lock of the insertion keeps from deletion.

### What is only model-checked

* Liveness (`EveryRunEnds`, `ContainersReclaimed`, `LeftoversReconciled`, `AlwaysEnqueued`,
  `ExitNoticed`, `LostIsFailed`, `DueIsServed`, `EveryDropEnds`, `TurnsAnswer`): the proof
  system reasons neither about ENABLED nor, with the provers at hand, by induction on
  what is left to do, and both are needed to use fairness.
* That `ReconcilesOnlyStale`, `OneActiveRun` and `BlockedIsMissing` fail: a counterexample
  is TLC's to give.
* Reconciliation against `TerminalFinal`, `CompletedIsTrue` (false with it) and, with
  crashes, against `ContainerAccounted` (false as well: section 6).

## 5. Disagreements between the code and what it says

* `batch_stale_verdict`: the reconciler ends a run as stale though its thread has
  just stored the container's name and is about to start it
  (worker/worker.py:441, comment at :440).
* `daemon_two_runs`: while the monitor replaces an exited container the row still
  names the old one; auto-start fails it and enqueues another run, and the
  monitor's UPDATE then makes the failed row running again
  (worker/daemon_monitor.py:137; the test at api/tests/test_worker_lifecycle.py:380
  calls auto-start idempotent).
* `schedules_blocked`: a required secret set as a new row is not seen by the query
  that decides about activation, and the package stays on hold
  (api/services/secret_service.py:119; api/tests/test_schedules.py:138 covers only
  the provisioned row).

## 6. Known behaviours without a run

Met while modelling, in the models, without a property that names them:

* a worker that dies between clearing container_id and recording the end leaves a
  running row no reconciler looks at (worker/worker.py:851, :856-861);
* a container whose `docker rm` fails is forgotten, for the reference is cleared
  all the same (worker/worker.py:850);
* after the last restart a daemon is `stopped`, where docs/DAEMON_SECURITY.md:141
  says failed; auto-start enqueues a package again under every restart policy;
* `max_restarts` is exceeded when docker rm of the exited container fails and the worker
  dies, or a statement raises, between the monitor's `docker run` and its UPDATE: the row
  still names the exited container, which is restarted again. So may a container stay up
  whose run is then recorded as stopped;
* two workers of one deployment can both insert a run for a due schedule
  (worker/scheduler.py:99 promises one; `NoOverlap` is checked with one);
* an exception of Python between a run's INSERT and its schedule's UPDATE (a
  `schedule_config` that is not JSON, an `interval_seconds` that is no number) is swallowed
  and the run is committed: the schedule stays due and is served again as soon as its run
  has ended (worker/scheduler.py:166-169, :193). So does an interval of zero, which nothing
  refuses (api/schemas/schedules.py:6);
* a provider whose memory was pruned can be deleted, though its chats were answered
  (api/services/chat_memory_service.py:211): what a conversation's later turn finds
  is what `AnsweredIsStored` excepts with `pruned`;
* a daemon run whose package has become local by the time it is claimed fails
  (worker/worker.py:989);
* a timestamp schedule whose package is busy at its time is dropped by the next
  write of a secret (NULL); a schedule the user deactivated is activated by it;
* the API's field is `cron_expression` (api/schemas/schedules.py), the code reads
  `cron_expr`: a cron schedule made through the API runs at midnight;
* once a conversation is full, every turn sees `2 * MaxTurns + 2` rows, so the
  summary, refreshed when the number of rows has grown by two since
  (api/services/chat_memory_service.py:329), is never refreshed again but by force;
* two turns that make the first summary of a conversation at once insert one each,
  and every later query takes any of them; a prune that deletes the summary
  while a turn is making a newer text fails that turn;
* README.md:126-139 registers a package with a request and then drops its zip: a
  manifest without an action is "new", the API refuses the name it knows, and the zip
  ends in failed (api/services/package_service.py:297). The package stays without a
  directory; a run of it in a container gets the directory of all packages
  (worker/worker.py:591), where the runner takes the manifest that lies least deep,
  another package's;
* a registration whose answer came too late is not undone: the row names a file that is in
  failed, or an older file's code is served under a newer file's row;
* a "new" zip whose watcher dies between extraction and archiving is refused after the
  restart and ends in failed, although its code is deployed;
* a name with blanks around it: the API strips it for storage_path, the watcher does
  not for the directory (watcher/package_watcher.py:418, :230);
* two overlapping creations give two providers one name, and from then on every update of
  either is answered with 409; overlapping updates leave the credentials of both;
* an upsert writes only the columns that differ from what it read: one that disables a
  tool that was read as disabled does not undo an upsert in between; a deleted tool
  may be called again, for chats let a tool pass that is not registered;
* a changed or deleted secret is used until the MCP server restarts
  (mcp_server/secret_resolver.py:30);
* chats that hold all connections of the pool let the requests for their tools'
  secrets time out, and the tools run with what the environment has.

## 7. Why TerminalFinal and CompletedIsTrue need `batch_mixed`

With a reconciler they are false: a container that `docker run` has created and
not yet started is inspected as not running with exit code 0, the row is recorded as
completed, and the thread's own record overwrites it later. `batch_stale_verdict`
shows the step where this begins. Without a reconciler they hold through every
crash and failure, which is what the run checks and what `EndsAreFinal` and
`CompletedRunsSucceeded` prove of every deployment whose workers do not reconcile.

## 8. Not modelled

* Negative intervals (nothing refuses them either): such a row is due for ever. What a
  secret's value is: that another value was stored over it is a write without a change,
  and no property speaks of values.
* Run logs and events, metrics, logging, formatting; the graceful shutdown on
  KeyboardInterrupt. The `disabled` flag is a constant: nothing writes it. No code
  writes the statuses cancelled, stopped or timed_out for batch runs.
* Daemons on the local deployment (worker/worker.py:989-1000 refuses them) and
  health checks (`health_check_config` is never set).
* The schedules of a package that is registered for the first time, and
  `_load_scheduled_packages`, which nothing calls. A handler's queries are one step,
  and so are the first commit of a registration and the reads that follow it.
* The runner's dependencies and environment, what tools and the LLM's payloads
  contain, the listing of models, a tool called directly, MCP resources and prompts,
  the bot, API routing, encryption, table definitions beyond their columns and keys,
  `daemon_service` (called by nothing), the frontend, scripts and examples: no shared
  state, or single calls.
* A manifest is one value: hashes, versions and the other columns are written like the
  one that is kept. A zip that names a symbolic link or leaves its directory is
  refused by `Refuse`, like any other.
* Requests that name only one of a conversation's two ids (they see the rows of
  several pairs). In `PersistTurn` the statements between the flush and the second
  call of the LLM are one step.

## 9. Plan

In the order of importance:

1. `BatchWorker`, `RunQueue`, `BatchWorkerProofs`, `DaemonWorker`, `Schedules`: done.
2. `ChatMemory`: done.
3. `PackageDeploy`: done, with the API's registration, the worker and the runner.
4. `LlmProviders`, `ToolRegistry`, `ChatServices`: done.
5. A theorem for every safety property a passing run checks: done.
6. Refinements: `Schedules` as an instance of a two-state "on hold / ready" machine per
   package, `DaemonWorker` as a supervisor that gives a run a bounded number of containers,
   `PackageDeploy` as a directory in which versions are replaced whole; each first as a
   property of its run, then as a theorem by mapping steps, as `WorkersImplementQueue`
   does.
7. `OneActiveRun` where the monitor restarts nothing, and `RestartBudget` with a
   docker rm that fails for packages that start automatically.
