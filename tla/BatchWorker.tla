---------------------------- MODULE BatchWorker ----------------------------
(***************************************************************************)
(* The execution of batch runs by the worker processes (worker/worker.py,   *)
(* worker/container_worker.py, worker/local_worker.py).                     *)
(*                                                                          *)
(* Three kinds of actors share the table of runs and the Docker engine:     *)
(*   - the main loop of each worker, which claims runs and, in the          *)
(*     container worker, reconciles the rows that name a container;         *)
(*   - the pool threads, each executing one claimed run;                    *)
(*   - the child processes and containers, which end when they like.        *)
(*                                                                          *)
(* A transaction of several statements holds its row locks from its first   *)
(* write to its commit, and is a sequence of steps here; a transaction of   *)
(* one UPDATE is one step that waits until nobody holds the row.            *)
(***************************************************************************)
EXTENDS Integers, FiniteSets

CONSTANTS
    Runs,           \* ids of the runs that may be created, a finite set of naturals
    Workers,        \* the worker processes
    NoWorker,       \* "nobody holds this row lock"
    Kind,           \* Kind[w]: which main() the process runs
    Deployment,     \* Deployment[r]: the deployment of the run's package
    Disabled,       \* runs whose package has disabled = true
    Timed,          \* runs with a non-zero timeout
    MaxThreads,     \* MAX_CONCURRENT_RUNS
    MaxCrashes,     \* bound on the crashes a behaviour contains
    InspectMayFail, \* docker inspect may fail on a container that exists
    RmMayFail,      \* docker rm -f may fail or time out
    DbMayFail,      \* a statement of a claim or of a pool thread may raise
    TxMayFail       \* a statement or the commit of a reconciliation may raise

ASSUME BatchAssumption ==
    /\ Runs \subseteq Nat /\ IsFiniteSet(Runs)
    /\ NoWorker \notin Workers
    /\ Kind \in [Workers -> {"local", "container", "any"}]
    /\ Deployment \in [Runs -> {"local", "container"}]
    /\ Disabled \subseteq Runs /\ Timed \subseteq Runs
    /\ MaxThreads \in Nat \ {0} /\ MaxCrashes \in Nat
    /\ {InspectMayFail, RmMayFail, DbMayFail, TxMayFail} \subseteq BOOLEAN

VARIABLES
    status,   \* runs.status
    ref,      \* runs.container_id is not NULL
    lock,     \* the worker whose open transaction has locked the row
    proc,     \* the run's child process: docker run, or the local entrypoint
    ctr,      \* the run's container, as the Docker engine has it
    code,     \* how the package's program ended
    main,     \* where each main loop is
    booting,  \* the loop is still in the part of main() before the while
    todo,     \* rows of the reconciler's SELECT it has not dealt with
    ended,    \* those of its rows that were terminal in that SELECT
    seen,     \* what its docker inspect of the current row returned
    writes,   \* status updates of its open transaction
    th,       \* where each worker's execution of each run is
    crashes   \* crashes so far

rowVars    == <<status, ref, lock>>
dockerVars == <<proc, ctr, code>>
recVars    == <<todo, ended, seen, writes>>
mainVars   == <<main, booting, recVars>>
vars       == <<rowVars, dockerVars, mainVars, th, crashes>>

-----------------------------------------------------------------------------
Terminal == {"completed", "failed"}
Status   == {"absent", "pending", "running"} \cup Terminal

ReconcileSteps == {"inspect", "decide", "remove", "clear"}
MainSteps      == {"down", "boot", "idle", "claiming", "busy"} \cup ReconcileSteps

\* The part of the execution that still has its cleanup ahead.
Supervising == {"named", "spawned", "found", "waiting", "timedout", "rm", "rmT", "rmX"}
ThreadSteps ==
    Supervising \cup {"begin", "clear", "clearT", "clearX", "record", "failing"}
Execution   == ThreadSteps \cup {"none", "queued", "done", "lost"}

NoWrites == [r \in Runs |-> "none"]

TypeOK ==
    /\ status \in [Runs -> Status]
    /\ ref \in [Runs -> BOOLEAN]
    /\ lock \in [Runs -> Workers \cup {NoWorker}]
    /\ proc \in [Runs -> {"none", "up", "killed", "done"}]
    /\ ctr \in [Runs -> {"none", "created", "up", "exited", "gone"}]
    /\ code \in [Runs -> {"none", "ok", "bad"}]
    /\ main \in [Workers -> MainSteps]
    /\ booting \in [Workers -> BOOLEAN]
    /\ todo \in [Workers -> SUBSET Runs]
    /\ ended \in [Workers -> SUBSET Runs]
    /\ seen \in [Workers -> {"missing", "zero", "nonzero"}]
    /\ writes \in [Workers -> [Runs -> Terminal \cup {"none"}]]
    /\ th \in [Workers -> [Runs -> Execution]]
    /\ crashes \in Nat

Init ==
    /\ status = [r \in Runs |-> "absent"]
    /\ ref = [r \in Runs |-> FALSE]
    /\ lock = [r \in Runs |-> NoWorker]
    /\ proc = [r \in Runs |-> "none"]
    /\ ctr = [r \in Runs |-> "none"]
    /\ code = [r \in Runs |-> "none"]
    /\ main = [w \in Workers |-> "down"]
    /\ booting = [w \in Workers |-> FALSE]
    /\ todo = [w \in Workers |-> {}]
    /\ ended = [w \in Workers |-> {}]
    /\ seen = [w \in Workers |-> "missing"]
    /\ writes = [w \in Workers |-> NoWrites]
    /\ th = [w \in Workers |-> [r \in Runs |-> "none"]]
    /\ crashes = 0

-----------------------------------------------------------------------------
(* Helpers *)

Free(r)         == lock[r] = NoWorker
Goto(w, r, pc)  == th' = [th EXCEPT ![w][r] = pc]
First(S)        == {r \in S : \A s \in S : r <= s}
InContainer(r)  == Deployment[r] = "container"

\* docker rm -f: a container in any state disappears, a running one is killed.
Removed(r) ==
    /\ ctr' = [ctr EXCEPT ![r] = IF @ = "none" THEN @ ELSE "gone"]
    /\ code' = [code EXCEPT ![r] = IF ctr[r] = "up" THEN "bad" ELSE @]

DockerRemove(r) ==
    /\ \/ Removed(r)
       \/ RmMayFail /\ UNCHANGED <<ctr, code>>
    /\ UNCHANGED proc

\* What docker inspect returns for the row's container: a container that was
\* created but not started reports Running false and ExitCode 0.
Inspection(r) ==
    CASE ctr[r] \in {"none", "gone"} -> "missing"
      [] ctr[r] = "up" -> "up"
      [] ctr[r] = "created" -> "zero"
      [] ctr[r] = "exited" -> IF code[r] = "ok" THEN "zero" ELSE "nonzero"

-----------------------------------------------------------------------------
(* Submission of a run, by the API or by a worker's scheduler. *)

CreateRun(r) ==
    /\ status[r] = "absent"
    /\ \A s \in Runs : s < r => status[s] # "absent"
    /\ status' = [status EXCEPT ![r] = "pending"]
    /\ UNCHANGED <<ref, lock, dockerVars, mainVars, th, crashes>>

-----------------------------------------------------------------------------
(* The main loop: start, claim, wait. *)

Start(w) ==
    /\ main[w] = "down"
    /\ main' = [main EXCEPT ![w] = "boot"]
    /\ booting' = [booting EXCEPT ![w] = TRUE]
    /\ UNCHANGED <<rowVars, dockerVars, recVars, th, crashes>>

\* Only the container worker reconciles before its loop.
EnterLoop(w) ==
    /\ main[w] = "boot"
    /\ Kind[w] # "container"
    /\ main' = [main EXCEPT ![w] = "idle"]
    /\ booting' = [booting EXCEPT ![w] = FALSE]
    /\ UNCHANGED <<rowVars, dockerVars, recVars, th, crashes>>

\* Mutant of Claimable: a run left running by a dead worker is claimed again.
RetriesRunning(w) ==
    {r \in Runs : /\ status[r] \in {"pending", "running"}
                  /\ Free(r)
                  /\ r \notin Disabled
                  /\ Kind[w] \in {"any", Deployment[r]}}

Claimable(w) ==
    {r \in Runs : /\ status[r] = "pending"
                  /\ Free(r)
                  /\ r \notin Disabled
                  /\ Kind[w] \in {"any", Deployment[r]}}

\* SELECT ... ORDER BY r.id LIMIT 1 FOR UPDATE SKIP LOCKED.
ClaimSelect(w) ==
    /\ main[w] = "idle"
    /\ \E r \in First(Claimable(w)) : lock' = [lock EXCEPT ![r] = w]
    /\ main' = [main EXCEPT ![w] = "claiming"]
    /\ UNCHANGED <<status, ref, dockerVars, booting, recVars, th, crashes>>

\* UPDATE and commit, then hand the run to the pool; the local worker
\* executes it in its own loop.
ClaimCommit(w) ==
    /\ main[w] = "claiming"
    /\ \E r \in Runs :
          /\ lock[r] = w
          /\ lock' = [lock EXCEPT ![r] = NoWorker]
          /\ status' = [status EXCEPT ![r] = "running"]
          /\ Goto(w, r, IF Kind[w] = "local" THEN "begin" ELSE "queued")
    /\ main' = [main EXCEPT ![w] = IF Kind[w] = "local" THEN "busy" ELSE "idle"]
    /\ UNCHANGED <<ref, dockerVars, booting, recVars, crashes>>

ClaimRollback(w) ==
    /\ DbMayFail
    /\ main[w] = "claiming"
    /\ lock' = [r \in Runs |-> IF lock[r] = w THEN NoWorker ELSE lock[r]]
    /\ main' = [main EXCEPT ![w] = "idle"]
    /\ UNCHANGED <<status, ref, dockerVars, booting, recVars, th, crashes>>

\* Mutant of Active: an ended execution keeps its slot of the pool.
SlotsNeverFreed(w) == {r \in Runs : th[w][r] \in ThreadSteps \cup {"done"}}

Active(w) == {r \in Runs : th[w][r] \in ThreadSteps}

\* The local worker's call of _execute_run returns.
LocalReturn(w) ==
    /\ main[w] = "busy"
    /\ Active(w) = {}
    /\ main' = [main EXCEPT ![w] = "idle"]
    /\ UNCHANGED <<rowVars, dockerVars, booting, recVars, th, crashes>>

\* Nothing to claim: sleep POLL_SECONDS.
Poll(w) ==
    /\ main[w] = "idle"
    /\ Claimable(w) = {}
    /\ UNCHANGED vars

-----------------------------------------------------------------------------
(* Reconciliation, in the main loop of the container worker: one SELECT,    *)
(* then each row in the order of its id, all in one transaction.            *)

\* Mutant of Tracked: rows that have ended are left alone.
TracksRunningOnly == {r \in Runs : InContainer(r) /\ ref[r] /\ status[r] = "running"}

Tracked == {r \in Runs : InContainer(r) /\ ref[r]}

ReconcileSelect(w) ==
    /\ Kind[w] = "container"
    /\ main[w] \in {"boot", "idle"}
    /\ main' = [main EXCEPT ![w] = "inspect"]
    /\ todo' = [todo EXCEPT ![w] = Tracked]
    /\ ended' = [ended EXCEPT ![w] = {r \in Tracked : status[r] \in Terminal}]
    /\ UNCHANGED <<rowVars, dockerVars, booting, seen, writes, th, crashes>>

\* Mutant of Row: no ORDER BY, so that two workers may meet the rows in
\* opposite orders.
Unordered(w) ==
    IF w = CHOOSE v \in Workers : TRUE THEN First(todo[w])
    ELSE {r \in todo[w] : \A s \in todo[w] : s <= r}

\* ORDER BY r.id ASC: the row the loop is at.
Row(w) == First(todo[w])

\* The row is dealt with (its inspection is forgotten).
NextRow(w, r) ==
    /\ todo' = [todo EXCEPT ![w] = @ \ {r}]
    /\ ended' = [ended EXCEPT ![w] = @ \ {r}]
    /\ main' = [main EXCEPT ![w] = "inspect"]

Forget(w) == seen' = [seen EXCEPT ![w] = "missing"]

\* A container that runs, of a row that was running, is left alone.
ReconcileInspect(w) ==
    /\ main[w] = "inspect"
    /\ \E r \in Row(w), s \in {"missing", "up", "zero", "nonzero"} :
          /\ \/ s = Inspection(r)
             \/ InspectMayFail /\ s = "missing"
          /\ \/ /\ r \in ended[w]
                /\ main' = [main EXCEPT ![w] = "remove"]
                /\ UNCHANGED <<todo, ended, seen>>
             \/ /\ r \notin ended[w] /\ s = "up"
                /\ NextRow(w, r)
                /\ UNCHANGED seen
             \/ /\ r \notin ended[w] /\ s # "up"
                /\ main' = [main EXCEPT ![w] = "decide"]
                /\ seen' = [seen EXCEPT ![w] = s]
                /\ UNCHANGED <<todo, ended>>
    /\ UNCHANGED <<rowVars, dockerVars, booting, writes, th, crashes>>

\* Mutant of Verdict: a state name no reader of the table knows.
RenamedVerdict(s) == IF s = "zero" THEN "succeeded" ELSE "failed"

\* The end of a run that was running is written into the transaction, which
\* takes the row lock; the row is not read again before the write.
Verdict(s) == IF s = "zero" THEN "completed" ELSE "failed"

ReconcileDecide(w) ==
    /\ main[w] = "decide"
    /\ \E r \in Row(w) :
          /\ Free(r)
          /\ lock' = [lock EXCEPT ![r] = w]
          /\ writes' = [writes EXCEPT ![w][r] = Verdict(seen[w])]
          /\ IF seen[w] = "missing"
             THEN NextRow(w, r)
             ELSE /\ main' = [main EXCEPT ![w] = "remove"]
                  /\ UNCHANGED <<todo, ended>>
    /\ Forget(w)
    /\ UNCHANGED <<status, ref, dockerVars, booting, th, crashes>>

ReconcileRemove(w) ==
    /\ main[w] = "remove"
    /\ \E r \in Row(w) :
          /\ DockerRemove(r)
          /\ IF r \in ended[w]
             THEN main' = [main EXCEPT ![w] = "clear"] /\ UNCHANGED <<todo, ended>>
             ELSE NextRow(w, r)
    /\ UNCHANGED <<rowVars, booting, seen, writes, th, crashes>>

\* _set_run_container_info(None) of a terminal row, a transaction of its own.
ReconcileClear(w) ==
    /\ main[w] = "clear"
    /\ \E r \in Row(w) :
          /\ Free(r)
          /\ ref' = [ref EXCEPT ![r] = FALSE]
          /\ NextRow(w, r)
    /\ UNCHANGED <<status, lock, dockerVars, booting, seen, writes, th, crashes>>

Written(w) == {r \in Runs : writes[w][r] # "none"}

\* The transaction ends, with or without its writes.
EndTransaction(w) ==
    /\ lock' = [r \in Runs |-> IF lock[r] = w THEN NoWorker ELSE lock[r]]
    /\ todo' = [todo EXCEPT ![w] = {}]
    /\ ended' = [ended EXCEPT ![w] = {}]
    /\ Forget(w)
    /\ writes' = [writes EXCEPT ![w] = NoWrites]

ReconcileCommit(w) ==
    /\ main[w] = "inspect"
    /\ todo[w] = {}
    /\ status' = [r \in Runs |-> IF r \in Written(w) THEN writes[w][r] ELSE status[r]]
    /\ ref' = [r \in Runs |-> ref[r] /\ r \notin Written(w)]
    /\ EndTransaction(w)
    /\ main' = [main EXCEPT ![w] = "idle"]
    /\ booting' = [booting EXCEPT ![w] = FALSE]
    /\ UNCHANGED <<dockerVars, th, crashes>>

\* A statement or the commit raises: everything but the containers already
\* removed and the references already cleared is undone. During start-up
\* nothing catches the exception and the process ends.
ReconcileRollback(w) ==
    /\ TxMayFail
    /\ \/ main[w] \in {"decide", "clear"}
       \/ main[w] = "inspect" /\ todo[w] = {}
    /\ EndTransaction(w)
    /\ main' = [main EXCEPT ![w] = IF booting[w] THEN "down" ELSE "idle"]
    /\ booting' = [booting EXCEPT ![w] = FALSE]
    /\ UNCHANGED <<status, ref, dockerVars, th, crashes>>

-----------------------------------------------------------------------------
(* The execution of a claimed run: _execute_run in a pool thread, or in the *)
(* local worker's loop.                                                     *)

ThreadStart(w, r) ==
    /\ th[w][r] = "queued"
    /\ Cardinality(Active(w)) < MaxThreads
    /\ Goto(w, r, "begin")
    /\ UNCHANGED <<rowVars, dockerVars, mainVars, crashes>>

\* The package, its workspace or its entrypoint cannot be found, or the child
\* process cannot be started.
CannotExecute(w, r) ==
    /\ th[w][r] \in {"begin", "named"}
    /\ Goto(w, r, "failing")
    /\ UNCHANGED <<rowVars, dockerVars, mainVars, crashes>>

LocalSpawn(w, r) ==
    /\ th[w][r] = "begin"
    /\ ~InContainer(r)
    /\ proc' = [proc EXCEPT ![r] = "up"]
    /\ Goto(w, r, "waiting")
    /\ UNCHANGED <<rowVars, ctr, code, mainVars, crashes>>

\* The container's name is stored before docker run is called with it.
NameContainer(w, r) ==
    /\ th[w][r] = "begin"
    /\ InContainer(r)
    /\ Free(r)
    /\ ref' = [ref EXCEPT ![r] = TRUE]
    /\ Goto(w, r, "named")
    /\ UNCHANGED <<status, lock, dockerVars, mainVars, crashes>>

DockerRun(w, r) ==
    /\ th[w][r] = "named"
    /\ proc' = [proc EXCEPT ![r] = "up"]
    /\ Goto(w, r, "spawned")
    /\ UNCHANGED <<rowVars, ctr, code, mainVars, crashes>>

\* Up to three inspections for the container's id, which is then stored.
ResolveId(w, r) ==
    /\ th[w][r] = "spawned"
    /\ \/ ctr[r] \in {"created", "up", "exited"} /\ Goto(w, r, "found")
       \/ (ctr[r] \in {"none", "gone"} \/ InspectMayFail) /\ Goto(w, r, "waiting")
    /\ UNCHANGED <<rowVars, dockerVars, mainVars, crashes>>

\* Mutant of StoreId: a run whose container is known is (again) running.
StoreIdAndRunning(w, r) ==
    /\ th[w][r] = "found"
    /\ Free(r)
    /\ ref' = [ref EXCEPT ![r] = TRUE]
    /\ status' = [status EXCEPT ![r] = "running"]
    /\ Goto(w, r, "waiting")
    /\ UNCHANGED <<lock, dockerVars, mainVars, crashes>>

StoreId(w, r) ==
    /\ th[w][r] = "found"
    /\ Free(r)
    /\ ref' = [ref EXCEPT ![r] = TRUE]
    /\ Goto(w, r, "waiting")
    /\ UNCHANGED <<status, lock, dockerVars, mainVars, crashes>>

WaitReturns(w, r) ==
    /\ th[w][r] = "waiting"
    /\ proc[r] = "done"
    /\ Goto(w, r, IF InContainer(r) THEN "rm" ELSE "record")
    /\ UNCHANGED <<rowVars, dockerVars, mainVars, crashes>>

\* process.kill() ends a local program; of a container it only ends the client.
Timeout(w, r) ==
    /\ th[w][r] = "waiting"
    /\ r \in Timed
    /\ proc[r] = "up"
    /\ proc' = [proc EXCEPT ![r] = "killed"]
    /\ code' = [code EXCEPT ![r] = IF InContainer(r) THEN @ ELSE "bad"]
    /\ Goto(w, r, "timedout")
    /\ UNCHANGED <<rowVars, ctr, mainVars, crashes>>

\* Mutants of RecordTimeout: no return after it, no removal after it.
TimeoutFallsThrough(w, r) ==
    /\ th[w][r] = "timedout"
    /\ Free(r)
    /\ status' = [status EXCEPT ![r] = "failed"]
    /\ Goto(w, r, IF InContainer(r) THEN "rm" ELSE "record")
    /\ UNCHANGED <<ref, lock, dockerVars, mainVars, crashes>>

TimeoutKeepsContainer(w, r) ==
    /\ th[w][r] = "timedout"
    /\ Free(r)
    /\ status' = [status EXCEPT ![r] = "failed"]
    /\ Goto(w, r, IF InContainer(r) THEN "clearT" ELSE "done")
    /\ UNCHANGED <<ref, lock, dockerVars, mainVars, crashes>>

RecordTimeout(w, r) ==
    /\ th[w][r] = "timedout"
    /\ Free(r)
    /\ status' = [status EXCEPT ![r] = "failed"]
    /\ Goto(w, r, IF InContainer(r) THEN "rmT" ELSE "done")
    /\ UNCHANGED <<ref, lock, dockerVars, mainVars, crashes>>

\* The finally clause, reached after the wait ("rm"), after a timeout has been
\* recorded ("rmT"), or because recording it raised ("rmX").
AfterRemove == [rm |-> "clear", rmT |-> "clearT", rmX |-> "clearX"]
AfterClear  == [clear |-> "record", clearT |-> "done", clearX |-> "failing"]

RemoveContainer(w, r) ==
    /\ th[w][r] \in DOMAIN AfterRemove
    /\ DockerRemove(r)
    /\ Goto(w, r, AfterRemove[th[w][r]])
    /\ UNCHANGED <<rowVars, mainVars, crashes>>

ClearContainer(w, r) ==
    /\ th[w][r] \in DOMAIN AfterClear
    /\ Free(r)
    /\ ref' = [ref EXCEPT ![r] = FALSE]
    /\ Goto(w, r, AfterClear[th[w][r]])
    /\ UNCHANGED <<status, lock, dockerVars, mainVars, crashes>>

\* Mutant of Outcome: a program without an exit code counts as a success.
OutcomeOfNothing(c) == IF c = "bad" THEN "failed" ELSE "completed"

Outcome(c) == IF c = "ok" THEN "completed" ELSE "failed"

Record(w, r) ==
    /\ th[w][r] = "record"
    /\ Free(r)
    /\ status' = [status EXCEPT ![r] = Outcome(code[r])]
    /\ Goto(w, r, "done")
    /\ UNCHANGED <<ref, lock, dockerVars, mainVars, crashes>>

\* The except clause of _execute_run.
RecordException(w, r) ==
    /\ th[w][r] = "failing"
    /\ Free(r)
    /\ status' = [status EXCEPT ![r] = "failed"]
    /\ Goto(w, r, "done")
    /\ UNCHANGED <<ref, lock, dockerVars, mainVars, crashes>>

\* Where an exception of a database call takes the execution. _get_package is
\* outside the try ("begin" may end there), and an exception of the except
\* clause itself is lost in the future the pool returned.
AfterDbError(r, pc) ==
    CASE pc = "begin" -> {"failing", "done"}
      [] pc = "timedout" -> IF InContainer(r) THEN {"rmX"} ELSE {"failing"}
      [] pc = "failing" -> {"done"}
      [] OTHER -> {"failing"}

ThreadDbError(w, r) ==
    /\ DbMayFail
    /\ th[w][r] \in {"begin", "named", "found", "timedout", "clear", "clearT", "clearX",
                     "record", "failing"}
    /\ \E pc \in AfterDbError(r, th[w][r]) : Goto(w, r, pc)
    /\ UNCHANGED <<rowVars, dockerVars, mainVars, crashes>>

-----------------------------------------------------------------------------
(* The child processes and the Docker engine. *)

LocalExit(r) ==
    /\ ~InContainer(r)
    /\ proc[r] = "up"
    /\ \E c \in {"ok", "bad"} : code' = [code EXCEPT ![r] = c]
    /\ proc' = [proc EXCEPT ![r] = "done"]
    /\ UNCHANGED <<rowVars, ctr, mainVars, th, crashes>>

\* docker run asks for the container, then starts it; the engine may refuse.
ContainerCreate(r) ==
    /\ InContainer(r)
    /\ proc[r] = "up"
    /\ ctr[r] = "none"
    /\ \/ ctr' = [ctr EXCEPT ![r] = "created"] /\ UNCHANGED proc
       \/ proc' = [proc EXCEPT ![r] = "done"] /\ UNCHANGED ctr
    /\ UNCHANGED <<rowVars, code, mainVars, th, crashes>>

ContainerStart(r) ==
    /\ proc[r] = "up"
    /\ ctr[r] = "created"
    /\ ctr' = [ctr EXCEPT ![r] = "up"]
    /\ UNCHANGED <<rowVars, proc, code, mainVars, th, crashes>>

ContainerExit(r) ==
    /\ ctr[r] = "up"
    /\ \E c \in {"ok", "bad"} : code' = [code EXCEPT ![r] = c]
    /\ ctr' = [ctr EXCEPT ![r] = "exited"]
    /\ UNCHANGED <<rowVars, proc, mainVars, th, crashes>>

\* --rm: the engine removes the container itself.
AutoRemove(r) ==
    /\ ctr[r] = "exited"
    /\ ctr' = [ctr EXCEPT ![r] = "gone"]
    /\ UNCHANGED <<rowVars, proc, code, mainVars, th, crashes>>

\* The client of a --rm container returns once the container is gone.
ClientReturns(r) ==
    /\ proc[r] = "up"
    /\ ctr[r] = "gone"
    /\ proc' = [proc EXCEPT ![r] = "done"]
    /\ UNCHANGED <<rowVars, ctr, code, mainVars, th, crashes>>

-----------------------------------------------------------------------------
(* A worker process dies: its transaction is rolled back, its threads and   *)
(* docker clients die with it, the containers go on.                        *)

Crash(w) ==
    /\ crashes < MaxCrashes
    /\ main[w] # "down"
    /\ crashes' = crashes + 1
    /\ main' = [main EXCEPT ![w] = "down"]
    /\ booting' = [booting EXCEPT ![w] = FALSE]
    /\ EndTransaction(w)
    /\ th' = [th EXCEPT ![w] =
                 [r \in Runs |-> IF @[r] \in {"none", "done"} THEN @[r] ELSE "lost"]]
    /\ proc' = [r \in Runs |-> IF th[w][r] # "none" /\ InContainer(r) /\ proc[r] = "up"
                               THEN "killed" ELSE proc[r]]
    /\ UNCHANGED <<status, ref, ctr, code>>

-----------------------------------------------------------------------------
MainStep(w) ==
    \/ Start(w) \/ EnterLoop(w)
    \/ ClaimSelect(w) \/ ClaimCommit(w) \/ ClaimRollback(w)
    \/ LocalReturn(w) \/ Poll(w)
    \/ ReconcileSelect(w) \/ ReconcileInspect(w) \/ ReconcileDecide(w)
    \/ ReconcileRemove(w) \/ ReconcileClear(w)
    \/ ReconcileCommit(w) \/ ReconcileRollback(w)

ThreadStep(w, r) ==
    \/ ThreadStart(w, r) \/ CannotExecute(w, r)
    \/ LocalSpawn(w, r) \/ NameContainer(w, r) \/ DockerRun(w, r)
    \/ ResolveId(w, r) \/ StoreId(w, r)
    \/ WaitReturns(w, r) \/ Timeout(w, r) \/ RecordTimeout(w, r)
    \/ RemoveContainer(w, r) \/ ClearContainer(w, r)
    \/ Record(w, r) \/ RecordException(w, r) \/ ThreadDbError(w, r)

EngineStep(r) ==
    \/ LocalExit(r) \/ ContainerCreate(r) \/ ContainerStart(r)
    \/ ContainerExit(r) \/ AutoRemove(r) \/ ClientReturns(r)

Next ==
    \/ \E r \in Runs : CreateRun(r)
    \/ \E w \in Workers : MainStep(w)
    \/ \E w \in Workers, r \in Runs : ThreadStep(w, r)
    \/ \E r \in Runs : EngineStep(r)
    \/ \E w \in Workers : Crash(w)

Spec == Init /\ [][Next]_vars

(* Fairness. A worker that is up goes on with its loop: after every tick it  *)
(* tries to claim, and every BATCH_CONTAINER_RECONCILE_INTERVAL it           *)
(* reconciles, so neither can be put off for ever by the other (SF). A pool  *)
(* thread and the engine go on; a program need not ever end. Nothing starts  *)
(* a worker that is down.                                                    *)
LoopStep(w) ==
    \/ EnterLoop(w) \/ ClaimCommit(w) \/ LocalReturn(w)
    \/ ReconcileInspect(w) \/ ReconcileDecide(w) \/ ReconcileRemove(w)
    \/ ReconcileClear(w) \/ ReconcileCommit(w)

Fairness ==
    /\ \A w \in Workers :
          /\ SF_vars(ClaimSelect(w)) /\ SF_vars(ReconcileSelect(w))
          /\ WF_vars(LoopStep(w))
    /\ \A w \in Workers, r \in Runs : SF_vars(ThreadStep(w, r))
    /\ \A r \in Runs :
          /\ WF_vars(ContainerCreate(r)) /\ WF_vars(ContainerStart(r))
          /\ WF_vars(AutoRemove(r)) /\ WF_vars(ClientReturns(r))

FairSpec == Spec /\ Fairness

-----------------------------------------------------------------------------
(* What must hold. *)

\* A run is executed at most once, by the one worker that claimed it, and not
\* before it is claimed ("claims pending/queued runs atomically", worker.py:5).
\* An execution that ended or was lost in a crash still counts.
ClaimedOnce ==
    \A r \in Runs :
        /\ status[r] \in {"absent", "pending"} => \A w \in Workers : th[w][r] = "none"
        /\ \A v, w \in Workers : th[v][r] # "none" /\ th[w][r] # "none" => v = w

\* The row a main loop is blocked on, or will lock next.
WaitsFor(v, w) ==
    /\ main[v] \in {"decide", "clear"}
    /\ \E r \in Row(v) : lock[r] = w

\* The reconcilers of several container workers never deadlock on row locks,
\* neither with each other nor, through the second connection that
\* _set_run_container_info opens, with themselves.
NoLockCycle == \A v, w \in Workers : ~(WaitsFor(v, w) /\ WaitsFor(w, v))

\* A run that has ended keeps the status it ended with.
TerminalFinal ==
    [][\A r \in Runs : status[r] \in Terminal => status'[r] = status[r]]_status

\* A completed run's program ended with exit code 0.
CompletedIsTrue == \A r \in Runs : status[r] = "completed" => code[r] = "ok"

Live(r) == ctr[r] \in {"created", "up"}

\* A container exists only while an execution that will remove it is under way
\* or its row names it, so that the reconciler will find it.
ContainerAccounted ==
    \A r \in Runs :
        Live(r) => ref[r] \/ \E w \in Workers : th[w][r] \in Supervising

\* The reconciler ends only runs that are stale or whose container has exited
\* ("Running run with missing container is stale", worker.py:440), not runs a
\* thread is about to give a container or whose container is being started.
ReconcilesOnlyStale ==
    [][\A w \in Workers, r \in Runs :
          writes[w][r] = "none" /\ writes'[w][r] # "none" =>
              \/ ctr[r] = "exited"
              \/ \A v \in Workers : th[v][r] \notin ThreadSteps]_writes

\* The table of runs as its submitters see it: the owner is the worker that
\* ever executed the run.
Owner(r) ==
    IF \E w \in Workers : th[w][r] # "none"
    THEN CHOOSE w \in Workers : th[w][r] # "none"
    ELSE NoWorker

Queue == INSTANCE RunQueue WITH owner <- [r \in Runs |-> Owner(r)]

\* Workers that crash, race and reconcile implement a queue that hands out
\* every run at most once and never takes an ended run back.
ImplementsQueue == Queue!Spec

-----------------------------------------------------------------------------
(* What must happen. *)

StaysUp == <>[](\A w \in Workers : main[w] # "down")

\* A run that some worker may claim is executed to its end, even if programs
\* hang, as long as every run has a timeout: neither the pool's bound nor the
\* row locks of the reconcilers can hold it up for ever.
EveryRunEnds ==
    StaysUp /\ [](crashes = 0) =>
        \A r \in Runs \ Disabled :
            (\E w \in Workers : Kind[w] \in {"any", Deployment[r]}) =>
                (status[r] = "pending" ~> status[r] \in Terminal)

\* Whoever ends a run, its container does not outlive it for long.
ContainersReclaimed ==
    StaysUp /\ [](crashes = 0) => \A r \in Runs : (status[r] \in Terminal /\ Live(r)) ~> ~Live(r)

\* What a reconciliation is for: the row of a run whose worker died while the
\* row named its container, once that container is gone, and the row of an ended
\* run that still names one ("terminal runs should not retain container
\* references", worker.py:433). A run that was only queued or about to start
\* when its worker died has no reference and is never looked at again.
Leftover(r) ==
    /\ ref[r]
    /\ \/ status[r] \in Terminal
       \/ status[r] = "running" /\ ~Live(r) /\ \E w \in Workers : th[w][r] = "lost"

\* Such a row ends up ended and without the reference.
LeftoversReconciled ==
    StaysUp => \A r \in Runs : Leftover(r) ~> (status[r] \in Terminal /\ ~ref[r])
=============================================================================
