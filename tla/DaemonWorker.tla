---------------------------- MODULE DaemonWorker ----------------------------
(***************************************************************************)
(* The daemon runs of the container worker: its main loop keeps a run queued *)
(* for every auto-start package and claims queued runs (worker/worker.py),   *)
(* pool threads start the detached containers (worker/worker.py,             *)
(* worker/daemon_manager.py), and the monitor thread watches the containers  *)
(* and restarts them by policy (worker/daemon_monitor.py). The three share   *)
(* only the table of runs and the Docker engine. One process runs them all,  *)
(* as docker-compose.yml deploys it; when it dies the containers go on.      *)
(***************************************************************************)
EXTENDS Integers, FiniteSets

CONSTANTS
    Packages,        \* daemon packages deployed in containers and not disabled
    NoPackage,       \* the package of a run that does not exist yet
    AutoStart,       \* those with deamon_auto_restart
    Policy,          \* Policy[p]: restart_policy
    MaxRestarts,     \* should_restart's max_restarts
    MaxRuns,         \* bound on the runs a behaviour creates
    MaxContainers,   \* bound on the containers it starts
    MaxSubmissions,  \* bound on the runs the API submits
    MaxCrashes,      \* bound on the crashes
    StartMayFail,    \* docker run -d may fail, or time out
    InspectMayFail,  \* docker inspect may fail on a container that exists
    RmMayFail,       \* docker rm -f may fail
    DbMayFail        \* a database statement of a thread or of the monitor may raise

ASSUME DaemonAssumption ==
    /\ IsFiniteSet(Packages) /\ NoPackage \notin Packages
    /\ AutoStart \subseteq Packages
    /\ Policy \in [Packages -> {"always", "on-failure", "never"}]
    /\ {MaxRestarts, MaxRuns, MaxContainers, MaxSubmissions, MaxCrashes} \subseteq Nat
    /\ {StartMayFail, InspectMayFail, RmMayFail, DbMayFail} \subseteq BOOLEAN

Runs       == 1 .. MaxRuns         \* run ids, in the order of insertion
Containers == 1 .. MaxContainers   \* containers, in the order of their start
Null       == 0                    \* container_id IS NULL

VARIABLES
    status, pkg, cid, restarts,  \* columns of runs: container_id and restart_count last
    submitted,                   \* runs submitted by the API so far
    ctr,                         \* containers, as the Docker engine has them
    owner,                       \* the run each container was started for
    main,                        \* where the main loop is
    todo,                        \* auto-start packages this pass has not looked at
    row,                         \* the existing run it is looking at, as it read it
    fails, adds,                 \* runs failed, packages enqueued by its open transaction
    th,                          \* where the pool's execution of each run is
    fresh,                       \* the container that execution has started
    mon,                         \* where the monitor thread is
    list,                        \* rows of its SELECT it has not dealt with
    watched,                     \* the row it is dealing with, as it read it
    seen,                        \* what it saw of that row's container
    fresh2,                      \* the container it has started for that row
    crashes

rowVars  == <<status, pkg, cid, restarts>>
dockVars == <<ctr, owner>>
mainVars == <<main, todo, row, fails, adds>>
thVars   == <<th, fresh>>
monVars  == <<mon, list, watched, seen, fresh2>>
vars     == <<rowVars, submitted, dockVars, mainVars, thVars, monVars, crashes>>

-----------------------------------------------------------------------------
ActiveStatus == {"queued", "running"}   \* the API's "pending" is "queued" to every reader
Status       == {"absent", "failed", "completed", "stopped"} \cup ActiveStatus

\* A row as a SELECT returned it.
Row   == [run : Runs, cid : Containers \cup {Null}, restarts : Nat]
NoRow == [run |-> 0, cid |-> Null, restarts |-> 0]

TypeOK ==
    /\ status \in [Runs -> Status]
    /\ pkg \in [Runs -> Packages \cup {NoPackage}]
    /\ cid \in [Runs -> Containers \cup {Null}]
    /\ restarts \in [Runs -> Nat]
    /\ submitted \in Nat /\ crashes \in Nat
    /\ ctr \in [Containers -> {"none", "up", "ok", "bad", "gone"}]
    /\ owner \in [Containers -> Runs \cup {0}]
    /\ main \in {"down", "boot", "idle", "read", "inspect", "decide"}
    /\ todo \subseteq AutoStart
    /\ row \in Row \cup {NoRow}
    /\ fails \subseteq Runs /\ adds \subseteq AutoStart
    /\ th \in [Runs -> {"none", "begin", "started", "failing", "raised", "done", "lost"}]
    /\ fresh \in [Runs -> Containers \cup {Null}]
    /\ mon \in {"off", "sleep", "next", "remove", "start", "store", "fail", "end"}
    /\ list \subseteq Row
    /\ watched \in Row \cup {NoRow}
    /\ seen \in {"missing", "up", "ok", "bad"}
    /\ fresh2 \in Containers \cup {Null}

Init ==
    /\ status = [r \in Runs |-> "absent"]
    /\ pkg = [r \in Runs |-> NoPackage]
    /\ cid = [r \in Runs |-> Null]
    /\ restarts = [r \in Runs |-> 0]
    /\ submitted = 0 /\ crashes = 0
    /\ ctr = [c \in Containers |-> "none"]
    /\ owner = [c \in Containers |-> 0]
    /\ main = "down" /\ todo = {} /\ row = NoRow /\ fails = {} /\ adds = {}
    /\ th = [r \in Runs |-> "none"]
    /\ fresh = [r \in Runs |-> Null]
    /\ mon = "off" /\ list = {} /\ watched = NoRow /\ seen = "missing" /\ fresh2 = Null

-----------------------------------------------------------------------------
(* Helpers *)

Used         == {r \in Runs : status[r] # "absent"}
Room         == Cardinality(Used) + Cardinality(adds) < MaxRuns   \* bound: an id is left
Active(p)    == {r \in Runs : pkg[r] = p /\ status[r] \in ActiveStatus}
Snapshot(r)  == [run |-> r, cid |-> cid[r], restarts |-> restarts[r]]

\* One UPDATE of a row: it waits for the main loop's open transaction.
Unlocked(r)     == r \notin fails
SetStatus(r, s) == Unlocked(r) /\ status' = [status EXCEPT ![r] = s]

\* Mutant of Check: an existing container counts as running, whatever its State.
AnythingIsUp(c) == IF c = Null \/ ctr[c] \in {"none", "gone"} THEN {"missing"} ELSE {"up"}

\* Mutant of Check: a row without a container is taken for one that is starting.
TakenForStarting(c) ==
    IF c = Null THEN {"up"} ELSE IF ctr[c] \in {"none", "gone"} THEN {"missing"} ELSE {ctr[c]}

\* check_container_status: None for a container that is missing, or that
\* docker inspect did not report.
Check(c) ==
    (IF c = Null \/ ctr[c] \in {"none", "gone"} THEN {"missing"} ELSE {ctr[c]})
        \cup (IF InspectMayFail THEN {"missing"} ELSE {})

\* docker run -d for run r: a new container c starts, or nothing does.
NextContainer == {c \in Containers : ctr[c] = "none" /\ \A d \in 1 .. (c - 1) : ctr[d] # "none"}
Launch(c, r) ==
    /\ ctr' = [ctr EXCEPT ![c] = "up"]
    /\ owner' = [owner EXCEPT ![c] = r]

\* A database call before it raises, docker run fails (always, beyond
\* MaxContainers), or the ten seconds given to it run out after the container
\* started.
LaunchFails(r) ==
    \/ /\ DbMayFail \/ StartMayFail \/ NextContainer = {}
       /\ UNCHANGED dockVars
    \/ /\ StartMayFail
       /\ \E c \in NextContainer : Launch(c, r)

-----------------------------------------------------------------------------
(* Submission by the API: nothing looks for another run of the package. *)

CreateRun(p) ==
    /\ submitted < MaxSubmissions /\ Room
    /\ \E r \in Runs :
          /\ r = Cardinality(Used) + 1
          /\ status' = [status EXCEPT ![r] = "queued"]
          /\ pkg' = [pkg EXCEPT ![r] = p]
    /\ submitted' = submitted + 1
    /\ UNCHANGED <<cid, restarts, dockVars, mainVars, thVars, monVars, crashes>>

-----------------------------------------------------------------------------
(* The main loop. *)

Start ==
    /\ main = "down"
    /\ main' = "boot"
    /\ UNCHANGED <<rowVars, submitted, dockVars, todo, row, fails, adds, thVars, monVars,
                   crashes>>

\* Every DAEMON_AUTOSTART_CHECK_INTERVAL, and once before the loop.
AutoBegin ==
    /\ main \in {"boot", "idle"}
    /\ main' = "read"
    /\ todo' = AutoStart
    /\ UNCHANGED <<rowVars, submitted, dockVars, row, fails, adds, thVars, monVars, crashes>>

\* Mutant of Enqueue: the INSERT belongs to the recovery of a stale run.
EnqueueIfRecovered(p) == adds' = IF row # NoRow /\ Room THEN adds \cup {p} ELSE adds

\* A run of p is inserted, as long as there is an id for it.
Enqueue(p) == adds' = IF Room THEN adds \cup {p} ELSE adds

\* The next package is looked at.
Skip(p) == todo' = todo \ {p} /\ main' = "read" /\ row' = NoRow

\* SELECT ... LIMIT 1: any active run of the package.
AutoRead(p) ==
    /\ main = "read" /\ p \in todo
    /\ \/ /\ Active(p) = {}
          /\ Enqueue(p)
          /\ Skip(p)
       \/ \E r \in Active(p) :
             \/ /\ status[r] = "queued"
                /\ Skip(p)
                /\ UNCHANGED adds
             \/ /\ status[r] = "running"
                /\ main' = "inspect" /\ row' = Snapshot(r)
                /\ UNCHANGED <<todo, adds>>
    /\ UNCHANGED <<rowVars, submitted, dockVars, fails, thVars, monVars, crashes>>

AutoInspect ==
    /\ main = "inspect"
    /\ \E s \in Check(row.cid) :
          IF s = "up"
          THEN Skip(pkg[row.run])
          ELSE main' = "decide" /\ UNCHANGED <<todo, row>>
    /\ UNCHANGED <<rowVars, submitted, dockVars, fails, adds, thVars, monVars, crashes>>

\* "Recovered stale daemon run": the row is not read again, and its container
\* is neither removed nor forgotten.
AutoDecide ==
    /\ main = "decide"
    /\ fails' = fails \cup {row.run}
    /\ Enqueue(pkg[row.run])
    /\ Skip(pkg[row.run])
    /\ UNCHANGED <<rowVars, submitted, dockVars, thVars, monVars, crashes>>

\* The transaction's new rows, one for every package of adds.
Inserted(f) ==
    /\ \A p, q \in adds : f[p] = f[q] => p = q
    /\ \A p \in adds : f[p] \in (Cardinality(Used) + 1) .. (Cardinality(Used) + Cardinality(adds))

\* After the pass at start-up the monitor thread is started.
AutoCommit ==
    /\ main = "read" /\ todo = {}
    /\ \E f \in [adds -> Runs] :
          /\ Inserted(f)
          /\ status' = [r \in Runs |-> IF r \in fails THEN "failed"
                                       ELSE IF \E p \in adds : f[p] = r THEN "queued"
                                       ELSE status[r]]
          /\ pkg' = [r \in Runs |-> IF \E p \in adds : f[p] = r
                                    THEN CHOOSE p \in adds : f[p] = r ELSE pkg[r]]
    /\ main' = "idle" /\ fails' = {} /\ adds' = {}
    /\ mon' = IF mon = "off" THEN "sleep" ELSE mon
    /\ UNCHANGED <<cid, restarts, submitted, dockVars, todo, row, thVars, list, watched, seen,
                   fresh2, crashes>>

\* A statement raises and nothing is written. At start-up the process ends.
AutoRollback ==
    /\ DbMayFail
    /\ main \in {"read", "decide"}
    /\ main' = IF mon = "off" THEN "down" ELSE "idle"
    /\ todo' = {} /\ row' = NoRow /\ fails' = {} /\ adds' = {}
    /\ UNCHANGED <<rowVars, submitted, dockVars, thVars, monVars, crashes>>

\* _claim_next_run_for: the queued run with the lowest id.
Claim ==
    /\ main = "idle"
    /\ \E r \in Runs :
          /\ status[r] = "queued"
          /\ \A s \in Runs : status[s] = "queued" => r <= s
          /\ status' = [status EXCEPT ![r] = "running"]
          /\ th' = [th EXCEPT ![r] = "begin"]
    /\ UNCHANGED <<pkg, cid, restarts, submitted, dockVars, mainVars, fresh, monVars, crashes>>

-----------------------------------------------------------------------------
(* The pool's execution of a daemon run: _execute_container_daemon. *)

DaemonStart(r) ==
    /\ th[r] = "begin"
    /\ \/ \E c \in NextContainer :
             /\ Launch(c, r)
             /\ fresh' = [fresh EXCEPT ![r] = c]
             /\ th' = [th EXCEPT ![r] = "started"]
       \/ /\ LaunchFails(r)
          /\ th' = [th EXCEPT ![r] = "failing"]
          /\ UNCHANGED fresh
    /\ UNCHANGED <<rowVars, submitted, mainVars, monVars, crashes>>

\* The container's id is stored whatever has become of the row meanwhile. An
\* exception then, or from the event that follows, fails the run.
StoreContainer(r) ==
    /\ th[r] = "started"
    /\ \/ /\ Unlocked(r)
          /\ cid' = [cid EXCEPT ![r] = fresh[r]]
          /\ \E pc \in {"done"} \cup (IF DbMayFail THEN {"failing"} ELSE {}) :
                th' = [th EXCEPT ![r] = pc]
       \/ /\ DbMayFail
          /\ th' = [th EXCEPT ![r] = "failing"]
          /\ UNCHANGED cid
    /\ UNCHANGED <<status, pkg, restarts, submitted, dockVars, mainVars, fresh, monVars, crashes>>

\* The except clause of _execute_container_daemon, and then that of _execute_run;
\* nothing handles what the second raises.
RecordFailure(r) ==
    /\ th[r] \in {"failing", "raised"}
    /\ SetStatus(r, "failed") \/ (DbMayFail /\ UNCHANGED status)
    /\ th' = [th EXCEPT ![r] = IF @ = "failing" THEN "raised" ELSE "done"]
    /\ UNCHANGED <<pkg, cid, restarts, submitted, dockVars, mainVars, fresh, monVars, crashes>>

-----------------------------------------------------------------------------
(* The monitor thread: a SELECT of the running daemons, then each of them.  *)

\* Where the loop goes with the rows l left.
Rest(l) == IF l = {} THEN "sleep" ELSE "next"

MonitorPoll ==
    /\ mon = "sleep"
    /\ list' = {Snapshot(r) : r \in {s \in Runs : status[s] = "running"}}
    /\ mon' = Rest(list')
    /\ UNCHANGED <<rowVars, submitted, dockVars, mainVars, thVars, watched, seen, fresh2, crashes>>

\* Mutant of ShouldRestart: the policies but no limit.
ShouldRestartForEver(p, s, n) ==
    Policy[p] = "always" \/ (Policy[p] = "on-failure" /\ s = "bad")

\* should_restart for the exit code seen and the restart_count read.
ShouldRestart(p, s, n) ==
    /\ n < MaxRestarts
    /\ Policy[p] = "always" \/ (Policy[p] = "on-failure" /\ s = "bad")

\* The row is dealt with.
Dealt ==
    /\ list' = list \ {watched} /\ mon' = Rest(list')
    /\ watched' = NoRow /\ seen' = "missing" /\ fresh2' = Null

\* monitor_single_daemon, up to its decision.
MonitorCheck ==
    /\ mon = "next"
    /\ \E d \in list, s \in {"missing", "up", "ok", "bad"} :
          /\ s \in Check(d.cid)
          /\ IF s = "up"
             THEN list' = list \ {d} /\ mon' = Rest(list') /\ UNCHANGED <<watched, seen>>
             ELSE /\ watched' = d /\ seen' = s
                  /\ mon' = IF s = "missing" THEN "fail"
                            ELSE IF ShouldRestart(pkg[d.run], s, d.restarts) THEN "remove"
                            ELSE "end"
                  /\ UNCHANGED list
    /\ UNCHANGED <<rowVars, submitted, dockVars, mainVars, thVars, fresh2, crashes>>

\* The container is missing, no container id was stored, or the restart raised.
MonitorFail ==
    /\ mon = "fail"
    /\ SetStatus(watched.run, "failed")
    /\ Dealt
    /\ UNCHANGED <<pkg, cid, restarts, submitted, dockVars, mainVars, thVars, crashes>>

\* Mutant of FinalStatus: the status of a clean exit whatever the exit code.
AlwaysCompleted(s) == "completed"

\* Mutant of FinalStatus: Docker's word for the state.
EngineStatus(s) == IF s = "ok" THEN "completed" ELSE "exited"

FinalStatus(s) == IF s = "ok" THEN "completed" ELSE "stopped"

\* Not restarted.
MonitorEnd ==
    /\ mon = "end"
    /\ SetStatus(watched.run, FinalStatus(seen))
    /\ Dealt
    /\ UNCHANGED <<pkg, cid, restarts, submitted, dockVars, mainVars, thVars, crashes>>

MonitorRemove ==
    /\ mon = "remove"
    /\ \/ ctr' = [ctr EXCEPT ![watched.cid] = "gone"]
       \/ RmMayFail /\ UNCHANGED ctr
    /\ mon' = "start"
    /\ UNCHANGED <<rowVars, submitted, owner, mainVars, thVars, list, watched, seen, fresh2,
                   crashes>>

MonitorStart ==
    /\ mon = "start"
    /\ \/ \E c \in NextContainer :
             /\ Launch(c, watched.run)
             /\ fresh2' = c
             /\ mon' = "store"
       \/ /\ LaunchFails(watched.run)
          /\ mon' = "fail"
          /\ UNCHANGED fresh2
    /\ UNCHANGED <<rowVars, submitted, mainVars, thVars, list, watched, seen, crashes>>

\* The row is running again, whatever it has become meanwhile.
MonitorStore ==
    /\ mon = "store"
    /\ Unlocked(watched.run)
    /\ cid' = [cid EXCEPT ![watched.run] = fresh2]
    /\ restarts' = [restarts EXCEPT ![watched.run] = watched.restarts + 1]
    /\ status' = [status EXCEPT ![watched.run] = "running"]
    /\ Dealt
    /\ UNCHANGED <<pkg, submitted, dockVars, mainVars, thVars, crashes>>

\* The UPDATE raises: during a restart the run is failed, otherwise the loop goes
\* on to the next row.
MonitorDbError ==
    /\ DbMayFail
    /\ \/ /\ mon = "store"
          /\ mon' = "fail"
          /\ UNCHANGED <<list, watched, seen, fresh2>>
       \/ /\ mon \in {"fail", "end"}
          /\ Dealt
    /\ UNCHANGED <<rowVars, submitted, dockVars, mainVars, thVars, crashes>>

-----------------------------------------------------------------------------
(* The containers, and the death of the worker. *)

ContainerExit(c) ==
    /\ ctr[c] = "up"
    /\ \E s \in {"ok", "bad"} : ctr' = [ctr EXCEPT ![c] = s]
    /\ UNCHANGED <<rowVars, submitted, owner, mainVars, thVars, monVars, crashes>>

Crash ==
    /\ crashes < MaxCrashes /\ main # "down"
    /\ crashes' = crashes + 1
    /\ main' = "down" /\ todo' = {} /\ row' = NoRow /\ fails' = {} /\ adds' = {}
    /\ th' = [r \in Runs |-> IF th[r] \in {"none", "done"} THEN th[r] ELSE "lost"]
    /\ mon' = "off" /\ list' = {} /\ watched' = NoRow /\ seen' = "missing" /\ fresh2' = Null
    /\ UNCHANGED <<rowVars, submitted, dockVars, fresh>>

-----------------------------------------------------------------------------
MainStep ==
    \/ Start \/ AutoBegin \/ AutoInspect \/ AutoDecide \/ AutoCommit \/ AutoRollback \/ Claim
    \/ \E p \in AutoStart : AutoRead(p)

ThreadStep(r) == DaemonStart(r) \/ StoreContainer(r) \/ RecordFailure(r)

MonitorStep ==
    \/ MonitorPoll \/ MonitorCheck \/ MonitorFail \/ MonitorEnd
    \/ MonitorRemove \/ MonitorStart \/ MonitorStore \/ MonitorDbError

Next ==
    \/ \E p \in Packages : CreateRun(p)
    \/ MainStep
    \/ \E r \in Runs : ThreadStep(r)
    \/ MonitorStep
    \/ \E c \in Containers : ContainerExit(c)
    \/ Crash

Spec == Init /\ [][Next]_vars

\* The threads of a worker that is up go on; the main loop neither autostarts
\* nor claims for ever without doing the other; nothing restarts a dead worker.
Fairness ==
    /\ WF_vars(AutoInspect \/ AutoDecide \/ AutoCommit \/ \E p \in AutoStart : AutoRead(p))
    /\ SF_vars(AutoBegin) /\ SF_vars(Claim)
    /\ \A r \in Runs : WF_vars(ThreadStep(r))
    /\ WF_vars(MonitorStep)

FairSpec == Spec /\ Fairness

-----------------------------------------------------------------------------
(* What must hold. *)

Up(r) == {c \in Containers : owner[c] = r /\ ctr[c] = "up"}

\* A run ended as completed or stopped has no container that still runs, and a
\* completed one has a container that exited with 0: the row the monitor read
\* may be stale, but what it concludes is not.
EndedIsDead ==
    \A r \in Runs :
        status[r] \in {"completed", "stopped"} =>
            /\ Up(r) = {}
            /\ \E c \in Containers :
                  owner[c] = r /\ (status[r] = "completed" => ctr[c] = "ok")

\* A run gets at most one container from the pool and max_restarts from the
\* monitor, however often the monitor's snapshots are out of date. (A worker that
\* dies between docker run and the UPDATE loses count of a restart.)
RestartBudget ==
    \A r \in Runs : Cardinality({c \in Containers : owner[c] = r}) <= 1 + MaxRestarts

\* Auto-start keeps at most one run of a package queued or running ("second
\* enqueue should not create duplicates", test_worker_lifecycle.py:380).
OneActiveRun == \A p \in AutoStart : Cardinality(Active(p)) <= 1

-----------------------------------------------------------------------------
(* What must happen. *)

StaysUp == <>[](main # "down")

\* A package without an active run gets one.
AlwaysEnqueued ==
    StaysUp =>
        \A p \in AutoStart :
            Active(p) = {} ~> (Active(p) # {} \/ ~Room)

\* The row says running and names a container that has ended.
Unnoticed(r) ==
    status[r] = "running" /\ cid[r] # Null /\ ctr[cid[r]] \in {"ok", "bad", "gone"}

\* The end of a container is noticed, by the monitor or by the next pass of
\* auto-start: the run gets another container or another status.
ExitNoticed == StaysUp => \A r \in Runs : Unnoticed(r) ~> ~Unnoticed(r)

\* A run claimed by a worker that died before it stored a container is ended.
LostIsFailed ==
    StaysUp =>
        \A r \in Runs : (status[r] = "running" /\ th[r] = "lost" /\ cid[r] = Null)
                            ~> status[r] # "running"
=============================================================================
