------------------------------ MODULE Schedules ------------------------------
(***************************************************************************)
(* The schedules of one package: the API's handlers write schedules, secrets *)
(* and the package's flags (schedule_service, secret_service,                *)
(* package_service, run_service), and the workers' inline scheduler turns    *)
(* due schedules into runs (worker/scheduler.py). They share the database    *)
(* and nothing else.                                                         *)
(*                                                                           *)
(* A handler is a plain function in a thread of its own: it reads, computes, *)
(* and its commit writes the columns it changed, whatever happened to the    *)
(* rows meanwhile. It takes two steps here, the reads and the commit.        *)
(***************************************************************************)
EXTENDS Integers, FiniteSets

CONSTANTS
    Schedules,     \* ids of package_schedules
    SecretRows,    \* ids of package_secrets
    Keys,          \* the secret keys a manifest may require (secret_keys)
    Confs,         \* the schedule configurations requests carry
    Requests,      \* threads of the API
    Workers,       \* worker processes of the package's deployment
    MaxTime,       \* bound on the clock
    MaxRequests,   \* bound on the requests a behaviour makes
    MaxErrors      \* bound on the errors of the scheduler

ASSUME SchedulesAssumption ==
    /\ Keys # {} /\ Cardinality(Keys) <= Cardinality(SecretRows)
    /\ Schedules \subseteq Nat /\ IsFiniteSet(Schedules) 
    /\ IsFiniteSet(SecretRows) /\ IsFiniteSet(Keys)
    /\ Confs \subseteq [type : {"interval", "at"}, n : Nat] \cup [type : {"cron"}, n : Nat \ {0}]
    /\ MaxTime \in Nat \ {0} /\ {MaxRequests, MaxErrors} \subseteq Nat

VARIABLES
    schedule,   \* package_schedules
    package,    \* the package's schedule_enables and its description_json
    secret,     \* package_secrets
    runs,       \* pending, queued or running runs, by who created them
    request,    \* what the open session of each thread will write
    made,       \* requests made so far
    tick,       \* each worker's scheduler: its clock reading, the due rows left, its writes,
                \* the runs it has inserted
    errors,     \* errors of the scheduler so far
    now

apiVars == <<request, made>>
dbVars  == <<schedule, package, secret, runs>>
vars    == <<dbVars, apiVars, tick, errors, now>>

-----------------------------------------------------------------------------
(* Rows *)

Null == 0    \* a time that IS NULL; the clock starts at 1

AnyConf == CHOOSE c \in Confs : TRUE
AnyKey  == CHOOSE k \in Keys : TRUE

Row      == [exists : {TRUE}, conf : Confs, active : BOOLEAN, last : Nat, next : Nat]
NoRow    == [exists |-> FALSE, conf |-> AnyConf, active |-> FALSE, last |-> Null, next |-> Null]
Secret   == [exists : {TRUE}, key : Keys, set : BOOLEAN]     \* set: encrypted_value is not blank
NoSecret == [exists |-> FALSE, key |-> AnyKey, set |-> FALSE]
Meta     == [required : SUBSET Keys, requested : BOOLEAN, blocked : BOOLEAN, missing : SUBSET Keys]

\* Mutant of Changed: a session writes every column it has read.
AllColumns(old, new) == new

\* A session writes the columns whose value it changed; and what a table holds
\* once they are written.
Changed(old, new)   == [c \in {d \in DOMAIN new : new[d] # old[d]} |-> new[c]]
Over(old, diff)     == [c \in DOMAIN old |-> IF c \in DOMAIN diff THEN diff[c] ELSE old[c]]

\* Mutant of Stored: the row's columns survive its deletion.
StoredAsIs(row, none) == row

Stored(row, none)   == IF row.exists THEN row ELSE none
Written(table, diffs, none) ==
    [i \in DOMAIN table |->
        IF i \in DOMAIN diffs THEN Stored(Over(table[i], diffs[i]), none) ELSE table[i]]
ChangedRows(old, new) ==
    [i \in {j \in DOMAIN new : new[j] # old[j]} |-> Changed(old[i], new[i])]

NoWrites  == [i \in {} |-> 0]
Idle      == [busy |-> FALSE, schedule |-> NoWrites, package |-> NoWrites,
              secret |-> NoWrites, run |-> 0]
Resting   == [busy |-> FALSE, at |-> 0, due |-> {}, row |-> {}, fire |-> {}, ran |-> 0]

TypeOK ==
    /\ schedule \in [Schedules -> Row \cup {NoRow}]
    /\ package \in [meta : Meta, enables : BOOLEAN]
    /\ secret \in [SecretRows -> Secret \cup {NoSecret}]
    /\ runs \in [api : Nat, scheduled : Nat]
    /\ \A q \in Requests :
        /\ request[q].busy \in BOOLEAN /\ request[q].run \in {0, 1}
        /\ DOMAIN request[q].schedule \subseteq Schedules
        /\ DOMAIN request[q].package \subseteq {"meta", "enables"}
        /\ DOMAIN request[q].secret \subseteq SecretRows
    /\ made \in 0 .. MaxRequests
    /\ tick \in [Workers -> [busy : BOOLEAN, at : 0 .. MaxTime,
                             due : SUBSET [id : Schedules, conf : Confs],
                             row : SUBSET [id : Schedules, conf : Confs],
                             fire : SUBSET [id : Schedules, next : Nat],
                             ran : Nat]]
    /\ errors \in 0 .. MaxErrors
    /\ now \in 1 .. MaxTime

-----------------------------------------------------------------------------
(* Helpers of the services *)

NextRun(conf, last, t) ==
    CASE conf.type = "interval" -> (IF last = Null THEN t ELSE last) + conf.n
      [] conf.type = "cron"     -> (t \div conf.n + 1) * conf.n
      [] conf.type = "at"       -> IF conf.n > t THEN conf.n ELSE Null

\* The values a key's rows give it in the dictionary built from them: nothing
\* makes the key unique, nor orders the rows.
Values(rows, k) == {rows[r].set : r \in {x \in SecretRows : rows[x].exists /\ rows[x].key = k}}

\* What a search of these rows for keys without a value may return, and what
\* _get_missing_required_secret_keys_for_package may.
MissingOf(keys, rows) ==
    {M \in SUBSET keys : \A k \in keys :
        IF k \in M THEN Values(rows, k) # {TRUE} ELSE TRUE \in Values(rows, k)}
MissingKeys(rows) == MissingOf(package.meta.required, rows)

\* description_json with its three flags recomputed.
Flags(requested, M) ==
    [package.meta EXCEPT !.requested = requested, !.missing = M, !.blocked = M # {} /\ requested]

\* The package and its schedules as _reconcile_package_secret_state leaves them.
ReconciledPackage(M) ==
    LET requested == package.meta.requested
    IN  [meta |-> Flags(requested, M), enables |-> requested /\ M = {}]
ReconciledSchedules(M) ==
    LET enable == package.meta.requested /\ M = {}
    IN  [s \in Schedules |->
            IF ~schedule[s].exists THEN NoRow
            ELSE IF enable
            THEN [schedule[s] EXCEPT !.active = TRUE,
                                     !.next = NextRun(schedule[s].conf, schedule[s].last, now)]
            ELSE [schedule[s] EXCEPT !.active = FALSE]]

-----------------------------------------------------------------------------
(* Handlers: each reads the database and leaves its session with changes. *)

\* Ids that no row has, and no open transaction remembers: ids are not used twice.
Unknown(s) == /\ ~schedule[s].exists
              /\ \A q \in Requests : s \notin DOMAIN request[q].schedule
              /\ \A w \in Workers : \A d \in tick[w].due \cup tick[w].row \cup tick[w].fire : d.id # s
Free(s)    == Unknown(s) /\ \A t \in Schedules : Unknown(t) => s <= t
FreeRow(r) == /\ ~secret[r].exists
              /\ \A q \in Requests : r \notin DOMAIN request[q].secret
RowsOf(k) == {r \in SecretRows : secret[r].exists /\ secret[r].key = k}

\* The session of thread q holds these objects (its secrets as their changes).
Open(q, schedules, pkg, secretDiffs, run) ==
    /\ ~request[q].busy /\ made < MaxRequests
    /\ request' = [request EXCEPT ![q] =
            [busy     |-> TRUE,
             schedule |-> ChangedRows(schedule, schedules),
             package  |-> Changed(package', pkg),
             secret   |-> secretDiffs,
             run      |-> run]]
    /\ made' = made + 1
    /\ UNCHANGED <<schedule, secret, runs, tick, errors, now>>

NewRow(c, active) ==
    [exists |-> TRUE, conf |-> c, active |-> active, last |-> Null, next |-> NextRun(c, Null, now)]

CreateSchedule(q, s, c, enabled) ==
    /\ Free(s) /\ UNCHANGED package
    /\ \E M \in MissingKeys(secret) :
        Open(q, [schedule EXCEPT ![s] = NewRow(c, enabled /\ M = {})],
             [meta |-> Flags(enabled, M), enables |-> enabled /\ M = {}], NoWrites, 0)

UpdateSchedule(q, s, c, enabled) ==
    /\ schedule[s].exists /\ UNCHANGED package
    /\ \E M \in MissingKeys(secret) :
        Open(q, [schedule EXCEPT ![s] = [@ EXCEPT
                    !.conf = c, !.active = enabled /\ M = {},
                    !.next = NextRun(c, schedule[s].last, now)]],
             [meta |-> Flags(enabled, M), enables |-> enabled /\ M = {}], NoWrites, 0)

\* Refused when secrets are missing, once the package's flags are written.
ActivateSchedule(q, s) ==
    /\ schedule[s].exists /\ UNCHANGED package
    /\ \E M \in MissingKeys(secret) :
        Open(q, [schedule EXCEPT ![s].active = IF M = {} THEN TRUE ELSE @],
             [meta |-> Flags(TRUE, M), enables |-> M = {}], NoWrites, 0)

DeactivateSchedule(q, s) ==
    /\ schedule[s].exists /\ UNCHANGED package
    /\ Open(q, [schedule EXCEPT ![s].active = FALSE], package, NoWrites, 0)

DeleteSchedule(q, s) ==
    /\ schedule[s].exists /\ UNCHANGED package
    /\ Open(q, [schedule EXCEPT ![s] = NoRow], package, NoWrites, 0)

\* A write of secrets: seen are the rows its query for the missing keys returns.
ReconcileSecrets(q, seen, diffs) ==
    /\ UNCHANGED package
    /\ \E M \in MissingKeys(seen) :
        Open(q, ReconciledSchedules(M), ReconciledPackage(M), diffs, 0)

\* create_or_update_secret: an existing row is seen with its new value, a new
\* one, not flushed yet, is not seen.
SetSecret(q, k) ==
    \E r \in RowsOf(k) :
        ReconcileSecrets(q, [secret EXCEPT ![r].set = TRUE], [i \in {r} |-> [set |-> TRUE]])
AddSecret(q, r, k) ==
    /\ RowsOf(k) = {} /\ FreeRow(r)
    /\ ReconcileSecrets(q, secret, [i \in {r} |-> [exists |-> TRUE, key |-> k, set |-> TRUE]])

UpdateSecret(q, r, k) ==
    LET new == [exists |-> TRUE, key |-> k, set |-> TRUE]
    IN  /\ secret[r].exists
        /\ k # secret[r].key => RowsOf(k) = {}
        /\ ReconcileSecrets(q, [secret EXCEPT ![r] = new],
                            [i \in {r} |-> [c \in {"set"} \cup DOMAIN Changed(secret[r], new) |-> new[c]]])

\* The row is marked for deletion, and the query still returns it.
DeleteSecret(q, r) ==
    /\ secret[r].exists
    /\ ReconcileSecrets(q, secret, [i \in {r} |-> NoSecret])

\* The schedules as register_package leaves them: the payload may carry none.
RegisteredSchedules(active) ==
    LET first == IF \E s \in Schedules : schedule[s].exists
                 THEN {s \in Schedules : schedule[s].exists} ELSE {s \in Schedules : Free(s)}
    IN  {schedule} \cup
        {[schedule EXCEPT ![s] = [NewRow(c, active) EXCEPT !.last = schedule[s].last]] :
            s \in first, c \in Confs}

\* register_package of a package that exists. The first commit, which stores
\* schedule_enabled when the manifest has it, and the reads after it are one
\* step. Without a list of keys the stored one stays.
RegisterPackage(q, keys, given, enabled) ==
    LET seenEnables == IF given THEN enabled ELSE package.enables
        bare        == {k \in keys : RowsOf(k) = {}}
    IN  /\ enabled => given
        /\ package' = [package EXCEPT !.enables = seenEnables]
        /\ \E M \in (IF enabled THEN MissingOf(keys, secret) ELSE {{}}),
              required \in {keys} \cup (IF keys = {} THEN {package.meta.required} ELSE {}),
              f \in [bare -> SecretRows] :
            \E rows \in RegisteredSchedules(enabled /\ M = {}) :
                /\ \A k \in bare : FreeRow(f[k]) /\ \A j \in bare : f[j] = f[k] => j = k
                /\ Open(q, rows,
                     [meta    |-> [Flags(enabled, M) EXCEPT !.required = required],
                      enables |-> IF M = {} THEN seenEnables ELSE FALSE],
                     [r \in {f[k] : k \in bare} |->
                        [exists |-> TRUE, key |-> CHOOSE k \in bare : f[k] = r, set |-> FALSE]], 0)

\* create_run: refused when secrets are missing, once the flags are refreshed.
CreateRun(q) ==
    /\ UNCHANGED package
    /\ \E M \in MissingKeys(secret) :
        Open(q, schedule,
             IF M = {} THEN package
             ELSE [package EXCEPT !.meta = Flags(package.meta.requested, M)],
             NoWrites, IF M = {} THEN 1 ELSE 0)

\* A commit waits for the rows the scheduler's transactions have updated.
LockedBy(w) == {f.id : f \in {g \in tick[w].fire : schedule[g.id].exists}}

\* An UPDATE of a row that has vanished raises, and nothing is written; so is it
\* when the API dies.
Vanished(q) ==
    \/ \E s \in DOMAIN request[q].schedule :
         ~schedule[s].exists /\ "exists" \notin DOMAIN request[q].schedule[s]
    \/ \E r \in DOMAIN request[q].secret :
         ~secret[r].exists /\ "exists" \notin DOMAIN request[q].secret[r]

Commit(q) ==
    /\ request[q].busy /\ ~Vanished(q)
    /\ \A w \in Workers : LockedBy(w) \cap DOMAIN request[q].schedule = {}
    /\ schedule' = Written(schedule, request[q].schedule, NoRow)
    /\ package' = Over(package, request[q].package)
    /\ secret' = Written(secret, request[q].secret, NoSecret)
    /\ runs' = [runs EXCEPT !.api = @ + request[q].run]
    /\ request' = [request EXCEPT ![q] = Idle]
    /\ UNCHANGED <<made, tick, errors, now>>

Rollback(q) ==
    /\ request[q].busy
    /\ request' = [request EXCEPT ![q] = Idle]
    /\ UNCHANGED <<dbVars, made, tick, errors, now>>

-----------------------------------------------------------------------------
(* The package as it was registered. *)

\* Key k has the secret f[k], set or provisioned empty.
Provisioned(f, set) ==
    [r \in SecretRows |->
        IF \E k \in Keys : f[k] = r
        THEN [exists |-> TRUE, key |-> CHOOSE k \in Keys : f[k] = r, set |-> set]
        ELSE NoSecret]

\* It was registered with every key, with an enabled schedule or none, and its
\* secrets have been set since, or not: then a schedule is on hold.
Init ==
    /\ now = 1
    /\ \E scheduled, set \in BOOLEAN :
        /\ \E c \in Confs :
            schedule = [s \in Schedules |->
                IF scheduled /\ \A t \in Schedules : s <= t THEN NewRow(c, set) ELSE NoRow]
        /\ package = [meta |-> [required |-> Keys, requested |-> scheduled,
                               blocked |-> scheduled /\ ~set,
                               missing |-> IF scheduled /\ ~set THEN Keys ELSE {}],
                      enables |-> scheduled /\ set]
        /\ secret = Provisioned(CHOOSE f \in [Keys -> SecretRows] :
                                    \A j, k \in Keys : f[j] = f[k] => j = k, set)
    /\ runs = [api |-> 0, scheduled |-> 0]
    /\ request = [q \in Requests |-> Idle] /\ made = 0
    /\ tick = [w \in Workers |-> Resting] /\ errors = 0

-----------------------------------------------------------------------------
(* The scheduler: one transaction per tick. *)

Due(s, t) == schedule[s].exists /\ schedule[s].active /\ schedule[s].next \in 1 .. t

TickSelect(w) ==
    /\ ~tick[w].busy
    /\ \E s \in Schedules : Due(s, now)
    /\ tick' = [tick EXCEPT ![w] =
            [busy |-> TRUE, at |-> now, row |-> {}, fire |-> {}, ran |-> 0,
             due |-> {[id |-> s, conf |-> schedule[s].conf] : s \in {x \in Schedules : Due(x, now)}}]]
    /\ UNCHANGED <<dbVars, apiVars, errors, now>>

\* A tick that finds nothing due changes nothing.
TickNothing(w) ==
    /\ ~tick[w].busy
    /\ \A s \in Schedules : ~Due(s, now)
    /\ UNCHANGED vars

\* Mutant of HasActiveRun: only the API's runs count.
HasApiRun(w) == runs.api > 0

\* A run of the package is pending, queued or running: committed, or its own.
HasActiveRun(w) == runs.api + runs.scheduled > 0 \/ tick[w].ran > 0

\* Mutant of Advance: next_run_time stays as it is.
AdvanceNothing(w, d) == [id |-> d.id, next |-> schedule[d.id].next]

\* The row's new next_run_time: from the configuration read by the SELECT, the
\* time of the tick, and the clock read again.
Advance(w, d) == [id |-> d.id, next |-> NextRun(d.conf, tick[w].at, now)]

TickSkip(w, d) ==
    /\ d \in tick[w].due /\ tick[w].row = {} /\ HasActiveRun(w)
    /\ tick' = [tick EXCEPT ![w].due = @ \ {d}]
    /\ UNCHANGED <<dbVars, apiVars, errors, now>>

\* INSERT of the run.
TickFire(w, d) ==
    /\ d \in tick[w].due /\ tick[w].row = {} /\ ~HasActiveRun(w)
    /\ tick' = [tick EXCEPT ![w].due = @ \ {d}, ![w].row = {d}, ![w].ran = @ + 1]
    /\ UNCHANGED <<dbVars, apiVars, errors, now>>

\* UPDATE of the row, which waits for another worker's.
TickAdvance(w, d) ==
    /\ d \in tick[w].row
    /\ \A v \in Workers \ {w} : d.id \notin LockedBy(v)
    /\ tick' = [tick EXCEPT ![w].row = {}, ![w].fire = @ \cup {Advance(w, d)}]
    /\ UNCHANGED <<dbVars, apiVars, errors, now>>

\* An exception of Python between the two, swallowed: the transaction goes on
\* with the run and without the UPDATE.
TickSwallows(w, d) ==
    /\ d \in tick[w].row /\ errors < MaxErrors
    /\ errors' = errors + 1
    /\ tick' = [tick EXCEPT ![w].row = {}]
    /\ UNCHANGED <<dbVars, apiVars, now>>

TickCommit(w) ==
    /\ tick[w].busy /\ tick[w].due \cup tick[w].row = {}
    /\ schedule' = [s \in Schedules |->
            IF s \in LockedBy(w)
            THEN [schedule[s] EXCEPT !.last = tick[w].at,
                    !.next = (CHOOSE f \in tick[w].fire : f.id = s).next]
            ELSE schedule[s]]
    /\ runs' = [runs EXCEPT !.scheduled = @ + tick[w].ran]
    /\ tick' = [tick EXCEPT ![w] = Resting]
    /\ UNCHANGED <<package, secret, apiVars, errors, now>>

\* An SQL error of a row aborts the transaction: the later rows fail too and the
\* commit rolls back. A worker that dies leaves the same.
TickFails(w) ==
    /\ tick[w].busy /\ errors < MaxErrors
    /\ errors' = errors + 1
    /\ tick' = [tick EXCEPT ![w] = Resting]
    /\ UNCHANGED <<dbVars, apiVars, now>>

\* A run ends (BatchWorker and DaemonWorker say how).
RunEnds(by) ==
    /\ runs[by] > 0
    /\ runs' = [runs EXCEPT ![by] = @ - 1]
    /\ UNCHANGED <<schedule, package, secret, apiVars, tick, errors, now>>

TimePasses ==
    /\ now < MaxTime
    /\ now' = now + 1
    /\ UNCHANGED <<dbVars, apiVars, tick, errors>>

-----------------------------------------------------------------------------
Handler(q) ==
    \/ \E s \in Schedules, c \in Confs, e \in BOOLEAN :
        CreateSchedule(q, s, c, e) \/ UpdateSchedule(q, s, c, e)
    \/ \E s \in Schedules :
        ActivateSchedule(q, s) \/ DeactivateSchedule(q, s) \/ DeleteSchedule(q, s)
    \/ \E k \in Keys : SetSecret(q, k)
    \/ \E r \in SecretRows, k \in Keys : AddSecret(q, r, k) \/ UpdateSecret(q, r, k)
    \/ \E r \in SecretRows : DeleteSecret(q, r)
    \/ \E keys \in SUBSET Keys, given, e \in BOOLEAN : RegisterPackage(q, keys, given, e)
    \/ CreateRun(q)

Tick(w) ==
    \/ TickSelect(w) \/ TickNothing(w)
    \/ \E d \in [id : Schedules, conf : Confs]  :
        TickSkip(w, d) \/ TickFire(w, d) \/ TickAdvance(w, d)
    \/ TickCommit(w)

Next ==
    \/ \E q \in Requests : Handler(q) \/ Commit(q) \/ Rollback(q)
    \/ \E w \in Workers : Tick(w) \/ TickFails(w)
    \/ \E w \in Workers, d \in [id : Schedules, conf : Confs] : TickSwallows(w, d)
    \/ \E by \in {"api", "scheduled"} : RunEnds(by)
    \/ TimePasses

Spec == Init /\ [][Next]_vars

\* The workers stay up and their loop ticks; every run ends. Nothing is
\* assumed of the handlers.
FairSpec ==
    /\ Spec
    /\ \A w \in Workers : WF_vars(Tick(w))
    /\ \A by \in {"api", "scheduled"} : WF_vars(RunEnds(by))

-----------------------------------------------------------------------------
(* What must hold. *)

\* The scheduler "Skips if a run is already pending / queued / running for the
\* package" (scheduler.py:99): with one worker its own runs never overlap,
\* whatever handlers change between its SELECT and its commit.
NoOverlap == runs.scheduled <= 1

\* A package is on hold only "until required secrets are set" (run_service.py:232,
\* schedule_service.py:251, test_schedules.py:138): with no handler at work, a
\* package recorded as blocked lacks a secret.
BlockedIsMissing ==
    (\A q \in Requests : ~request[q].busy) /\ package.meta.blocked => {} \notin MissingKeys(secret)

\* A handler that read a schedule before a tick fired it, and commits after,
\* does not undo what the tick recorded: last_run_time never goes back.
LastRunKept ==
    [][\A s \in Schedules :
        schedule[s].exists /\ schedule'[s].exists => schedule[s].last <= schedule'[s].last]_vars

\* A due schedule does not stay due: its run is inserted and its next_run_time
\* moves on, or a handler takes it back, though its package is busy with other
\* runs, ticks fail and handlers write the row meanwhile.
DueIsServed == \A s \in Schedules : Due(s, now) ~> ~Due(s, now)
=============================================================================
