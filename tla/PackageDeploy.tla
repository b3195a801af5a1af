--------------------------- MODULE PackageDeploy ---------------------------
(***************************************************************************)
(* How a package gets from a zip in the incoming directory to the code a    *)
(* run executes. The watcher (watcher/package_watcher.py) registers the     *)
(* manifest with the API (api/services/package_service.py), extracts the    *)
(* zip into the package's directory and archives it; a user may register    *)
(* the same package with a request of their own. A worker                   *)
(* (worker/worker.py) finds the directory of a run's package, and the       *)
(* runner (runner/platform/run_agent.py) the program in it. Nothing but the *)
(* file system and the table agent_packages lies between them.              *)
(*                                                                          *)
(* Packages are never deleted and their names are unique, so a package      *)
(* stands for its name and its id.                                          *)
(***************************************************************************)
EXTENDS Naturals, FiniteSets

CONSTANTS
    Packages,
    Files,      \* zips, numbers in the order of their names
    Posts,      \* requests of users to register a package
    Handlers,   \* threads of the API
    Runs,
    Of,         \* the package a manifest names
    Action,     \* its action: "new", "update", "new_version", or "upsert" (a post's)
    Mode,       \* where its runs execute: "local", "container", or "daemon"
    Nested,     \* files whose content lies in one folder
    Deployed,   \* files archived before the behaviour begins, one of a package
    Copied,     \* files written into the incoming directory, not moved there
    None,
    Root,       \* the directory of all packages, as a run's workspace
    MaxFaults   \* bound on failures, crashes and lost answers

Manifests == Files \cup Posts

ASSUME DeployAssumption ==
    /\ Files \subseteq Nat /\ IsFiniteSet(Files) /\ MaxFaults \in Nat
    /\ Files \cap Posts = {} /\ None \notin Manifests \cup Packages \cup Handlers
    /\ Root \notin Packages \cup {None}
    /\ Of \in [Manifests -> Packages]
    /\ Action \in [Manifests -> {"new", "update", "new_version", "upsert"}]
    /\ Mode \in [Manifests -> {"local", "container", "daemon"}]
    /\ Nested \cup Copied \cup Deployed \subseteq Files
    /\ \A f, g \in Deployed : Of[f] = Of[g] => f = g

VARIABLES
    place,    \* where each file is
    watcher,  \* the watcher's place in its scan
    handler,  \* the registrations in the API
    row,      \* agent_packages
    code,     \* the deployed directories, <name>_pkg<id> of each package
    run,      \* the runs
    posted,   \* posts already sent
    lost,     \* packages of a registration the watcher stopped waiting for (history)
    faults    \* failures so far

vars == <<place, watcher, handler, row, code, run, posted, lost, faults>>

-----------------------------------------------------------------------------
Content   == [is : {"absent", "empty", "part", "whole"}, of : Files \cup {None}]
Absent    == [is |-> "absent", of |-> None]
Empty     == [is |-> "empty", of |-> None]
Part(f)   == [is |-> "part", of |-> f]
Whole(f)  == [is |-> "whole", of |-> f]

Idle      == [at |-> "idle", of |-> None, found |-> None]
Answered  == {"ok", "refused"}
Scanning  == {"next", "validate", "register", "waiting", "clear", "make", "extract", "rest", "archive",
              "fail", "again"}

TypeOK ==
    /\ place \in [Files -> {"outside", "copying", "incoming", "archives", "failed", "withdrawn"}]
    /\ watcher \in [at : {"down", "idle"} \cup Scanning, todo : SUBSET Files,
                    file : Files \cup {None}, asks : Handlers \cup {None}]
    /\ handler \in [Handlers -> [at : {"idle", "received", "checked", "named"} \cup Answered,
                                 of : Manifests \cup {None}, found : Manifests \cup {None}]]
    /\ row \in [Packages -> [exists : BOOLEAN, path : BOOLEAN, of : Manifests \cup {None}]]
    /\ code \in [Packages -> Content]
    /\ run \in [Runs -> [at : {"none", "queued", "resolved", "done"}, of : Packages \cup {None},
                         mode : {"batch", "local", "container", "daemon", "unsupported", None}, ws : Packages \cup {Root, None},
                         settled : Files \cup {None}, ran : Files \cup {None}]]
    /\ posted \subseteq Posts /\ lost \subseteq Packages /\ faults \in 0 .. MaxFaults

Init ==
    LET before(n) == {f \in Deployed : Of[f] = n} IN
    /\ place = [f \in Files |-> IF f \in Deployed THEN "archives" ELSE "outside"]
    /\ watcher = [at |-> "idle", todo |-> {}, file |-> None, asks |-> None]
    /\ handler = [h \in Handlers |-> Idle]
    /\ row = [n \in Packages |-> [exists |-> before(n) # {}, path |-> before(n) # {},
                                  of |-> IF before(n) = {} THEN None ELSE CHOOSE f \in before(n) : TRUE]]
    /\ code = [n \in Packages |-> IF before(n) = {} THEN Absent ELSE Whole(CHOOSE f \in before(n) : TRUE)]
    /\ run = [r \in Runs |-> [at |-> "none", of |-> None, mode |-> None, ws |-> None,
                              settled |-> None, ran |-> None]]
    /\ posted = {} /\ lost = {} /\ faults = 0

Fault == faults < MaxFaults /\ faults' = faults + 1

-----------------------------------------------------------------------------
(* Users put files into the incoming directory and register packages *)

Drop(f) ==
    /\ place[f] = "outside"
    /\ place' = [place EXCEPT ![f] = IF f \in Copied THEN "copying" ELSE "incoming"]
    /\ UNCHANGED <<watcher, handler, row, code, run, posted, lost, faults>>

FinishCopy(f) ==
    /\ place[f] = "copying" /\ place' = [place EXCEPT ![f] = "incoming"]
    /\ UNCHANGED <<watcher, handler, row, code, run, posted, lost, faults>>

Withdraw(f) ==
    /\ place[f] = "copying" /\ watcher.file # f
    /\ place' = [place EXCEPT ![f] = "withdrawn"]
    /\ UNCHANGED <<watcher, handler, row, code, run, posted, lost, faults>>

Send(h, m) == handler' = [handler EXCEPT ![h] = [at |-> "received", of |-> m, found |-> None]]

Post(h, m) ==
    /\ handler[h].at = "idle" /\ m \notin posted
    /\ posted' = posted \cup {m} /\ Send(h, m)
    /\ UNCHANGED <<place, watcher, row, code, run, lost, faults>>

-----------------------------------------------------------------------------
(* POST /packages/register: two commits *)

\* Mutant of Refused: the name of a "new" package is left to the database.
AcceptsNew(a, exists) == ~exists /\ a \in {"update", "new_version"}

Refused(a, exists) == IF exists THEN a = "new" ELSE a \in {"update", "new_version"}

\* What the request's client gets; the answer to one that has gone is dropped.
Answer(h, a) == IF watcher.asks = h THEN [handler[h] EXCEPT !.at = a] ELSE Idle

\* Mutant of CheckAction: it keeps the name of the row, not what the row says.
CheckActionByName(h) ==
    LET m == handler[h].of  n == Of[m] IN
    /\ handler[h].at = "received"
    /\ handler' = [handler EXCEPT ![h] = IF Refused(Action[m], row[n].exists) THEN Answer(h, "refused")
                                         ELSE [@ EXCEPT !.at = "checked", !.found = n]]
    /\ UNCHANGED <<place, watcher, row, code, run, posted, lost, faults>>

CheckAction(h) ==
    LET m == handler[h].of  n == Of[m] IN
    /\ handler[h].at = "received"
    /\ handler' = [handler EXCEPT ![h] = IF Refused(Action[m], row[n].exists) THEN Answer(h, "refused")
                                         ELSE [@ EXCEPT !.at = "checked", !.found = row[n].of]]
    /\ UNCHANGED <<place, watcher, row, code, run, posted, lost, faults>>

\* The session writes the columns whose values differ from those it read;
\* the name is unique, so of two insertions the second fails.
CommitMetadata(h) ==
    LET m == handler[h].of  n == Of[m]  clash == handler[h].found = None /\ row[n].exists IN
    /\ handler[h].at = "checked"
    /\ row' = IF clash \/ handler[h].found = m THEN row
              ELSE [row EXCEPT ![n].exists = TRUE, ![n].of = m]
    /\ handler' = [handler EXCEPT ![h] = IF clash THEN Answer(h, "refused") ELSE [@ EXCEPT !.at = "named"]]
    /\ UNCHANGED <<place, watcher, code, run, posted, lost, faults>>

CommitPath(h) ==
    LET n == Of[handler[h].of] IN
    /\ handler[h].at = "named"
    /\ row' = [row EXCEPT ![n].path = TRUE]
    /\ handler' = [handler EXCEPT ![h] = Answer(h, "ok")]
    /\ UNCHANGED <<place, watcher, code, run, posted, lost, faults>>

\* The rate limit (30 requests a minute), a token that does not match, or a
\* statement that raises; the first commit is not undone.
ApiError(h) ==
    /\ Fault /\ handler[h].at \in {"received", "checked", "named"}
    /\ handler' = [handler EXCEPT ![h] = Answer(h, "refused")]
    /\ UNCHANGED <<place, watcher, row, code, run, posted, lost>>

\* The API's process dies with its open sessions; the watcher's connection breaks.
ApiCrash ==
    /\ Fault /\ \E h \in Handlers : handler[h].at # "idle"
    /\ handler' = [h \in Handlers |-> Idle]
    /\ watcher' = IF watcher.at = "waiting" THEN [watcher EXCEPT !.at = "fail", !.asks = None] ELSE watcher
    /\ UNCHANGED <<place, row, code, run, posted, lost>>

-----------------------------------------------------------------------------
(* The watcher: scan_incoming_directory and process_package *)

Present(f) == place[f] \in {"copying", "incoming"}
To(at)     == watcher' = [watcher EXCEPT !.at = at]
NextFile   == watcher' = [watcher EXCEPT !.at = "next", !.file = None]

List ==
    /\ watcher.at = "idle" /\ \E f \in Files : Present(f)
    /\ watcher' = [watcher EXCEPT !.at = "next", !.todo = {f \in Files : Present(f)}]
    /\ UNCHANGED <<place, handler, row, code, run, posted, lost, faults>>

\* A file that is gone ends the scan; one whose size changes is skipped.
Take ==
    /\ watcher.at = "next"
    /\ IF watcher.todo = {} THEN To("idle")
       ELSE LET f == CHOOSE x \in watcher.todo : \A y \in watcher.todo : x <= y
                rest == watcher.todo \ {f}
            IN \/ ~Present(f) /\ watcher' = [watcher EXCEPT !.at = "idle", !.todo = {}]
               \/ place[f] = "copying" /\ watcher' = [watcher EXCEPT !.todo = rest]
               \/ Present(f) /\ watcher' = [watcher EXCEPT !.at = "validate", !.todo = rest, !.file = f]
    /\ UNCHANGED <<place, handler, row, code, run, posted, lost, faults>>

\* A file still being copied is not a zip yet.
Validate ==
    /\ watcher.at = "validate"
    /\ To(IF place[watcher.file] = "copying" THEN "fail" ELSE "register")
    /\ UNCHANGED <<place, handler, row, code, run, posted, lost, faults>>

Register(h) ==
    /\ watcher.at = "register" /\ handler[h].at = "idle"
    /\ Send(h, watcher.file)
    /\ watcher' = [watcher EXCEPT !.at = "waiting", !.asks = h]
    /\ UNCHANGED <<place, row, code, run, posted, lost, faults>>

\* Mutant of Registered: the watcher reads only an answer that says yes.
RegisteredOnlyOk ==
    LET h == watcher.asks IN
    /\ watcher.at = "waiting" /\ handler[h].at = "ok"
    /\ watcher' = [watcher EXCEPT !.at = "clear", !.asks = None]
    /\ handler' = [handler EXCEPT ![h] = Idle]
    /\ UNCHANGED <<place, row, code, run, posted, lost, faults>>

Registered ==
    LET h == watcher.asks IN
    /\ watcher.at = "waiting" /\ handler[h].at \in Answered
    /\ watcher' = [watcher EXCEPT !.at = IF handler[h].at = "ok" THEN "clear" ELSE "fail", !.asks = None]
    /\ handler' = [handler EXCEPT ![h] = Idle]
    /\ UNCHANGED <<place, row, code, run, posted, lost, faults>>

\* What becomes of the request the watcher no longer waits for.
Abandoned ==
    /\ handler' = [h \in Handlers |-> IF h = watcher.asks /\ handler[h].at \in Answered THEN Idle ELSE handler[h]]
    /\ lost' = IF watcher.at = "waiting" THEN lost \cup {Of[watcher.file]} ELSE lost

\* Thirty seconds without an answer, or an answer that does not arrive.
AnswerLost ==
    /\ Fault /\ watcher.at = "waiting"
    /\ watcher' = [watcher EXCEPT !.at = "fail", !.asks = None]
    /\ Abandoned
    /\ UNCHANGED <<place, row, code, run, posted>>

\* rmtree of the old directory, entry by entry, and makedirs.
Clear ==
    LET d == Of[watcher.file] IN
    /\ watcher.at = "clear"
    /\ code' = [code EXCEPT ![d] = IF @.of # None /\ @.is = "whole" THEN Part(@.of) ELSE Absent]
    /\ To(IF code'[d] = Absent THEN "make" ELSE "clear")
    /\ UNCHANGED <<place, handler, row, run, posted, lost, faults>>

Make ==
    /\ watcher.at = "make"
    /\ code' = [code EXCEPT ![Of[watcher.file]] = Empty]
    /\ To("extract")
    /\ UNCHANGED <<place, handler, row, run, posted, lost, faults>>

Extract ==
    /\ watcher.at \in {"extract", "rest"}
    /\ code' = [code EXCEPT ![Of[watcher.file]] = IF watcher.at = "extract" THEN Part(watcher.file)
                                                      ELSE Whole(watcher.file)]
    /\ To(IF watcher.at = "extract" THEN "rest" ELSE "archive")
    /\ UNCHANGED <<place, handler, row, run, posted, lost, faults>>

\* Mutant of Refuse: the result of the extraction is not looked at.
RefuseArchives ==
    /\ Fault /\ watcher.at \in {"validate", "clear", "make", "extract", "rest"}
    /\ To(IF watcher.at = "validate" THEN "fail" ELSE "archive")
    /\ UNCHANGED <<place, handler, row, code, run, posted, lost>>

\* The file is refused, or a step raises: no zip, no manifest, no name; a link
\* or a path that leaves the directory, found once that is empty; a full disk.
Refuse ==
    /\ Fault /\ watcher.at \in {"validate", "clear", "make", "extract", "rest"}
    /\ To("fail")
    /\ UNCHANGED <<place, handler, row, code, run, posted, lost>>

Archive ==
    /\ watcher.at = "archive"
    /\ place' = [place EXCEPT ![watcher.file] = "archives"]
    /\ NextFile
    /\ UNCHANGED <<handler, row, code, run, posted, lost, faults>>

MoveToFailed ==
    /\ watcher.at \in {"fail", "again"}
    /\ place' = [place EXCEPT ![watcher.file] = "failed"]
    /\ NextFile
    /\ UNCHANGED <<handler, row, code, run, posted, lost, faults>>

\* A move that raises is followed by one move to the failed directory; when
\* that raises too the file stays, for the next scan. What raises after a move
\* (the log, the error file) changes nothing: the second move finds no file.
MoveFails ==
    /\ Fault /\ watcher.at \in {"archive", "fail", "again"}
    /\ IF watcher.at = "again" THEN NextFile ELSE To("again")
    /\ UNCHANGED <<place, handler, row, code, run, posted, lost>>

Crash ==
    /\ Fault /\ watcher.at # "down"
    /\ watcher' = [at |-> "down", todo |-> {}, file |-> None, asks |-> None]
    /\ Abandoned
    /\ UNCHANGED <<place, row, code, run, posted>>

Start ==
    /\ watcher.at = "down" /\ To("idle")
    /\ UNCHANGED <<place, handler, row, code, run, posted, lost, faults>>

-----------------------------------------------------------------------------
(* A run: the worker's _execute_run, the runner's main *)

\* The file whose code the package's row and its directory should both be.
Settled(n) == IF row[n].of \in Files /\ row[n].path /\ n \notin lost
              THEN IF place[row[n].of] = "archives" THEN row[n].of ELSE None
              ELSE None

\* Mutant of Workspaces: the path and the name of the package are not tried.
SharedWorkspaces(n) == {Root}

\* Where the package should be, by its path or by its name; else the deployed
\* directory, or the one folder in it when that has a manifest.
Workspaces(n) ==
    LET there == {d \in Packages : code[d].is # "absent"}
        sole  == {d \in there : there = {d} /\ code[d].is \in {"part", "whole"} /\ code[d].of \notin Nested}
    IN IF n \in there THEN {n}
       ELSE sole \cup (IF \E d \in sole : code[d].is = "whole" THEN {} ELSE {Root})

\* A run is queued with the runtime mode its package has then.
Create(r, n) ==
    /\ run[r].at = "none" /\ row[n].exists
    /\ run' = [run EXCEPT ![r].at = "queued", ![r].of = n,
                          ![r].mode = IF Mode[row[n].of] = "daemon" THEN "daemon" ELSE "batch"]
    /\ UNCHANGED <<place, watcher, handler, row, code, posted, lost, faults>>

\* How a run executes: its own runtime mode, where its package is deployed now.
RunMode(r) ==
    LET local == Mode[row[run[r].of].of] = "local"
    IN IF run[r].mode = "daemon" THEN IF local THEN "unsupported" ELSE "daemon"
       ELSE IF local THEN "local" ELSE "container"

\* A daemon's container gets the path of the row whatever is there.
Directory(r, n) == IF RunMode(r) = "daemon" /\ row[n].path THEN {n} ELSE Workspaces(n)

\* The run is claimed.
Resolve(r, n) ==
    /\ run[r].at = "queued" /\ run[r].of = n
    /\ \E ws \in Directory(r, n) :
         run' = [run EXCEPT ![r] = [at |-> "resolved", of |-> n, mode |-> RunMode(r), ws |-> ws,
                                    settled |-> Settled(n), ran |-> None]]
    /\ UNCHANGED <<place, watcher, handler, row, code, posted, lost, faults>>

\* The program found in a directory: in a part of a package it may be missing.
Program(d) == CASE code[d].is = "whole" -> {code[d].of}
                [] code[d].is = "part"  -> {code[d].of, None}
                [] OTHER                -> {None}

\* In the directory of all packages the runner takes the manifest that lies
\* the least deep; the local worker finds no program there.
Shallowest ==
    LET found == {d \in Packages : code[d].is \in {"part", "whole"}}
    IN {d \in found : code[d].of \in Nested => \A e \in found : code[e].is = "whole" => code[e].of \in Nested}

Programs(mode, ws) ==
    (IF mode = "unsupported" THEN {None}
     ELSE IF ws # Root THEN Program(ws)
     ELSE IF mode = "local" THEN {None} ELSE UNION {Program(d) : d \in Shallowest})
    \cup (IF mode = "local" THEN {} ELSE {None})   \* the container may not start

Execute(r) ==
    /\ run[r].at = "resolved"
    /\ \E f \in Programs(run[r].mode, run[r].ws) :
         run' = [run EXCEPT ![r].at = "done", ![r].ran = f, ![r].ws = None,
                            ![r].settled = IF Settled(run[r].of) = @ THEN @ ELSE None]
    /\ UNCHANGED <<place, watcher, handler, row, code, posted, lost, faults>>

-----------------------------------------------------------------------------
WatcherStep == List \/ Take \/ Validate \/ (\E h \in Handlers : Register(h)) \/ Registered
               \/ Clear \/ Make \/ Extract \/ Archive \/ MoveToFailed
Handle(h)   == CheckAction(h) \/ CommitMetadata(h) \/ CommitPath(h)

Next ==
    \/ \E f \in Files : Drop(f) \/ FinishCopy(f) \/ Withdraw(f)
    \/ \E h \in Handlers : Handle(h) \/ ApiError(h) \/ \E m \in Posts : Post(h, m)
    \/ ApiCrash \/ WatcherStep \/ AnswerLost \/ Refuse \/ MoveFails \/ Crash \/ Start
    \/ \E r \in Runs : Execute(r) \/ \E n \in Packages : Create(r, n) \/ Resolve(r, n)

Spec == Init /\ [][Next]_vars

\* The watcher's loop goes on while it is up, and so do the API's threads.
FairSpec == Spec /\ WF_vars(WatcherStep) /\ \A h \in Handlers : WF_vars(Handle(h))

-----------------------------------------------------------------------------
(* Properties *)

\* A package whose row was last written by an archived file has exactly that
\* file's code in its directory, whatever failed, crashed or was registered in
\* between; only the late effect of a registration the watcher stopped waiting
\* for (lost) may break the tie (process_package: register, extract, archive).
ArchivedIsServed ==
    \A n \in Packages :
        LET f == row[n].of IN
        f \in Files /\ n \notin lost => (place[f] = "archives" => code[n] = Whole(f))

\* A run whose package was settled on one archived file both when its directory
\* was looked up and when its program started executes that file's code, or, in
\* a container or a mode local packages do not have, nothing: never a part, an
\* old version or another package (_resolve_workspace falls back to the directory of all packages).
SettledRunsServe ==
    \A r \in Runs :
        run[r].at = "done" /\ run[r].settled # None =>
            run[r].ran = run[r].settled \/ (run[r].mode # "local" /\ run[r].ran = None)

\* A file whose manifest says "new" never disturbs the whole code of a package
\* that is already deployed, not even when two registrations of the name meet
\* or the watcher takes the file up again after a crash (register_package).
NewNeverReplaces ==
    [][\A d \in Packages : code[d].is = "whole" /\ code'[d] # code[d] => Action[watcher.file] # "new"]_vars

\* A file in the incoming directory is archived or failed (or withdrawn) unless
\* the watcher dies: no other file, and no step that fails, holds it up
\* (scan_incoming_directory catches what process_package raises).
EveryDropEnds ==
    \A f \in Files : place[f] = "incoming" ~> (place[f] \notin {"incoming", "copying"} \/ watcher.at = "down")
=============================================================================
