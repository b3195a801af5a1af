------------------------ MODULE PackageDeployProofs ------------------------
(***************************************************************************)
(* Proofs about PackageDeploy, for every set of packages, files, users'     *)
(* registrations, runs and threads of the API, and any number of faults.    *)
(***************************************************************************)
EXTENDS PackageDeploy, WellFoundedInduction, TLAPS

-----------------------------------------------------------------------------
(* The invariant. *)

Holding == Scanning \ {"next"}      \* the watcher has a file in its hands
Placing == {"clear", "make", "extract", "rest", "archive"}   \* its registration was answered with yes
Ongoing == {"received", "checked", "named"}

\* Nobody but the watcher moves the file it holds.
FileHeld ==
    /\ watcher.at \in Holding => watcher.file \in Files /\ Present(watcher.file)
    /\ watcher.at \notin Holding => watcher.file = None

\* The watcher waits for the handler of the file it holds, and only then.
Asked ==
    /\ watcher.at = "waiting" =>
         /\ watcher.asks \in Handlers /\ handler[watcher.asks].at # "idle"
         /\ handler[watcher.asks].of = watcher.file
    /\ watcher.at # "waiting" => watcher.asks = None

\* A handler has a manifest. One that has answered is the watcher's; and so is
\* one at work on a file, unless the watcher has given it up.
HandlersKnown ==
    \A h \in Handlers :
        /\ handler[h].at # "idle" => handler[h].of \in Manifests
        /\ handler[h].at \in Answered => watcher.asks = h
        /\ handler[h].at # "idle" /\ handler[h].of \in Files /\ Of[handler[h].of] \notin lost =>
             watcher.asks = h

\* Rows.
RowsKnown ==
    \A n \in Packages :
        /\ row[n].exists <=> row[n].of # None
        /\ row[n].of # None => Of[row[n].of] = n
        /\ code[n].is # "absent" => row[n].exists

\* The watcher's registration has gone through, or has nothing to change.
Through ==
    \/ watcher.at \in Placing
    \/ /\ watcher.at = "waiting"
       /\ LET h == watcher.asks IN
            \/ handler[h].at \in {"named", "ok"}
            \/ handler[h].at = "checked" /\ handler[h].found = watcher.file

\* Then the row is the file's, or a post's that came after.
RowClaimed ==
    Through => /\ row[Of[watcher.file]].exists
               /\ Of[watcher.file] \notin lost => row[Of[watcher.file]].of \in {watcher.file} \cup Posts

\* A handler past its checks has made its row; one of a "new" manifest found none.
Checks ==
    \A h \in Handlers :
        /\ handler[h].at \in {"named", "ok"} => row[Of[handler[h].of]].exists
        /\ handler[h].at = "checked" => handler[h].found = None \/ row[Of[handler[h].of]].exists
        /\ handler[h].at = "checked" /\ Action[handler[h].of] = "new" => handler[h].found = None

\* A "new" file that is being placed found no whole code.
NewIsFirst ==
    (watcher.at \in Placing \ {"archive"} \/ (watcher.at = "waiting" /\ handler[watcher.asks].at \in {"named", "ok"}))
        /\ Action[watcher.file] = "new"
            => code[Of[watcher.file]].is # "whole"

\* What is archived is there.
Extracted == watcher.at = "archive" => code[Of[watcher.file]] = Whole(watcher.file)

\* A run has a directory; when its package was settled it is the package's.
ResolvedThere ==
    \A r \in Runs :
        run[r].at = "resolved" =>
            /\ run[r].of \in Packages /\ run[r].ws \in Packages \cup {Root}
            /\ run[r].settled # None => run[r].ws = run[r].of

DeployInv ==
    /\ TypeOK /\ FileHeld /\ Asked /\ HandlersKnown /\ RowsKnown /\ RowClaimed /\ Checks
    /\ NewIsFirst /\ Extracted /\ ArchivedIsServed /\ ResolvedThere /\ SettledRunsServe

-----------------------------------------------------------------------------
(* Types. *)

WatcherState == [at : {"down", "idle"} \cup Scanning, todo : SUBSET Files,
                 file : Files \cup {None}, asks : Handlers \cup {None}]
HandlerState == [at : {"idle", "received", "checked", "named"} \cup Answered,
                 of : Manifests \cup {None}, found : Manifests \cup {None}]
RowState     == [exists : BOOLEAN, path : BOOLEAN, of : Manifests \cup {None}]
RunState     == [at : {"none", "queued", "resolved", "done"}, of : Packages \cup {None},
                 mode : {"batch", "local", "container", "daemon", "unsupported", None}, ws : Packages \cup {Root, None},
                 settled : Files \cup {None}, ran : Files \cup {None}]
Places       == {"outside", "copying", "incoming", "archives", "failed", "withdrawn"}

LEMMA Types ==
    /\ TypeOK <=>
        /\ place \in [Files -> Places] /\ watcher \in WatcherState
        /\ handler \in [Handlers -> HandlerState] /\ row \in [Packages -> RowState]
        /\ code \in [Packages -> Content] /\ run \in [Runs -> RunState]
        /\ posted \subseteq Posts /\ lost \subseteq Packages /\ faults \in 0 .. MaxFaults
    /\ TypeOK' <=>
        /\ place' \in [Files -> Places] /\ watcher' \in WatcherState
        /\ handler' \in [Handlers -> HandlerState] /\ row' \in [Packages -> RowState]
        /\ code' \in [Packages -> Content] /\ run' \in [Runs -> RunState]
        /\ posted' \subseteq Posts /\ lost' \subseteq Packages /\ faults' \in 0 .. MaxFaults
  BY DEF TypeOK, WatcherState, HandlerState, RowState, RunState, Places

LEMMA Known ==
    /\ None \notin Files /\ None \notin Posts /\ None \notin Handlers /\ None \notin Packages
    /\ Root \notin Packages /\ Root # None
    /\ \A f \in Files : f \notin Posts /\ f \in Nat
    /\ \A m \in Manifests : Of[m] \in Packages /\ Mode[m] \in {"local", "container", "daemon"}
    /\ \A f \in Files : f \in Manifests
    /\ \A f \in Posts : f \in Manifests
    /\ MaxFaults \in Nat
  BY DeployAssumption DEF Manifests

LEMMA AnswerType ==
    ASSUME TypeOK, NEW h \in Handlers, NEW a \in Answered
    PROVE  Answer(h, a) \in HandlerState
<1>1. Idle \in HandlerState
  BY DEF Idle, HandlerState, Answered
<1>2. [handler[h] EXCEPT !.at = a] \in HandlerState
  BY Types DEF HandlerState
<1>3. QED
  BY <1>1, <1>2 DEF Answer

LEMMA FaultType == ASSUME TypeOK, Fault PROVE faults' \in 0 .. MaxFaults
  BY Known DEF TypeOK, Fault

LEMMA HandleType ==
    ASSUME DeployInv, NEW h \in Handlers, CheckAction(h) \/ CommitMetadata(h) \/ CommitPath(h) \/ ApiError(h)
    PROVE  TypeOK'
<1> USE DEF DeployInv
<1>1. /\ \A a \in Answered : Answer(h, a) \in HandlerState
      /\ "ok" \in Answered /\ "refused" \in Answered
      /\ handler \in [Handlers -> HandlerState] /\ row \in [Packages -> RowState]
  BY AnswerType, Types DEF Answered
<1>2. CASE CheckAction(h)
  <2> DEFINE m == handler[h].of
             n == Of[m]
  <2>1. m \in Manifests /\ n \in Packages
    BY <1>2, Known DEF CheckAction, HandlersKnown
  <2> DEFINE made == row[n].of
  <2>2. made \in Manifests \cup {None}
    BY <1>1, <2>1 DEF RowState
  <2> HIDE DEF made
  <2>3. [handler[h] EXCEPT !.at = "checked", !.found = made] \in HandlerState
    <3>1. handler[h] \in HandlerState
      BY <1>1
    <3>2. QED
      BY <2>2, <3>1 DEF HandlerState
  <2>5. handler' \in [Handlers -> HandlerState]
    BY <1>1, <1>2, <2>3 DEF CheckAction, made
  <2>6. QED
    BY <1>2, <2>5, Types DEF CheckAction
<1>3. CASE CommitMetadata(h)
  <2> DEFINE m == handler[h].of
             n == Of[m]
  <2>1. m \in Manifests /\ n \in Packages
    BY <1>3, Known DEF CommitMetadata, HandlersKnown
  <2>2. [row[n] EXCEPT !.exists = TRUE, !.of = m] \in RowState
    BY <1>1, <2>1 DEF RowState
  <2>3. row' \in [Packages -> RowState]
    BY <1>1, <1>3, <2>2 DEF CommitMetadata
  <2>4. [handler[h] EXCEPT !.at = "named"] \in HandlerState
    BY <1>1 DEF HandlerState
  <2>5. handler' \in [Handlers -> HandlerState]
    BY <1>1, <1>3, <2>4 DEF CommitMetadata
  <2>6. QED
    BY <1>3, <2>3, <2>5, Types DEF CommitMetadata
<1>4. CASE CommitPath(h)
  <2> DEFINE n == Of[handler[h].of]
  <2>1. n \in Packages
    BY <1>4, Known DEF CommitPath, HandlersKnown
  <2>2. [row[n] EXCEPT !.path = TRUE] \in RowState
    BY <1>1, <2>1 DEF RowState
  <2>3. row' \in [Packages -> RowState]
    BY <1>1, <1>4, <2>2 DEF CommitPath
  <2>4. handler' \in [Handlers -> HandlerState]
    BY <1>1, <1>4 DEF CommitPath
  <2>5. QED
    BY <1>4, <2>3, <2>4, Types DEF CommitPath
<1>5. CASE ApiError(h)
  BY <1>1, <1>5, FaultType, Types DEF ApiError
<1>6. QED
  BY <1>2, <1>3, <1>4, <1>5

\* Each step of the watcher that changes only itself.
LEMMA WatcherType ==
    ASSUME DeployInv, watcher' \in WatcherState,
           UNCHANGED <<place, handler, row, code, run, posted, lost>>, faults' \in 0 .. MaxFaults
    PROVE  TypeOK'
  BY Types DEF DeployInv

\* The least file of a listing.
LEMMA LeastFile ==
    ASSUME NEW todo \in SUBSET Files, todo # {}
    PROVE  \E f \in todo : \A g \in todo : f <= g
<1>1. todo \subseteq Nat
  BY Known
<1>2. PICK f \in todo : \A g \in todo : <<g, f>> \notin OpToRel(<, Nat)
  BY <1>1, NatLessThanWellFounded, WFMin
<1>3. \A g \in todo : ~(g < f)
  BY <1>1, <1>2 DEF OpToRel
<1>4. QED
  BY <1>1, <1>3

-----------------------------------------------------------------------------
(* What each part of the invariant is about. *)

LEMMA Untouched ==
    ASSUME DeployInv
    PROVE  /\ UNCHANGED <<watcher, place>> => FileHeld'
           /\ UNCHANGED <<watcher, handler>> => Asked'
           /\ UNCHANGED <<watcher, handler, lost>> => HandlersKnown'
           /\ UNCHANGED <<row, code>> => RowsKnown'
           /\ UNCHANGED <<watcher, handler, row, lost>> => RowClaimed'
           /\ UNCHANGED <<handler, row>> => Checks'
           /\ UNCHANGED <<watcher, handler, code>> => NewIsFirst'
           /\ UNCHANGED <<watcher, code>> => Extracted'
           /\ UNCHANGED <<place, row, code, lost>> => ArchivedIsServed'
           /\ UNCHANGED run => ResolvedThere' /\ SettledRunsServe'
<1> USE DEF DeployInv
<1>1. UNCHANGED <<watcher, place>> => FileHeld'
  BY DEF FileHeld, Present
<1>2. UNCHANGED <<watcher, handler>> => Asked'
  BY DEF Asked
<1>3. UNCHANGED <<watcher, handler, lost>> => HandlersKnown'
  BY DEF HandlersKnown
<1>4. UNCHANGED <<row, code>> => RowsKnown'
  BY DEF RowsKnown
<1>5. UNCHANGED <<watcher, handler, row, lost>> => RowClaimed'
  BY DEF RowClaimed, Through
<1>6. UNCHANGED <<handler, row>> => Checks'
  BY DEF Checks
<1>7. UNCHANGED <<watcher, handler, code>> => NewIsFirst'
  BY DEF NewIsFirst
<1>8. UNCHANGED <<watcher, code>> => Extracted'
  BY DEF Extracted
<1>9. UNCHANGED <<place, row, code, lost>> => ArchivedIsServed'
  BY DEF ArchivedIsServed
<1>10. UNCHANGED run => ResolvedThere' /\ SettledRunsServe'
  BY DEF ResolvedThere, SettledRunsServe
<1>11. QED
  BY <1>1, <1>2, <1>3, <1>4, <1>5, <1>6, <1>7, <1>8, <1>9, <1>10

LEMMA Fields ==
    ASSUME TypeOK
    PROVE  /\ watcher = [at |-> watcher.at, todo |-> watcher.todo, file |-> watcher.file, asks |-> watcher.asks]
           /\ watcher.todo \in SUBSET Files /\ watcher.file \in Files \cup {None}
           /\ watcher.asks \in Handlers \cup {None}
           /\ watcher.at \in {"down", "idle", "next", "validate", "register", "waiting", "clear", "make",
                              "extract", "rest", "archive", "fail", "again"}
  BY DEF TypeOK, Scanning

\* A step of the watcher alone: it holds the file it held, a listed one, or none.
LEMMA WatcherAlone ==
    ASSUME DeployInv, UNCHANGED <<place, handler, row, code, run, posted, lost>>, faults' \in 0 .. MaxFaults,
           watcher' \in WatcherState, watcher.at # "waiting", watcher'.at # "waiting",
           watcher'.asks = watcher.asks, FileHeld',
           watcher'.at \in Placing =>
             /\ watcher.at \in Placing /\ watcher'.file = watcher.file
             /\ watcher'.at = "archive" <=> watcher.at = "archive"
    PROVE  DeployInv'
<1> USE DEF DeployInv
<1>1. TypeOK'
  BY WatcherType
<1>2. Asked'
  BY DEF Asked
<1>3. HandlersKnown'
  BY DEF HandlersKnown
<1>4. RowClaimed'
  BY DEF RowClaimed, Through
<1>5. NewIsFirst'
  BY DEF NewIsFirst
<1>6. Extracted'
  BY DEF Extracted, Placing
<1>7. QED
  BY <1>1, <1>2, <1>3, <1>4, <1>5, <1>6, Untouched

LEMMA ScanStep ==
    ASSUME DeployInv, List \/ Take \/ Validate \/ Refuse \/ MoveFails \/ Start
    PROVE  DeployInv'
<1> USE DEF DeployInv
<1>1. /\ watcher \in WatcherState /\ faults \in 0 .. MaxFaults
      /\ watcher = [at |-> watcher.at, todo |-> watcher.todo, file |-> watcher.file, asks |-> watcher.asks]
  BY Types, Fields
<1>2. CASE List
  <2>1. watcher' = [at |-> "next", todo |-> {f \in Files : Present(f)}, file |-> watcher.file, asks |-> watcher.asks]
    BY <1>1, <1>2 DEF List
  <2>2. watcher' \in WatcherState
    BY <2>1, Fields DEF WatcherState, Scanning
  <2>3. watcher.file = None
    BY <1>2 DEF List, FileHeld, Holding, Scanning
  <2>4. FileHeld'
    BY <2>1, <2>3 DEF FileHeld, Holding
  <2>5. QED
    BY <1>1, <1>2, <2>1, <2>2, <2>4, WatcherAlone DEF List, Placing
<1>3. CASE Take
  <2>1. /\ watcher.at = "next" /\ watcher.file = None
        /\ UNCHANGED <<place, handler, row, code, run, posted, lost, faults>>
    BY <1>3 DEF Take, FileHeld, Holding
  <2>2. ASSUME NEW at \in {"idle", "next"}, NEW todo \in SUBSET Files,
               watcher' = [at |-> at, todo |-> todo, file |-> None, asks |-> watcher.asks]
        PROVE  DeployInv'
    <3>1. watcher' \in WatcherState
      BY <2>2, Fields DEF WatcherState, Scanning
    <3>2. FileHeld'
      BY <2>2 DEF FileHeld, Holding, Scanning
    <3>3. QED
      BY <1>1, <2>1, <2>2, <3>1, <3>2, WatcherAlone DEF Placing
  <2>3. CASE watcher.todo = {}
    <3>1. watcher' = [at |-> "idle", todo |-> watcher.todo, file |-> None, asks |-> watcher.asks]
      BY <1>1, <1>3, <2>1, <2>3 DEF Take, To
    <3>2. QED
      BY <2>2, <3>1, Fields
  <2>4. CASE watcher.todo # {}
    <3> DEFINE f == CHOOSE x \in watcher.todo : \A y \in watcher.todo : x <= y
               rest == watcher.todo \ {f}
    <3>1. f \in Files /\ rest \in SUBSET Files
      BY <2>4, LeastFile, Fields
    <3>2. \/ watcher' = [watcher EXCEPT !.at = "idle", !.todo = {}]
          \/ watcher' = [watcher EXCEPT !.todo = rest]
          \/ Present(f) /\ watcher' = [watcher EXCEPT !.at = "validate", !.todo = rest, !.file = f]
      BY <1>3, <2>4 DEF Take
    <3> HIDE DEF f, rest
    <3>3. CASE watcher' = [watcher EXCEPT !.at = "idle", !.todo = {}]
      <4>1. watcher' = [at |-> "idle", todo |-> {}, file |-> None, asks |-> watcher.asks]
        BY <1>1, <2>1, <3>3
      <4>2. QED
        BY <2>2, <4>1
    <3>4. CASE watcher' = [watcher EXCEPT !.todo = rest]
      <4>1. watcher' = [at |-> "next", todo |-> rest, file |-> None, asks |-> watcher.asks]
        BY <1>1, <2>1, <3>4
      <4>2. QED
        BY <2>2, <3>1, <4>1
    <3>5. CASE Present(f) /\ watcher' = [watcher EXCEPT !.at = "validate", !.todo = rest, !.file = f]
      <4>1. watcher' = [at |-> "validate", todo |-> rest, file |-> f, asks |-> watcher.asks]
        BY <1>1, <3>5
      <4>2. watcher' \in WatcherState
        BY <3>1, <4>1, Fields DEF WatcherState, Scanning
      <4>3. FileHeld'
        BY <2>1, <3>1, <3>5, <4>1 DEF FileHeld, Holding, Scanning, Present
      <4>4. QED
        BY <1>1, <2>1, <4>1, <4>2, <4>3, WatcherAlone DEF Placing
    <3>6. QED
      BY <3>2, <3>3, <3>4, <3>5
  <2>5. QED
    BY <2>3, <2>4
<1>4. ASSUME NEW at \in {"fail", "register", "again"}, To(at), watcher.at \in Holding \ {"waiting"},
             UNCHANGED <<place, handler, row, code, run, posted, lost>>, faults' \in 0 .. MaxFaults
      PROVE  DeployInv'
  <2>1. watcher' = [at |-> at, todo |-> watcher.todo, file |-> watcher.file, asks |-> watcher.asks]
    BY <1>1, <1>4 DEF To
  <2>2. watcher' \in WatcherState
    BY <2>1, Fields DEF WatcherState, Scanning
  <2>3. FileHeld'
    BY <1>4, <2>1 DEF FileHeld, Holding, Scanning, Present
  <2>4. QED
    BY <1>4, <2>1, <2>2, <2>3, WatcherAlone DEF Placing
<1>5. CASE Validate
  BY <1>1, <1>4, <1>5 DEF Validate, Holding, Scanning
<1>6. CASE Refuse
  BY <1>4, <1>6, FaultType DEF Refuse, Holding, Scanning
<1>7. CASE MoveFails
  <2>1. CASE watcher.at = "again"
    <3>1. watcher' = [at |-> "next", todo |-> watcher.todo, file |-> None, asks |-> watcher.asks]
      BY <1>1, <1>7, <2>1 DEF MoveFails, NextFile
    <3>2. watcher' \in WatcherState
      BY <3>1, Fields DEF WatcherState, Scanning
    <3>3. FileHeld'
      BY <3>1 DEF FileHeld, Holding
    <3>4. QED
      BY <1>7, <2>1, <3>1, <3>2, <3>3, WatcherAlone, FaultType DEF MoveFails, Placing
  <2>2. CASE watcher.at # "again"
    BY <1>4, <1>7, <2>2, FaultType DEF MoveFails, Holding, Scanning
  <2>3. QED
    BY <2>1, <2>2
<1>8. CASE Start
  <2>1. watcher' = [at |-> "idle", todo |-> watcher.todo, file |-> watcher.file, asks |-> watcher.asks]
    BY <1>1, <1>8 DEF Start, To
  <2>2. watcher' \in WatcherState
    BY <2>1, Fields DEF WatcherState, Scanning
  <2>3. FileHeld'
    BY <1>8, <2>1 DEF Start, FileHeld, Holding, Scanning
  <2>4. QED
    BY <1>1, <1>8, <2>1, <2>2, <2>3, WatcherAlone DEF Start, Placing
<1>9. QED
  BY <1>2, <1>3, <1>5, <1>6, <1>7, <1>8

\* Removing the old directory, making the new one, extracting into it: nothing
\* archived is the package's while its directory is written.
LEMMA PlaceStep ==
    ASSUME DeployInv, watcher.at \in Placing \ {"archive"}, NEW at \in Placing, NEW c \in Content, To(at),
           UNCHANGED <<place, handler, row, run, posted, lost, faults>>,
           code' = [code EXCEPT ![Of[watcher.file]] = c],
           at = "archive" => c = Whole(watcher.file), at # "archive" => c.is # "whole"
    PROVE  DeployInv'
<1> USE DEF DeployInv
<1> DEFINE d == Of[watcher.file]
<1>1. /\ watcher.file \in Files /\ Present(watcher.file) /\ d \in Packages
  BY Known DEF FileHeld, Placing, Holding, Scanning
<1>2. watcher' = [at |-> at, todo |-> watcher.todo, file |-> watcher.file, asks |-> watcher.asks]
  BY Fields DEF To
<1>3. code'[d] = c /\ \A n \in Packages \ {d} : code'[n] = code[n]
  BY <1>1 DEF TypeOK
<1>4. row[d].exists /\ (d \notin lost => row[d].of \in {watcher.file} \cup Posts)
  BY DEF RowClaimed, Through
<1>5. TypeOK'
  <2>1. watcher' \in WatcherState
    BY <1>2, Fields DEF WatcherState, Scanning, Placing
  <2>2. code' \in [Packages -> Content]
    BY <1>1 DEF TypeOK
  <2>3. QED
    BY <2>1, <2>2, Types
<1>6. FileHeld'
  BY <1>1, <1>2 DEF FileHeld, Placing, Holding, Scanning, Present
<1>7. Asked' /\ HandlersKnown'
  BY <1>2 DEF Asked, HandlersKnown, Placing
<1>8. RowsKnown'
  BY <1>3, <1>4 DEF RowsKnown
<1>9. RowClaimed'
  BY <1>2, <1>4 DEF RowClaimed, Placing
<1>10. NewIsFirst'
  BY <1>2, <1>3 DEF NewIsFirst, Placing
<1>11. Extracted'
  BY <1>2, <1>3 DEF Extracted, Whole
<1>12. ArchivedIsServed'
  BY <1>1, <1>3, <1>4, Known DEF ArchivedIsServed, Present
<1>13. QED
  BY <1>5, <1>6, <1>7, <1>8, <1>9, <1>10, <1>11, <1>12, Untouched

LEMMA ContentTypes ==
    /\ Absent \in Content /\ Empty \in Content /\ Absent.is = "absent" /\ Empty.is = "empty"
    /\ \A f \in Files : /\ Part(f) \in Content /\ Part(f).is = "part"
                        /\ Whole(f) \in Content /\ Whole(f).is = "whole" /\ Whole(f).of = f
  BY DEF Content, Absent, Empty, Part, Whole

LEMMA PlacingStep ==
    ASSUME DeployInv, Clear \/ Make \/ Extract
    PROVE  DeployInv'
<1> USE DEF DeployInv
<1>1. CASE Clear
  <2> DEFINE d == Of[watcher.file]
             c == IF code[d].of # None /\ code[d].is = "whole" THEN Part(code[d].of) ELSE Absent
  <2>1. watcher.file \in Files /\ d \in Packages /\ code[d] \in Content
    BY <1>1, Known DEF Clear, FileHeld, Holding, Scanning, TypeOK
  <2>2. code' = [code EXCEPT ![d] = c] /\ code'[d] = c
    BY <1>1, <2>1 DEF Clear, TypeOK
  <2>3. c \in Content /\ c.is # "whole"
    BY <2>1, ContentTypes DEF Content
  <2> HIDE DEF c
  <2>4. To("make") \/ To("clear")
    BY <1>1 DEF Clear
  <2>5. QED
    BY <1>1, <2>2, <2>3, <2>4, PlaceStep DEF Clear, Placing
<1>2. CASE Make
  BY <1>2, ContentTypes, PlaceStep DEF Make, Placing
<1>3. CASE Extract
  <2>1. watcher.file \in Files
    BY <1>3 DEF Extract, FileHeld, Holding, Scanning
  <2>2. CASE watcher.at = "extract"
    BY <1>3, <2>1, <2>2, ContentTypes, PlaceStep DEF Extract, Placing
  <2>3. CASE watcher.at = "rest"
    BY <1>3, <2>1, <2>3, ContentTypes, PlaceStep DEF Extract, Placing
  <2>4. QED
    BY <1>3, <2>2, <2>3 DEF Extract
<1>4. QED
  BY <1>1, <1>2, <1>3

\* The file goes where the watcher moves it: to the archives with its code placed.
LEMMA MoveStep ==
    ASSUME DeployInv, Archive \/ MoveToFailed
    PROVE  DeployInv'
<1> USE DEF DeployInv
<1> DEFINE g == watcher.file
<1>1. /\ g \in Files /\ Present(g) /\ watcher.at \in {"archive", "fail", "again"}
      /\ UNCHANGED <<handler, row, code, run, posted, lost, faults>>
  BY DEF Archive, MoveToFailed, FileHeld, Holding, Scanning
<1>2. watcher' = [at |-> "next", todo |-> watcher.todo, file |-> None, asks |-> watcher.asks]
  BY Fields DEF Archive, MoveToFailed, NextFile
<1>3. /\ place' = [place EXCEPT ![g] = place'[g]]
      /\ (place'[g] = "archives" /\ watcher.at = "archive") \/ place'[g] = "failed"
  BY <1>1 DEF Archive, MoveToFailed, TypeOK
<1>4. TypeOK'
  <2>1. watcher' \in WatcherState
    BY <1>2, Fields DEF WatcherState, Scanning
  <2>2. place' \in [Files -> Places]
    BY <1>1, <1>3, Types DEF Places
  <2>3. QED
    BY <1>1, <2>1, <2>2, Types
<1>5. FileHeld'
  BY <1>2 DEF FileHeld, Holding
<1>6. Asked' /\ HandlersKnown'
  BY <1>1, <1>2 DEF Asked, HandlersKnown
<1>7. RowClaimed' /\ NewIsFirst' /\ Extracted'
  BY <1>2 DEF RowClaimed, Through, NewIsFirst, Extracted, Placing
<1>8. ArchivedIsServed'
  <2>1. SUFFICES ASSUME NEW n \in Packages, row[n].of \in Files, n \notin lost, place'[row[n].of] = "archives"
                 PROVE  code[n] = Whole(row[n].of)
    BY <1>1 DEF ArchivedIsServed, Whole
  <2>2. CASE row[n].of = g
    <3>1. n = Of[g] /\ watcher.at = "archive"
      BY <1>3, <2>1, <2>2, Known DEF RowsKnown
    <3>2. QED
      BY <2>2, <3>1 DEF Extracted
  <2>3. CASE row[n].of # g
    BY <1>3, <2>1, <2>3 DEF ArchivedIsServed, TypeOK
  <2>4. QED
    BY <2>2, <2>3
<1>9. QED
  BY <1>1, <1>4, <1>5, <1>6, <1>7, <1>8, Untouched

\* Users move files the watcher does not hold.
LEMMA UserStep ==
    ASSUME DeployInv, NEW f \in Files, Drop(f) \/ FinishCopy(f) \/ Withdraw(f)
    PROVE  DeployInv'
<1> USE DEF DeployInv
<1>1. /\ place' = [place EXCEPT ![f] = place'[f]]
      /\ place'[f] \in {"copying", "incoming", "withdrawn"}
      /\ place'[f] = "withdrawn" => watcher.file # f
      /\ UNCHANGED <<watcher, handler, row, code, run, posted, lost, faults>>
  BY DEF Drop, FinishCopy, Withdraw, TypeOK
<1>2. TypeOK'
  <2>1. place' \in [Files -> Places]
    BY <1>1, Types DEF Places
  <2>2. QED
    BY <1>1, <2>1, Types
<1>3. FileHeld'
  BY <1>1 DEF FileHeld, Present, TypeOK
<1>4. ArchivedIsServed'
  BY <1>1 DEF ArchivedIsServed, TypeOK
<1>5. QED
  BY <1>1, <1>2, <1>3, <1>4, Untouched

LEMMA SendType ==
    ASSUME TypeOK, NEW h \in Handlers, NEW m \in Manifests, Send(h, m)
    PROVE  /\ handler' \in [Handlers -> HandlerState]
           /\ handler'[h].at = "received" /\ handler'[h].of = m
           /\ \A g \in Handlers \ {h} : handler'[g] = handler[g]
<1>1. handler' = [handler EXCEPT ![h] = [at |-> "received", of |-> m, found |-> None]]
  BY DEF Send
<1>2. [at |-> "received", of |-> m, found |-> None] \in HandlerState
  BY DEF HandlerState
<1>3. QED
  BY <1>1, <1>2, Types

LEMMA PostStep ==
    ASSUME DeployInv, NEW h \in Handlers, NEW m \in Posts, Post(h, m)
    PROVE  DeployInv'
<1> USE DEF DeployInv
<1>1. /\ handler[h].at = "idle" /\ m \in Manifests /\ m \notin Files
      /\ posted' = posted \cup {m} /\ UNCHANGED <<place, watcher, row, code, run, lost, faults>>
  BY Known DEF Post
<1>2. /\ handler' \in [Handlers -> HandlerState]
      /\ handler'[h].at = "received" /\ handler'[h].of = m
      /\ \A g \in Handlers \ {h} : handler'[g] = handler[g]
  BY <1>1, SendType DEF Post
<1>3. watcher.at = "waiting" => watcher.asks # h
  BY <1>1 DEF Asked
<1>4. TypeOK'
  BY <1>1, <1>2, Types
<1>5. Asked'
  BY <1>1, <1>2, <1>3 DEF Asked
<1>6. HandlersKnown'
  BY <1>1, <1>2 DEF HandlersKnown, Answered
<1>7. RowClaimed' /\ NewIsFirst'
  BY <1>1, <1>2, <1>3 DEF RowClaimed, Through, NewIsFirst, Asked
<1>8. Checks'
  BY <1>1, <1>2 DEF Checks
<1>9. QED
  BY <1>1, <1>4, <1>5, <1>6, <1>7, <1>8, Untouched

LEMMA RegisterStep ==
    ASSUME DeployInv, NEW h \in Handlers, Register(h)
    PROVE  DeployInv'
<1> USE DEF DeployInv
<1>1. /\ handler[h].at = "idle" /\ watcher.at = "register" /\ watcher.asks = None
      /\ watcher.file \in Files /\ watcher.file \in Manifests /\ Present(watcher.file)
      /\ UNCHANGED <<place, row, code, run, posted, lost, faults>>
  BY Known DEF Register, FileHeld, Holding, Scanning, Asked
<1>2. /\ handler' \in [Handlers -> HandlerState]
      /\ handler'[h].at = "received" /\ handler'[h].of = watcher.file
      /\ \A g \in Handlers \ {h} : handler'[g] = handler[g]
  BY <1>1, SendType DEF Register
<1>3. watcher' = [at |-> "waiting", todo |-> watcher.todo, file |-> watcher.file, asks |-> h]
  BY Fields DEF Register
<1>4. TypeOK'
  <2>1. watcher' \in WatcherState
    BY <1>3, Fields DEF WatcherState, Scanning
  <2>2. QED
    BY <1>1, <1>2, <2>1, Types
<1>5. FileHeld'
  BY <1>1, <1>3 DEF FileHeld, Holding, Scanning, Present
<1>6. Asked'
  BY <1>2, <1>3 DEF Asked
<1>7. HandlersKnown'
  BY <1>1, <1>2, <1>3, Known DEF HandlersKnown, Answered
<1>8. RowClaimed' /\ NewIsFirst' /\ Extracted'
  BY <1>2, <1>3 DEF RowClaimed, Through, NewIsFirst, Extracted, Placing
<1>9. Checks'
  BY <1>1, <1>2 DEF Checks
<1>10. QED
  BY <1>1, <1>4, <1>5, <1>6, <1>7, <1>8, <1>9, Untouched

\* A handler that becomes idle.
LEMMA IdleFields == Idle \in HandlerState /\ Idle.at = "idle"
  BY DEF Idle, HandlerState

LEMMA RegisteredStep ==
    ASSUME DeployInv, Registered
    PROVE  DeployInv'
<1> USE DEF DeployInv
<1> DEFINE h == watcher.asks
           at == IF handler[h].at = "ok" THEN "clear" ELSE "fail"
<1>1. /\ watcher.at = "waiting" /\ h \in Handlers /\ handler[h].at \in Answered
      /\ handler[h].of = watcher.file
      /\ watcher.file \in Files /\ Present(watcher.file)
      /\ UNCHANGED <<place, row, code, run, posted, lost, faults>>
  BY DEF Registered, Asked, FileHeld, Holding, Scanning
<1>2. /\ handler' \in [Handlers -> HandlerState] /\ handler'[h].at = "idle"
      /\ \A g \in Handlers \ {h} : handler'[g] = handler[g]
  BY <1>1, IdleFields, Types DEF Registered
<1>3. watcher' = [at |-> at, todo |-> watcher.todo, file |-> watcher.file, asks |-> None]
  BY Fields DEF Registered
<1>4. TypeOK'
  <2>1. watcher' \in WatcherState
    BY <1>3, Fields DEF WatcherState, Scanning
  <2>2. QED
    BY <1>1, <1>2, <2>1, Types
<1>5. FileHeld'
  BY <1>1, <1>3 DEF FileHeld, Holding, Scanning, Present
<1>6. Asked'
  BY <1>3 DEF Asked
<1>7. HandlersKnown'
  BY <1>1, <1>2, <1>3 DEF HandlersKnown, Answered
<1>8. RowClaimed'
  BY <1>1, <1>3 DEF RowClaimed, Through, Placing
<1>9. NewIsFirst' /\ Extracted'
  BY <1>1, <1>3 DEF NewIsFirst, Extracted, Placing
<1>10. Checks'
  BY <1>1, <1>2 DEF Checks
<1>11. QED
  BY <1>1, <1>4, <1>5, <1>6, <1>7, <1>8, <1>9, <1>10, Untouched

\* The watcher stops waiting: its package is lost to the registration it gave up.
LEMMA GiveUpStep ==
    ASSUME DeployInv, AnswerLost \/ Crash
    PROVE  DeployInv'
<1> USE DEF DeployInv
<1>1. /\ \A h \in Handlers : handler'[h] = IF h = watcher.asks /\ handler[h].at \in Answered THEN Idle ELSE handler[h]
      /\ handler' \in [Handlers -> HandlerState]
      /\ lost' = IF watcher.at = "waiting" THEN lost \cup {Of[watcher.file]} ELSE lost
      /\ UNCHANGED <<place, row, code, run, posted>> /\ faults' \in 0 .. MaxFaults
  BY IdleFields, Types, FaultType DEF AnswerLost, Crash, Abandoned
<1>2. /\ watcher'.at \in {"fail", "down"} /\ watcher'.asks = None
      /\ watcher' \in WatcherState
      /\ watcher'.at = "fail" => watcher.at = "waiting" /\ watcher'.file = watcher.file
      /\ watcher'.at = "down" => watcher'.file = None
  <2>1. CASE AnswerLost
    <3>1. watcher' = [at |-> "fail", todo |-> watcher.todo, file |-> watcher.file, asks |-> None]
      BY <2>1, Fields DEF AnswerLost
    <3>2. QED
      BY <2>1, <3>1, Fields DEF AnswerLost, WatcherState, Scanning
  <2>2. CASE Crash
    BY <2>2 DEF Crash, WatcherState
  <2>3. QED
    BY <2>1, <2>2
<1>3. watcher.at = "waiting" => watcher.file \in Files /\ Of[watcher.file] \in Packages
  BY Known DEF FileHeld, Holding, Scanning
<1>4. TypeOK'
  BY <1>1, <1>2, <1>3, Types
<1>5. FileHeld'
  BY <1>1, <1>2 DEF FileHeld, Holding, Scanning, Present
<1>6. Asked'
  BY <1>2 DEF Asked
<1>7. HandlersKnown'
  <2>1. SUFFICES ASSUME NEW h \in Handlers
                 PROVE  /\ handler'[h].at # "idle" => handler'[h].of \in Manifests
                        /\ handler'[h].at \notin Answered
                        /\ handler'[h].at = "idle" \/ handler'[h].of \notin Files \/ Of[handler'[h].of] \in lost'
    BY DEF HandlersKnown
  <2>2. CASE h = watcher.asks /\ handler[h].at \in Answered
    BY <1>1, <2>2, IdleFields DEF Answered
  <2>3. CASE ~(h = watcher.asks /\ handler[h].at \in Answered)
    <3>1. handler'[h] = handler[h] /\ handler[h].at \notin Answered
      BY <1>1, <2>3 DEF HandlersKnown
    <3>2. handler[h].at # "idle" /\ handler[h].of \in Files => h = watcher.asks \/ Of[handler[h].of] \in lost
      BY DEF HandlersKnown
    <3>3. h = watcher.asks => watcher.at = "waiting" /\ handler[h].of = watcher.file
      BY Known DEF Asked
    <3>4. QED
      BY <1>1, <3>1, <3>2, <3>3 DEF HandlersKnown
  <2>4. QED
    BY <2>2, <2>3
<1>8. RowClaimed' /\ NewIsFirst' /\ Extracted'
  BY <1>2 DEF RowClaimed, Through, NewIsFirst, Extracted, Placing
<1>9. Checks'
  BY <1>1, IdleFields DEF Checks
<1>10. ArchivedIsServed'
  BY <1>1 DEF ArchivedIsServed, Whole
<1>11. QED
  BY <1>1, <1>4, <1>5, <1>6, <1>7, <1>8, <1>9, <1>10, Untouched

LEMMA ApiCrashStep ==
    ASSUME DeployInv, ApiCrash
    PROVE  DeployInv'
<1> USE DEF DeployInv
<1>1. /\ \A h \in Handlers : handler'[h] = Idle
      /\ handler' \in [Handlers -> HandlerState]
      /\ UNCHANGED <<place, row, code, run, posted, lost>> /\ faults' \in 0 .. MaxFaults
  BY IdleFields, FaultType DEF ApiCrash
<1>2. /\ watcher' = [at |-> IF watcher.at = "waiting" THEN "fail" ELSE watcher.at,
                     todo |-> watcher.todo, file |-> watcher.file, asks |-> None]
      /\ watcher' \in WatcherState
  <2>1. watcher' = [at |-> IF watcher.at = "waiting" THEN "fail" ELSE watcher.at,
                    todo |-> watcher.todo, file |-> watcher.file, asks |-> None]
    BY Fields DEF ApiCrash, Asked
  <2>2. QED
    BY <2>1, Fields DEF WatcherState, Scanning
<1>3. TypeOK'
  BY <1>1, <1>2, Types
<1>4. FileHeld'
  BY <1>1, <1>2 DEF FileHeld, Holding, Scanning, Present
<1>5. Asked'
  BY <1>2 DEF Asked
<1>6. HandlersKnown' /\ Checks'
  BY <1>1, IdleFields DEF HandlersKnown, Checks, Answered
<1>7. RowClaimed'
  BY <1>1, <1>2 DEF RowClaimed, Through, Placing
<1>8. NewIsFirst' /\ Extracted'
  BY <1>1, <1>2 DEF NewIsFirst, Extracted, Placing
<1>9. QED
  BY <1>1, <1>3, <1>4, <1>5, <1>6, <1>7, <1>8, Untouched

\* The answer reaches the watcher, or nobody.
LEMMA AnswerFields ==
    ASSUME TypeOK, NEW h \in Handlers, NEW a \in Answered
    PROVE  \/ /\ watcher.asks = h /\ Answer(h, a).at = a
              /\ Answer(h, a).of = handler[h].of /\ Answer(h, a).found = handler[h].found
           \/ watcher.asks # h /\ Answer(h, a).at = "idle"
<1>1. handler[h] \in HandlerState
  BY Types
<1>2. LET r == [handler[h] EXCEPT !.at = a] IN
        r.at = a /\ r.of = handler[h].of /\ r.found = handler[h].found
  BY <1>1 DEF HandlerState
<1>3. QED
  BY <1>2, IdleFields DEF Answer

LEMMA HandleStep ==
    ASSUME DeployInv, NEW h \in Handlers, CheckAction(h) \/ CommitMetadata(h) \/ CommitPath(h) \/ ApiError(h)
    PROVE  DeployInv'
<1> USE DEF DeployInv
<1> DEFINE m == handler[h].of
           n == Of[m]
<1>1. /\ TypeOK' /\ handler' = [handler EXCEPT ![h] = handler'[h]]
      /\ handler[h].at \in Ongoing /\ m \in Manifests /\ n \in Packages
      /\ UNCHANGED <<place, watcher, code, run, posted, lost>>
  <2>1. handler' = [handler EXCEPT ![h] = handler'[h]]
    BY DEF CheckAction, CommitMetadata, CommitPath, ApiError, TypeOK
  <2>2. handler[h].at \in Ongoing
    BY DEF CheckAction, CommitMetadata, CommitPath, ApiError, Ongoing
  <2>3. m \in Manifests
    BY <2>2 DEF HandlersKnown, Ongoing
  <2>4. QED
    BY <2>1, <2>2, <2>3, HandleType, Known DEF CheckAction, CommitMetadata, CommitPath, ApiError
<1>2. \A g \in Handlers \ {h} : handler'[g] = handler[g]
  BY <1>1 DEF TypeOK
<1>3. "ok" \in Answered /\ "refused" \in Answered /\ row \in [Packages -> RowState]
  BY Types DEF Answered
<1>4. watcher.asks = h => watcher.at = "waiting" /\ m = watcher.file /\ watcher.file \in Files
                          /\ Present(watcher.file)
  BY Known DEF Asked, FileHeld, Holding, Scanning
<1>5. m \in Files /\ n \notin lost => watcher.asks = h
  BY <1>1 DEF HandlersKnown, Ongoing
\* What holds whatever the handler's next place is.
<1>6. ASSUME handler'[h].at = "idle" \/ (handler'[h].of = m /\ handler'[h].at # "idle"),
             handler'[h].at \in Answered \cup {"idle"} => watcher.asks = h <=> handler'[h].at # "idle"
      PROVE  FileHeld' /\ Asked' /\ HandlersKnown' /\ Extracted'
  <2>1. FileHeld' /\ Extracted'
    BY <1>1, Untouched
  <2>2. Asked'
    <3>1. SUFFICES ASSUME watcher.at = "waiting"
                   PROVE  handler'[watcher.asks].at # "idle" /\ handler'[watcher.asks].of = watcher.file
      BY <1>1 DEF Asked
    <3>2. QED
      BY <1>2, <1>4, <1>6, <3>1 DEF Asked
  <2>3. HandlersKnown'
    <3>1. SUFFICES ASSUME NEW g \in Handlers
                   PROVE  /\ handler'[g].at # "idle" => handler'[g].of \in Manifests
                          /\ handler'[g].at \in Answered => watcher.asks = g
                          /\ handler'[g].at # "idle" /\ handler'[g].of \in Files
                               /\ Of[handler'[g].of] \notin lost => watcher.asks = g
      BY <1>1 DEF HandlersKnown
    <3>2. CASE g = h
      BY <1>1, <1>5, <1>6, <3>2 DEF Answered
    <3>3. CASE g # h
      BY <1>2, <3>3 DEF HandlersKnown
    <3>4. QED
      BY <3>2, <3>3
  <2>4. QED
    BY <2>1, <2>2, <2>3
\* The handler stops with a refusal; the row stays as it is.
<1>7. ASSUME handler'[h] = Answer(h, "refused"), UNCHANGED row
      PROVE  DeployInv'
  <2>1. \/ watcher.asks = h /\ handler'[h].at = "refused" /\ handler'[h].of = m
        \/ watcher.asks # h /\ handler'[h].at = "idle"
    BY <1>3, <1>7, AnswerFields
  <2>2. FileHeld' /\ Asked' /\ HandlersKnown' /\ Extracted'
    BY <1>6, <2>1
  <2>3. RowClaimed' /\ NewIsFirst'
    BY <1>1, <1>2, <1>7, <2>1 DEF RowClaimed, Through, NewIsFirst, Asked
  <2>4. Checks'
    BY <1>2, <1>7, <2>1 DEF Checks
  <2>5. QED
    BY <1>1, <1>7, <2>2, <2>3, <2>4, Untouched
<1>8. ASSUME CheckAction(h), ~Refused(Action[m], row[n].exists)
      PROVE  DeployInv'
  <2>1. /\ handler'[h].at = "checked" /\ handler'[h].of = m /\ handler'[h].found = row[n].of
        /\ handler[h].at = "received" /\ UNCHANGED row
    <3>1. handler'[h] = [handler[h] EXCEPT !.at = "checked", !.found = row[n].of] /\ handler[h].at = "received"
      BY <1>8 DEF CheckAction, TypeOK
    <3>2. handler[h] \in HandlerState
      BY Types
    <3>3. QED
      BY <1>8, <3>1, <3>2 DEF CheckAction, HandlerState
  <2>2. FileHeld' /\ Asked' /\ HandlersKnown' /\ Extracted'
    BY <1>6, <2>1 DEF Answered
  <2>3. RowClaimed'
    <3>1. SUFFICES ASSUME Through'
                   PROVE  /\ row[Of[watcher.file]].exists
                          /\ Of[watcher.file] \notin lost => row[Of[watcher.file]].of \in {watcher.file} \cup Posts
      BY <1>1, <2>1 DEF RowClaimed
    <3>2. CASE watcher.asks = h
      <4>1. row[n].of = watcher.file /\ watcher.file # None
        BY <1>1, <1>4, <2>1, <3>1, <3>2, Known DEF Through, Placing
      <4>2. QED
        BY <1>1, <1>4, <3>2, <4>1 DEF RowsKnown
    <3>3. CASE watcher.asks # h
      BY <1>1, <1>2, <3>1, <3>3 DEF RowClaimed, Through, Asked
    <3>4. QED
      BY <3>2, <3>3
  <2>4. NewIsFirst'
    BY <1>1, <1>2, <2>1 DEF NewIsFirst, Asked
  <2>5. Checks'
    <3>1. row[n].of = None \/ row[n].exists
      BY <1>1 DEF RowsKnown
    <3>2. Action[m] = "new" => row[n].of = None
      BY <1>1, <1>8 DEF Refused, RowsKnown
    <3>3. QED
      BY <1>2, <2>1, <3>1, <3>2 DEF Checks
  <2>6. QED
    BY <1>1, <2>1, <2>2, <2>3, <2>4, <2>5, Untouched
<1>9. ASSUME CommitMetadata(h), ~(handler[h].found = None /\ row[n].exists)
      PROVE  DeployInv'
  <2>1. /\ handler[h].at = "checked" /\ handler'[h].at = "named" /\ handler'[h].of = m
        /\ row' = IF handler[h].found = m THEN row ELSE [row EXCEPT ![n].exists = TRUE, ![n].of = m]
    <3>1. handler'[h] = [handler[h] EXCEPT !.at = "named"] /\ handler[h].at = "checked"
      BY <1>9 DEF CommitMetadata, TypeOK
    <3>2. handler[h] \in HandlerState
      BY Types
    <3>3. row' = IF handler[h].found = m THEN row ELSE [row EXCEPT ![n].exists = TRUE, ![n].of = m]
      BY <1>9 DEF CommitMetadata
    <3>4. QED
      BY <3>1, <3>2, <3>3 DEF HandlerState
  <2>2. /\ row'[n].exists /\ \A d \in Packages \ {n} : row'[d] = row[d]
        /\ row'[n].of = m \/ (row'[n].of = row[n].of /\ handler[h].found = m)
    <3>1. CASE handler[h].found = m
      <4>1. m # None
        BY <1>1, DeployAssumption
      <4>2. row[n].exists
        BY <2>1, <3>1, <4>1 DEF Checks
      <4>3. QED
        BY <2>1, <3>1, <4>2
    <3>2. CASE handler[h].found # m
      <4>1. row[n] \in RowState /\ row' = [row EXCEPT ![n] = [row[n] EXCEPT !.exists = TRUE, !.of = m]]
        BY <1>1, <1>3, <2>1, <3>2
      <4>2. row'[n] = [row[n] EXCEPT !.exists = TRUE, !.of = m] /\ \A d \in Packages \ {n} : row'[d] = row[d]
        BY <1>1, <1>3, <4>1
      <4>3. QED
        BY <4>1, <4>2 DEF RowState
    <3>3. QED
      BY <3>1, <3>2
  <2>3. FileHeld' /\ Asked' /\ HandlersKnown' /\ Extracted'
    BY <1>6, <2>1 DEF Answered
  <2>4. m # None /\ \A d \in Packages : row[d].exists => row'[d].exists
    BY <1>1, <2>2, DeployAssumption
  <2>5. RowsKnown'
    <3>1. SUFFICES ASSUME NEW d \in Packages
                   PROVE  /\ row'[d].exists <=> row'[d].of # None
                          /\ row'[d].of # None => Of[row'[d].of] = d
                          /\ code[d].is # "absent" => row'[d].exists
      BY <1>1 DEF RowsKnown
    <3>2. CASE d = n
      <4>1. CASE row'[n].of = m
        BY <2>2, <2>4, <3>2, <4>1
      <4>2. CASE row'[n].of = row[n].of /\ handler[h].found = m
        <5>1. row[n].exists
          BY <2>1, <2>4, <4>2 DEF Checks
        <5>2. QED
          BY <1>1, <2>2, <3>2, <4>2, <5>1 DEF RowsKnown
      <4>3. QED
        BY <2>2, <4>1, <4>2
    <3>3. CASE d # n
      BY <2>2, <3>3 DEF RowsKnown
    <3>4. QED
      BY <3>2, <3>3
  <2>6. RowClaimed'
    <3>1. SUFFICES ASSUME Through'
                   PROVE  /\ row'[Of[watcher.file]].exists
                          /\ Of[watcher.file] \notin lost => row'[Of[watcher.file]].of \in {watcher.file} \cup Posts
      BY <1>1 DEF RowClaimed
    <3>2. CASE watcher.asks = h
      <4>1. n = Of[watcher.file] /\ m = watcher.file /\ watcher.at = "waiting"
        BY <1>4, <3>2
      <4>2. handler[h].found = m => Through
        BY <2>1, <3>2, <4>1 DEF Through
      <4>3. QED
        BY <2>2, <4>1, <4>2 DEF RowClaimed
    <3>3. CASE watcher.asks # h
      <4>1. Through /\ watcher.file \in Files
        BY <1>1, <1>2, <3>1, <3>3 DEF Through, Asked, FileHeld, Holding, Placing, Scanning
      <4>2. n \notin lost => m \in Posts
        BY <1>1, <1>5, <3>3 DEF Manifests
      <4>3. Of[watcher.file] \in Packages
        BY <4>1, Known
      <4>4. QED
        BY <2>2, <2>4, <4>1, <4>2, <4>3 DEF RowClaimed
    <3>4. QED
      BY <3>2, <3>3
  <2>7. Checks'
    <3>1. SUFFICES ASSUME NEW g \in Handlers
                   PROVE  /\ handler'[g].at \in {"named", "ok"} => row'[Of[handler'[g].of]].exists
                          /\ handler'[g].at = "checked" =>
                               handler'[g].found = None \/ row'[Of[handler'[g].of]].exists
                          /\ handler'[g].at = "checked" /\ Action[handler'[g].of] = "new" =>
                               handler'[g].found = None
      BY DEF Checks
    <3>2. CASE g = h
      BY <2>1, <2>2, <3>2
    <3>3. CASE g # h
      <4>1. handler[g].at # "idle" => Of[handler[g].of] \in Packages
        BY Known DEF HandlersKnown
      <4>2. handler'[g] = handler[g]
        BY <1>2, <3>3
      <4>3. QED
        BY <2>4, <4>1, <4>2 DEF Checks
    <3>4. QED
      BY <3>2, <3>3
  <2>8. NewIsFirst'
    <3>1. SUFFICES ASSUME watcher.at = "waiting", watcher.asks = h, Action[watcher.file] = "new"
                   PROVE  code[Of[watcher.file]].is # "whole"
      BY <1>1, <1>2, <2>1 DEF NewIsFirst, Asked
    <3>2. handler[h].found = None /\ n = Of[watcher.file]
      BY <1>4, <2>1, <3>1 DEF Checks
    <3>3. ~row[n].exists
      BY <1>9, <3>2
    <3>4. QED
      BY <1>1, <3>2, <3>3 DEF RowsKnown
  <2>9. ArchivedIsServed'
    <3>1. SUFFICES ASSUME NEW d \in Packages, row'[d].of \in Files, d \notin lost,
                          place[row'[d].of] = "archives"
                   PROVE  code[d] = Whole(row'[d].of)
      BY <1>1 DEF ArchivedIsServed, Whole
    <3>2. CASE d = n /\ row'[n].of = m
      BY <1>4, <1>5, <3>1, <3>2 DEF Present
    <3>3. CASE row'[d].of = row[d].of
      BY <3>1, <3>3 DEF ArchivedIsServed
    <3>4. QED
      BY <2>2, <3>2, <3>3
  <2>10. QED
    BY <1>1, <2>3, <2>5, <2>6, <2>7, <2>8, <2>9, Untouched
<1>10. ASSUME CommitPath(h)
       PROVE  DeployInv'
  <2>1. /\ handler[h].at = "named" /\ row' = [row EXCEPT ![n].path = TRUE] /\ handler'[h] = Answer(h, "ok")
    BY <1>10 DEF CommitPath, TypeOK
  <2>2. \/ watcher.asks = h /\ handler'[h].at = "ok" /\ handler'[h].of = m
        \/ watcher.asks # h /\ handler'[h].at = "idle"
    BY <1>3, <2>1, AnswerFields
  <2>3. \A d \in Packages : row'[d].exists = row[d].exists /\ row'[d].of = row[d].of
    <3>1. row[n] \in RowState /\ row'[n] = [row[n] EXCEPT !.path = TRUE] /\ \A d \in Packages \ {n} : row'[d] = row[d]
      BY <1>1, <1>3, <2>1
    <3>2. row'[n].exists = row[n].exists /\ row'[n].of = row[n].of
      BY <3>1 DEF RowState
    <3>3. QED
      BY <3>1, <3>2
  <2>4. FileHeld' /\ Asked' /\ HandlersKnown' /\ Extracted'
    BY <1>6, <2>2
  <2>5. RowsKnown'
    BY <1>1, <2>3 DEF RowsKnown
  <2>6. RowClaimed'
    <3>1. SUFFICES ASSUME Through'
                   PROVE  /\ row'[Of[watcher.file]].exists
                          /\ Of[watcher.file] \notin lost => row'[Of[watcher.file]].of \in {watcher.file} \cup Posts
      BY <1>1 DEF RowClaimed
    <3>2. Through /\ watcher.file \in Files
      BY <1>1, <1>2, <2>1, <2>2, <3>1 DEF Through, Asked, FileHeld, Holding, Placing, Scanning
    <3>3. Of[watcher.file] \in Packages
      BY <3>2, Known
    <3>4. QED
      BY <2>3, <3>2, <3>3 DEF RowClaimed
  <2>7. Checks'
    <3>1. SUFFICES ASSUME NEW g \in Handlers
                   PROVE  /\ handler'[g].at \in {"named", "ok"} => row'[Of[handler'[g].of]].exists
                          /\ handler'[g].at = "checked" =>
                               handler'[g].found = None \/ row'[Of[handler'[g].of]].exists
                          /\ handler'[g].at = "checked" /\ Action[handler'[g].of] = "new" =>
                               handler'[g].found = None
      BY DEF Checks
    <3>2. CASE g = h
      BY <1>1, <2>1, <2>2, <2>3, <3>2 DEF Checks
    <3>3. CASE g # h
      <4>1. handler[g].at # "idle" => Of[handler[g].of] \in Packages
        BY Known DEF HandlersKnown
      <4>2. handler'[g] = handler[g]
        BY <1>2, <3>3
      <4>3. QED
        BY <2>3, <4>1, <4>2 DEF Checks
    <3>4. QED
      BY <3>2, <3>3
  <2>8. NewIsFirst'
    BY <1>1, <1>2, <2>1, <2>2 DEF NewIsFirst, Asked
  <2>9. ArchivedIsServed'
    BY <1>1, <2>3 DEF ArchivedIsServed, Whole
  <2>10. QED
    BY <1>1, <2>4, <2>5, <2>6, <2>7, <2>8, <2>9, Untouched
<1>11. CASE CheckAction(h) /\ Refused(Action[m], row[n].exists)
  BY <1>7, <1>11 DEF CheckAction, TypeOK
<1>12. CASE CommitMetadata(h) /\ handler[h].found = None /\ row[n].exists
  BY <1>7, <1>12 DEF CommitMetadata, TypeOK
<1>13. CASE ApiError(h)
  BY <1>7, <1>13 DEF ApiError, TypeOK
<1>14. QED
  BY <1>8, <1>9, <1>10, <1>11, <1>12, <1>13

-----------------------------------------------------------------------------
(* Runs. *)

\* A package settled on a file serves it.
LEMMA SettledServed ==
    ASSUME DeployInv, NEW n \in Packages, Settled(n) # None
    PROVE  Settled(n) \in Files /\ code[n] = Whole(Settled(n)) /\ row[n].path
  BY DEF DeployInv, Settled, ArchivedIsServed

LEMMA WorkspacesType ==
    ASSUME NEW r, NEW n \in Packages
    PROVE  Directory(r, n) \subseteq Packages \cup {Root} /\ (code[n].is = "whole" => Directory(r, n) = {n})
  BY DEF Directory, Workspaces

LEMMA CreateStep ==
    ASSUME DeployInv, NEW r \in Runs, NEW n \in Packages, Create(r, n)
    PROVE  DeployInv'
<1> USE DEF DeployInv
<1> DEFINE mode == IF Mode[row[n].of] = "daemon" THEN "daemon" ELSE "batch"
           new  == [run[r] EXCEPT !.at = "queued", !.of = n, !.mode = mode]
<1>1. run \in [Runs -> RunState] /\ UNCHANGED <<place, watcher, handler, row, code, posted, lost, faults>>
  BY Types DEF Create
<1>2. mode \in {"daemon", "batch"}
  OBVIOUS
<1> HIDE DEF mode
<1>3. new \in RunState /\ new.at = "queued"
  BY <1>1, <1>2 DEF RunState
<1>4. run' = [run EXCEPT ![r] = new]
  BY <1>1 DEF Create, RunState, mode
<1> HIDE DEF new
<1>5. run'[r] = new /\ \A q \in Runs \ {r} : run'[q] = run[q]
  BY <1>1, <1>4
<1>6. TypeOK'
  BY <1>1, <1>3, <1>4, Types
<1>7. ResolvedThere' /\ SettledRunsServe'
  BY <1>3, <1>5 DEF ResolvedThere, SettledRunsServe
<1>8. QED
  BY <1>1, <1>6, <1>7, Untouched

LEMMA ResolveStep ==
    ASSUME DeployInv, NEW r \in Runs, NEW n \in Packages, Resolve(r, n)
    PROVE  DeployInv'
<1> USE DEF DeployInv
<1>1. PICK ws \in Directory(r, n) :
        run' = [run EXCEPT ![r] = [at |-> "resolved", of |-> n, mode |-> RunMode(r), ws |-> ws,
                                   settled |-> Settled(n), ran |-> None]]
  BY DEF Resolve
<1>2. UNCHANGED <<place, watcher, handler, row, code, posted, lost, faults>>
  BY DEF Resolve
<1>3. RunMode(r) \in {"local", "container", "daemon", "unsupported"}
  BY DEF RunMode
<1>4. ws \in Packages \cup {Root}
  BY WorkspacesType
<1>5. Settled(n) \in Files \cup {None}
  BY SettledServed
<1> DEFINE new == [at |-> "resolved", of |-> n, mode |-> RunMode(r), ws |-> ws,
                   settled |-> Settled(n), ran |-> None]
<1>6. new \in RunState
  BY <1>3, <1>4, <1>5 DEF RunState
<1>7. new.ws = ws /\ (new.settled # None => new.ws = n)
  BY SettledServed, WorkspacesType, ContentTypes
<1>8. new.at = "resolved" /\ new.of = n
  OBVIOUS
<1> HIDE DEF new
<1>9. run'[r] = new /\ \A q \in Runs \ {r} : run'[q] = run[q]
  BY <1>1 DEF new, TypeOK
<1>10. TypeOK'
  <2>1. run' \in [Runs -> RunState]
    BY <1>1, <1>6, Types DEF new
  <2>2. QED
    BY <1>2, <2>1, Types
<1>11. ResolvedThere'
  BY <1>4, <1>7, <1>8, <1>9 DEF ResolvedThere
<1>12. SettledRunsServe'
  BY <1>8, <1>9 DEF SettledRunsServe
<1>13. QED
  BY <1>2, <1>10, <1>11, <1>12, Untouched

LEMMA ProgramsType ==
    ASSUME TypeOK, NEW mode, NEW ws \in Packages \cup {Root}
    PROVE  Programs(mode, ws) \subseteq Files \cup {None}
<1>1. \A d \in Packages : Program(d) \subseteq Files \cup {None}
  <2>1. TAKE d \in Packages
  <2>2. code[d] \in Content
    BY DEF TypeOK
  <2>3. code[d].of \in Files \cup {None}
    BY <2>2 DEF Content
  <2>4. QED
    BY <2>3 DEF Program
<1>2. UNION {Program(d) : d \in Shallowest} \subseteq Files \cup {None}
  BY <1>1 DEF Shallowest
<1>3. ws # Root => ws \in Packages
  OBVIOUS
<1>4. QED
  BY <1>1, <1>2, <1>3 DEF Programs

LEMMA ExecuteStep ==
    ASSUME DeployInv, NEW r \in Runs, Execute(r)
    PROVE  DeployInv'
<1> USE DEF DeployInv
<1>1. PICK f \in Programs(run[r].mode, run[r].ws) :
        run' = [run EXCEPT ![r].at = "done", ![r].ran = f, ![r].ws = None,
                           ![r].settled = IF Settled(run[r].of) = @ THEN @ ELSE None]
  BY DEF Execute
<1>2. run[r].at = "resolved" /\ UNCHANGED <<place, watcher, handler, row, code, posted, lost, faults>>
  BY DEF Execute
<1>3. run[r] \in RunState /\ run \in [Runs -> RunState]
  BY Types
<1> DEFINE settled == IF Settled(run[r].of) = run[r].settled THEN run[r].settled ELSE None
           new == [run[r] EXCEPT !.at = "done", !.ran = f, !.ws = None, !.settled = settled]
<1>4. run'[r] = new /\ \A q \in Runs \ {r} : run'[q] = run[q]
  BY <1>1, <1>3
<1>5. settled \in Files \cup {None}
  BY <1>3 DEF RunState
<1>6. f \in Files \cup {None}
  <2>1. run[r].ws \in Packages \cup {Root}
    BY <1>2 DEF ResolvedThere
  <2>2. QED
    BY <2>1, ProgramsType
<1> HIDE DEF settled
<1>7. new \in RunState /\ new.at = "done" /\ new.ran = f /\ new.settled = settled /\ new.mode = run[r].mode
  BY <1>3, <1>5, <1>6 DEF RunState
<1>8. settled # None => f = settled \/ (run[r].mode # "local" /\ f = None)
  <2>1. SUFFICES ASSUME settled # None
                 PROVE  f \in {settled} \cup (IF run[r].mode = "local" THEN {} ELSE {None})
    OBVIOUS
  <2>2. settled = run[r].settled /\ Settled(run[r].of) = settled
    BY <2>1 DEF settled
  <2>3. run[r].of \in Packages /\ run[r].ws = run[r].of
    BY <1>2, <2>1, <2>2 DEF ResolvedThere
  <2>4. code[run[r].of] = Whole(settled)
    BY <2>1, <2>2, <2>3, SettledServed
  <2>5. Program(run[r].ws) = {settled}
    BY <2>3, <2>4 DEF Program, Whole
  <2>6. QED
    BY <2>3, <2>5, Known DEF Programs
<1> HIDE DEF new
<1>9. TypeOK'
  <2>1. run' \in [Runs -> RunState]
    <3>1. run' = [run EXCEPT ![r] = run'[r]]
      BY <1>1, <1>3
    <3>2. QED
      BY <1>3, <1>4, <1>7, <3>1
  <2>2. QED
    BY <1>2, <2>1, Types
<1>10. ResolvedThere'
  BY <1>4, <1>7 DEF ResolvedThere
<1>11. SettledRunsServe'
  BY <1>4, <1>7, <1>8 DEF SettledRunsServe
<1>12. QED
  BY <1>2, <1>9, <1>10, <1>11, Untouched

-----------------------------------------------------------------------------
(* The theorems. *)

LEMMA DeployInvInit == Init => DeployInv
<1> SUFFICES ASSUME Init PROVE DeployInv
  OBVIOUS
<1> DEFINE before(n) == {f \in Deployed : Of[f] = n}
           is(n)     == CHOOSE f \in before(n) : TRUE
<1>1. /\ \A n \in Packages : before(n) # {} => is(n) \in before(n)
      /\ \A n \in Packages : \A f \in before(n) : f \in Files /\ f \in Deployed /\ Of[f] = n
  BY DeployAssumption
<1>2. /\ place = [f \in Files |-> IF f \in Deployed THEN "archives" ELSE "outside"]
      /\ watcher = [at |-> "idle", todo |-> {}, file |-> None, asks |-> None]
      /\ handler = [h \in Handlers |-> Idle]
      /\ row = [n \in Packages |-> [exists |-> before(n) # {}, path |-> before(n) # {},
                                    of |-> IF before(n) = {} THEN None ELSE is(n)]]
      /\ code = [n \in Packages |-> IF before(n) = {} THEN Absent ELSE Whole(is(n))]
      /\ run = [r \in Runs |-> [at |-> "none", of |-> None, mode |-> None, ws |-> None,
                                settled |-> None, ran |-> None]]
      /\ posted = {} /\ lost = {} /\ faults = 0
  BY DEF Init
<1> HIDE DEF before, is
<1>3. \A n \in Packages :
        /\ row[n].exists = (before(n) # {}) /\ row[n].of = IF before(n) = {} THEN None ELSE is(n)
        /\ row[n] \in RowState
        /\ code[n] = (IF before(n) = {} THEN Absent ELSE Whole(is(n))) /\ code[n] \in Content
  BY <1>1, <1>2, Known, ContentTypes DEF RowState
<1>4. TypeOK
  <2>1. place \in [Files -> Places]
    BY <1>2 DEF Places
  <2>2. watcher \in WatcherState
    BY <1>2 DEF WatcherState
  <2>3. handler \in [Handlers -> HandlerState]
    BY <1>2, IdleFields
  <2>4. row \in [Packages -> RowState] /\ code \in [Packages -> Content]
    BY <1>2, <1>3
  <2>5. run \in [Runs -> RunState]
    BY <1>2 DEF RunState
  <2>6. posted \subseteq Posts /\ lost \subseteq Packages /\ faults \in 0 .. MaxFaults
    BY <1>2, Known
  <2>7. QED
    BY <2>1, <2>2, <2>3, <2>4, <2>5, <2>6, Types
<1>5. FileHeld /\ Asked
  BY <1>2 DEF FileHeld, Asked, Holding, Scanning
<1>6. HandlersKnown /\ Checks
  BY <1>2, IdleFields DEF HandlersKnown, Checks, Answered
<1>7. RowsKnown
  <2>1. SUFFICES ASSUME NEW n \in Packages
                 PROVE  /\ row[n].exists <=> row[n].of # None
                        /\ row[n].of # None => Of[row[n].of] = n
                        /\ code[n].is # "absent" => row[n].exists
    BY DEF RowsKnown
  <2>2. CASE before(n) = {}
    <3>1. row[n].exists = FALSE /\ row[n].of = None /\ code[n] = Absent
      BY <1>3, <2>2
    <3>2. QED
      BY <3>1, ContentTypes
  <2>3. CASE before(n) # {}
    <3>1. row[n].exists = TRUE /\ row[n].of = is(n) /\ is(n) \in before(n)
      BY <1>1, <1>3, <2>3
    <3>2. is(n) \in Files /\ Of[is(n)] = n
      BY <1>1, <3>1
    <3>3. QED
      BY <3>1, <3>2, Known
  <2>4. QED
    BY <2>2, <2>3
<1>8. RowClaimed /\ NewIsFirst /\ Extracted
  BY <1>2 DEF RowClaimed, Through, NewIsFirst, Extracted, Placing
<1>9. ArchivedIsServed
  BY <1>3, Known DEF ArchivedIsServed
<1>10. ResolvedThere /\ SettledRunsServe
  BY <1>2 DEF ResolvedThere, SettledRunsServe
<1>11. QED
  BY <1>4, <1>5, <1>6, <1>7, <1>8, <1>9, <1>10 DEF DeployInv

LEMMA DeployInvStep == DeployInv /\ [Next]_vars => DeployInv'
<1> SUFFICES ASSUME DeployInv, [Next]_vars PROVE DeployInv'
  OBVIOUS
<1>1. CASE UNCHANGED vars
  <2>1. UNCHANGED <<place, watcher, handler, row, code, run, posted, lost, faults>>
    BY <1>1 DEF vars
  <2>2. TypeOK'
    BY <2>1, Types DEF DeployInv
  <2>3. QED
    BY <2>1, <2>2, Untouched DEF DeployInv
<1>2. CASE Next
  BY <1>2, UserStep, HandleStep, PostStep, ApiCrashStep, ScanStep, RegisterStep, RegisteredStep,
     PlacingStep, MoveStep, GiveUpStep, ExecuteStep, CreateStep, ResolveStep DEF Next, Handle, WatcherStep
<1>3. QED
  BY <1>1, <1>2

\* The watcher, the handlers, the rows, the directories and the runs stay
\* well-formed whatever fails or crashes.
THEOREM TypeCorrect == Spec => []TypeOK
<1>1. DeployInv => TypeOK
  BY DEF DeployInv
<1>2. QED
  BY <1>1, DeployInvInit, DeployInvStep, PTL DEF Spec

\* A package whose row was last written by an archived file has exactly that
\* file's code in its directory (process_package: register, extract, archive),
\* for every number of files, faults and users' registrations.
THEOREM ArchivedServed == Spec => []ArchivedIsServed
<1>1. DeployInv => ArchivedIsServed
  BY DEF DeployInv
<1>2. QED
  BY <1>1, DeployInvInit, DeployInvStep, PTL DEF Spec

\* A run of a package that was settled on one archived file when its directory
\* was looked up and when its program started executes that file's code, or, in
\* a container or a mode local packages do not have, nothing (_resolve_workspace
\* never falls back then).
THEOREM SettledRunsAreServed == Spec => []SettledRunsServe
<1>1. DeployInv => SettledRunsServe
  BY DEF DeployInv
<1>2. QED
  BY <1>1, DeployInvInit, DeployInvStep, PTL DEF Spec

\* A file whose manifest says "new" never touches the whole code of a package
\* that is already deployed (register_package), not even after a crash.
THEOREM NewReplacesNothing == Spec => NewNeverReplaces
<1>1. ASSUME DeployInv, [Next]_vars, NEW d \in Packages, code[d].is = "whole", code'[d] # code[d]
      PROVE  Action[watcher.file] # "new"
  <2>1. Clear \/ Make \/ Extract
    BY <1>1 DEF Next, vars, Drop, FinishCopy, Withdraw, Handle, CheckAction, CommitMetadata, CommitPath,
        ApiError, Post, ApiCrash, WatcherStep, List, Take, Validate, Register, Registered, Archive,
        MoveToFailed, AnswerLost, Refuse, MoveFails, Crash, Start, Execute, Create, Resolve
  <2>2. watcher.at \in Placing \ {"archive"}
    BY <2>1 DEF Clear, Make, Extract, Placing
  <2>3. d = Of[watcher.file]
    BY <1>1, <2>1 DEF Clear, Make, Extract, DeployInv, TypeOK
  <2>4. QED
    BY <1>1, <2>2, <2>3 DEF DeployInv, NewIsFirst
<1>2. DeployInv /\ [Next]_vars =>
        [\A d \in Packages : code[d].is = "whole" /\ code'[d] # code[d] => Action[watcher.file] # "new"]_vars
  BY <1>1
<1>3. QED
  BY <1>2, DeployInvInit, DeployInvStep, PTL DEF Spec, NewNeverReplaces
=============================================================================
