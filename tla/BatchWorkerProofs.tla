------------------------- MODULE BatchWorkerProofs -------------------------
(***************************************************************************)
(* Proofs about BatchWorker, for every set of runs and workers, every       *)
(* assignment of kinds and deployments and every choice of faults.          *)
(***************************************************************************)
EXTENDS BatchWorker, TLAPS

-----------------------------------------------------------------------------
(* Type correctness. *)

\* What the steps of a main loop that ends or rolls back do to the types.
LEMMA EndTransactionType ==
    ASSUME TypeOK, NEW w \in Workers, EndTransaction(w)
    PROVE  /\ lock' \in [Runs -> Workers \cup {NoWorker}]
           /\ todo' \in [Workers -> SUBSET Runs]
           /\ ended' \in [Workers -> SUBSET Runs]
           /\ seen' \in [Workers -> {"missing", "zero", "nonzero"}]
           /\ writes' \in [Workers -> [Runs -> Terminal \cup {"none"}]]
  BY DEF EndTransaction, Forget, NoWrites, TypeOK

LEMMA DockerRemoveType ==
    ASSUME TypeOK, NEW r \in Runs, DockerRemove(r)
    PROVE  /\ proc' \in [Runs -> {"none", "up", "killed", "done"}]
           /\ ctr' \in [Runs -> {"none", "created", "up", "exited", "gone"}]
           /\ code' \in [Runs -> {"none", "ok", "bad"}]
<1>1. CASE Removed(r)
  BY <1>1 DEF DockerRemove, Removed, TypeOK
<1>2. CASE UNCHANGED <<ctr, code>>
  BY <1>2 DEF DockerRemove, TypeOK
<1>3. QED
  BY <1>1, <1>2 DEF DockerRemove

LEMMA RowInRuns == ASSUME TypeOK, NEW w \in Workers PROVE Row(w) \subseteq Runs
  BY DEF Row, First, TypeOK

LEMMA NextRowType ==
    ASSUME TypeOK, NEW w \in Workers, NEW r \in Runs, NextRow(w, r)
    PROVE  /\ todo' \in [Workers -> SUBSET Runs]
           /\ ended' \in [Workers -> SUBSET Runs]
           /\ main' \in [Workers -> MainSteps]
  BY DEF NextRow, TypeOK, MainSteps, ReconcileSteps

LEMMA GotoType ==
    ASSUME TypeOK, NEW w \in Workers, NEW r \in Runs, NEW pc \in Execution, Goto(w, r, pc)
    PROVE  th' \in [Workers -> [Runs -> Execution]]
  BY DEF Goto, TypeOK

LEMMA InitType == Init => TypeOK
  BY DEF Init, TypeOK, Status, Terminal, MainSteps, Execution, NoWrites

LEMMA MainStepType ==
    ASSUME TypeOK, NEW w \in Workers, MainStep(w)
    PROVE  TypeOK'
<1> USE DEF rowVars, dockerVars, recVars, mainVars
<1>1. CASE Start(w)
  BY <1>1 DEF Start, TypeOK, MainSteps
<1>2. CASE EnterLoop(w)
  BY <1>2 DEF EnterLoop, TypeOK, MainSteps
<1>3. CASE ClaimSelect(w)
  BY <1>3 DEF ClaimSelect, TypeOK, MainSteps, First, Claimable
<1>4. CASE ClaimCommit(w)
  <2>1. th' \in [Workers -> [Runs -> Execution]]
    BY <1>4 DEF ClaimCommit, Goto, TypeOK, Execution, ThreadSteps
  <2>2. QED
    BY <1>4, <2>1 DEF ClaimCommit, TypeOK, MainSteps, Status
<1>5. CASE ClaimRollback(w)
  BY <1>5 DEF ClaimRollback, TypeOK, MainSteps
<1>6. CASE LocalReturn(w)
  BY <1>6 DEF LocalReturn, TypeOK, MainSteps
<1>7. CASE Poll(w)
  BY <1>7 DEF Poll, vars, TypeOK
<1>8. CASE ReconcileSelect(w)
  BY <1>8 DEF ReconcileSelect, TypeOK, MainSteps, ReconcileSteps, Tracked
<1>9. CASE ReconcileInspect(w)
  <2>1. PICK r \in Row(w) :
           \/ main' = [main EXCEPT ![w] = "remove"] /\ UNCHANGED <<todo, ended, seen>>
           \/ NextRow(w, r) /\ UNCHANGED seen
           \/ /\ main' = [main EXCEPT ![w] = "decide"]
              /\ \E s \in {"missing", "zero", "nonzero"} : seen' = [seen EXCEPT ![w] = s]
              /\ UNCHANGED <<todo, ended>>
    BY <1>9 DEF ReconcileInspect
  <2>2. /\ todo' \in [Workers -> SUBSET Runs]
        /\ ended' \in [Workers -> SUBSET Runs]
        /\ main' \in [Workers -> MainSteps]
        /\ seen' \in [Workers -> {"missing", "zero", "nonzero"}]
    <3>1. r \in Runs
      BY RowInRuns
    <3>2. CASE NextRow(w, r) /\ UNCHANGED seen
      BY <3>1, <3>2, NextRowType DEF TypeOK
    <3>3. CASE ~(NextRow(w, r) /\ UNCHANGED seen)
      <4>1. UNCHANGED <<todo, ended>>
        BY <2>1, <3>3
      <4>2. \/ main' = [main EXCEPT ![w] = "remove"] /\ UNCHANGED seen
            \/ /\ main' = [main EXCEPT ![w] = "decide"]
               /\ \E s \in {"missing", "zero", "nonzero"} : seen' = [seen EXCEPT ![w] = s]
        BY <2>1, <3>3
      <4>3. QED
        <5>1. main' \in [Workers -> MainSteps]
          BY <4>2 DEF TypeOK, MainSteps, ReconcileSteps
        <5>2. seen' \in [Workers -> {"missing", "zero", "nonzero"}]
          BY <4>2 DEF TypeOK
        <5>3. QED
          BY <4>1, <5>1, <5>2 DEF TypeOK
    <3>4. QED
      BY <3>2, <3>3
  <2>3. QED
    BY <1>9, <2>2 DEF ReconcileInspect, TypeOK
<1>10. CASE ReconcileDecide(w)
  <2>1. writes' \in [Workers -> [Runs -> Terminal \cup {"none"}]]
    BY <1>10, RowInRuns DEF ReconcileDecide, Verdict, TypeOK, Terminal
  <2>2. PICK r \in Row(w) : /\ lock' = [lock EXCEPT ![r] = w]
                            /\ \/ NextRow(w, r)
                               \/ /\ main' = [main EXCEPT ![w] = "remove"]
                                  /\ UNCHANGED <<todo, ended>>
    BY <1>10 DEF ReconcileDecide
  <2>3. /\ todo' \in [Workers -> SUBSET Runs]
        /\ ended' \in [Workers -> SUBSET Runs]
        /\ main' \in [Workers -> MainSteps]
        /\ lock' \in [Runs -> Workers \cup {NoWorker}]
    BY <2>2, RowInRuns, NextRowType DEF TypeOK, MainSteps, ReconcileSteps
  <2>4. QED
    BY <1>10, <2>1, <2>3 DEF ReconcileDecide, Forget, TypeOK
<1>11. CASE ReconcileRemove(w)
  <2>1. PICK r \in Row(w) : /\ DockerRemove(r)
                            /\ \/ NextRow(w, r)
                               \/ /\ main' = [main EXCEPT ![w] = "clear"]
                                  /\ UNCHANGED <<todo, ended>>
    BY <1>11 DEF ReconcileRemove
  <2>2. /\ proc' \in [Runs -> {"none", "up", "killed", "done"}]
        /\ ctr' \in [Runs -> {"none", "created", "up", "exited", "gone"}]
        /\ code' \in [Runs -> {"none", "ok", "bad"}]
    BY <2>1, RowInRuns, DockerRemoveType
  <2>3. /\ todo' \in [Workers -> SUBSET Runs]
        /\ ended' \in [Workers -> SUBSET Runs]
        /\ main' \in [Workers -> MainSteps]
    BY <2>1, RowInRuns, NextRowType DEF TypeOK, MainSteps, ReconcileSteps
  <2>4. QED
    BY <1>11, <2>2, <2>3 DEF ReconcileRemove, TypeOK
<1>12. CASE ReconcileClear(w)
  BY <1>12, RowInRuns DEF ReconcileClear, NextRow, TypeOK, MainSteps, ReconcileSteps
<1>13. CASE ReconcileCommit(w)
  <2>1. EndTransaction(w)
    BY <1>13 DEF ReconcileCommit
  <2>2. status' \in [Runs -> Status]
    BY <1>13 DEF ReconcileCommit, Written, TypeOK, Status
  <2>3. QED
    BY <1>13, <2>1, <2>2, EndTransactionType DEF ReconcileCommit, TypeOK, MainSteps
<1>14. CASE ReconcileRollback(w)
  <2>1. EndTransaction(w)
    BY <1>14 DEF ReconcileRollback
  <2>2. QED
    BY <1>14, <2>1, EndTransactionType DEF ReconcileRollback, TypeOK, MainSteps
<1>15. QED
  BY <1>1, <1>2, <1>3, <1>4, <1>5, <1>6, <1>7, <1>8, <1>9, <1>10, <1>11, <1>12, <1>13,
     <1>14 DEF MainStep

LEMMA ThreadStepType ==
    ASSUME TypeOK, NEW w \in Workers, NEW r \in Runs, ThreadStep(w, r)
    PROVE  TypeOK'
<1> USE DEF rowVars, dockerVars, recVars, mainVars
<1>1. th' \in [Workers -> [Runs -> Execution]]
  <2>1. \E pc \in Execution : Goto(w, r, pc)
    BY DEF ThreadStep, ThreadStart, CannotExecute, LocalSpawn, NameContainer, DockerRun,
           ResolveId, StoreId, WaitReturns, Timeout, RecordTimeout, RemoveContainer,
           ClearContainer, Record, RecordException, ThreadDbError, AfterDbError,
           AfterRemove, AfterClear, Execution, ThreadSteps, Supervising
  <2>2. QED
    BY <2>1, GotoType
<1>2. /\ status' \in [Runs -> Status]
      /\ ref' \in [Runs -> BOOLEAN]
      /\ lock' = lock
      /\ UNCHANGED <<mainVars, crashes>>
  BY DEF ThreadStep, ThreadStart, CannotExecute, LocalSpawn, NameContainer, DockerRun,
         ResolveId, StoreId, WaitReturns, Timeout, RecordTimeout, RemoveContainer,
         ClearContainer, Record, RecordException, ThreadDbError, Outcome, Status,
         Terminal, TypeOK
<1>3. /\ proc' \in [Runs -> {"none", "up", "killed", "done"}]
      /\ ctr' \in [Runs -> {"none", "created", "up", "exited", "gone"}]
      /\ code' \in [Runs -> {"none", "ok", "bad"}]
  <2>1. CASE RemoveContainer(w, r)
    BY <2>1, DockerRemoveType DEF RemoveContainer
  <2>2. CASE LocalSpawn(w, r) \/ DockerRun(w, r)
    <3>1. proc' = [proc EXCEPT ![r] = "up"] /\ ctr' = ctr /\ code' = code
      BY <2>2 DEF LocalSpawn, DockerRun
    <3>2. QED
      BY <3>1 DEF TypeOK
  <2>3. CASE Timeout(w, r)
    BY <2>3 DEF Timeout, TypeOK
  <2>4. CASE UNCHANGED dockerVars
    BY <2>4 DEF TypeOK
  <2>5. QED
    BY <2>1, <2>2, <2>3, <2>4
    DEF ThreadStep, ThreadStart, CannotExecute, NameContainer, ResolveId, StoreId,
        WaitReturns, RecordTimeout, ClearContainer, Record, RecordException, ThreadDbError
<1>4. QED
  BY <1>1, <1>2, <1>3 DEF TypeOK

LEMMA OtherStepType ==
    ASSUME TypeOK,
           \/ \E r \in Runs : CreateRun(r) \/ EngineStep(r)
           \/ \E w \in Workers : Crash(w)
           \/ UNCHANGED vars
    PROVE  TypeOK'
<1> USE DEF rowVars, dockerVars, recVars, mainVars
<1>1. ASSUME NEW r \in Runs, CreateRun(r) PROVE TypeOK'
  BY <1>1 DEF CreateRun, TypeOK, Status
<1>2. ASSUME NEW r \in Runs, EngineStep(r) PROVE TypeOK'
  <2>1. CASE LocalExit(r)
    <3>1. PICK c \in {"ok", "bad"} : code' = [code EXCEPT ![r] = c]
      BY <2>1 DEF LocalExit
    <3>2. /\ proc' = [proc EXCEPT ![r] = "done"]
          /\ UNCHANGED <<rowVars, ctr, mainVars, th, crashes>>
      BY <2>1 DEF LocalExit
    <3>3. QED
      BY <3>1, <3>2 DEF TypeOK
  <2>2. CASE ContainerCreate(r)
    <3>1. /\ \/ ctr' = [ctr EXCEPT ![r] = "created"] /\ UNCHANGED proc
             \/ proc' = [proc EXCEPT ![r] = "done"] /\ UNCHANGED ctr
          /\ UNCHANGED <<rowVars, code, mainVars, th, crashes>>
      BY <2>2 DEF ContainerCreate
    <3>2. proc' \in [Runs -> {"none", "up", "killed", "done"}]
      BY <3>1 DEF TypeOK
    <3>3. ctr' \in [Runs -> {"none", "created", "up", "exited", "gone"}]
      BY <3>1 DEF TypeOK
    <3>4. QED
      BY <3>1, <3>2, <3>3 DEF TypeOK
  <2>3. CASE ContainerStart(r) \/ AutoRemove(r) \/ ClientReturns(r)
    <3>1. \/ \E c \in {"up", "gone"} : ctr' = [ctr EXCEPT ![r] = c] /\ UNCHANGED proc
          \/ proc' = [proc EXCEPT ![r] = "done"] /\ UNCHANGED ctr
      BY <2>3 DEF ContainerStart, AutoRemove, ClientReturns
    <3>2. UNCHANGED <<rowVars, code, mainVars, th, crashes>>
      BY <2>3 DEF ContainerStart, AutoRemove, ClientReturns
    <3>3. proc' \in [Runs -> {"none", "up", "killed", "done"}]
      BY <3>1 DEF TypeOK
    <3>4. ctr' \in [Runs -> {"none", "created", "up", "exited", "gone"}]
      BY <3>1 DEF TypeOK
    <3>5. QED
      BY <3>1, <3>2, <3>3, <3>4 DEF TypeOK
  <2>4. CASE ContainerExit(r)
    BY <2>4 DEF ContainerExit, TypeOK
  <2>5. QED
    BY <1>2, <2>1, <2>2, <2>3, <2>4 DEF EngineStep
<1>3. ASSUME NEW w \in Workers, Crash(w) PROVE TypeOK'
  <2>1. EndTransaction(w)
    BY <1>3 DEF Crash
  <2>2. th' \in [Workers -> [Runs -> Execution]]
    BY <1>3 DEF Crash, TypeOK, Execution
  <2>3. QED
    BY <1>3, <2>1, <2>2, EndTransactionType DEF Crash, TypeOK, MainSteps
<1>4. CASE UNCHANGED vars
  BY <1>4 DEF vars, TypeOK
<1>5. QED
  BY <1>1, <1>2, <1>3, <1>4

\* The table of runs, the Docker engine and the workers stay well-formed
\* through every interleaving, crash and failure.
THEOREM TypeCorrect == Spec => []TypeOK
<1>1. TypeOK /\ [Next]_vars => TypeOK'
  BY MainStepType, ThreadStepType, OtherStepType DEF Next
<1>2. QED
  BY InitType, <1>1, PTL DEF Spec

-----------------------------------------------------------------------------
(* A run is claimed once, and reconcilers do not deadlock. ClaimedOnce alone  *)
(* is not inductive: a claim must find its row still pending when it commits, *)
(* and a reconciler's open transaction must hold no update of an unclaimed    *)
(* run. So every row lock is explained by what its holder is doing, and an    *)
(* unclaimed run has left no trace in any worker.                             *)

Unclaimed(r) == status[r] \in {"absent", "pending"}

NoTrace ==
    \A r \in Runs : Unclaimed(r) =>
        /\ ~ref[r]
        /\ \A w \in Workers : th[w][r] = "none" /\ r \notin todo[w] /\ writes[w][r] = "none"

OneOwner ==
    \A r \in Runs, v, w \in Workers : th[v][r] # "none" /\ th[w][r] # "none" => v = w

LocksExplained ==
    \A w \in Workers, r \in Runs :
        /\ lock[r] = w => \/ main[w] = "claiming" /\ status[r] = "pending"
                         \/ writes[w][r] # "none"
        /\ writes[w][r] # "none" => main[w] \in ReconcileSteps
        /\ main[w] = "claiming" =>
              \A s \in Runs : lock[r] = w /\ lock[s] = w => r = s

\* A reconciler has written only rows before those it has still to look at,
\* except the row whose container it is removing.
WritesInOrder ==
    \A w \in Workers, r \in Runs :
        writes[w][r] # "none" =>
            \A s \in todo[w] :
                r < s \/ (r = s /\ main[w] = "remove" /\ r \in Row(w) \ ended[w])

\* The end of a run is decided only if the run was running in the SELECT.
DecidesRunning ==
    \A w \in Workers : main[w] = "decide" => Row(w) \cap ended[w] = {}

ClaimInv ==
    TypeOK /\ NoTrace /\ OneOwner /\ LocksExplained /\ WritesInOrder /\ DecidesRunning

LEMMA ClaimInit == Init => ClaimInv
<1> SUFFICES ASSUME Init PROVE ClaimInv
  OBVIOUS
<1>1. TypeOK
  BY InitType
<1>2. \A w \in Workers, r \in Runs :
         lock[r] = NoWorker /\ writes[w][r] = "none" /\ th[w][r] = "none" /\ todo[w] = {}
  BY DEF Init, NoWrites
<1>3. NoTrace
  BY <1>2 DEF Init, NoTrace
<1>4. OneOwner /\ WritesInOrder /\ DecidesRunning
  BY <1>2 DEF Init, OneOwner, WritesInOrder, DecidesRunning
<1>5. LocksExplained
  BY <1>2, BatchAssumption DEF Init, LocksExplained, BatchAssumption
<1>6. QED
  BY <1>1, <1>3, <1>4, <1>5 DEF ClaimInv

\* A thread acts only on a run its worker has claimed, and never makes it
\* claimable again.
LEMMA ThreadFrame ==
    ASSUME TypeOK, NEW w \in Workers, NEW r \in Runs, ThreadStep(w, r)
    PROVE  /\ th[w][r] # "none"
           /\ \E pc \in Execution \ {"none"} : Goto(w, r, pc)
           /\ status' = status \/ \E s \in Terminal : status' = [status EXCEPT ![r] = s]
           /\ ref' = ref \/ \E b \in BOOLEAN : ref' = [ref EXCEPT ![r] = b]
           /\ UNCHANGED <<lock, mainVars>>
<1> USE DEF rowVars, dockerVars, recVars, mainVars
<1>1. th[w][r] # "none"
  BY DEF ThreadStep, ThreadStart, CannotExecute, LocalSpawn, NameContainer, DockerRun,
         ResolveId, StoreId, WaitReturns, Timeout, RecordTimeout, RemoveContainer,
         ClearContainer, Record, RecordException, ThreadDbError, AfterRemove, AfterClear
<1>2. \E pc \in Execution \ {"none"} : Goto(w, r, pc)
  BY DEF ThreadStep, ThreadStart, CannotExecute, LocalSpawn, NameContainer, DockerRun,
         ResolveId, StoreId, WaitReturns, Timeout, RecordTimeout, RemoveContainer,
         ClearContainer, Record, RecordException, ThreadDbError, AfterDbError,
         AfterRemove, AfterClear, Execution, ThreadSteps, Supervising
<1>3. status' = status \/ \E s \in Terminal : status' = [status EXCEPT ![r] = s]
  BY DEF ThreadStep, ThreadStart, CannotExecute, LocalSpawn, NameContainer, DockerRun,
         ResolveId, StoreId, WaitReturns, Timeout, RecordTimeout, RemoveContainer,
         ClearContainer, Record, RecordException, ThreadDbError, Outcome, Terminal
<1>4. ref' = ref \/ \E b \in BOOLEAN : ref' = [ref EXCEPT ![r] = b]
  BY DEF ThreadStep, ThreadStart, CannotExecute, LocalSpawn, NameContainer, DockerRun,
         ResolveId, StoreId, WaitReturns, Timeout, RecordTimeout, RemoveContainer,
         ClearContainer, Record, RecordException, ThreadDbError
<1>5. UNCHANGED <<lock, mainVars>>
  BY DEF ThreadStep, ThreadStart, CannotExecute, LocalSpawn, NameContainer, DockerRun,
         ResolveId, StoreId, WaitReturns, Timeout, RecordTimeout, RemoveContainer,
         ClearContainer, Record, RecordException, ThreadDbError
<1>6. QED
  BY <1>1, <1>2, <1>3, <1>4, <1>5

LEMMA ThreadStepClaim ==
    ASSUME ClaimInv, NEW w \in Workers, NEW r \in Runs, ThreadStep(w, r)
    PROVE  ClaimInv'
<1> USE DEF recVars, mainVars
<1>1. TypeOK /\ TypeOK'
  BY ThreadStepType DEF ClaimInv
<1>2. th[w][r] # "none" /\ UNCHANGED <<lock, mainVars>>
  BY <1>1, ThreadFrame
<1>3. \A v \in Workers, s \in Runs :
         th'[v][s] = th[v][s] \/ (v = w /\ s = r /\ th'[v][s] # "none")
  <2>1. PICK pc \in Execution \ {"none"} : Goto(w, r, pc)
    BY <1>1, ThreadFrame
  <2>2. QED
    BY <1>1, <2>1 DEF Goto, TypeOK
<1>4. \A s \in Runs : status'[s] = status[s] \/ (s = r /\ status'[s] \in Terminal)
  <2>1. CASE status' = status
    BY <2>1
  <2>2. ASSUME NEW e \in Terminal, status' = [status EXCEPT ![r] = e]
        PROVE  \A s \in Runs : status'[s] = status[s] \/ (s = r /\ status'[s] \in Terminal)
    BY <1>1, <2>2 DEF TypeOK
  <2>3. QED
    BY <1>1, <2>1, <2>2, ThreadFrame
<1>5. \A s \in Runs \ {r} : ref'[s] = ref[s]
  <2>1. ref' = ref \/ \E b \in BOOLEAN : ref' = [ref EXCEPT ![r] = b]
    BY <1>1, ThreadFrame
  <2>2. QED
    BY <1>1, <2>1 DEF TypeOK
<1>6. ~Unclaimed(r)
  BY <1>2 DEF ClaimInv, NoTrace
<1>7. NoTrace'
  BY <1>2, <1>3, <1>4, <1>5, <1>6 DEF ClaimInv, NoTrace, Unclaimed, Terminal
<1>8. OneOwner'
  BY <1>2, <1>3 DEF ClaimInv, OneOwner
<1>9. LocksExplained'
  BY <1>2, <1>4, <1>6 DEF ClaimInv, LocksExplained, Unclaimed
<1>10. WritesInOrder' /\ DecidesRunning'
  BY <1>2 DEF ClaimInv, WritesInOrder, DecidesRunning, Row, First
<1>11. QED
  BY <1>1, <1>7, <1>8, <1>9, <1>10 DEF ClaimInv

\* Claiming: the row is still pending when the claim commits, because only its
\* holder's claim could have changed that.
LEMMA ClaimStepClaim ==
    ASSUME ClaimInv, NEW w \in Workers,
           ClaimSelect(w) \/ ClaimCommit(w) \/ ClaimRollback(w)
    PROVE  ClaimInv'
<1> USE DEF recVars
<1>1. TypeOK /\ TypeOK'
  BY MainStepType DEF ClaimInv, MainStep
<1>2. CASE ClaimSelect(w)
  <2>1. PICK r \in First(Claimable(w)) : lock' = [lock EXCEPT ![r] = w]
    BY <1>2 DEF ClaimSelect
  <2>2. r \in Runs /\ status[r] = "pending" /\ Free(r)
    BY <2>1 DEF First, Claimable
  <2>3. /\ main[w] = "idle"
        /\ main' = [main EXCEPT ![w] = "claiming"]
        /\ UNCHANGED <<status, ref, todo, ended, writes, th>>
    BY <1>2 DEF ClaimSelect
  <2>4. \A s \in Runs : lock[s] # w /\ writes[w][s] = "none"
    BY <2>3 DEF ClaimInv, LocksExplained, ReconcileSteps
  <2>5. NoTrace' /\ OneOwner'
    BY <2>3 DEF ClaimInv, NoTrace, OneOwner, Unclaimed
  <2>6. LocksExplained'
    BY <1>1, <2>1, <2>2, <2>3, <2>4 DEF ClaimInv, LocksExplained, TypeOK
  <2>7. WritesInOrder' /\ DecidesRunning'
    BY <1>1, <2>3, <2>4 DEF ClaimInv, WritesInOrder, DecidesRunning, Row, TypeOK
  <2>8. QED
    BY <1>1, <2>5, <2>6, <2>7 DEF ClaimInv
<1>3. CASE ClaimCommit(w)
  <2>1. PICK r \in Runs :
           /\ lock[r] = w
           /\ lock' = [lock EXCEPT ![r] = NoWorker]
           /\ status' = [status EXCEPT ![r] = "running"]
           /\ \E pc \in {"begin", "queued"} : th' = [th EXCEPT ![w][r] = pc]
    BY <1>3 DEF ClaimCommit, Goto
  <2>2. /\ main[w] = "claiming"
        /\ \E m \in {"idle", "busy"} : main' = [main EXCEPT ![w] = m]
        /\ UNCHANGED <<ref, todo, ended, writes>>
    BY <1>3 DEF ClaimCommit
  <2>3. \A s \in Runs : writes[w][s] = "none" /\ (lock[s] = w => s = r)
    BY <2>1, <2>2 DEF ClaimInv, LocksExplained, ReconcileSteps
  <2>4. Unclaimed(r) /\ \A v \in Workers : th[v][r] = "none"
    BY <2>1, <2>3 DEF ClaimInv, LocksExplained, NoTrace, Unclaimed
  <2>5. \A v \in Workers, s \in Runs : th'[v][s] = th[v][s] \/ (v = w /\ s = r)
    BY <1>1, <2>1 DEF TypeOK
  <2>6. \A s \in Runs : status'[s] = IF s = r THEN "running" ELSE status[s]
    BY <1>1, <2>1 DEF TypeOK
  <2>7. NoTrace'
    BY <2>2, <2>5, <2>6 DEF ClaimInv, NoTrace, Unclaimed
  <2>8. OneOwner'
    BY <2>4, <2>5 DEF ClaimInv, OneOwner
  <2>9. \A v \in Workers, s \in Runs : lock'[s] = v => lock[s] = v /\ s # r /\ v # w
    BY <1>1, <2>1, <2>3, BatchAssumption DEF TypeOK, BatchAssumption
  <2>10. \A v \in Workers : v # w => main'[v] = main[v]
    BY <1>1, <2>2 DEF TypeOK
  <2>11. LocksExplained'
    BY <2>2, <2>3, <2>6, <2>9, <2>10 DEF ClaimInv, LocksExplained
  <2>12. WritesInOrder' /\ DecidesRunning'
    BY <1>1, <2>2, <2>3, <2>10 DEF ClaimInv, WritesInOrder, DecidesRunning, Row, TypeOK
  <2>13. QED
    BY <1>1, <2>7, <2>8, <2>11, <2>12 DEF ClaimInv
<1>4. CASE ClaimRollback(w)
  <2>1. \A v \in Workers, s \in Runs : lock'[s] = v => lock[s] = v /\ v # w
    BY <1>4, BatchAssumption DEF ClaimRollback, BatchAssumption
  <2>2. /\ main[w] = "claiming"
        /\ \A v \in Workers : v # w => main'[v] = main[v]
        /\ UNCHANGED <<status, ref, todo, ended, writes, th>>
    BY <1>1, <1>4 DEF ClaimRollback, TypeOK
  <2>3. \A s \in Runs : writes[w][s] = "none"
    BY <2>2 DEF ClaimInv, LocksExplained, ReconcileSteps
  <2>4. NoTrace' /\ OneOwner'
    BY <2>2 DEF ClaimInv, NoTrace, OneOwner, Unclaimed
  <2>5. LocksExplained'
    BY <2>1, <2>2, <2>3 DEF ClaimInv, LocksExplained
  <2>6. WritesInOrder' /\ DecidesRunning'
    BY <1>1, <1>4, <2>2, <2>3
    DEF ClaimInv, ClaimRollback, WritesInOrder, DecidesRunning, Row, TypeOK
  <2>7. QED
    BY <1>1, <2>4, <2>5, <2>6 DEF ClaimInv
<1>5. QED
  BY <1>2, <1>3, <1>4

\* A transaction that ends takes its locks and its updates with it.
LEMMA EndTransactionFrame ==
    ASSUME TypeOK, NEW w \in Workers, EndTransaction(w)
    PROVE  /\ \A v \in Workers, s \in Runs : lock'[s] = v => lock[s] = v /\ v # w
           /\ \A s \in Runs : writes'[w][s] = "none"
           /\ todo'[w] = {}
           /\ \A v \in Workers : v # w =>
                 writes'[v] = writes[v] /\ todo'[v] = todo[v] /\ ended'[v] = ended[v]
  BY BatchAssumption DEF EndTransaction, NoWrites, TypeOK, BatchAssumption

LEMMA EndStepClaim ==
    ASSUME ClaimInv, NEW w \in Workers,
           ReconcileCommit(w) \/ ReconcileRollback(w) \/ Crash(w)
    PROVE  ClaimInv'
<1>1. TypeOK /\ TypeOK'
  BY MainStepType, OtherStepType DEF ClaimInv, MainStep
<1>2. EndTransaction(w)
  BY DEF ReconcileCommit, ReconcileRollback, Crash
<1>3. \A v \in Workers : v # w => main'[v] = main[v]
  BY <1>1 DEF ReconcileCommit, ReconcileRollback, Crash, TypeOK
<1>4. \A s \in Runs : Unclaimed(s)' => Unclaimed(s)
  <2>1. CASE status' = status
    BY <2>1 DEF Unclaimed
  <2>2. CASE ReconcileCommit(w)
    <3>1. \A s \in Runs : status'[s] = status[s] \/ status'[s] = writes[w][s]
      BY <2>2 DEF ReconcileCommit
    <3>2. \A s \in Runs : status'[s] = status[s] \/ status'[s] \in Terminal
      BY <1>1, <2>2, <3>1 DEF ReconcileCommit, Written, TypeOK
    <3>3. QED
      BY <3>2 DEF Unclaimed, Terminal
  <2>3. QED
    BY <2>1, <2>2 DEF ReconcileRollback, Crash
<1>5. \A s \in Runs : Unclaimed(s) => status'[s] = status[s]
  BY DEF ReconcileCommit, ReconcileRollback, Crash, Written, ClaimInv, NoTrace
<1>6. \A s \in Runs : ~ref[s] => ~ref'[s]
  BY DEF ReconcileCommit, ReconcileRollback, Crash
<1>7. \A v \in Workers, s \in Runs : th'[v][s] # "none" <=> th[v][s] # "none"
  BY <1>1 DEF ReconcileCommit, ReconcileRollback, Crash, TypeOK
<1>8. NoTrace'
  <2>1. SUFFICES ASSUME NEW s \in Runs, Unclaimed(s)', NEW v \in Workers
                 PROVE  ~ref'[s] /\ th'[v][s] = "none" /\ s \notin todo'[v]
                        /\ writes'[v][s] = "none"
    BY DEF NoTrace
  <2>2. ~ref[s] /\ th[v][s] = "none" /\ s \notin todo[v] /\ writes[v][s] = "none"
    BY <1>4, <2>1 DEF ClaimInv, NoTrace
  <2>3. QED
    BY <1>1, <1>2, <1>6, <1>7, <2>2, EndTransactionFrame
<1>9. OneOwner'
  BY <1>7 DEF ClaimInv, OneOwner
<1>10. LocksExplained'
  <2>1. \A v \in Workers, s \in Runs : lock'[s] = v => lock[s] = v /\ v # w
    BY <1>1, <1>2, EndTransactionFrame
  <2>2. \A v \in Workers, s \in Runs :
           writes'[v][s] = IF v = w THEN "none" ELSE writes[v][s]
    BY <1>1, <1>2, EndTransactionFrame
  <2>3. QED
    BY <1>3, <1>5, <2>1, <2>2 DEF ClaimInv, LocksExplained, Unclaimed
<1>11. WritesInOrder' /\ DecidesRunning'
  BY <1>1, <1>2, <1>3, EndTransactionFrame
  DEF ClaimInv, WritesInOrder, DecidesRunning, Row, First
<1>12. QED
  BY <1>1, <1>8, <1>9, <1>10, <1>11 DEF ClaimInv

\* The reconciler reads only rows that name a container.
LEMMA SelectStepClaim ==
    ASSUME ClaimInv, NEW w \in Workers, ReconcileSelect(w)
    PROVE  ClaimInv'
<1>1. TypeOK /\ TypeOK'
  BY MainStepType DEF ClaimInv, MainStep
<1>2. /\ \A s \in todo'[w] : ref[s]
      /\ \A v \in Workers : v # w => todo'[v] = todo[v] /\ ended'[v] = ended[v]
                                     /\ main'[v] = main[v]
      /\ main[w] \in {"boot", "idle"} /\ main'[w] = "inspect"
      /\ UNCHANGED <<status, ref, lock, writes, th>>
  BY <1>1 DEF ReconcileSelect, Tracked, rowVars, TypeOK
<1>3. \A s \in Runs : lock[s] # w /\ writes[w][s] = "none"
  BY <1>2 DEF ClaimInv, LocksExplained, ReconcileSteps
<1>4. NoTrace' /\ OneOwner'
  BY <1>2 DEF ClaimInv, NoTrace, OneOwner, Unclaimed
<1>5. LocksExplained' /\ WritesInOrder' /\ DecidesRunning'
  BY <1>2, <1>3 DEF ClaimInv, LocksExplained, WritesInOrder, DecidesRunning, Row
<1>6. QED
  BY <1>1, <1>4, <1>5 DEF ClaimInv

\* The reconciler between its SELECT and its commit deals with one row at a
\* time, and writes only the row it has decided about, if nobody else holds it.
LEMMA ReconcileFrame ==
    ASSUME ClaimInv, NEW w \in Workers,
           \/ ReconcileInspect(w) \/ ReconcileDecide(w)
           \/ ReconcileRemove(w) \/ ReconcileClear(w)
    PROVE  /\ main[w] \in ReconcileSteps /\ main'[w] \in ReconcileSteps
           /\ \A v \in Workers : v # w =>
                 /\ main'[v] = main[v] /\ todo'[v] = todo[v]
                 /\ ended'[v] = ended[v] /\ writes'[v] = writes[v]
           /\ \A s \in Runs : ~ref[s] => ~ref'[s]
           /\ UNCHANGED <<status, th>>
           /\ \E r \in Row(w) :
                 /\ main'[w] = "decide" => r \notin ended[w] /\ todo' = todo /\ ended' = ended
                 /\ \/ todo'[w] = todo[w] \ {r}
                    \/ todo' = todo /\ ended' = ended /\ (main[w] = "remove" => r \in ended[w])
                 /\ \A s \in Runs : s # r => writes'[w][s] = writes[w][s]
                 /\ \/ writes' = writes /\ lock' = lock
                    \/ /\ Free(r) /\ r \notin ended[w]
                       /\ writes'[w][r] # "none" /\ lock' = [lock EXCEPT ![r] = w]
                       /\ todo'[w] = todo[w] \ {r} \/ main'[w] = "remove"
<1> USE DEF rowVars, dockerVars, ReconcileSteps
<1>1. TypeOK /\ Row(w) \subseteq Runs
  BY RowInRuns DEF ClaimInv
<1>2. CASE ReconcileInspect(w)
  <2>1. /\ main[w] = "inspect"
        /\ UNCHANGED <<status, ref, lock, writes, th>>
    BY <1>2 DEF ReconcileInspect
  <2>2. PICK r \in Row(w) :
           \/ /\ main' = [main EXCEPT ![w] = "remove"]
              /\ UNCHANGED <<todo, ended>>
           \/ NextRow(w, r)
           \/ /\ r \notin ended[w]
              /\ main' = [main EXCEPT ![w] = "decide"]
              /\ UNCHANGED <<todo, ended>>
    BY <1>2 DEF ReconcileInspect
  <2>3. CASE NextRow(w, r)
    BY <1>1, <2>1, <2>3 DEF NextRow, TypeOK
  <2>4. CASE ~NextRow(w, r)
    <3>1. \E m \in {"remove", "decide"} : main' = [main EXCEPT ![w] = m]
      BY <2>2, <2>4
    <3>2. main'[w] = "decide" => r \notin ended[w]
      BY <1>1, <2>2, <2>4 DEF TypeOK
    <3>3. UNCHANGED <<todo, ended>>
      BY <2>2, <2>4
    <3>4. QED
      BY <1>1, <2>1, <3>1, <3>2, <3>3 DEF TypeOK
  <2>5. QED
    BY <2>3, <2>4
<1>3. CASE ReconcileDecide(w)
  <2>1. main[w] = "decide" /\ UNCHANGED <<status, ref, th>>
    BY <1>3 DEF ReconcileDecide
  <2>2. PICK r \in Row(w) :
           /\ Free(r) /\ lock' = [lock EXCEPT ![r] = w]
           /\ writes' = [writes EXCEPT ![w][r] = Verdict(seen[w])]
           /\ \/ NextRow(w, r)
              \/ /\ main' = [main EXCEPT ![w] = "remove"]
                 /\ UNCHANGED <<todo, ended>>
    BY <1>3 DEF ReconcileDecide
  <2>3. r \in Runs /\ r \notin ended[w]
    BY <1>1, <2>1 DEF ClaimInv, DecidesRunning
  <2>4. /\ \A s \in Runs : s # r => writes'[w][s] = writes[w][s]
        /\ \A v \in Workers : v # w => writes'[v] = writes[v]
        /\ writes'[w][r] # "none"
    BY <1>1, <2>2, <2>3 DEF TypeOK, Verdict
  <2>5. /\ main'[w] \in {"inspect", "remove"}
        /\ \A v \in Workers : v # w => main'[v] = main[v] /\ todo'[v] = todo[v]
                                       /\ ended'[v] = ended[v]
        /\ \/ todo'[w] = todo[w] \ {r}
           \/ todo' = todo /\ ended' = ended /\ main'[w] = "remove"
    BY <1>1, <2>2, <2>3 DEF NextRow, TypeOK
  <2>6. QED
    BY <2>1, <2>2, <2>3, <2>4, <2>5
<1>4. CASE ReconcileRemove(w)
  BY <1>1, <1>4 DEF ReconcileRemove, NextRow, TypeOK
<1>5. CASE ReconcileClear(w)
  BY <1>1, <1>5 DEF ReconcileClear, NextRow, TypeOK
<1>6. QED
  BY <1>2, <1>3, <1>4, <1>5

LEMMA ReconcileStepClaim ==
    ASSUME ClaimInv, NEW w \in Workers,
           \/ ReconcileInspect(w) \/ ReconcileDecide(w)
           \/ ReconcileRemove(w) \/ ReconcileClear(w)
    PROVE  ClaimInv'
<1>1. TypeOK /\ TypeOK'
  BY MainStepType DEF ClaimInv, MainStep
<1>2. /\ main[w] \in ReconcileSteps /\ main'[w] \in ReconcileSteps
      /\ \A v \in Workers : v # w =>
            /\ main'[v] = main[v] /\ todo'[v] = todo[v]
            /\ ended'[v] = ended[v] /\ writes'[v] = writes[v]
      /\ \A s \in Runs : ~ref[s] => ~ref'[s]
      /\ UNCHANGED <<status, th>>
  BY ReconcileFrame
<1>3. PICK r \in Row(w) :
         /\ main'[w] = "decide" => r \notin ended[w] /\ todo' = todo /\ ended' = ended
         /\ \/ todo'[w] = todo[w] \ {r}
            \/ todo' = todo /\ ended' = ended /\ (main[w] = "remove" => r \in ended[w])
         /\ \A s \in Runs : s # r => writes'[w][s] = writes[w][s]
         /\ \/ writes' = writes /\ lock' = lock
            \/ /\ Free(r) /\ r \notin ended[w]
               /\ writes'[w][r] # "none" /\ lock' = [lock EXCEPT ![r] = w]
               /\ todo'[w] = todo[w] \ {r} \/ main'[w] = "remove"
  BY ReconcileFrame
<1>4. r \in Runs /\ r \in todo[w] /\ \A s \in todo[w] : s \in Runs /\ (s = r \/ r < s)
  BY <1>1, BatchAssumption DEF Row, First, TypeOK, BatchAssumption
<1>5. NoTrace'
  BY <1>2, <1>3, <1>4 DEF ClaimInv, NoTrace, Unclaimed
<1>6. OneOwner'
  BY <1>2 DEF ClaimInv, OneOwner
<1>7. LocksExplained'
  <2>1. CASE writes' = writes /\ lock' = lock
    BY <1>2, <2>1 DEF ClaimInv, LocksExplained, ReconcileSteps
  <2>2. CASE Free(r) /\ writes'[w][r] # "none" /\ lock' = [lock EXCEPT ![r] = w]
    <3>1. \A s \in Runs : lock'[s] = IF s = r THEN w ELSE lock[s]
      BY <1>1, <2>2 DEF TypeOK
    <3>2. \A s \in Runs : lock[s] = w => writes[w][s] # "none"
      BY <1>2 DEF ClaimInv, LocksExplained, ReconcileSteps
    <3>3. \A v \in Workers, s \in Runs :
             lock'[s] = v => \/ main'[v] = "claiming" /\ status'[s] = "pending"
                             \/ writes'[v][s] # "none"
      BY <1>2, <1>3, <2>2, <3>1, <3>2 DEF ClaimInv, LocksExplained
    <3>4. \A v \in Workers, s \in Runs :
             writes'[v][s] # "none" => main'[v] \in ReconcileSteps
      BY <1>2 DEF ClaimInv, LocksExplained
    <3>5. \A v \in Workers, s, t \in Runs :
             main'[v] = "claiming" /\ lock'[s] = v /\ lock'[t] = v => s = t
      BY <1>2, <3>1 DEF ClaimInv, LocksExplained, ReconcileSteps
    <3>6. QED
      BY <3>3, <3>4, <3>5 DEF LocksExplained
  <2>3. QED
    BY <1>3, <2>1, <2>2
<1>8. WritesInOrder'
  <2>1. SUFFICES ASSUME NEW v \in Workers, NEW x \in Runs, writes'[v][x] # "none",
                        NEW s \in todo'[v]
                 PROVE  x < s \/ (x = s /\ main'[v] = "remove" /\ x \in Row(v)' \ ended'[v])
    BY DEF WritesInOrder
  <2>2. CASE v # w
    BY <1>2, <2>1, <2>2 DEF ClaimInv, WritesInOrder, Row
  <2>3. CASE v = w /\ writes[w][x] # "none"
    <3>1. s \in todo[w] /\ (s = r => todo' = todo)
      BY <1>3, <2>1, <2>3
    <3>2. x < s \/ (x = s /\ main[w] = "remove" /\ x \in Row(w) \ ended[w])
      BY <2>3, <3>1 DEF ClaimInv, WritesInOrder
    <3>3. x \in Row(w) => x = r
      BY <1>4, <2>1, BatchAssumption DEF Row, First, BatchAssumption
    <3>4. QED
      BY <1>3, <3>1, <3>2, <3>3
  <2>4. CASE v = w /\ writes[w][x] = "none"
    <3>1. /\ x = r /\ r \notin ended[w]
          /\ todo'[w] = todo[w] \ {r} \/ main'[w] = "remove"
      BY <1>3, <2>1, <2>4
    <3>2. CASE todo'[w] = todo[w] \ {r}
      BY <1>4, <2>1, <2>4, <3>1, <3>2
    <3>3. CASE todo' = todo /\ ended' = ended /\ main'[w] = "remove"
      BY <1>3, <1>4, <2>1, <2>4, <3>1, <3>3 DEF Row
    <3>4. QED
      BY <1>3, <3>1, <3>2, <3>3
  <2>5. QED
    BY <2>2, <2>3, <2>4
<1>9. DecidesRunning'
  <2>1. SUFFICES ASSUME NEW v \in Workers, main'[v] = "decide"
                 PROVE  Row(v)' \cap ended'[v] = {}
    BY DEF DecidesRunning
  <2>2. CASE v # w
    BY <1>2, <2>1, <2>2 DEF ClaimInv, DecidesRunning, Row
  <2>3. CASE v = w
    <3>1. r \notin ended'[w] /\ Row(w)' = Row(w)
      BY <1>3, <2>1, <2>3 DEF Row
    <3>2. \A s \in Row(w) : s = r
      BY <1>4, BatchAssumption DEF Row, First, BatchAssumption
    <3>3. QED
      BY <2>3, <3>1, <3>2
  <2>4. QED
    BY <2>2, <2>3
<1>10. QED
  BY <1>1, <1>5, <1>6, <1>7, <1>8, <1>9 DEF ClaimInv

\* Steps that touch neither a claim, nor a lock, nor a reconciliation.
LEMMA OtherStepClaim ==
    ASSUME ClaimInv, TypeOK',
           \/ \E w \in Workers : Start(w) \/ EnterLoop(w) \/ LocalReturn(w) \/ Poll(w)
           \/ \E r \in Runs : CreateRun(r) \/ EngineStep(r)
           \/ UNCHANGED vars
    PROVE  ClaimInv'
<1> USE DEF vars, rowVars, dockerVars, recVars, mainVars
<1>1. ASSUME NEW w \in Workers, Start(w) \/ EnterLoop(w) \/ LocalReturn(w)
      PROVE  ClaimInv'
  <2>1. /\ main[w] \in {"down", "boot", "busy"} /\ main'[w] \in {"boot", "idle"}
        /\ \A v \in Workers : v # w => main'[v] = main[v]
        /\ UNCHANGED <<rowVars, recVars, th>>
    BY <1>1 DEF Start, EnterLoop, LocalReturn, ClaimInv, TypeOK
  <2>2. \A r \in Runs : lock[r] # w /\ writes[w][r] = "none"
    BY <2>1 DEF ClaimInv, LocksExplained, ReconcileSteps
  <2>3. NoTrace' /\ OneOwner'
    BY <2>1 DEF ClaimInv, NoTrace, OneOwner, Unclaimed
  <2>4. LocksExplained'
    BY <2>1, <2>2 DEF ClaimInv, LocksExplained
  <2>5. WritesInOrder' /\ DecidesRunning'
    BY <2>1, <2>2 DEF ClaimInv, WritesInOrder, DecidesRunning, Row
  <2>6. QED
    BY <2>3, <2>4, <2>5 DEF ClaimInv
<1>2. ASSUME NEW r \in Runs, CreateRun(r) PROVE ClaimInv'
  <2>1. /\ status[r] = "absent"
        /\ \A s \in Runs : status'[s] = IF s = r THEN "pending" ELSE status[s]
        /\ UNCHANGED <<ref, lock, mainVars, th>>
    BY <1>2 DEF CreateRun, ClaimInv, TypeOK
  <2>2. NoTrace' /\ OneOwner'
    BY <2>1 DEF ClaimInv, NoTrace, OneOwner, Unclaimed
  <2>3. LocksExplained'
    BY <2>1 DEF ClaimInv, LocksExplained
  <2>4. WritesInOrder' /\ DecidesRunning'
    BY <2>1 DEF ClaimInv, WritesInOrder, DecidesRunning, Row
  <2>5. QED
    BY <2>2, <2>3, <2>4 DEF ClaimInv
<1>3. ASSUME \/ \E w \in Workers : Poll(w)
             \/ \E r \in Runs : EngineStep(r)
             \/ UNCHANGED vars
      PROVE  ClaimInv'
  <2>1. UNCHANGED <<rowVars, mainVars, th>>
    BY <1>3 DEF Poll, EngineStep, LocalExit, ContainerCreate, ContainerStart, ContainerExit,
                AutoRemove, ClientReturns
  <2>2. NoTrace' /\ OneOwner' /\ LocksExplained'
    BY <2>1 DEF ClaimInv, NoTrace, OneOwner, LocksExplained, Unclaimed
  <2>3. WritesInOrder' /\ DecidesRunning'
    BY <2>1 DEF ClaimInv, WritesInOrder, DecidesRunning, Row
  <2>4. QED
    BY <2>2, <2>3 DEF ClaimInv
<1>4. QED
  BY <1>1, <1>2, <1>3

LEMMA ClaimStep == ClaimInv /\ [Next]_vars => ClaimInv'
<1> SUFFICES ASSUME ClaimInv, [Next]_vars PROVE ClaimInv'
  OBVIOUS
<1>1. TypeOK /\ TypeOK'
  BY MainStepType, ThreadStepType, OtherStepType DEF ClaimInv, Next
<1>2. ASSUME NEW w \in Workers, MainStep(w) PROVE ClaimInv'
  BY <1>1, <1>2, ClaimStepClaim, EndStepClaim, SelectStepClaim, ReconcileStepClaim,
     OtherStepClaim DEF MainStep
<1>3. ASSUME NEW w \in Workers, NEW r \in Runs, ThreadStep(w, r) PROVE ClaimInv'
  BY <1>3, ThreadStepClaim
<1>4. QED
  BY <1>1, <1>2, <1>3, EndStepClaim, OtherStepClaim DEF Next

\* However workers race, crash, fail and reconcile, a run is executed at most
\* once, by the worker that claimed it, and never before its claim commits.
THEOREM ClaimsAreExclusive == Spec => []ClaimedOnce
<1>1. ClaimInv => ClaimedOnce
  BY DEF ClaimInv, NoTrace, OneOwner, ClaimedOnce, Unclaimed
<1>2. QED
  BY ClaimInit, ClaimStep, <1>1, PTL DEF Spec

\* Reconcilers that wait for each other's row locks cannot form a cycle: each
\* holds only rows before the one it waits for.
THEOREM ReconcilersDoNotDeadlock == Spec => []NoLockCycle
<1>1. ClaimInv => NoLockCycle
  <2>1. SUFFICES ASSUME ClaimInv, NEW v \in Workers, NEW w \in Workers,
                        WaitsFor(v, w), WaitsFor(w, v)
                 PROVE  FALSE
    BY DEF NoLockCycle
  <2>2. PICK r \in Row(v) : lock[r] = w
    BY <2>1 DEF WaitsFor
  <2>3. PICK s \in Row(w) : lock[s] = v
    BY <2>1 DEF WaitsFor
  <2>4. /\ r \in Runs /\ r \in todo[v] /\ r \in Nat
        /\ s \in Runs /\ s \in todo[w] /\ s \in Nat
    BY <2>1, BatchAssumption DEF Row, First, ClaimInv, TypeOK, BatchAssumption
  <2>5. main[v] \in {"decide", "clear"} /\ main[w] \in {"decide", "clear"}
    BY <2>1 DEF WaitsFor
  <2>6. LocksExplained /\ WritesInOrder
    BY <2>1 DEF ClaimInv
  <2>7. writes[w][r] # "none" /\ writes[v][s] # "none"
    BY <2>2, <2>3, <2>4, <2>5, <2>6 DEF LocksExplained
  <2>8. r < s /\ s < r
    BY <2>4, <2>5, <2>6, <2>7 DEF WritesInOrder
  <2>9. QED
    BY <2>4, <2>8
<1>2. QED
  BY ClaimInit, ClaimStep, <1>1, PTL DEF Spec

-----------------------------------------------------------------------------
(* The workers implement RunQueue.                                          *)

Owners == [r \in Runs |-> Owner(r)]

\* A claimed run has an owner, for ever: an execution leaves a trace even when
\* its worker crashes.
Claimed == \A r \in Runs : ~Unclaimed(r) => \E w \in Workers : th[w][r] # "none"

QueueInv == ClaimInv /\ Claimed

LEMMA OwnerIs ==
    ASSUME OneOwner, NEW w \in Workers, NEW r \in Runs, th[w][r] # "none"
    PROVE  Owner(r) = w
  BY DEF OneOwner, Owner

LEMMA OwnerIsNobody ==
    ASSUME NEW r \in Runs, \A w \in Workers : th[w][r] = "none"
    PROVE  Owner(r) = NoWorker
  BY DEF Owner

\* Executions that neither begin nor vanish leave the owners as they are.
LEMMA OwnersStay ==
    ASSUME OneOwner, OneOwner',
           \A w \in Workers, r \in Runs : th'[w][r] # "none" <=> th[w][r] # "none"
    PROVE  Owners' = Owners
<1>1. ASSUME NEW r \in Runs PROVE Owner(r)' = Owner(r)
  <2>1. CASE \A w \in Workers : th[w][r] = "none"
    BY <2>1 DEF Owner
  <2>2. ASSUME NEW w \in Workers, th[w][r] # "none" PROVE Owner(r)' = Owner(r)
    <3>1. \A v \in Workers : th[v][r] # "none" => v = w
      BY <2>2 DEF OneOwner
    <3>2. Owner(r) = w /\ Owner(r)' = w
      BY <2>2, <3>1 DEF Owner
    <3>3. QED
      BY <3>2
  <2>3. QED
    BY <2>1, <2>2
<1>2. QED
  BY <1>1 DEF Owners

\* A step that ends the runs of S, all claimed, and no other.
EndsOnly(S) ==
    /\ \A r \in S : ~Unclaimed(r) /\ status'[r] \in Terminal
    /\ \A r \in Runs \ S : status'[r] = status[r]

\* Such a step is an End step of the queue.
LEMMA EndsMap ==
    ASSUME QueueInv, TypeOK', Owners' = Owners, NEW S \in SUBSET Runs, EndsOnly(S)
    PROVE  Queue!End(S)
<1>1. \A r \in S : Owners[r] # NoWorker /\ status[r] \notin {"absent", "pending"}
  <2>1. SUFFICES ASSUME NEW r \in S PROVE Owner(r) # NoWorker /\ ~Unclaimed(r)
    BY DEF Owners, Unclaimed
  <2>2. PICK w \in Workers : th[w][r] # "none"
    BY DEF QueueInv, Claimed, EndsOnly
  <2>3. Owner(r) = w
    BY <2>2, OwnerIs DEF QueueInv, ClaimInv
  <2>4. QED
    BY <2>3, BatchAssumption DEF BatchAssumption, EndsOnly
<1>2. \E e \in [S -> Queue!Ended] :
         status' = [r \in Runs |-> IF r \in S THEN e[r] ELSE status[r]]
  <2> DEFINE e == [r \in S |-> status'[r]]
  <2>1. e \in [S -> Queue!Ended]
    BY DEF EndsOnly, Queue!Ended, Terminal
  <2>2. status' = [r \in Runs |-> IF r \in S THEN e[r] ELSE status[r]]
    BY DEF TypeOK, EndsOnly
  <2>3. QED
    BY <2>1, <2>2
<1>3. QED
  BY <1>1, <1>2 DEF Queue!End, Owners

LEMMA QueueStep ==
    ASSUME QueueInv, ClaimInv', [Next]_vars
    PROVE  Claimed' /\ [Queue!Next]_<<status, Owners>>
<1> USE DEF rowVars, dockerVars, recVars, mainVars
<1>1. TypeOK /\ TypeOK' /\ OneOwner /\ OneOwner' /\ NoTrace
  BY DEF QueueInv, ClaimInv
<1>2. ASSUME \A w \in Workers, r \in Runs : th'[w][r] # "none" <=> th[w][r] # "none",
             NEW S \in SUBSET Runs, EndsOnly(S)
      PROVE  Claimed' /\ [Queue!Next]_<<status, Owners>>
  <2>1. Queue!End(S)
    BY <1>1, <1>2, OwnersStay, EndsMap
  <2>2. Claimed'
    BY <1>2 DEF QueueInv, Claimed, EndsOnly, Unclaimed
  <2>3. QED
    BY <2>1, <2>2 DEF Queue!Next
<1>3. ASSUME status' = status,
             \A w \in Workers, r \in Runs : th'[w][r] # "none" <=> th[w][r] # "none"
      PROVE  Claimed' /\ [Queue!Next]_<<status, Owners>>
  <2>1. EndsOnly({}) /\ {} \in SUBSET Runs
    BY <1>3 DEF EndsOnly
  <2>2. QED
    BY <1>2, <1>3, <2>1
<1>4. ASSUME NEW r \in Runs, CreateRun(r)
      PROVE  Claimed' /\ [Queue!Next]_<<status, Owners>>
  <2>1. /\ status[r] = "absent" /\ status' = [status EXCEPT ![r] = "pending"]
        /\ th' = th
    BY <1>4 DEF CreateRun
  <2>2. Owners' = Owners
    BY <1>1, <2>1, OwnersStay
  <2>3. Queue!Submit(r)
    BY <2>1, <2>2 DEF Queue!Submit, Owners
  <2>4. Claimed'
    BY <1>1, <2>1 DEF QueueInv, Claimed, Unclaimed, TypeOK
  <2>5. QED
    BY <2>3, <2>4 DEF Queue!Next
<1>5. ASSUME NEW w \in Workers, ClaimCommit(w)
      PROVE  Claimed' /\ [Queue!Next]_<<status, Owners>>
  <2>1. PICK r \in Runs :
           /\ lock[r] = w
           /\ status' = [status EXCEPT ![r] = "running"]
           /\ \E pc \in {"begin", "queued"} : th' = [th EXCEPT ![w][r] = pc]
    BY <1>5 DEF ClaimCommit, Goto
  <2>2. status[r] = "pending"
    <3>1. main[w] = "claiming"
      BY <1>5 DEF ClaimCommit
    <3>2. LocksExplained
      BY DEF QueueInv, ClaimInv
    <3>3. writes[w][r] = "none"
      BY <3>1, <3>2 DEF LocksExplained, ReconcileSteps
    <3>4. QED
      BY <2>1, <3>2, <3>3 DEF LocksExplained
  <2>3. \A v \in Workers : th[v][r] = "none"
    BY <1>1, <2>2 DEF NoTrace, Unclaimed
  <2>4. /\ th'[w][r] # "none"
        /\ \A v \in Workers, s \in Runs : s # r => th'[v][s] = th[v][s]
    BY <1>1, <2>1 DEF TypeOK
  <2>5. Owner(r) = NoWorker /\ Owner(r)' = w
    <3>1. Owner(r) = NoWorker
      BY <2>3, OwnerIsNobody
    <3>2. \A v \in Workers : th'[v][r] # "none" => v = w
      BY <1>1, <2>4 DEF OneOwner
    <3>3. Owner(r)' = w
      BY <2>4, <3>2 DEF Owner
    <3>4. QED
      BY <3>1, <3>3
  <2>6. ASSUME NEW s \in Runs, s # r PROVE Owner(s)' = Owner(s)
    <3>1. \A v \in Workers : th'[v][s] = th[v][s]
      BY <2>4, <2>6
    <3>2. CASE \A v \in Workers : th[v][s] = "none"
      BY <3>1, <3>2 DEF Owner
    <3>3. ASSUME NEW v \in Workers, th[v][s] # "none" PROVE Owner(s)' = Owner(s)
      <4>1. \A u \in Workers : th[u][s] # "none" => u = v
        BY <1>1, <3>3 DEF OneOwner
      <4>2. Owner(s) = v /\ Owner(s)' = v
        BY <3>1, <3>3, <4>1 DEF Owner
      <4>3. QED
        BY <4>2
    <3>4. QED
      BY <3>2, <3>3
  <2>7. Owners[r] = NoWorker /\ Owners' = [Owners EXCEPT ![r] = w]
    BY <2>5, <2>6 DEF Owners
  <2>8. Queue!Claim(w, r)
    BY <2>1, <2>2, <2>7 DEF Queue!Claim, Owners
  <2>9. Claimed'
    BY <1>1, <2>1, <2>4 DEF QueueInv, Claimed, Unclaimed, TypeOK
  <2>10. QED
    BY <2>8, <2>9 DEF Queue!Next
<1>6. ASSUME NEW w \in Workers, NEW r \in Runs, ThreadStep(w, r)
      PROVE  Claimed' /\ [Queue!Next]_<<status, Owners>>
  <2>1. th[w][r] # "none" /\ ~Unclaimed(r)
    BY <1>1, <1>6, ThreadFrame DEF NoTrace
  <2>2. PICK pc \in Execution \ {"none"} : Goto(w, r, pc)
    BY <1>1, <1>6, ThreadFrame
  <2>3. \A v \in Workers, s \in Runs : th'[v][s] # "none" <=> th[v][s] # "none"
    <3>1. th'[w][r] # "none"
      BY <1>1, <2>2 DEF Goto, TypeOK
    <3>2. \A v \in Workers, s \in Runs : (v = w /\ s = r) \/ th'[v][s] = th[v][s]
      BY <1>1, <2>2 DEF Goto, TypeOK
    <3>3. QED
      BY <2>1, <3>1, <3>2
  <2>4. CASE status' = status
    BY <2>3, <2>4, <1>3
  <2>5. ASSUME NEW e \in Terminal, status' = [status EXCEPT ![r] = e]
        PROVE  Claimed' /\ [Queue!Next]_<<status, Owners>>
    <3>1. status'[r] \in Terminal /\ \A s \in Runs \ {r} : status'[s] = status[s]
      BY <1>1, <2>5 DEF TypeOK
    <3>2. EndsOnly({r}) /\ {r} \in SUBSET Runs
      BY <2>1, <3>1 DEF EndsOnly
    <3>3. QED
      BY <1>2, <2>3, <3>2
  <2>6. QED
    BY <1>1, <1>6, <2>4, <2>5, ThreadFrame
<1>7. ASSUME NEW w \in Workers, ReconcileCommit(w)
      PROVE  Claimed' /\ [Queue!Next]_<<status, Owners>>
  <2>1. th' = th
    BY <1>7 DEF ReconcileCommit
  <2>2. \A r \in Written(w) : ~Unclaimed(r) /\ status'[r] \in Terminal
    <3>1. SUFFICES ASSUME NEW r \in Written(w)
                   PROVE  ~Unclaimed(r) /\ status'[r] \in Terminal
      OBVIOUS
    <3>2. r \in Runs /\ writes[w][r] # "none" /\ writes[w][r] \in Terminal \cup {"none"}
      BY <1>1 DEF Written, TypeOK
    <3>3. status'[r] = writes[w][r]
      BY <1>7, <3>2 DEF ReconcileCommit
    <3>4. QED
      BY <1>1, <3>2, <3>3 DEF NoTrace
  <2>3. \A r \in Runs \ Written(w) : status'[r] = status[r]
    BY <1>7 DEF ReconcileCommit
  <2>4. EndsOnly(Written(w)) /\ Written(w) \in SUBSET Runs
    BY <2>2, <2>3 DEF EndsOnly, Written
  <2>5. QED
    BY <1>2, <2>1, <2>4
<1>8. ASSUME NEW w \in Workers, Crash(w)
      PROVE  Claimed' /\ [Queue!Next]_<<status, Owners>>
  BY <1>1, <1>3, <1>8 DEF Crash, TypeOK
<1>9. ASSUME NEW w \in Workers, MainStep(w)
      PROVE  Claimed' /\ [Queue!Next]_<<status, Owners>>
  <2>1. CASE ClaimCommit(w) \/ ReconcileCommit(w)
    BY <1>5, <1>7, <2>1
  <2>2. CASE ~(ClaimCommit(w) \/ ReconcileCommit(w))
    <3>1. status' = status /\ th' = th
      BY <1>9, <2>2 DEF MainStep, Start, EnterLoop, ClaimSelect, ClaimRollback, LocalReturn,
            Poll, vars, ReconcileSelect, ReconcileInspect, ReconcileDecide, ReconcileRemove,
            ReconcileClear, ReconcileRollback
    <3>2. QED
      BY <1>3, <3>1
  <2>3. QED
    BY <2>1, <2>2
<1>10. ASSUME NEW r \in Runs, EngineStep(r)
       PROVE  Claimed' /\ [Queue!Next]_<<status, Owners>>
  <2>1. status' = status /\ th' = th
    BY <1>10 DEF EngineStep, LocalExit, ContainerCreate, ContainerStart, ContainerExit,
                 AutoRemove, ClientReturns
  <2>2. QED
    BY <1>3, <2>1
<1>11. CASE UNCHANGED vars
  BY <1>3, <1>11 DEF vars
<1>12. QED
  BY <1>4, <1>6, <1>8, <1>9, <1>10, <1>11 DEF Next

\* Every behaviour of the workers, with its crashes, failures, races and
\* reconciliations, is a behaviour of RunQueue.
THEOREM WorkersImplementQueue == Spec => ImplementsQueue
<1>1. Init => QueueInv /\ Queue!Init
  <2>1. SUFFICES ASSUME Init PROVE QueueInv /\ Queue!Init
    OBVIOUS
  <2>2. ClaimInv /\ Claimed
    BY <2>1, ClaimInit DEF Init, Claimed, Unclaimed
  <2>3. \A r \in Runs : Owner(r) = NoWorker
    BY <2>1 DEF Init, Owner
  <2>4. QED
    BY <2>1, <2>2, <2>3 DEF QueueInv, Queue!Init, Init
<1>2. QueueInv /\ [Next]_vars => QueueInv' /\ [Queue!Next]_<<status, Owners>>
  BY ClaimStep, QueueStep DEF QueueInv
<1>3. QED
  BY <1>1, <1>2, PTL DEF Spec, ImplementsQueue, Queue!Spec, Owners
-----------------------------------------------------------------------------
(* What is recorded, and what becomes of the containers.                     *)

\* What a thread's place says of the run's child process, and the child process
\* of the container.
EngineAgrees ==
    \A r \in Runs :
        /\ ~InContainer(r) => ctr[r] = "none"
        /\ InContainer(r) /\ proc[r] = "done" => ctr[r] \in {"none", "gone"}
        /\ \A w \in Workers :
            /\ th[w][r] \in {"rm", "clear", "record"} => proc[r] = "done"
            /\ th[w][r] \in {"timedout", "rmT", "rmX", "clearT", "clearX"} => proc[r] = "killed"

\* What one step of a thread does to its run: it goes to pc and leaves the rest
\* in these states.
Moves(w, r, pc, st, rf, p, c, cd) ==
    /\ th'[w][r] = pc
    /\ status'[r] = st /\ ref'[r] = rf /\ proc'[r] = p /\ ctr'[r] = c /\ code'[r] = cd

\* The steps of a thread, by the place they start from.
ThreadMove(w, r) ==
    LET same(pc) == Moves(w, r, pc, status[r], ref[r], proc[r], ctr[r], code[r])
        wrote(pc, st) == Moves(w, r, pc, st, ref[r], proc[r], ctr[r], code[r])
        named(pc, rf) == Moves(w, r, pc, status[r], rf, proc[r], ctr[r], code[r])
    IN
    \/ th[w][r] = "queued" /\ same("begin")
    \/ th[w][r] \in {"begin", "named"} /\ same("failing")
    \/ th[w][r] = "begin" /\ ~InContainer(r) /\ Moves(w, r, "waiting", status[r], ref[r], "up", ctr[r], code[r])
    \/ th[w][r] = "begin" /\ InContainer(r) /\ named("named", TRUE)
    \/ th[w][r] = "named" /\ Moves(w, r, "spawned", status[r], ref[r], "up", ctr[r], code[r])
    \/ th[w][r] = "spawned" /\ (same("found") \/ same("waiting"))
    \/ th[w][r] = "found" /\ named("waiting", TRUE)
    \/ th[w][r] = "waiting" /\ proc[r] = "done" /\ same(IF InContainer(r) THEN "rm" ELSE "record")
    \/ /\ th[w][r] = "waiting" /\ proc[r] = "up"
       /\ Moves(w, r, "timedout", status[r], ref[r], "killed", ctr[r], IF InContainer(r) THEN code[r] ELSE "bad")
    \/ th[w][r] = "timedout" /\ wrote(IF InContainer(r) THEN "rmT" ELSE "done", "failed")
    \/ /\ \/ th[w][r] = "rm" /\ th'[w][r] = "clear"
          \/ th[w][r] = "rmT" /\ th'[w][r] = "clearT"
          \/ th[w][r] = "rmX" /\ th'[w][r] = "clearX"
       /\ status'[r] = status[r] /\ ref'[r] = ref[r] /\ DockerRemove(r)
    \/ th[w][r] = "clear" /\ named("record", FALSE)
    \/ th[w][r] = "clearT" /\ named("done", FALSE)
    \/ th[w][r] = "clearX" /\ named("failing", FALSE)
    \/ th[w][r] = "record" /\ wrote("done", Outcome(code[r]))
    \/ th[w][r] = "failing" /\ wrote("done", "failed")
    \/ /\ DbMayFail
       /\ \/ th[w][r] = "begin" /\ (same("failing") \/ same("done"))
          \/ th[w][r] = "timedout" /\ same(IF InContainer(r) THEN "rmX" ELSE "failing")
          \/ th[w][r] = "failing" /\ same("done")
          \/ th[w][r] \in {"named", "found", "clear", "clearT", "clearX", "record"} /\ same("failing")

LEMMA ThreadMoves ==
    ASSUME TypeOK, NEW w \in Workers, NEW r \in Runs, ThreadStep(w, r)
    PROVE  ThreadMove(w, r)
<1> USE DEF rowVars, dockerVars, TypeOK
<1> DEFINE same(pc) == Moves(w, r, pc, status[r], ref[r], proc[r], ctr[r], code[r])
           wrote(pc, st) == Moves(w, r, pc, st, ref[r], proc[r], ctr[r], code[r])
           named(pc, rf) == Moves(w, r, pc, status[r], rf, proc[r], ctr[r], code[r])
<1>1. CASE ThreadStart(w, r)
  <2>1. th[w][r] = "queued" /\ same("begin")
    BY <1>1 DEF ThreadStart, Goto, Moves
  <2>2. QED
    BY <2>1 DEF ThreadMove
<1>2. CASE CannotExecute(w, r)
  <2>1. th[w][r] \in {"begin", "named"} /\ same("failing")
    BY <1>2 DEF CannotExecute, Goto, Moves
  <2>2. QED
    BY <2>1 DEF ThreadMove
<1>3. CASE LocalSpawn(w, r)
  <2>1. /\ th[w][r] = "begin" /\ ~InContainer(r)
        /\ Moves(w, r, "waiting", status[r], ref[r], "up", ctr[r], code[r])
    BY <1>3 DEF LocalSpawn, Goto, Moves
  <2>2. QED
    BY <2>1 DEF ThreadMove
<1>4. CASE NameContainer(w, r)
  <2>1. th[w][r] = "begin" /\ InContainer(r) /\ named("named", TRUE)
    BY <1>4 DEF NameContainer, Goto, Moves
  <2>2. QED
    BY <2>1 DEF ThreadMove
<1>5. CASE DockerRun(w, r)
  <2>1. th[w][r] = "named" /\ Moves(w, r, "spawned", status[r], ref[r], "up", ctr[r], code[r])
    BY <1>5 DEF DockerRun, Goto, Moves
  <2>2. QED
    BY <2>1 DEF ThreadMove
<1>6. CASE ResolveId(w, r)
  <2>1. th[w][r] = "spawned" /\ (same("found") \/ same("waiting"))
    BY <1>6 DEF ResolveId, Goto, Moves
  <2>2. QED
    BY <2>1 DEF ThreadMove
<1>7. CASE StoreId(w, r)
  <2>1. th[w][r] = "found" /\ named("waiting", TRUE)
    BY <1>7 DEF StoreId, Goto, Moves
  <2>2. QED
    BY <2>1 DEF ThreadMove
<1>8. CASE WaitReturns(w, r)
  <2>1. th[w][r] = "waiting" /\ proc[r] = "done" /\ same(IF InContainer(r) THEN "rm" ELSE "record")
    BY <1>8 DEF WaitReturns, Goto, Moves
  <2>2. QED
    BY <2>1 DEF ThreadMove
<1>9. CASE Timeout(w, r)
  <2>1. /\ th[w][r] = "waiting" /\ proc[r] = "up"
        /\ Moves(w, r, "timedout", status[r], ref[r], "killed", ctr[r], IF InContainer(r) THEN code[r] ELSE "bad")
    BY <1>9 DEF Timeout, Goto, Moves
  <2>2. QED
    BY <2>1 DEF ThreadMove
<1>10. CASE RecordTimeout(w, r)
  <2>1. th[w][r] = "timedout" /\ wrote(IF InContainer(r) THEN "rmT" ELSE "done", "failed")
    BY <1>10 DEF RecordTimeout, Goto, Moves
  <2>2. QED
    BY <2>1 DEF ThreadMove
<1>11. CASE RemoveContainer(w, r)
  <2>1. /\ \/ th[w][r] = "rm" /\ th'[w][r] = "clear"
           \/ th[w][r] = "rmT" /\ th'[w][r] = "clearT"
           \/ th[w][r] = "rmX" /\ th'[w][r] = "clearX"
        /\ status'[r] = status[r] /\ ref'[r] = ref[r] /\ DockerRemove(r)
    BY <1>11 DEF RemoveContainer, AfterRemove, Goto
  <2>2. QED
    BY <2>1 DEF ThreadMove
<1>12. CASE ClearContainer(w, r)
  <2>1. \/ th[w][r] = "clear" /\ named("record", FALSE)
        \/ th[w][r] = "clearT" /\ named("done", FALSE)
        \/ th[w][r] = "clearX" /\ named("failing", FALSE)
    BY <1>12 DEF ClearContainer, AfterClear, Goto, Moves
  <2>2. QED
    BY <2>1 DEF ThreadMove
<1>13. CASE Record(w, r)
  <2>1. th[w][r] = "record" /\ wrote("done", Outcome(code[r]))
    BY <1>13 DEF Record, Goto, Moves
  <2>2. QED
    BY <2>1 DEF ThreadMove
<1>14. CASE RecordException(w, r)
  <2>1. th[w][r] = "failing" /\ wrote("done", "failed")
    BY <1>14 DEF RecordException, Goto, Moves
  <2>2. QED
    BY <2>1 DEF ThreadMove
<1>15. CASE ThreadDbError(w, r)
  <2>1. PICK pc \in AfterDbError(r, th[w][r]) : Goto(w, r, pc)
    BY <1>15 DEF ThreadDbError
  <2>2. same(pc)
    BY <1>15, <2>1 DEF ThreadDbError, Goto, Moves
  <2>3. /\ DbMayFail
        /\ \/ th[w][r] = "begin" /\ pc \in {"failing", "done"}
           \/ th[w][r] = "timedout" /\ pc = (IF InContainer(r) THEN "rmX" ELSE "failing")
           \/ th[w][r] = "failing" /\ pc = "done"
           \/ th[w][r] \in {"named", "found", "clear", "clearT", "clearX", "record"} /\ pc = "failing"
    BY <1>15, <2>1 DEF ThreadDbError, AfterDbError
  <2> HIDE DEF same
  <2>4. /\ DbMayFail
        /\ \/ th[w][r] = "begin" /\ (same("failing") \/ same("done"))
           \/ th[w][r] = "timedout" /\ same(IF InContainer(r) THEN "rmX" ELSE "failing")
           \/ th[w][r] = "failing" /\ same("done")
           \/ th[w][r] \in {"named", "found", "clear", "clearT", "clearX", "record"} /\ same("failing")
    BY <2>2, <2>3
  <2>5. QED
    BY <2>4 DEF ThreadMove, same
<1>16. QED
  BY <1>1, <1>2, <1>3, <1>4, <1>5, <1>6, <1>7, <1>8, <1>9, <1>10, <1>11, <1>12, <1>13, <1>14, <1>15 DEF ThreadStep

\* The rest stays.
LEMMA ThreadTouches ==
    ASSUME TypeOK, NEW w \in Workers, NEW r \in Runs, ThreadStep(w, r)
    PROVE  /\ \A s \in Runs : s # r =>
                /\ status'[s] = status[s] /\ ref'[s] = ref[s] /\ proc'[s] = proc[s] /\ ctr'[s] = ctr[s]
                /\ code'[s] = code[s]
           /\ \A v \in Workers, s \in Runs : v # w \/ s # r => th'[v][s] = th[v][s]
           /\ UNCHANGED <<mainVars, crashes>>
<1>1. \E pc \in Execution \ {"none"} : Goto(w, r, pc)
  BY ThreadFrame
<1>2. \A v \in Workers, s \in Runs : v # w \/ s # r => th'[v][s] = th[v][s]
  BY <1>1 DEF Goto, TypeOK
<1>3. \A s \in Runs : s # r => status'[s] = status[s] /\ ref'[s] = ref[s]
  <2>1. status' = status \/ \E e \in Terminal : status' = [status EXCEPT ![r] = e]
    BY ThreadFrame
  <2>2. ref' = ref \/ \E b \in BOOLEAN : ref' = [ref EXCEPT ![r] = b]
    BY ThreadFrame
  <2>3. \A s \in Runs : s # r => status'[s] = status[s]
    BY <2>1 DEF TypeOK
  <2>4. \A s \in Runs : s # r => ref'[s] = ref[s]
    BY <2>2 DEF TypeOK
  <2>5. QED
    BY <2>3, <2>4
<1>4. UNCHANGED <<mainVars, crashes>>
  BY DEF ThreadStep, ThreadStart, CannotExecute, LocalSpawn, NameContainer, DockerRun,
         ResolveId, StoreId, WaitReturns, Timeout, RecordTimeout, RemoveContainer,
         ClearContainer, Record, RecordException, ThreadDbError
<1>5. \A s \in Runs : s # r => proc'[s] = proc[s] /\ ctr'[s] = ctr[s] /\ code'[s] = code[s]
  <2>1. CASE UNCHANGED dockerVars
    BY <2>1 DEF dockerVars
  <2>2. CASE RemoveContainer(w, r)
    BY <2>2 DEF RemoveContainer, DockerRemove, Removed, TypeOK
  <2>3. CASE LocalSpawn(w, r) \/ DockerRun(w, r) \/ Timeout(w, r)
    BY <2>3 DEF LocalSpawn, DockerRun, Timeout, TypeOK
  <2>4. QED
    BY <2>1, <2>2, <2>3
    DEF ThreadStep, ThreadStart, CannotExecute, NameContainer, ResolveId, StoreId,
        WaitReturns, RecordTimeout, ClearContainer, Record, RecordException, ThreadDbError
<1>6. QED
  BY <1>2, <1>3, <1>4, <1>5

\* The engine's steps: which run, and what becomes of its process and container.
EngineMove(r) ==
    \/ ~InContainer(r) /\ proc[r] = "up" /\ proc'[r] = "done" /\ ctr'[r] = ctr[r]
    \/ InContainer(r) /\ proc[r] = "up" /\ ctr[r] = "none" /\ ctr'[r] = "created" /\ proc'[r] = "up"
       /\ code'[r] = code[r]
    \/ InContainer(r) /\ proc[r] = "up" /\ ctr[r] \in {"none", "gone"} /\ ctr'[r] = ctr[r] /\ proc'[r] = "done"
       /\ code'[r] = code[r]
    \/ proc[r] = "up" /\ ctr[r] = "created" /\ ctr'[r] = "up" /\ proc'[r] = "up" /\ code'[r] = code[r]
    \/ ctr[r] = "up" /\ ctr'[r] = "exited" /\ proc'[r] = proc[r]
    \/ ctr[r] = "exited" /\ ctr'[r] = "gone" /\ proc'[r] = proc[r] /\ code'[r] = code[r]
    \/ ~InContainer(r) /\ proc[r] = "up" /\ ctr[r] = "gone" /\ proc'[r] = "done" /\ ctr'[r] = ctr[r]

LEMMA EngineMoves ==
    ASSUME TypeOK, NEW r \in Runs, EngineStep(r)
    PROVE  /\ EngineMove(r)
           /\ \A s \in Runs : s # r => proc'[s] = proc[s] /\ ctr'[s] = ctr[s] /\ code'[s] = code[s]
           /\ UNCHANGED <<rowVars, mainVars, th, crashes>>
<1> USE DEF TypeOK
<1>1. UNCHANGED <<rowVars, mainVars, th, crashes>>
  BY DEF EngineStep, LocalExit, ContainerCreate, ContainerStart, ContainerExit, AutoRemove, ClientReturns
<1>2. CASE LocalExit(r)
  <2>1. PICK c \in {"ok", "bad"} : code' = [code EXCEPT ![r] = c]
    BY <1>2 DEF LocalExit
  <2>2. ~InContainer(r) /\ proc[r] = "up" /\ proc' = [proc EXCEPT ![r] = "done"] /\ UNCHANGED ctr
    BY <1>2 DEF LocalExit
  <2>3. QED
    BY <1>1, <2>1, <2>2 DEF EngineMove
<1>3. CASE ContainerCreate(r)
  <2>1. /\ \/ ctr' = [ctr EXCEPT ![r] = "created"] /\ UNCHANGED proc
           \/ proc' = [proc EXCEPT ![r] = "done"] /\ UNCHANGED ctr
        /\ InContainer(r) /\ proc[r] = "up" /\ ctr[r] = "none" /\ UNCHANGED code
    BY <1>3 DEF ContainerCreate
  <2>2. QED
    BY <1>1, <2>1 DEF EngineMove
<1>4. CASE ContainerStart(r) \/ AutoRemove(r)
  <2>1. /\ \/ proc[r] = "up" /\ ctr[r] = "created" /\ ctr' = [ctr EXCEPT ![r] = "up"]
           \/ ctr[r] = "exited" /\ ctr' = [ctr EXCEPT ![r] = "gone"]
        /\ UNCHANGED <<proc, code>>
    BY <1>4 DEF ContainerStart, AutoRemove
  <2>2. QED
    BY <1>1, <2>1 DEF EngineMove
<1>5. CASE ContainerExit(r)
  <2>1. PICK c \in {"ok", "bad"} : code' = [code EXCEPT ![r] = c]
    BY <1>5 DEF ContainerExit
  <2>2. ctr[r] = "up" /\ ctr' = [ctr EXCEPT ![r] = "exited"] /\ UNCHANGED proc
    BY <1>5 DEF ContainerExit
  <2>3. QED
    BY <1>1, <2>1, <2>2 DEF EngineMove
<1>6. CASE ClientReturns(r)
  <2>1. proc[r] = "up" /\ ctr[r] = "gone" /\ proc' = [proc EXCEPT ![r] = "done"] /\ UNCHANGED <<ctr, code>>
    BY <1>6 DEF ClientReturns
  <2>2. QED
    BY <1>1, <2>1 DEF EngineMove
<1>7. QED
  BY <1>2, <1>3, <1>4, <1>5, <1>6 DEF EngineStep

\* A worker that dies.
LEMMA CrashMoves ==
    ASSUME TypeOK, NEW w \in Workers, Crash(w)
    PROVE  /\ \A v \in Workers, r \in Runs :
                \/ th'[v][r] = th[v][r]
                \/ v = w /\ th'[v][r] = "lost" /\ th[v][r] \notin {"none", "done"}
           /\ \A r \in Runs : proc'[r] = proc[r] \/ (proc[r] = "up" /\ proc'[r] = "killed")
           /\ UNCHANGED <<status, ref, ctr, code>>
           /\ \A v \in Workers : main'[v] = main[v] \/ main'[v] = "down"
           /\ crashes < MaxCrashes
<1>1. th' = [th EXCEPT ![w] = [r \in Runs |-> IF th[w][r] \in {"none", "done"} THEN th[w][r] ELSE "lost"]]
  BY DEF Crash
<1>2. \A v \in Workers, r \in Runs :
        \/ th'[v][r] = th[v][r]
        \/ v = w /\ th'[v][r] = "lost" /\ th[v][r] \notin {"none", "done"}
  BY <1>1 DEF TypeOK
<1>3. QED
  BY <1>2 DEF Crash, TypeOK

\* A main loop touches a container or a row that was claimed only while it
\* reconciles.
LEMMA MainMoves ==
    ASSUME ClaimInv, NEW w \in Workers, MainStep(w)
    PROVE  /\ \A v \in Workers, r \in Runs :
                \/ th'[v][r] = th[v][r]
                \/ /\ th[v][r] = "none" /\ th'[v][r] \in {"queued", "begin"}
                   /\ status'[r] = "running"
           /\ \A r \in Runs :
                \/ status'[r] = status[r]
                \/ status[r] = "pending" /\ status'[r] = "running"
                \/ main[w] \in ReconcileSteps
           /\ ref' = ref \/ main[w] \in ReconcileSteps
           /\ UNCHANGED proc
           /\ \/ UNCHANGED <<ctr, code>>
              \/ main[w] \in ReconcileSteps /\ \E r \in Runs : DockerRemove(r)
           /\ \A v \in Workers :
                main'[v] \in ReconcileSteps => main[v] \in ReconcileSteps \/ Kind[v] = "container"
<1> USE DEF rowVars, dockerVars, mainVars, recVars
<1>1. TypeOK
  BY DEF ClaimInv
<1>2. CASE ClaimCommit(w)
  <2>1. PICK r \in Runs :
           /\ lock[r] = w
           /\ status' = [status EXCEPT ![r] = "running"]
           /\ \E pc \in {"begin", "queued"} : th' = [th EXCEPT ![w][r] = pc]
    BY <1>2 DEF ClaimCommit, Goto
  <2>2. status[r] = "pending"
    <3>1. main[w] = "claiming"
      BY <1>2 DEF ClaimCommit
    <3>2. LocksExplained
      BY DEF ClaimInv
    <3>3. writes[w][r] = "none"
      BY <3>1, <3>2 DEF LocksExplained, ReconcileSteps
    <3>4. QED
      BY <2>1, <3>2, <3>3 DEF LocksExplained
  <2>3. th[w][r] = "none"
    BY <2>2 DEF ClaimInv, NoTrace, Unclaimed
  <2>4. \A v \in Workers, s \in Runs :
          \/ th'[v][s] = th[v][s]
          \/ th[v][s] = "none" /\ th'[v][s] \in {"queued", "begin"} /\ status'[s] = "running"
    BY <1>1, <2>1, <2>3 DEF TypeOK
  <2>5. \A s \in Runs : status'[s] = status[s] \/ (status[s] = "pending" /\ status'[s] = "running")
    BY <1>1, <2>1, <2>2 DEF TypeOK
  <2>6. \A v \in Workers : main'[v] = main[v] \/ main'[v] \in {"busy", "idle"}
    BY <1>1, <1>2 DEF ClaimCommit, TypeOK
  <2>7. ref' = ref /\ UNCHANGED <<proc, ctr, code>>
    BY <1>2 DEF ClaimCommit
  <2>8. QED
    BY <2>4, <2>5, <2>6, <2>7 DEF ReconcileSteps
<1>3. CASE Start(w) \/ EnterLoop(w) \/ ClaimSelect(w) \/ ClaimRollback(w) \/ LocalReturn(w) \/ Poll(w)
           \/ ReconcileSelect(w)
  <2>1. UNCHANGED <<status, ref, proc, ctr, code, th>>
    BY <1>3 DEF Start, EnterLoop, ClaimSelect, ClaimRollback, LocalReturn, Poll, ReconcileSelect, vars
  <2>2. \A v \in Workers : main'[v] \in ReconcileSteps => main[v] \in ReconcileSteps \/ Kind[v] = "container"
    BY <1>1, <1>3 DEF Start, EnterLoop, ClaimSelect, ClaimRollback, LocalReturn, Poll, ReconcileSelect, vars,
                      TypeOK, ReconcileSteps
  <2>3. QED
    BY <2>1, <2>2
<1>4. CASE ReconcileInspect(w) \/ ReconcileDecide(w) \/ ReconcileRemove(w) \/ ReconcileClear(w)
           \/ ReconcileCommit(w) \/ ReconcileRollback(w)
  <2>1. main[w] \in ReconcileSteps /\ UNCHANGED <<proc, th>>
    BY <1>4 DEF ReconcileInspect, ReconcileDecide, ReconcileRemove, ReconcileClear, ReconcileCommit,
                ReconcileRollback, ReconcileSteps, DockerRemove
  <2>2. UNCHANGED <<ctr, code>> \/ \E r \in Runs : DockerRemove(r)
    BY <1>1, <1>4, RowInRuns DEF ReconcileInspect, ReconcileDecide, ReconcileRemove, ReconcileClear,
                                 ReconcileCommit, ReconcileRollback
  <2>3. \A v \in Workers : v # w => main'[v] = main[v]
    BY <1>1, <1>4 DEF ReconcileInspect, ReconcileDecide, ReconcileRemove, ReconcileClear, ReconcileCommit,
                      ReconcileRollback, NextRow, TypeOK
  <2>4. QED
    BY <2>1, <2>2, <2>3
<1>5. QED
  BY <1>2, <1>3, <1>4 DEF MainStep

NoContainerWorker == \A w \in Workers : Kind[w] # "container"

\* What has been recorded is what became of the run, where nobody reconciles.
StatusAgrees ==
    \A r \in Runs :
        /\ status[r] = "completed" => proc[r] = "done" /\ code[r] = "ok"
        /\ \A w \in Workers :
            /\ th[w][r] \in {"queued", "begin", "named", "spawned", "found", "waiting", "timedout", "rm", "rmX",
                             "clear", "clearX", "record"} => status[r] = "running"
            /\ th[w][r] \in {"rmT", "clearT"} => status[r] = "failed"
            /\ th[w][r] = "failing" => status[r] \in {"running", "failed"}

\* Without crashes and failures a thread is with its container.
Supervised ==
    \A r \in Runs :
        Live(r) \/ (InContainer(r) /\ proc[r] = "up") =>
            \E w \in Workers : th[w][r] \in Supervising \ {"named"}

\* Without a reconciler the row names its container.
Referenced ==
    \A r \in Runs :
        /\ Live(r) \/ (InContainer(r) /\ proc[r] = "up") => ref[r]
        /\ \A w \in Workers :
            /\ th[w][r] = "named" => ref[r]
            /\ th[w][r] \in {"clear", "clearT", "clearX"} => ~Live(r)

EngineInv == ClaimInv /\ EngineAgrees

LEMMA OthersAreNot ==
    ASSUME ClaimInv, NEW w \in Workers, NEW r \in Runs, ThreadStep(w, r)
    PROVE  \A v \in Workers : v # w => th[v][r] = "none" /\ th'[v][r] = "none"
<1>1. th[w][r] # "none" /\ TypeOK
  BY ThreadFrame DEF ClaimInv
<1>2. \A v \in Workers : v # w => th[v][r] = "none"
  BY <1>1 DEF ClaimInv, OneOwner
<1>3. QED
  BY <1>1, <1>2, ThreadTouches

\* docker rm -f.
LEMMA RemovedIs ==
    ASSUME TypeOK, NEW r \in Runs, DockerRemove(r)
    PROVE  /\ UNCHANGED proc
           /\ \A s \in Runs : s # r => ctr'[s] = ctr[s] /\ code'[s] = code[s]
           /\ \/ ctr'[r] = ctr[r] /\ code'[r] = code[r] /\ RmMayFail
              \/ /\ ctr'[r] = IF ctr[r] = "none" THEN "none" ELSE "gone"
                 /\ ctr[r] # "up" => code'[r] = code[r]
  BY DEF DockerRemove, Removed, TypeOK

LEMMA EngineAgreesInit == Init => EngineAgrees
  BY DEF Init, EngineAgrees

LEMMA EngineAgreesNext == EngineInv /\ [Next]_vars => EngineAgrees'
<1> SUFFICES ASSUME EngineInv, [Next]_vars PROVE EngineAgrees'
  OBVIOUS
<1>1. ClaimInv /\ TypeOK /\ EngineAgrees
  BY DEF EngineInv, ClaimInv
<1>2. ASSUME NEW w \in Workers, NEW r \in Runs, ThreadStep(w, r)
      PROVE  EngineAgrees'
  <2>1. \A s \in Runs : s # r => proc'[s] = proc[s] /\ ctr'[s] = ctr[s] /\ \A v \in Workers : th'[v][s] = th[v][s]
    BY <1>1, <1>2, ThreadTouches
  <2>2. \A v \in Workers : v # w => th'[v][r] = "none"
    BY <1>1, <1>2, OthersAreNot
  <2>3. ThreadMove(w, r)
    BY <1>1, <1>2, ThreadMoves
  <2>4. DockerRemove(r) => proc'[r] = proc[r] /\ (ctr'[r] = ctr[r] \/ ctr'[r] = IF ctr[r] = "none" THEN "none" ELSE "gone")
    BY <1>1, RemovedIs
  <2>5. /\ ~InContainer(r) => ctr'[r] = "none"
        /\ InContainer(r) /\ proc'[r] = "done" => ctr'[r] \in {"none", "gone"}
        /\ th'[w][r] \in {"rm", "clear", "record"} => proc'[r] = "done"
        /\ th'[w][r] \in {"timedout", "rmT", "rmX", "clearT", "clearX"} => proc'[r] = "killed"
    BY <1>1, <2>3, <2>4 DEF EngineAgrees, ThreadMove, Moves
  <2>6. QED
    BY <1>1, <2>1, <2>2, <2>5 DEF EngineAgrees, InContainer
<1>3. ASSUME NEW r \in Runs, EngineStep(r)
      PROVE  EngineAgrees'
  <2>1. /\ EngineMove(r) /\ th' = th
        /\ \A s \in Runs : s # r => proc'[s] = proc[s] /\ ctr'[s] = ctr[s]
    BY <1>1, <1>3, EngineMoves
  <2>2. QED
    BY <1>1, <2>1 DEF EngineMove, EngineAgrees, InContainer
<1>4. ASSUME NEW w \in Workers, MainStep(w)
      PROVE  EngineAgrees'
  <2>1. /\ UNCHANGED proc
        /\ \A v \in Workers, s \in Runs : th'[v][s] = th[v][s] \/ th'[v][s] \in {"queued", "begin"}
        /\ UNCHANGED <<ctr, code>> \/ \E r \in Runs : DockerRemove(r)
    BY <1>1, <1>4, MainMoves
  <2>2. \A s \in Runs : ctr'[s] = ctr[s] \/ ctr'[s] = IF ctr[s] = "none" THEN "none" ELSE "gone"
    BY <1>1, <2>1, RemovedIs
  <2>3. QED
    BY <1>1, <2>1, <2>2 DEF EngineAgrees, InContainer
<1>5. ASSUME NEW w \in Workers, Crash(w)
      PROVE  EngineAgrees'
  <2>1. /\ \A v \in Workers, s \in Runs : th'[v][s] = th[v][s] \/ th'[v][s] = "lost"
        /\ \A s \in Runs : proc'[s] = proc[s] \/ (proc[s] = "up" /\ proc'[s] = "killed")
        /\ UNCHANGED ctr
    BY <1>1, <1>5, CrashMoves
  <2>2. QED
    BY <1>1, <2>1 DEF EngineAgrees, InContainer
<1>6. ASSUME UNCHANGED <<proc, ctr, th>>
      PROVE  EngineAgrees'
  BY <1>1, <1>6 DEF EngineAgrees, InContainer
<1>7. CASE UNCHANGED vars \/ \E r \in Runs : CreateRun(r)
  BY <1>6, <1>7 DEF vars, dockerVars, CreateRun
<1>8. QED
  BY <1>2, <1>3, <1>4, <1>5, <1>7 DEF Next

\* Where no worker reconciles.
NoReconciling == \A w \in Workers : main[w] \notin ReconcileSteps

LEMMA NobodyReconciles ==
    ASSUME NoContainerWorker, ClaimInv, NoReconciling, [Next]_vars
    PROVE  NoReconciling'
<1>1. TypeOK
  BY DEF ClaimInv
<1>2. ASSUME NEW w \in Workers, MainStep(w)
      PROVE  NoReconciling'
  BY <1>2, MainMoves DEF NoReconciling, NoContainerWorker
<1>3. ASSUME NEW w \in Workers, Crash(w)
      PROVE  NoReconciling'
  BY <1>1, <1>3, CrashMoves DEF NoReconciling, ReconcileSteps
<1>4. CASE UNCHANGED main
  BY <1>4 DEF NoReconciling
<1>5. ASSUME NEW w \in Workers, NEW r \in Runs, ThreadStep(w, r)
      PROVE  UNCHANGED main
  BY <1>1, <1>5, ThreadTouches DEF mainVars
<1>6. ASSUME NEW r \in Runs, EngineStep(r)
      PROVE  UNCHANGED main
  BY <1>1, <1>6, EngineMoves DEF mainVars
<1>7. QED
  BY <1>2, <1>3, <1>4, <1>5, <1>6 DEF Next, CreateRun, vars, mainVars

LEMMA StatusNext ==
    ASSUME EngineInv, NoReconciling, StatusAgrees, [Next]_vars
    PROVE  /\ StatusAgrees'
           /\ \A r \in Runs : status[r] \in Terminal => status'[r] = status[r]
<1>1. ClaimInv /\ TypeOK /\ EngineAgrees
  BY DEF EngineInv, ClaimInv
<1>2. ASSUME NEW w \in Workers, NEW r \in Runs, ThreadStep(w, r)
      PROVE  StatusAgrees' /\ \A s \in Runs : status[s] \in Terminal => status'[s] = status[s]
  <2>1. \A s \in Runs : s # r => /\ proc'[s] = proc[s] /\ code'[s] = code[s] /\ status'[s] = status[s]
                                /\ \A v \in Workers : th'[v][s] = th[v][s]
    BY <1>1, <1>2, ThreadTouches
  <2>2. \A v \in Workers : v # w => th'[v][r] = "none"
    BY <1>1, <1>2, OthersAreNot
  <2>3. ThreadMove(w, r)
    BY <1>1, <1>2, ThreadMoves
  <2>4. DockerRemove(r) => proc'[r] = proc[r]
    BY <1>1, RemovedIs
  <2>5. /\ status'[r] = "completed" => proc'[r] = "done" /\ code'[r] = "ok"
        /\ th'[w][r] \in {"queued", "begin", "named", "spawned", "found", "waiting", "timedout", "rm", "rmX",
                          "clear", "clearX", "record"} => status'[r] = "running"
        /\ th'[w][r] \in {"rmT", "clearT"} => status'[r] = "failed"
        /\ th'[w][r] = "failing" => status'[r] \in {"running", "failed"}
    BY <1>1, <2>3, <2>4 DEF EngineAgrees, StatusAgrees, ThreadMove, Moves, Outcome
  <2>6. status[r] \in Terminal => status'[r] = status[r]
    BY <1>1, <2>3 DEF StatusAgrees, ThreadMove, Moves, Terminal
  <2>7. StatusAgrees'
    BY <2>1, <2>2, <2>5 DEF StatusAgrees
  <2>8. QED
    BY <2>1, <2>6, <2>7
<1>3. ASSUME NEW r \in Runs, EngineStep(r)
      PROVE  StatusAgrees' /\ UNCHANGED status
  <2>1. /\ EngineMove(r) /\ th' = th /\ UNCHANGED status
        /\ \A s \in Runs : s # r => proc'[s] = proc[s] /\ code'[s] = code[s]
    BY <1>1, <1>3, EngineMoves DEF rowVars
  <2>2. proc[r] = "done" => proc'[r] = "done" /\ code'[r] = code[r]
    BY <1>1, <2>1 DEF EngineMove, EngineAgrees
  <2>3. QED
    BY <2>1, <2>2 DEF StatusAgrees
<1>4. ASSUME NEW w \in Workers, MainStep(w)
      PROVE  StatusAgrees' /\ \A r \in Runs : status[r] \in Terminal => status'[r] = status[r]
  <2>1. main[w] \notin ReconcileSteps
    BY DEF NoReconciling
  <2>2. /\ UNCHANGED <<proc, ctr, code>>
        /\ \A v \in Workers, r \in Runs :
             \/ th'[v][r] = th[v][r]
             \/ th[v][r] = "none" /\ th'[v][r] \in {"queued", "begin"} /\ status'[r] = "running"
        /\ \A r \in Runs : status'[r] = status[r] \/ (status[r] = "pending" /\ status'[r] = "running")
    BY <1>1, <1>4, <2>1, MainMoves
  <2>3. QED
    BY <2>2 DEF StatusAgrees, Terminal
<1>5. ASSUME NEW w \in Workers, Crash(w)
      PROVE  StatusAgrees' /\ UNCHANGED status
  <2>1. /\ \A v \in Workers, s \in Runs : th'[v][s] = th[v][s] \/ th'[v][s] = "lost"
        /\ \A s \in Runs : proc'[s] = proc[s] \/ proc[s] = "up"
        /\ UNCHANGED <<status, code>>
    BY <1>1, <1>5, CrashMoves
  <2>2. QED
    BY <2>1 DEF StatusAgrees
<1>6. ASSUME NEW r \in Runs, CreateRun(r)
      PROVE  StatusAgrees' /\ \A s \in Runs : status[s] \in Terminal => status'[s] = status[s]
  <2>1. /\ status[r] = "absent" /\ status' = [status EXCEPT ![r] = "pending"] /\ UNCHANGED <<proc, code, th>>
    BY <1>6 DEF CreateRun, dockerVars
  <2>2. \A s \in Runs : status'[s] = IF s = r THEN "pending" ELSE status[s]
    BY <1>1, <2>1 DEF TypeOK
  <2>3. \A w \in Workers : th[w][r] = "none"
    BY <1>1, <2>1 DEF ClaimInv, NoTrace, Unclaimed
  <2>4. StatusAgrees'
    BY <2>1, <2>2, <2>3 DEF StatusAgrees
  <2>5. QED
    BY <2>1, <2>2, <2>4 DEF Terminal
<1>7. CASE UNCHANGED vars
  BY <1>7 DEF vars, rowVars, dockerVars, StatusAgrees
<1>8. QED
  BY <1>2, <1>3, <1>4, <1>5, <1>6, <1>7 DEF Next

\* A container that is removed is not there.
LEMMA SupervisedNext ==
    ASSUME ~RmMayFail, MaxCrashes = 0, ~DbMayFail, EngineInv, Supervised, [Next]_vars
    PROVE  Supervised'
<1>1. ClaimInv /\ TypeOK /\ EngineAgrees
  BY DEF EngineInv, ClaimInv
<1>2. ASSUME NEW w \in Workers, NEW r \in Runs, ThreadStep(w, r)
      PROVE  Supervised'
  <2>1. \A s \in Runs : s # r => /\ proc'[s] = proc[s] /\ ctr'[s] = ctr[s]
                                /\ \A v \in Workers : th'[v][s] = th[v][s]
    BY <1>1, <1>2, ThreadTouches
  <2>2. \A v \in Workers : v # w => th[v][r] = "none"
    BY <1>1, <1>2, OthersAreNot
  <2>3. ThreadMove(w, r)
    BY <1>1, <1>2, ThreadMoves
  <2>4. DockerRemove(r) => ctr'[r] \in {"none", "gone"} /\ proc'[r] = proc[r]
    BY <1>1, RemovedIs
  <2>5. Live(r) \/ (InContainer(r) /\ proc[r] = "up") => th[w][r] \in Supervising \ {"named"}
    BY <2>2 DEF Supervised, Supervising
  <2>6. Live(r)' \/ (InContainer(r) /\ proc'[r] = "up") => th'[w][r] \in Supervising \ {"named"}
    BY <1>1, <2>3, <2>4, <2>5 DEF EngineAgrees, ThreadMove, Moves, Live, Supervising
  <2>7. QED
    BY <2>1, <2>6 DEF Supervised, InContainer, Live
<1>3. ASSUME NEW r \in Runs, EngineStep(r)
      PROVE  Supervised'
  <2>1. /\ EngineMove(r) /\ th' = th
        /\ \A s \in Runs : s # r => proc'[s] = proc[s] /\ ctr'[s] = ctr[s]
    BY <1>1, <1>3, EngineMoves
  <2>2. Live(r)' \/ (InContainer(r) /\ proc'[r] = "up") => Live(r) \/ (InContainer(r) /\ proc[r] = "up")
    BY <1>1, <2>1 DEF EngineMove, EngineAgrees, Live
  <2>3. QED
    BY <2>1, <2>2 DEF Supervised, InContainer, Live
<1>4. ASSUME NEW w \in Workers, MainStep(w)
      PROVE  Supervised'
  <2>1. /\ UNCHANGED proc
        /\ \A v \in Workers, s \in Runs : th'[v][s] = th[v][s] \/ th[v][s] = "none"
        /\ UNCHANGED <<ctr, code>> \/ \E r \in Runs : DockerRemove(r)
    BY <1>1, <1>4, MainMoves
  <2>2. \A s \in Runs : ctr'[s] = ctr[s] \/ ctr'[s] \in {"none", "gone"}
    BY <1>1, <2>1, RemovedIs
  <2>3. \A s \in Runs : Live(s)' => Live(s)
    BY <2>2 DEF Live
  <2>4. \A v \in Workers, s \in Runs : th[v][s] \in Supervising \ {"named"} => th'[v][s] = th[v][s]
    BY <2>1 DEF Supervising
  <2>5. QED
    BY <2>1, <2>3, <2>4 DEF Supervised, InContainer
<1>5. ASSUME NEW w \in Workers, Crash(w)
      PROVE  FALSE
  <2>1. crashes \in Nat /\ crashes < 0
    BY <1>1, <1>5, CrashMoves DEF TypeOK
  <2>2. QED
    BY <2>1
<1>6. ASSUME UNCHANGED <<proc, ctr, th>>
      PROVE  Supervised'
  BY <1>6 DEF Supervised, Live, InContainer
<1>7. CASE UNCHANGED vars \/ \E r \in Runs : CreateRun(r)
  BY <1>6, <1>7 DEF vars, dockerVars, CreateRun
<1>8. QED
  BY <1>2, <1>3, <1>4, <1>5, <1>7 DEF Next

LEMMA ReferencedNext ==
    ASSUME ~RmMayFail, NoReconciling, EngineInv, Referenced, [Next]_vars
    PROVE  Referenced'
<1>1. ClaimInv /\ TypeOK /\ EngineAgrees
  BY DEF EngineInv, ClaimInv
<1>2. ASSUME NEW w \in Workers, NEW r \in Runs, ThreadStep(w, r)
      PROVE  Referenced'
  <2>1. \A s \in Runs : s # r => /\ proc'[s] = proc[s] /\ ctr'[s] = ctr[s] /\ ref'[s] = ref[s]
                                /\ \A v \in Workers : th'[v][s] = th[v][s]
    BY <1>1, <1>2, ThreadTouches
  <2>2. \A v \in Workers : v # w => th'[v][r] = "none"
    BY <1>1, <1>2, OthersAreNot
  <2>3. ThreadMove(w, r)
    BY <1>1, <1>2, ThreadMoves
  <2>4. DockerRemove(r) => ctr'[r] \in {"none", "gone"} /\ proc'[r] = proc[r]
    BY <1>1, RemovedIs
  <2>5. /\ Live(r)' \/ (InContainer(r) /\ proc'[r] = "up") => ref'[r]
        /\ th'[w][r] = "named" => ref'[r]
        /\ th'[w][r] \in {"clear", "clearT", "clearX"} => ~Live(r)'
    BY <1>1, <2>3, <2>4 DEF EngineAgrees, Referenced, ThreadMove, Moves, Live
  <2>6. QED
    BY <2>1, <2>2, <2>5 DEF Referenced, InContainer, Live
<1>3. ASSUME NEW r \in Runs, EngineStep(r)
      PROVE  Referenced'
  <2>1. /\ EngineMove(r) /\ th' = th /\ ref' = ref
        /\ \A s \in Runs : s # r => proc'[s] = proc[s] /\ ctr'[s] = ctr[s]
    BY <1>1, <1>3, EngineMoves DEF rowVars
  <2>2. /\ Live(r)' \/ (InContainer(r) /\ proc'[r] = "up") => Live(r) \/ (InContainer(r) /\ proc[r] = "up")
        /\ proc[r] # "up" /\ Live(r)' => Live(r)
    BY <1>1, <2>1 DEF EngineMove, EngineAgrees, Live
  <2>3. \A w \in Workers : th[w][r] \in {"clear", "clearT", "clearX"} => proc[r] # "up"
    BY <1>1 DEF EngineAgrees
  <2>4. QED
    BY <2>1, <2>2, <2>3 DEF Referenced, InContainer, Live
<1>4. ASSUME NEW w \in Workers, MainStep(w)
      PROVE  Referenced'
  <2>1. main[w] \notin ReconcileSteps
    BY DEF NoReconciling
  <2>2. /\ UNCHANGED <<proc, ctr, ref>>
        /\ \A v \in Workers, s \in Runs : th'[v][s] = th[v][s] \/ th'[v][s] \in {"queued", "begin"}
    BY <1>1, <1>4, <2>1, MainMoves
  <2>3. QED
    BY <2>2 DEF Referenced, InContainer, Live
<1>5. ASSUME NEW w \in Workers, Crash(w)
      PROVE  Referenced'
  <2>1. /\ \A v \in Workers, s \in Runs : th'[v][s] = th[v][s] \/ th'[v][s] = "lost"
        /\ \A s \in Runs : proc'[s] = proc[s] \/ proc'[s] = "killed"
        /\ UNCHANGED <<ref, ctr>>
    BY <1>1, <1>5, CrashMoves
  <2>2. QED
    BY <2>1 DEF Referenced, InContainer, Live
<1>6. ASSUME UNCHANGED <<proc, ctr, th, ref>>
      PROVE  Referenced'
  BY <1>6 DEF Referenced, Live, InContainer
<1>7. CASE UNCHANGED vars \/ \E r \in Runs : CreateRun(r)
  BY <1>6, <1>7 DEF vars, rowVars, dockerVars, CreateRun
<1>8. QED
  BY <1>2, <1>3, <1>4, <1>5, <1>7 DEF Next

LEMMA RecordInit == Init => EngineInv /\ NoReconciling /\ StatusAgrees /\ Supervised /\ Referenced
<1> SUFFICES ASSUME Init PROVE EngineInv /\ NoReconciling /\ StatusAgrees /\ Supervised /\ Referenced
  OBVIOUS
<1>1. EngineInv
  BY ClaimInit, EngineAgreesInit DEF EngineInv
<1>2. NoReconciling
  BY DEF Init, NoReconciling, ReconcileSteps
<1>3. StatusAgrees /\ Supervised /\ Referenced
  BY DEF Init, StatusAgrees, Supervised, Referenced, Live
<1>4. QED
  BY <1>1, <1>2, <1>3

LEMMA EngineInvNext == EngineInv /\ [Next]_vars => EngineInv'
  BY ClaimStep, EngineAgreesNext DEF EngineInv

\* _execute_run records a run's end once, whatever crashes, times out or raises,
\* in a deployment whose workers do not reconcile: a later step of the same
\* execution writes nothing else.
THEOREM EndsAreFinal ==
    ASSUME NoContainerWorker
    PROVE  Spec => TerminalFinal
<1> DEFINE Inv == EngineInv /\ NoReconciling /\ StatusAgrees
<1>1. Init => Inv
  BY RecordInit
<1>2. Inv /\ [Next]_vars => Inv' /\ [\A r \in Runs : status[r] \in Terminal => status'[r] = status[r]]_status
  BY EngineInvNext, NobodyReconciles, StatusNext DEF EngineInv
<1>3. QED
  BY <1>1, <1>2, PTL DEF Spec, TerminalFinal

\* _execute_run records completed only for a program that ended with exit code 0
\* and never runs again, in a deployment whose workers do not reconcile.
THEOREM CompletedRunsSucceeded ==
    ASSUME NoContainerWorker
    PROVE  Spec => []CompletedIsTrue
<1> DEFINE Inv == EngineInv /\ NoReconciling /\ StatusAgrees
<1>1. Init => Inv
  BY RecordInit
<1>2. Inv /\ [Next]_vars => Inv'
  BY EngineInvNext, NobodyReconciles, StatusNext DEF EngineInv
<1>3. Inv => CompletedIsTrue
  BY DEF StatusAgrees, CompletedIsTrue
<1>4. QED
  BY <1>1, <1>2, <1>3, PTL DEF Spec

\* No container is left that nobody will remove, while docker rm does what it is
\* asked for: among reconcilers if neither a worker nor a database call fails, and
\* whatever fails if nobody reconciles, since only a reconciler takes the
\* reference from a row whose container is alive.
THEOREM ContainersAreAccounted ==
    ASSUME ~RmMayFail, (MaxCrashes = 0 /\ ~DbMayFail) \/ NoContainerWorker
    PROVE  Spec => []ContainerAccounted
<1>1. CASE MaxCrashes = 0 /\ ~DbMayFail
  <2>1. Init => EngineInv /\ Supervised
    BY RecordInit
  <2>2. EngineInv /\ Supervised /\ [Next]_vars => EngineInv' /\ Supervised'
    BY <1>1, EngineInvNext, SupervisedNext
  <2>3. EngineInv /\ Supervised => ContainerAccounted
    BY DEF Supervised, ContainerAccounted
  <2>4. QED
    BY <2>1, <2>2, <2>3, PTL DEF Spec
<1>2. CASE NoContainerWorker
  <2> DEFINE Inv == EngineInv /\ NoReconciling /\ Referenced
  <2>1. Init => Inv
    BY RecordInit
  <2>2. Inv /\ [Next]_vars => Inv'
    BY <1>2, EngineInvNext, NobodyReconciles, ReferencedNext DEF EngineInv
  <2>3. Inv => ContainerAccounted
    BY DEF Referenced, ContainerAccounted
  <2>4. QED
    BY <2>1, <2>2, <2>3, PTL DEF Spec
<1>3. QED
  BY <1>1, <1>2
=============================================================================
