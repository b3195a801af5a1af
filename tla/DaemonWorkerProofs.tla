------------------------- MODULE DaemonWorkerProofs -------------------------
(***************************************************************************)
(* Proofs about DaemonWorker, for every set of packages, every policy and   *)
(* every number of runs, containers, restarts and crashes. What the last    *)
(* two theorems assume of docker rm -f is what makes them true.             *)
(***************************************************************************)
EXTENDS DaemonWorker, FiniteSetTheorems, TLAPS

-----------------------------------------------------------------------------
(* The invariant. *)

Owned(r)    == {c \in Containers : owner[c] = r}
Watching(r) == watched.run = r
Listed      == {d.run : d \in list}

\* Ids are given in their order, so that an insertion never meets a row.
IdsInOrder == Used = 1 .. Cardinality(Used)

\* A run is claimed once; until then it has nothing.
Claimed(r) == th[r] # "none"
Claims ==
    \A r \in Runs :
        /\ Claimed(r) <=> status[r] \notin {"absent", "queued"}
        /\ th[r] \in {"none", "begin"} => Owned(r) = {} /\ fresh[r] = Null
        /\ th[r] = "started" => fresh[r] # Null /\ owner[fresh[r]] = r
        /\ th[r] \in {"none", "begin", "started"} => cid[r] = Null

\* A container has the run it was started for.
Engine ==
    /\ \A c \in Containers : ctr[c] = "none" <=> owner[c] = 0
    /\ \A r \in Runs : cid[r] # Null => owner[cid[r]] = r

\* What the main loop has read was claimed.
MainReads ==
    /\ main \in {"inspect", "decide"} => row \in Row /\ Claimed(row.run) /\ pkg[row.run] \in AutoStart
    /\ \A r \in fails : Claimed(r)

\* The monitor's rows are stale, but only so far: none has ended, none has been
\* restarted since, and a container id it has is the row's.
MonitorReads ==
    /\ \A d, e \in list : d.run = e.run => d = e
    /\ \A d \in list :
        /\ status[d.run] \in {"running", "failed"}
        /\ d.restarts = restarts[d.run] /\ d.cid \in {Null, cid[d.run]}
    /\ mon \in {"off", "sleep"} => list = {}
    /\ mon \in {"remove", "start", "store", "fail", "end"} => watched \in list
    /\ mon \in {"off", "sleep", "next"} => watched = NoRow

\* What the monitor does with a row's container.
MonitorDoes ==
    /\ mon \in {"remove", "start", "store", "end"} => watched.cid # Null
    /\ mon \in {"remove", "end"} => ctr[watched.cid] = seen /\ seen \in {"ok", "bad"}
    /\ mon \in {"remove", "start", "store"} => watched.restarts < MaxRestarts
    /\ mon \in {"start", "store"} => ctr[watched.cid] \in {"ok", "bad", "gone"}
    /\ mon = "store" => fresh2 # Null /\ owner[fresh2] = watched.run
    /\ ~RmMayFail /\ mon \in {"start", "store"} => ctr[watched.cid] = "gone"

\* A run that ended has the container whose end was seen.
EndedSeen ==
    \A r \in Runs : status[r] \in {"completed", "stopped"} =>
        cid[r] # Null /\ ctr[cid[r]] \in {"ok", "bad"} /\ (status[r] = "completed" => ctr[cid[r]] = "ok")

DaemonInv ==
    /\ TypeOK /\ IdsInOrder /\ Claims /\ Engine /\ MainReads /\ MonitorReads /\ MonitorDoes /\ EndedSeen

\* A run whose stored container is gone, or that never stored one: the monitor
\* finds it missing, and never again restarts or ends it.
Doomed(r) ==
    /\ th[r] \notin {"none", "begin", "started"}
    /\ cid[r] = Null \/ ctr[cid[r]] = "gone"
    /\ ~(mon \in {"start", "store"} /\ Watching(r))

\* The containers of a run that may be up.
UpKnown ==
    \A r \in Runs, c \in Containers :
        owner[c] = r /\ ctr[c] = "up" =>
            \/ c = cid[r]
            \/ th[r] = "started" /\ c = fresh[r]
            \/ mon = "store" /\ Watching(r) /\ c = fresh2
            \/ Doomed(r)

\* A run that has had a restart its row does not count will have no other.
Spent(r) ==
    IF RmMayFail
    THEN (mon \in {"store", "fail"} /\ Watching(r)) \/ (status[r] = "failed" /\ r \notin Listed)
    ELSE cid[r] # Null /\ ctr[cid[r]] = "gone" /\ ~(mon = "start" /\ Watching(r))

Counted ==
    \A r \in Runs :
        /\ restarts[r] <= MaxRestarts
        /\ \/ Cardinality(Owned(r)) <= 1 + restarts[r]
           \/ Spent(r) /\ restarts[r] < MaxRestarts /\ Cardinality(Owned(r)) <= 2 + restarts[r]

-----------------------------------------------------------------------------
(* What each part of the invariant is about. *)

LEMMA Untouched ==
    ASSUME DaemonInv
    PROVE  /\ UNCHANGED status => IdsInOrder'
           /\ UNCHANGED <<th, status, owner, fresh, cid>> => Claims'
           /\ UNCHANGED <<ctr, owner, cid>> => Engine'
           /\ UNCHANGED <<main, row, th, pkg, fails>> => MainReads'
           /\ UNCHANGED <<list, status, restarts, cid, mon, watched>> => MonitorReads'
           /\ UNCHANGED <<mon, watched, ctr, seen, fresh2, owner>> => MonitorDoes'
           /\ UNCHANGED <<status, cid, ctr>> => EndedSeen'
<1> USE DEF DaemonInv
<1>1. UNCHANGED status => IdsInOrder'
  BY DEF IdsInOrder, Used
<1>2. UNCHANGED <<th, status, owner, fresh, cid>> => Claims'
  BY DEF Claims, Claimed, Owned
<1>3. UNCHANGED <<ctr, owner, cid>> => Engine'
  BY DEF Engine
<1>4. UNCHANGED <<main, row, th, pkg, fails>> => MainReads'
  BY DEF MainReads, Claimed
<1>5. UNCHANGED <<list, status, restarts, cid, mon, watched>> => MonitorReads'
  BY DEF MonitorReads
<1>6. UNCHANGED <<mon, watched, ctr, seen, fresh2, owner>> => MonitorDoes'
  BY DEF MonitorDoes
<1>7. UNCHANGED <<status, cid, ctr>> => EndedSeen'
  BY DEF EndedSeen
<1>8. QED
  BY <1>1, <1>2, <1>3, <1>4, <1>5, <1>6, <1>7

LEMMA Numbers ==
    /\ MaxRuns \in Nat /\ MaxContainers \in Nat /\ MaxRestarts \in Nat
    /\ Runs \subseteq Nat \ {0} /\ Containers \subseteq Nat \ {0} /\ Null = 0
    /\ IsFiniteSet(Runs) /\ IsFiniteSet(Containers)
<1>1. MaxRuns \in Nat /\ MaxContainers \in Nat /\ MaxRestarts \in Nat
  BY DaemonAssumption
<1>2. Runs \subseteq Nat \ {0} /\ Containers \subseteq Nat \ {0} /\ Null = 0
  BY <1>1 DEF Runs, Containers, Null
<1>3. IsFiniteSet(Runs)
  BY <1>1, FS_Interval DEF Runs
<1>4. IsFiniteSet(Containers)
  BY <1>1, FS_Interval DEF Containers
<1>5. QED
  BY <1>1, <1>2, <1>3, <1>4

LEMMA UsedFinite ==
    /\ IsFiniteSet(Used) /\ Cardinality(Used) \in Nat
    /\ IdsInOrder => \A r \in Runs : r > Cardinality(Used) => status[r] = "absent"
<1>1. Used \in SUBSET Runs
  BY DEF Used
<1>2. IsFiniteSet(Used) /\ Cardinality(Used) \in Nat
  BY <1>1, Numbers, FS_Subset, FS_CardinalityType
<1>3. QED
  BY <1>2, Numbers DEF IdsInOrder, Used

\* Ids in order stay so when the next ones are inserted.
LEMMA IdsExtended ==
    ASSUME IdsInOrder, NEW n \in Nat, Used' = Used \cup (Cardinality(Used) + 1) .. (Cardinality(Used) + n)
    PROVE  IdsInOrder'
<1> DEFINE k == Cardinality(Used)
<1>1. k \in Nat /\ Used = 1 .. k
  BY UsedFinite DEF IdsInOrder
<1>2. Used' = 1 .. (k + n)
  BY <1>1
<1>3. Cardinality(1 .. (k + n)) = k + n
  BY <1>1, FS_Interval
<1>4. QED
  BY <1>2, <1>3 DEF IdsInOrder

-----------------------------------------------------------------------------
(* Submission and the main loop. *)

LEMMA CreateRunStep ==
    ASSUME DaemonInv, NEW p \in Packages, CreateRun(p)
    PROVE  DaemonInv'
<1> USE DEF DaemonInv
<1>1. PICK r \in Runs : r = Cardinality(Used) + 1 /\ status' = [status EXCEPT ![r] = "queued"]
                        /\ pkg' = [pkg EXCEPT ![r] = p]
  BY DEF CreateRun
<1>2. /\ UNCHANGED <<cid, restarts, ctr, owner, main, todo, row, fails, adds, th, fresh, mon, list,
                     watched, seen, fresh2, crashes>>
      /\ submitted' = submitted + 1
  BY DEF CreateRun, dockVars, mainVars, thVars, monVars
<1>3. status[r] = "absent" /\ th[r] = "none"
  <2>1. r > Cardinality(Used)
    BY <1>1, UsedFinite
  <2>2. QED
    BY <2>1, UsedFinite DEF Claims, Claimed
<1>4. TypeOK'
  BY <1>1, <1>2 DEF TypeOK, Status, ActiveStatus
<1>5. \A q \in Runs : q # r => status'[q] = status[q] /\ pkg'[q] = pkg[q]
  BY <1>1 DEF TypeOK
<1>6. status'[r] = "queued"
  BY <1>1 DEF TypeOK
<1>7. IdsInOrder'
  <2>1. Used' = Used \cup {r}
    BY <1>3, <1>5, <1>6 DEF Used
  <2>2. Cardinality(Used) \in Nat
    BY UsedFinite
  <2>3. Used' = Used \cup (Cardinality(Used) + 1) .. (Cardinality(Used) + 1)
    BY <1>1, <2>1, <2>2
  <2>4. QED
    BY <2>3, IdsExtended
<1>8. Claims'
  BY <1>2, <1>3, <1>5, <1>6 DEF Claims, Claimed, Owned
<1>9. MainReads'
  BY <1>2, <1>3, <1>5 DEF MainReads, Claimed, Row
<1>10. MonitorReads'
  BY <1>2, <1>3, <1>5 DEF MonitorReads, TypeOK, Row
<1>11. EndedSeen'
  BY <1>2, <1>5, <1>6 DEF EndedSeen
<1>12. QED
  BY <1>2, <1>4, <1>7, <1>8, <1>9, <1>10, <1>11, Untouched

\* A pass of the main loop up to its commit changes no row.
LEMMA MainStepType ==
    ASSUME DaemonInv, UNCHANGED <<rowVars, submitted, dockVars, thVars, monVars, crashes>>,
           main' \in {"down", "boot", "idle", "read", "inspect", "decide"}, todo' \subseteq AutoStart,
           row' \in Row \cup {NoRow}, fails' \subseteq Runs, adds' \subseteq AutoStart, MainReads'
    PROVE  DaemonInv'
<1>1. UNCHANGED <<status, pkg, cid, restarts, submitted, ctr, owner, th, fresh, mon, list, watched, seen,
                  fresh2, crashes>>
  BY DEF rowVars, dockVars, thVars, monVars
<1>2. TypeOK'
  BY <1>1 DEF DaemonInv, TypeOK
<1>3. QED
  BY <1>1, <1>2, Untouched DEF DaemonInv

LEMMA PassStep ==
    ASSUME DaemonInv,
           \/ Start \/ AutoBegin \/ AutoInspect \/ AutoDecide \/ AutoRollback
           \/ \E p \in AutoStart : AutoRead(p)
    PROVE  DaemonInv'
<1> USE DEF DaemonInv
<1>1. /\ todo \subseteq AutoStart /\ row \in Row \cup {NoRow} /\ fails \subseteq Runs /\ adds \subseteq AutoStart
      /\ NoRow \in Row \cup {NoRow}
  BY DEF TypeOK
<1>2. \A p \in AutoStart : Enqueue(p) => adds' \subseteq AutoStart
  BY <1>1 DEF Enqueue
<1>3. CASE Start
  BY <1>1, <1>3, MainStepType DEF Start, MainReads, Claimed, thVars
<1>4. CASE AutoBegin
  BY <1>1, <1>4, MainStepType DEF AutoBegin, MainReads, Claimed, thVars
<1>5. CASE AutoInspect
  <2>1. CASE Skip(pkg[row.run]) /\ UNCHANGED <<fails, adds>>
    BY <1>1, <1>5, <2>1, MainStepType DEF AutoInspect, Skip, MainReads, Claimed, thVars
  <2>2. CASE main' = "decide" /\ UNCHANGED <<todo, row, fails, adds>>
    BY <1>1, <1>5, <2>2, MainStepType DEF AutoInspect, MainReads, Claimed, thVars, rowVars
  <2>3. QED
    BY <1>5, <2>1, <2>2 DEF AutoInspect
<1>6. CASE AutoDecide
  <2>1. row \in Row /\ Claimed(row.run) /\ pkg[row.run] \in AutoStart /\ row.run \in Runs
    BY <1>6 DEF AutoDecide, MainReads, Row
  <2>2. fails' = fails \cup {row.run} /\ Skip(pkg[row.run]) /\ adds' \subseteq AutoStart
    BY <1>2, <1>6, <2>1 DEF AutoDecide
  <2>3. MainReads'
    BY <1>6, <2>1, <2>2 DEF MainReads, Claimed, Skip, AutoDecide, thVars
  <2>4. QED
    BY <1>1, <1>6, <2>1, <2>2, <2>3, MainStepType DEF AutoDecide, Skip
<1>7. CASE AutoRollback
  BY <1>1, <1>7, MainStepType DEF AutoRollback, MainReads
<1>8. ASSUME NEW p \in AutoStart, AutoRead(p)
      PROVE  DaemonInv'
  <2>1. UNCHANGED <<rowVars, submitted, dockVars, fails, thVars, monVars, crashes>>
    BY <1>8 DEF AutoRead
  <2>2. CASE Skip(p) /\ (Enqueue(p) \/ UNCHANGED adds)
    <3>1. adds' \subseteq AutoStart
      BY <1>1, <1>2, <2>2
    <3>2. MainReads'
      BY <2>1, <2>2 DEF MainReads, Claimed, Skip, thVars
    <3>3. QED
      BY <1>1, <2>1, <2>2, <3>1, <3>2, MainStepType DEF Skip
  <2>3. CASE \E r \in Active(p) : status[r] = "running" /\ main' = "inspect" /\ row' = Snapshot(r)
                                  /\ UNCHANGED <<todo, adds>>
    <3>1. PICK r \in Active(p) : status[r] = "running" /\ main' = "inspect" /\ row' = Snapshot(r)
                                 /\ UNCHANGED <<todo, adds>>
      BY <2>3
    <3>2. r \in Runs /\ pkg[r] = p
      BY DEF Active
    <3>3. row' \in Row /\ row'.run = r
      BY <3>1, <3>2 DEF Snapshot, Row, TypeOK
    <3>4. MainReads'
      BY <2>1, <3>1, <3>2, <3>3 DEF MainReads, Claimed, Claims, rowVars, thVars
    <3>5. QED
      BY <1>1, <2>1, <3>1, <3>3, <3>4, MainStepType
  <2>4. QED
    BY <1>8, <2>2, <2>3 DEF AutoRead
<1>9. QED
  BY <1>3, <1>4, <1>5, <1>6, <1>7, <1>8
\* The rows of a commit take the next ids, every one of them.
LEMMA InsertedIds ==
    ASSUME TypeOK, NEW f \in [adds -> Runs], Inserted(f)
    PROVE  /\ Cardinality(adds) \in Nat
           /\ {f[p] : p \in adds} = (Cardinality(Used) + 1) .. (Cardinality(Used) + Cardinality(adds))
<1> DEFINE k == Cardinality(Used)
           n == Cardinality(adds)
           S == (k + 1) .. (k + n)
<1>1. k \in Nat
  BY UsedFinite
<1>2. IsFiniteSet(adds) /\ n \in Nat
  <2>1. adds \in SUBSET Packages
    BY DaemonAssumption DEF TypeOK
  <2>2. QED
    BY <2>1, DaemonAssumption, FS_Subset, FS_CardinalityType
<1> HIDE DEF k, n
<1>3. IsFiniteSet(S) /\ Cardinality(S) = n
  <2>1. k + 1 \in Int /\ k + n \in Int
    BY <1>1, <1>2 DEF k, n
  <2>2. IsFiniteSet(S) /\ Cardinality(S) = IF k + 1 > k + n THEN 0 ELSE (k + n) - (k + 1) + 1
    BY <2>1, FS_Interval
  <2>3. QED
    BY <1>1, <1>2, <2>2 DEF k, n
<1>4. f \in [adds -> S]
  BY DEF Inserted, k, n
<1> HIDE DEF S
<1>5. f \in Injection(adds, S)
  BY <1>4 DEF Inserted, Injection, IsInjective
<1>6. f \in Surjection(adds, S)
  BY <1>3, <1>5, FS_Injection DEF n
<1>7. {f[p] : p \in adds} = S
  BY <1>4, <1>6 DEF Surjection
<1>8. QED
  BY <1>2, <1>7 DEF S, n, k

LEMMA AutoCommitStep ==
    ASSUME DaemonInv, AutoCommit
    PROVE  DaemonInv'
<1> USE DEF DaemonInv
<1>1. PICK f \in [adds -> Runs] :
          /\ Inserted(f)
          /\ status' = [r \in Runs |-> IF r \in fails THEN "failed"
                                       ELSE IF \E p \in adds : f[p] = r THEN "queued"
                                       ELSE status[r]]
          /\ pkg' = [r \in Runs |-> IF \E p \in adds : f[p] = r
                                    THEN CHOOSE p \in adds : f[p] = r ELSE pkg[r]]
  BY DEF AutoCommit
<1>2. /\ UNCHANGED <<cid, restarts, submitted, ctr, owner, todo, row, th, fresh, list, watched, seen,
                     fresh2, crashes>>
      /\ main' = "idle" /\ fails' = {} /\ adds' = {}
      /\ mon' = IF mon = "off" THEN "sleep" ELSE mon
  BY DEF AutoCommit, dockVars, thVars
<1> DEFINE k == Cardinality(Used)
           n == Cardinality(adds)
           New == {f[p] : p \in adds}
<1>3. k \in Nat /\ n \in Nat /\ New = (k + 1) .. (k + n)
  BY <1>1, UsedFinite, InsertedIds
<1>4. New \subseteq Runs /\ \A r \in Runs : r \in New <=> \E p \in adds : f[p] = r
  OBVIOUS
<1>5. \A r \in New : status[r] = "absent" /\ th[r] = "none" /\ r \notin fails
  <2>1. \A r \in New : status[r] = "absent"
    BY <1>3, <1>4, UsedFinite
  <2>2. QED
    BY <1>4, <2>1 DEF Claims, Claimed, MainReads
<1> HIDE DEF New
<1>6. \A r \in Runs : status'[r] = IF r \in fails THEN "failed" ELSE IF r \in New THEN "queued" ELSE status[r]
  BY <1>1, <1>4
<1>7. \A r \in fails : r \in Runs /\ Claimed(r) /\ status[r] # "absent"
  BY DEF MainReads, TypeOK, Claims
<1>8. TypeOK'
  <2>1. status' \in [Runs -> Status]
    BY <1>1 DEF TypeOK, Status, ActiveStatus
  <2>2. pkg' \in [Runs -> Packages \cup {NoPackage}]
    <3>1. \A r \in Runs : (\E p \in adds : f[p] = r) => (CHOOSE p \in adds : f[p] = r) \in Packages
      BY DaemonAssumption DEF TypeOK
    <3>2. QED
      BY <1>1, <3>1 DEF TypeOK
  <2>3. QED
    BY <1>2, <2>1, <2>2 DEF TypeOK
<1>9. IdsInOrder'
  <2>1. Used' = Used \cup New
    BY <1>4, <1>5, <1>6, <1>7 DEF Used
  <2>2. QED
    BY <1>3, <2>1, IdsExtended
<1>10. Claims'
  <2>1. \A r \in Runs : Claimed(r) <=> status'[r] \notin {"absent", "queued"}
    BY <1>5, <1>6, <1>7 DEF Claims, Claimed
  <2>2. QED
    BY <1>2, <2>1 DEF Claims, Claimed, Owned
<1>11. MainReads'
  BY <1>2 DEF MainReads
<1>12. MonitorReads'
  <2>1. \A r \in Runs : status[r] \in {"running", "failed"} => status'[r] \in {"running", "failed"}
    BY <1>5, <1>6
  <2>2. \A d \in list : d.run \in Runs
    BY DEF TypeOK, Row
  <2>3. QED
    BY <1>2, <2>1, <2>2 DEF MonitorReads
<1>13. MonitorDoes'
  BY <1>2 DEF MonitorDoes
<1>14. EndedSeen'
  BY <1>2, <1>6 DEF EndedSeen
<1>15. QED
  BY <1>2, <1>8, <1>9, <1>10, <1>11, <1>12, <1>13, <1>14, Untouched

LEMMA ClaimStep ==
    ASSUME DaemonInv, Claim
    PROVE  DaemonInv'
<1> USE DEF DaemonInv
<1>1. PICK r \in Runs : /\ status[r] = "queued" /\ status' = [status EXCEPT ![r] = "running"]
                        /\ th' = [th EXCEPT ![r] = "begin"]
  BY DEF Claim
<1>2. /\ UNCHANGED <<pkg, cid, restarts, submitted, ctr, owner, main, todo, row, fails, adds, fresh, mon, list,
                     watched, seen, fresh2, crashes>>
      /\ main = "idle"
  BY DEF Claim, dockVars, mainVars, monVars
<1>3. /\ \A q \in Runs : q # r => status'[q] = status[q] /\ th'[q] = th[q]
      /\ status'[r] = "running" /\ th'[r] = "begin" /\ th[r] = "none"
  BY <1>1 DEF TypeOK, Claims, Claimed
<1>4. TypeOK'
  BY <1>1, <1>2 DEF TypeOK, Status, ActiveStatus
<1>5. IdsInOrder'
  <2>1. Used' = Used
    BY <1>1, <1>3 DEF Used
  <2>2. QED
    BY <2>1 DEF IdsInOrder
<1>6. Claims'
  BY <1>2, <1>3 DEF Claims, Claimed, Owned
<1>7. MainReads'
  BY <1>2, <1>3 DEF MainReads, Claimed, TypeOK
<1>8. MonitorReads'
  BY <1>1, <1>2, <1>3 DEF MonitorReads, TypeOK, Row
<1>9. EndedSeen'
  BY <1>2, <1>3 DEF EndedSeen
<1>10. QED
  BY <1>2, <1>4, <1>5, <1>6, <1>7, <1>8, <1>9, Untouched
-----------------------------------------------------------------------------
(* The engine and the pool's threads. *)

\* A new container is one that no run, no thread and no monitor knows.
LEMMA LaunchKeeps ==
    ASSUME DaemonInv, NEW r \in Runs, NEW c \in NextContainer, Launch(c, r)
    PROVE  /\ c \in Containers /\ c # Null /\ owner[c] = 0
           /\ ctr[c] = "none" /\ ctr'[c] = "up" /\ owner'[c] = r
           /\ ctr' \in [Containers -> {"none", "up", "ok", "bad", "gone"}]
           /\ owner' \in [Containers -> Runs \cup {0}]
           /\ \A d \in Containers : d # c => ctr'[d] = ctr[d] /\ owner'[d] = owner[d]
           /\ Owned(r)' = Owned(r) \cup {c}
           /\ \A q \in Runs : q # r => Owned(q)' = Owned(q)
           /\ UNCHANGED cid => Engine'
           /\ UNCHANGED <<mon, watched, seen, fresh2>> => MonitorDoes'
           /\ UNCHANGED <<status, cid>> => EndedSeen'
<1> USE DEF DaemonInv
<1>1. c \in Containers /\ c # Null /\ ctr[c] = "none" /\ owner[c] = 0
  BY Numbers DEF NextContainer, Engine
<1>2. /\ ctr'[c] = "up" /\ owner'[c] = r
      /\ ctr' \in [Containers -> {"none", "up", "ok", "bad", "gone"}]
      /\ owner' \in [Containers -> Runs \cup {0}]
      /\ \A d \in Containers : d # c => ctr'[d] = ctr[d] /\ owner'[d] = owner[d]
  BY <1>1 DEF Launch, TypeOK
<1>3. r # 0 /\ 0 \notin Runs
  BY Numbers
<1>4. Owned(r)' = Owned(r) \cup {c} /\ \A q \in Runs : q # r => Owned(q)' = Owned(q)
  BY <1>1, <1>2, <1>3 DEF Owned
<1>5. ASSUME UNCHANGED cid
      PROVE  Engine'
  <2>1. \A q \in Runs : cid[q] # Null => cid[q] \in Containers /\ cid[q] # c
    BY <1>1, <1>3 DEF Engine, TypeOK
  <2>2. QED
    BY <1>1, <1>2, <1>3, <1>5, <2>1 DEF Engine, TypeOK
<1>6. ASSUME UNCHANGED <<mon, watched, seen, fresh2>>
      PROVE  MonitorDoes'
  <2>1. mon \in {"remove", "start", "store", "end"} => watched.cid \in Containers /\ watched.cid # c
    BY <1>1 DEF MonitorDoes, MonitorReads, TypeOK, Row
  <2>2. mon = "store" => fresh2 \in Containers /\ fresh2 # c
    BY <1>1, <1>3 DEF MonitorDoes, MonitorReads, TypeOK, Row
  <2>3. QED
    BY <1>2, <1>6, <2>1, <2>2 DEF MonitorDoes
<1>7. ASSUME UNCHANGED <<status, cid>>
      PROVE  EndedSeen'
  <2>1. \A q \in Runs : status[q] \in {"completed", "stopped"} => cid[q] \in Containers /\ cid[q] # c
    BY <1>1 DEF EndedSeen, TypeOK
  <2>2. QED
    BY <1>2, <1>7, <2>1 DEF EndedSeen
<1>8. QED
  BY <1>1, <1>2, <1>4, <1>5, <1>6, <1>7

LEMMA DaemonStartStep ==
    ASSUME DaemonInv, NEW r \in Runs, DaemonStart(r)
    PROVE  DaemonInv'
<1> USE DEF DaemonInv
<1>1. /\ UNCHANGED <<status, pkg, cid, restarts, submitted, main, todo, row, fails, adds, mon, list,
                     watched, seen, fresh2, crashes>>
      /\ th[r] = "begin"
  BY DEF DaemonStart, rowVars, mainVars, monVars
<1>2. \/ \E c \in NextContainer : Launch(c, r) /\ fresh' = [fresh EXCEPT ![r] = c]
                                  /\ th' = [th EXCEPT ![r] = "started"]
      \/ /\ UNCHANGED <<ctr, owner>> \/ \E c \in NextContainer : Launch(c, r)
         /\ th' = [th EXCEPT ![r] = "failing"] /\ UNCHANGED fresh
  BY DEF DaemonStart, LaunchFails, dockVars
<1>3. /\ \A q \in Runs : q # r => th'[q] = th[q] /\ fresh'[q] = fresh[q]
      /\ th'[r] \in {"started", "failing"}
      /\ th' \in [Runs -> {"none", "begin", "started", "failing", "raised", "done", "lost"}]
  BY <1>2 DEF TypeOK
<1>4. MainReads'
  BY <1>1, <1>3 DEF MainReads, Claimed, Row, TypeOK
<1>5. CASE UNCHANGED <<ctr, owner>> /\ th'[r] = "failing" /\ UNCHANGED fresh
  <2>1. TypeOK'
    BY <1>1, <1>3, <1>5 DEF TypeOK
  <2>2. Claims'
    BY <1>1, <1>3, <1>5 DEF Claims, Claimed, Owned
  <2>3. QED
    BY <1>1, <1>4, <1>5, <2>1, <2>2, Untouched
<1>6. ASSUME NEW c \in NextContainer, Launch(c, r),
             (th'[r] = "started" /\ fresh' = [fresh EXCEPT ![r] = c]) \/ (th'[r] = "failing" /\ UNCHANGED fresh)
      PROVE  DaemonInv'
  <2>1. /\ c \in Containers /\ c # Null /\ owner[c] = 0 /\ owner'[c] = r
        /\ ctr' \in [Containers -> {"none", "up", "ok", "bad", "gone"}]
        /\ owner' \in [Containers -> Runs \cup {0}]
        /\ \A d \in Containers : d # c => ctr'[d] = ctr[d] /\ owner'[d] = owner[d]
        /\ \A q \in Runs : q # r => Owned(q)' = Owned(q)
        /\ Engine' /\ MonitorDoes' /\ EndedSeen'
    BY <1>1, <1>6, LaunchKeeps
  <2>2. fresh' \in [Runs -> Containers \cup {Null}] /\ (th'[r] = "started" => fresh'[r] = c)
    BY <1>6, <2>1 DEF TypeOK
  <2>3. TypeOK'
    BY <1>1, <1>3, <2>1, <2>2 DEF TypeOK
  <2>4. Claims'
    <3>1. Claimed(r) /\ Claimed(r)' /\ cid[r] = Null
      BY <1>1, <1>3 DEF Claims, Claimed
    <3>2. \A q \in Runs : q # r /\ th[q] = "started" => fresh[q] \in Containers /\ fresh[q] # c
      BY <2>1, Numbers DEF Claims, TypeOK
    <3>3. QED
      BY <1>1, <1>3, <2>1, <2>2, <3>1, <3>2 DEF Claims, Claimed
  <2>5. QED
    BY <1>1, <1>4, <2>1, <2>3, <2>4, Untouched
<1>7. QED
  BY <1>2, <1>3, <1>5, <1>6 DEF TypeOK

LEMMA StoreContainerStep ==
    ASSUME DaemonInv, NEW r \in Runs, StoreContainer(r)
    PROVE  DaemonInv'
<1> USE DEF DaemonInv
<1>1. /\ UNCHANGED <<status, pkg, restarts, submitted, ctr, owner, main, todo, row, fails, adds, fresh, mon,
                     list, watched, seen, fresh2, crashes>>
      /\ th[r] = "started" /\ cid[r] = Null /\ fresh[r] # Null /\ owner[fresh[r]] = r
      /\ \E pc \in {"done", "failing"} : th' = [th EXCEPT ![r] = pc]
      /\ cid' = [cid EXCEPT ![r] = fresh[r]] \/ UNCHANGED cid
  BY DEF StoreContainer, dockVars, mainVars, monVars, Claims
<1>2. /\ \A q \in Runs : q # r => th'[q] = th[q] /\ cid'[q] = cid[q]
      /\ th'[r] \in {"done", "failing"} /\ cid'[r] \in {Null, fresh[r]}
  BY <1>1 DEF TypeOK
<1>3. TypeOK'
  BY <1>1 DEF TypeOK
<1>4. Claims'
  BY <1>1, <1>2 DEF Claims, Claimed, Owned
<1>5. Engine'
  BY <1>1, <1>2 DEF Engine
<1>6. MainReads'
  BY <1>1, <1>2 DEF MainReads, Claimed, TypeOK, Row
<1>7. MonitorReads'
  <2>1. \A d \in list : d.run \in Runs /\ (d.cid \in {Null, cid[d.run]} => d.cid \in {Null, cid'[d.run]})
    BY <1>1, <1>2 DEF TypeOK, Row
  <2>2. QED
    BY <1>1, <2>1 DEF MonitorReads
<1>8. EndedSeen'
  BY <1>1, <1>2 DEF EndedSeen
<1>9. QED
  BY <1>1, <1>3, <1>4, <1>5, <1>6, <1>7, <1>8, Untouched

LEMMA RecordFailureStep ==
    ASSUME DaemonInv, NEW r \in Runs, RecordFailure(r)
    PROVE  DaemonInv'
<1> USE DEF DaemonInv
<1>1. /\ UNCHANGED <<pkg, cid, restarts, submitted, ctr, owner, main, todo, row, fails, adds, fresh, mon,
                     list, watched, seen, fresh2, crashes>>
      /\ th[r] \in {"failing", "raised"}
      /\ th' = [th EXCEPT ![r] = IF @ = "failing" THEN "raised" ELSE "done"]
      /\ status' = [status EXCEPT ![r] = "failed"] \/ UNCHANGED status
  BY DEF RecordFailure, SetStatus, dockVars, mainVars, monVars
<1>2. /\ \A q \in Runs : q # r => th'[q] = th[q] /\ status'[q] = status[q]
      /\ th'[r] \in {"raised", "done"} /\ status'[r] \in {"failed", status[r]}
      /\ status[r] \notin {"absent", "queued"}
  BY <1>1 DEF TypeOK, Claims, Claimed
<1>3. TypeOK'
  BY <1>1 DEF TypeOK, Status
<1>4. IdsInOrder'
  <2>1. Used' = Used
    BY <1>2 DEF Used
  <2>2. QED
    BY <2>1 DEF IdsInOrder
<1>5. Claims'
  BY <1>1, <1>2 DEF Claims, Claimed, Owned
<1>6. MainReads'
  BY <1>1, <1>2 DEF MainReads, Claimed, TypeOK, Row
<1>7. MonitorReads'
  <2>1. \A d \in list : d.run \in Runs
    BY DEF TypeOK, Row
  <2>2. \A q \in Runs : status[q] \in {"running", "failed"} => status'[q] \in {"running", "failed"}
    BY <1>2
  <2>3. QED
    BY <1>1, <2>1, <2>2 DEF MonitorReads
<1>8. EndedSeen'
  BY <1>1, <1>2 DEF EndedSeen
<1>9. QED
  BY <1>1, <1>3, <1>4, <1>5, <1>6, <1>7, <1>8, Untouched
-----------------------------------------------------------------------------
(* The monitor. *)

\* What the monitor deals with is a row it listed, of a run that was claimed.
LEMMA WatchedRow ==
    ASSUME DaemonInv, mon \in {"remove", "start", "store", "fail", "end"}
    PROVE  /\ watched \in list /\ watched \in Row /\ watched.run \in Runs /\ watched.restarts \in Nat
           /\ watched.cid \in Containers \cup {Null}
           /\ status[watched.run] \in {"running", "failed"} /\ Claimed(watched.run)
           /\ watched.restarts = restarts[watched.run]
           /\ watched.cid # Null => /\ watched.cid = cid[watched.run] /\ owner[watched.cid] = watched.run
                                    /\ th[watched.run] \notin {"none", "begin", "started"}
<1> USE DEF DaemonInv
<1>1. watched \in list /\ watched \in Row
  BY DEF MonitorReads, TypeOK
<1>2. watched.run \in Runs /\ watched.restarts \in Nat /\ watched.cid \in Containers \cup {Null}
  BY <1>1 DEF Row
<1>3. /\ status[watched.run] \in {"running", "failed"} /\ watched.restarts = restarts[watched.run]
      /\ watched.cid \in {Null, cid[watched.run]}
  BY <1>1 DEF MonitorReads
<1>4. QED
  BY <1>1, <1>2, <1>3 DEF Claims, Engine

LEMMA DealtWith ==
    ASSUME DaemonInv, mon \in {"store", "fail", "end"}, Dealt
    PROVE  /\ list' \subseteq list /\ list' \subseteq Row
           /\ \A d \in list' : d.run # watched.run
           /\ mon' \in {"sleep", "next"} /\ (mon' = "sleep" => list' = {})
           /\ watched' = NoRow /\ seen' = "missing" /\ fresh2' = Null
           /\ MonitorDoes'
<1> USE DEF DaemonInv
<1>1. watched \in list
  BY WatchedRow
<1>2. list' \subseteq list /\ list' \subseteq Row /\ \A d \in list' : d.run # watched.run
  BY <1>1 DEF Dealt, MonitorReads, TypeOK
<1>3. mon' \in {"sleep", "next"} /\ (mon' = "sleep" => list' = {})
  BY DEF Dealt, Rest
<1>4. QED
  BY <1>2, <1>3 DEF Dealt, MonitorDoes

LEMMA MonitorPollStep ==
    ASSUME DaemonInv, MonitorPoll
    PROVE  DaemonInv'
<1> USE DEF DaemonInv
<1>1. /\ UNCHANGED <<status, pkg, cid, restarts, submitted, ctr, owner, main, todo, row, fails, adds, th,
                     fresh, watched, seen, fresh2, crashes>>
      /\ mon = "sleep" /\ list' = {Snapshot(r) : r \in {s \in Runs : status[s] = "running"}}
      /\ mon' \in {"sleep", "next"} /\ (mon' = "sleep" => list' = {})
  BY DEF MonitorPoll, rowVars, dockVars, mainVars, thVars, Rest
<1>2. \A d \in list' : \E r \in Runs : d = Snapshot(r) /\ status[r] = "running"
  BY <1>1
<1>3. \A r \in Runs : Snapshot(r) \in Row /\ Snapshot(r).run = r /\ Snapshot(r).cid = cid[r]
                      /\ Snapshot(r).restarts = restarts[r]
  BY DEF Snapshot, Row, TypeOK
<1>4. TypeOK'
  BY <1>1, <1>2, <1>3 DEF TypeOK
<1>5. MonitorReads'
  <2>1. \A d, e \in list' : d.run = e.run => d = e
    BY <1>2, <1>3
  <2>2. \A d \in list' : status[d.run] = "running" /\ d.restarts = restarts[d.run] /\ d.cid = cid[d.run]
    BY <1>2, <1>3
  <2>3. watched' = NoRow
    BY <1>1 DEF MonitorReads
  <2>4. QED
    BY <1>1, <2>1, <2>2, <2>3 DEF MonitorReads
<1>6. MonitorDoes'
  BY <1>1 DEF MonitorDoes
<1>7. QED
  BY <1>1, <1>4, <1>5, <1>6, Untouched

LEMMA MonitorCheckStep ==
    ASSUME DaemonInv, MonitorCheck
    PROVE  DaemonInv'
<1> USE DEF DaemonInv
<1>1. PICK d \in list, s \in {"missing", "up", "ok", "bad"} :
          /\ s \in Check(d.cid)
          /\ IF s = "up"
             THEN list' = list \ {d} /\ mon' = Rest(list') /\ UNCHANGED <<watched, seen>>
             ELSE /\ watched' = d /\ seen' = s
                  /\ mon' = IF s = "missing" THEN "fail"
                            ELSE IF ShouldRestart(pkg[d.run], s, d.restarts) THEN "remove"
                            ELSE "end"
                  /\ UNCHANGED list
  BY DEF MonitorCheck
<1>2. /\ UNCHANGED <<status, pkg, cid, restarts, submitted, ctr, owner, main, todo, row, fails, adds, th,
                     fresh, fresh2, crashes>>
      /\ mon = "next" /\ watched = NoRow
  BY DEF MonitorCheck, rowVars, dockVars, mainVars, thVars, MonitorReads
<1>3. list \subseteq Row
  BY DEF TypeOK
<1>4. CASE s = "up"
  <2>1. list' \subseteq list /\ mon' \in {"sleep", "next"} /\ (mon' = "sleep" => list' = {})
        /\ UNCHANGED <<watched, seen>>
    BY <1>1, <1>4 DEF Rest
  <2>2. TypeOK'
    BY <1>2, <1>3, <2>1 DEF TypeOK
  <2>3. MonitorReads'
    BY <1>2, <2>1 DEF MonitorReads
  <2>4. MonitorDoes'
    BY <2>1 DEF MonitorDoes
  <2>5. QED
    BY <1>2, <2>2, <2>3, <2>4, Untouched
<1>5. CASE s # "up"
  <2>1. /\ watched' = d /\ seen' = s /\ UNCHANGED list
        /\ mon' = IF s = "missing" THEN "fail"
                  ELSE IF ShouldRestart(pkg[d.run], s, d.restarts) THEN "remove" ELSE "end"
    BY <1>1, <1>5
  <2>2. mon' \in {"fail", "remove", "end"} /\ d \in Row
    BY <1>3, <2>1
  <2>3. TypeOK'
    BY <1>2, <2>1, <2>2 DEF TypeOK
  <2>4. MonitorReads'
    BY <1>2, <2>1, <2>2 DEF MonitorReads
  <2>5. s # "missing" => d.cid # Null /\ ctr[d.cid] = s /\ s \in {"ok", "bad"}
    BY <1>1, <1>5 DEF Check
  <2>6. mon' = "remove" => d.restarts < MaxRestarts
    BY <2>1 DEF ShouldRestart
  <2>7. MonitorDoes'
    BY <1>2, <2>1, <2>2, <2>5, <2>6 DEF MonitorDoes
  <2>8. QED
    BY <1>2, <2>3, <2>4, <2>7, Untouched
<1>6. QED
  BY <1>4, <1>5

LEMMA MonitorFailStep ==
    ASSUME DaemonInv, MonitorFail
    PROVE  DaemonInv'
<1> USE DEF DaemonInv
<1>1. /\ UNCHANGED <<pkg, cid, restarts, submitted, ctr, owner, main, todo, row, fails, adds, th, fresh,
                     crashes>>
      /\ mon = "fail" /\ Dealt /\ status' = [status EXCEPT ![watched.run] = "failed"]
  BY DEF MonitorFail, SetStatus, dockVars, mainVars, thVars
<1>2. watched.run \in Runs /\ status[watched.run] \in {"running", "failed"}
  BY <1>1, WatchedRow
<1>3. /\ list' \subseteq list /\ list' \subseteq Row /\ mon' \in {"sleep", "next"}
      /\ (mon' = "sleep" => list' = {}) /\ watched' = NoRow /\ seen' = "missing" /\ fresh2' = Null
      /\ MonitorDoes'
  BY <1>1, DealtWith
<1>4. \A r \in Runs : status'[r] = IF r = watched.run THEN "failed" ELSE status[r]
  BY <1>1 DEF TypeOK
<1>5. TypeOK'
  BY <1>1, <1>3 DEF TypeOK, Status
<1>6. IdsInOrder'
  <2>1. Used' = Used
    BY <1>2, <1>4 DEF Used
  <2>2. QED
    BY <2>1 DEF IdsInOrder
<1>7. Claims'
  BY <1>1, <1>2, <1>4 DEF Claims, Claimed, Owned
<1>8. MonitorReads'
  <2>1. \A r \in Runs : status[r] \in {"running", "failed"} => status'[r] \in {"running", "failed"}
    BY <1>4
  <2>2. \A d \in list' : d.run \in Runs
    BY <1>3 DEF Row
  <2>3. QED
    BY <1>1, <1>3, <2>1, <2>2 DEF MonitorReads
<1>9. EndedSeen'
  BY <1>1, <1>4 DEF EndedSeen
<1>10. QED
  BY <1>1, <1>3, <1>5, <1>6, <1>7, <1>8, <1>9, Untouched

LEMMA MonitorEndStep ==
    ASSUME DaemonInv, MonitorEnd
    PROVE  DaemonInv'
<1> USE DEF DaemonInv
<1>1. /\ UNCHANGED <<pkg, cid, restarts, submitted, ctr, owner, main, todo, row, fails, adds, th, fresh,
                     crashes>>
      /\ mon = "end" /\ Dealt /\ status' = [status EXCEPT ![watched.run] = FinalStatus(seen)]
  BY DEF MonitorEnd, SetStatus, dockVars, mainVars, thVars
<1>2. /\ watched.run \in Runs /\ status[watched.run] \in {"running", "failed"}
      /\ cid[watched.run] # Null /\ ctr[cid[watched.run]] = seen /\ seen \in {"ok", "bad"}
  BY <1>1, WatchedRow DEF MonitorDoes
<1>3. /\ list' \subseteq list /\ list' \subseteq Row /\ mon' \in {"sleep", "next"}
      /\ \A d \in list' : d.run # watched.run
      /\ (mon' = "sleep" => list' = {}) /\ watched' = NoRow /\ seen' = "missing" /\ fresh2' = Null
      /\ MonitorDoes'
  BY <1>1, DealtWith
<1>4. \A r \in Runs : status'[r] = IF r = watched.run THEN FinalStatus(seen) ELSE status[r]
  BY <1>1 DEF TypeOK
<1>5. FinalStatus(seen) \in {"completed", "stopped"} /\ (FinalStatus(seen) = "completed" => seen = "ok")
  BY DEF FinalStatus
<1>6. TypeOK'
  BY <1>1, <1>3, <1>5 DEF TypeOK, Status
<1>7. IdsInOrder'
  <2>1. Used' = Used
    BY <1>2, <1>4, <1>5 DEF Used
  <2>2. QED
    BY <2>1 DEF IdsInOrder
<1>8. Claims'
  BY <1>1, <1>2, <1>4, <1>5 DEF Claims, Claimed, Owned
<1>9. MonitorReads'
  <2>1. \A d \in list' : d.run \in Runs /\ status'[d.run] = status[d.run]
    BY <1>3, <1>4 DEF Row
  <2>2. QED
    BY <1>1, <1>3, <2>1 DEF MonitorReads
<1>10. EndedSeen'
  BY <1>1, <1>2, <1>4, <1>5 DEF EndedSeen
<1>11. QED
  BY <1>1, <1>3, <1>6, <1>7, <1>8, <1>9, <1>10, Untouched
LEMMA MonitorRemoveStep ==
    ASSUME DaemonInv, MonitorRemove
    PROVE  DaemonInv'
<1> USE DEF DaemonInv
<1>1. /\ UNCHANGED <<status, pkg, cid, restarts, submitted, owner, main, todo, row, fails, adds, th, fresh,
                     list, watched, seen, fresh2, crashes>>
      /\ mon = "remove" /\ mon' = "start"
      /\ ctr' = [ctr EXCEPT ![watched.cid] = "gone"] \/ (RmMayFail /\ UNCHANGED ctr)
  BY DEF MonitorRemove, rowVars, mainVars, thVars
<1>2. /\ watched \in list /\ watched.cid \in Containers /\ watched.cid # Null
      /\ status[watched.run] \in {"running", "failed"} /\ owner[watched.cid] = watched.run
      /\ watched.restarts < MaxRestarts /\ ctr[watched.cid] \in {"ok", "bad"}
  BY <1>1, WatchedRow DEF MonitorDoes
<1>3. /\ \A d \in Containers : d # watched.cid => ctr'[d] = ctr[d]
      /\ ctr'[watched.cid] \in {"ok", "bad", "gone"} /\ (~RmMayFail => ctr'[watched.cid] = "gone")
  BY <1>1, <1>2 DEF TypeOK
<1>4. TypeOK'
  BY <1>1 DEF TypeOK
<1>5. Engine'
  <2>1. ctr'[watched.cid] # "none" /\ ctr[watched.cid] # "none"
    BY <1>2, <1>3
  <2>2. QED
    BY <1>1, <1>3, <2>1 DEF Engine
<1>6. MonitorReads'
  BY <1>1, <1>2 DEF MonitorReads
<1>7. MonitorDoes'
  BY <1>1, <1>2, <1>3 DEF MonitorDoes
<1>8. EndedSeen'
  <2>1. \A r \in Runs : status[r] \in {"completed", "stopped"} => cid[r] \in Containers /\ cid[r] # watched.cid
    BY <1>2 DEF EndedSeen, Engine, TypeOK
  <2>2. QED
    BY <1>1, <1>3, <2>1 DEF EndedSeen
<1>9. QED
  BY <1>1, <1>4, <1>5, <1>6, <1>7, <1>8, Untouched

LEMMA MonitorStartStep ==
    ASSUME DaemonInv, MonitorStart
    PROVE  DaemonInv'
<1> USE DEF DaemonInv
<1>1. /\ UNCHANGED <<status, pkg, cid, restarts, submitted, main, todo, row, fails, adds, th, fresh, list,
                     watched, seen, crashes>>
      /\ mon = "start"
  BY DEF MonitorStart, rowVars, mainVars, thVars
<1>2. \/ \E c \in NextContainer : Launch(c, watched.run) /\ fresh2' = c /\ mon' = "store"
      \/ /\ UNCHANGED <<ctr, owner>> \/ \E c \in NextContainer : Launch(c, watched.run)
         /\ mon' = "fail" /\ UNCHANGED fresh2
  BY DEF MonitorStart, LaunchFails, dockVars
<1>3. /\ watched \in list /\ watched.run \in Runs /\ watched.restarts < MaxRestarts
      /\ watched.cid \in Containers /\ watched.cid # Null /\ Claimed(watched.run)
      /\ ctr[watched.cid] \in {"ok", "bad", "gone"} /\ (~RmMayFail => ctr[watched.cid] = "gone")
  BY <1>1, WatchedRow DEF MonitorDoes
<1>4. mon' \in {"store", "fail"}
  BY <1>2
<1>5. MonitorReads'
  BY <1>1, <1>3, <1>4 DEF MonitorReads
<1>6. CASE UNCHANGED <<ctr, owner, fresh2>> /\ mon' = "fail"
  <2>1. TypeOK'
    BY <1>1, <1>6 DEF TypeOK
  <2>2. MonitorDoes'
    BY <1>6 DEF MonitorDoes
  <2>3. QED
    BY <1>1, <1>5, <1>6, <2>1, <2>2, Untouched
<1>7. ASSUME NEW c \in NextContainer, Launch(c, watched.run),
             (fresh2' = c /\ mon' = "store") \/ (mon' = "fail" /\ UNCHANGED fresh2)
      PROVE  DaemonInv'
  <2>1. /\ c \in Containers /\ c # Null /\ owner[c] = 0 /\ owner'[c] = watched.run /\ ctr[c] = "none"
        /\ ctr' \in [Containers -> {"none", "up", "ok", "bad", "gone"}]
        /\ owner' \in [Containers -> Runs \cup {0}]
        /\ \A d \in Containers : d # c => ctr'[d] = ctr[d] /\ owner'[d] = owner[d]
        /\ \A q \in Runs : q # watched.run => Owned(q)' = Owned(q)
        /\ Engine' /\ EndedSeen'
    BY <1>1, <1>3, <1>7, LaunchKeeps
  <2>2. TypeOK'
    BY <1>1, <1>4, <1>7, <2>1 DEF TypeOK
  <2>3. Claims'
    <3>1. th[watched.run] \notin {"none", "begin", "started"}
      BY <1>1, <1>3, WatchedRow
    <3>2. \A q \in Runs : th[q] = "started" => fresh[q] \in Containers /\ fresh[q] # c
      BY <2>1, Numbers DEF Claims, TypeOK
    <3>3. QED
      BY <1>1, <2>1, <3>1, <3>2 DEF Claims, Claimed
  <2>4. MonitorDoes'
    BY <1>1, <1>3, <1>7, <2>1 DEF MonitorDoes
  <2>5. QED
    BY <1>1, <1>5, <2>1, <2>2, <2>3, <2>4, Untouched
<1>8. QED
  BY <1>2, <1>6, <1>7

LEMMA MonitorStoreStep ==
    ASSUME DaemonInv, MonitorStore
    PROVE  DaemonInv'
<1> USE DEF DaemonInv
<1> DEFINE w == watched.run
<1>1. /\ UNCHANGED <<pkg, submitted, ctr, owner, main, todo, row, fails, adds, th, fresh, crashes>>
      /\ mon = "store" /\ Dealt
      /\ cid' = [cid EXCEPT ![w] = fresh2]
      /\ restarts' = [restarts EXCEPT ![w] = watched.restarts + 1]
      /\ status' = [status EXCEPT ![w] = "running"]
  BY DEF MonitorStore, dockVars, mainVars, thVars
<1>2. /\ w \in Runs /\ status[w] \in {"running", "failed"} /\ watched.restarts + 1 \in Nat
      /\ fresh2 \in Containers /\ owner[fresh2] = w
      /\ th[w] \notin {"none", "begin", "started"}
  BY <1>1, WatchedRow DEF MonitorDoes, TypeOK
<1>3. /\ list' \subseteq list /\ list' \subseteq Row /\ mon' \in {"sleep", "next"}
      /\ \A d \in list' : d.run # w
      /\ (mon' = "sleep" => list' = {}) /\ watched' = NoRow /\ seen' = "missing" /\ fresh2' = Null
      /\ MonitorDoes'
  BY <1>1, DealtWith
<1>4. /\ \A r \in Runs : r # w => status'[r] = status[r] /\ cid'[r] = cid[r] /\ restarts'[r] = restarts[r]
      /\ status'[w] = "running" /\ cid'[w] = fresh2
  BY <1>1, <1>2 DEF TypeOK
<1>5. TypeOK'
  BY <1>1, <1>2, <1>3 DEF TypeOK, Status, ActiveStatus
<1> HIDE DEF w
<1>6. IdsInOrder'
  <2>1. Used' = Used
    BY <1>2, <1>4 DEF Used
  <2>2. QED
    BY <2>1 DEF IdsInOrder
<1>7. Claims'
  BY <1>1, <1>2, <1>4 DEF Claims, Claimed, Owned
<1>8. Engine'
  BY <1>1, <1>2, <1>4 DEF Engine
<1>9. MonitorReads'
  <2>1. \A d \in list' : d.run \in Runs /\ d.run # w
    BY <1>3 DEF Row
  <2>2. \A d \in list' : status'[d.run] = status[d.run] /\ cid'[d.run] = cid[d.run]
                         /\ restarts'[d.run] = restarts[d.run]
    BY <1>4, <2>1
  <2>3. QED
    BY <1>3, <2>2 DEF MonitorReads
<1>10. EndedSeen'
  BY <1>1, <1>4 DEF EndedSeen
<1>11. QED
  BY <1>1, <1>3, <1>5, <1>6, <1>7, <1>8, <1>9, <1>10, Untouched

LEMMA MonitorDbErrorStep ==
    ASSUME DaemonInv, MonitorDbError
    PROVE  DaemonInv'
<1> USE DEF DaemonInv
<1>1. /\ UNCHANGED <<status, pkg, cid, restarts, submitted, ctr, owner, main, todo, row, fails, adds, th,
                     fresh, crashes>>
  BY DEF MonitorDbError, rowVars, dockVars, mainVars, thVars
<1>2. CASE mon = "store" /\ mon' = "fail" /\ UNCHANGED <<list, watched, seen, fresh2>>
  <2>1. TypeOK'
    BY <1>1, <1>2 DEF TypeOK
  <2>2. MonitorReads' /\ MonitorDoes'
    BY <1>1, <1>2 DEF MonitorReads, MonitorDoes
  <2>3. QED
    BY <1>1, <2>1, <2>2, Untouched
<1>3. CASE mon \in {"fail", "end"} /\ Dealt
  <2>1. /\ list' \subseteq list /\ list' \subseteq Row /\ mon' \in {"sleep", "next"}
        /\ (mon' = "sleep" => list' = {}) /\ watched' = NoRow /\ seen' = "missing" /\ fresh2' = Null
        /\ MonitorDoes'
    BY <1>3, DealtWith
  <2>2. TypeOK'
    BY <1>1, <2>1 DEF TypeOK
  <2>3. MonitorReads'
    BY <1>1, <2>1 DEF MonitorReads
  <2>4. QED
    BY <1>1, <2>1, <2>2, <2>3, Untouched
<1>4. QED
  BY <1>2, <1>3 DEF MonitorDbError

-----------------------------------------------------------------------------
(* The containers and the crash. *)

LEMMA ContainerExitStep ==
    ASSUME DaemonInv, NEW c \in Containers, ContainerExit(c)
    PROVE  DaemonInv'
<1> USE DEF DaemonInv
<1>1. /\ UNCHANGED <<status, pkg, cid, restarts, submitted, owner, main, todo, row, fails, adds, th, fresh,
                     mon, list, watched, seen, fresh2, crashes>>
      /\ ctr[c] = "up" /\ \E s \in {"ok", "bad"} : ctr' = [ctr EXCEPT ![c] = s]
  BY DEF ContainerExit, rowVars, mainVars, thVars, monVars
<1>2. ctr'[c] \in {"ok", "bad"} /\ \A d \in Containers : d # c => ctr'[d] = ctr[d]
  BY <1>1 DEF TypeOK
<1>3. TypeOK'
  BY <1>1 DEF TypeOK
<1>4. Engine'
  BY <1>1, <1>2 DEF Engine
<1>5. MonitorDoes'
  <2>1. mon \in {"remove", "start", "store", "end"} => watched.cid \in Containers /\ watched.cid # c
    BY <1>1, WatchedRow DEF MonitorDoes
  <2>2. QED
    BY <1>1, <1>2, <2>1 DEF MonitorDoes
<1>6. EndedSeen'
  <2>1. \A r \in Runs : status[r] \in {"completed", "stopped"} => cid[r] \in Containers /\ cid[r] # c
    BY <1>1 DEF EndedSeen, TypeOK
  <2>2. QED
    BY <1>1, <1>2, <2>1 DEF EndedSeen
<1>7. QED
  BY <1>1, <1>3, <1>4, <1>5, <1>6, Untouched

LEMMA CrashStep ==
    ASSUME DaemonInv, Crash
    PROVE  DaemonInv'
<1> USE DEF DaemonInv
<1>1. /\ UNCHANGED <<status, pkg, cid, restarts, submitted, ctr, owner, fresh>>
      /\ crashes' = crashes + 1
      /\ main' = "down" /\ todo' = {} /\ row' = NoRow /\ fails' = {} /\ adds' = {}
      /\ th' = [r \in Runs |-> IF th[r] \in {"none", "done"} THEN th[r] ELSE "lost"]
      /\ mon' = "off" /\ list' = {} /\ watched' = NoRow /\ seen' = "missing" /\ fresh2' = Null
  BY DEF Crash, rowVars, dockVars
<1>2. TypeOK'
  <2>1. th' \in [Runs -> {"none", "begin", "started", "failing", "raised", "done", "lost"}]
    BY <1>1
  <2>2. QED
    BY <1>1, <2>1 DEF TypeOK
<1>3. Claims'
  BY <1>1 DEF Claims, Claimed, Owned
<1>4. MainReads' /\ MonitorReads' /\ MonitorDoes'
  BY <1>1 DEF MainReads, MonitorReads, MonitorDoes
<1>5. QED
  BY <1>1, <1>2, <1>3, <1>4, Untouched

-----------------------------------------------------------------------------
LEMMA DaemonInit == Init => DaemonInv
<1> SUFFICES ASSUME Init PROVE DaemonInv
  OBVIOUS
<1> USE DEF Init
<1>1. TypeOK
  BY DEF TypeOK, Status
<1>2. IdsInOrder
  <2>1. Used = {}
    BY DEF Used
  <2>2. Cardinality(Used) = 0
    BY <2>1, FS_EmptySet
  <2>3. QED
    BY <2>1, <2>2 DEF IdsInOrder
<1>3. Claims
  BY Numbers DEF Claims, Claimed, Owned
<1>4. Engine /\ MainReads /\ MonitorReads /\ MonitorDoes /\ EndedSeen
  BY DEF Engine, MainReads, MonitorReads, MonitorDoes, EndedSeen
<1>5. QED
  BY <1>1, <1>2, <1>3, <1>4 DEF DaemonInv

LEMMA DaemonNext == DaemonInv /\ [Next]_vars => DaemonInv'
<1> SUFFICES ASSUME DaemonInv, [Next]_vars PROVE DaemonInv'
  OBVIOUS
<1>1. CASE \E p \in Packages : CreateRun(p)
  BY <1>1, CreateRunStep
<1>2. CASE MainStep
  BY <1>2, PassStep, AutoCommitStep, ClaimStep DEF MainStep
<1>3. CASE \E r \in Runs : ThreadStep(r)
  BY <1>3, DaemonStartStep, StoreContainerStep, RecordFailureStep DEF ThreadStep
<1>4. CASE MonitorStep
  BY <1>4, MonitorPollStep, MonitorCheckStep, MonitorFailStep, MonitorEndStep, MonitorRemoveStep,
     MonitorStartStep, MonitorStoreStep, MonitorDbErrorStep DEF MonitorStep
<1>5. CASE \E c \in Containers : ContainerExit(c)
  BY <1>5, ContainerExitStep
<1>6. CASE Crash
  BY <1>6, CrashStep
<1>7. CASE UNCHANGED vars
  <2>1. UNCHANGED <<status, pkg, cid, restarts, submitted, ctr, owner, main, todo, row, fails, adds, th,
                    fresh, mon, list, watched, seen, fresh2, crashes>>
    BY <1>7 DEF vars, rowVars, dockVars, mainVars, thVars, monVars
  <2>2. TypeOK'
    BY <2>1 DEF DaemonInv, TypeOK
  <2>3. QED
    BY <2>1, <2>2, Untouched DEF DaemonInv
<1>8. QED
  BY <1>1, <1>2, <1>3, <1>4, <1>5, <1>6, <1>7 DEF Next

\* The main loop, the pool's threads and the monitor, with the crashes of the
\* worker between any two of their steps, keep every variable in its type: in
\* particular a restart counted from a stale row and the ids given out by a commit.
THEOREM TypeCorrect == Spec => []TypeOK
<1>1. Init => DaemonInv
  BY DaemonInit
<1>2. DaemonInv /\ [Next]_vars => DaemonInv'
  BY DaemonNext
<1>3. DaemonInv => TypeOK
  BY DEF DaemonInv
<1>4. QED
  BY <1>1, <1>2, <1>3, PTL DEF Spec
-----------------------------------------------------------------------------
(* A run that has ended has no container that runs, where docker rm works. *)

LEMMA UpUntouched ==
    ASSUME UpKnown, UNCHANGED <<owner, ctr, cid, th, fresh>>,
           \/ UNCHANGED <<mon, watched, fresh2>>
           \/ mon \notin {"start", "store"} /\ mon' \notin {"start", "store"}
    PROVE  UpKnown'
  BY DEF UpKnown, Doomed, Watching

LEMMA UpThread ==
    ASSUME DaemonInv, UpKnown, NEW r \in Runs, ThreadStep(r)
    PROVE  UpKnown'
<1> USE DEF DaemonInv
<1>1. /\ UNCHANGED <<mon, watched, fresh2>>
      /\ th[r] \in {"begin", "started"} => ~(mon \in {"start", "store"} /\ Watching(r))
  BY WatchedRow DEF ThreadStep, DaemonStart, StoreContainer, RecordFailure, monVars, MonitorDoes, Watching
<1>2. ASSUME DaemonStart(r) PROVE UpKnown'
  <2>1. /\ UNCHANGED cid /\ th[r] = "begin" /\ Owned(r) = {} /\ cid[r] = Null
        /\ \A q \in Runs : q # r => th'[q] = th[q] /\ fresh'[q] = fresh[q]
    BY <1>2 DEF DaemonStart, LaunchFails, rowVars, TypeOK, Claims
  <2>2. CASE UNCHANGED <<ctr, owner>>
    BY <1>1, <2>1, <2>2 DEF UpKnown, Doomed, Watching, Owned
  <2>3. ASSUME NEW c \in NextContainer, Launch(c, r),
               \/ th'[r] = "started" /\ fresh'[r] = c
               \/ th'[r] = "failing"
        PROVE  UpKnown'
    <3>1. /\ ctr[c] = "none" /\ owner'[c] = r
          /\ \A d \in Containers : d # c => ctr'[d] = ctr[d] /\ owner'[d] = owner[d]
      BY <2>3, LaunchKeeps
    <3>2. \A q \in Runs : cid[q] # Null => cid[q] \in Containers
      BY DEF TypeOK
    <3>3. \A d \in Containers : owner'[d] = r => d = c
      BY <2>1, <3>1 DEF Owned
    <3>4. th'[r] = "failing" => Doomed(r)'
      BY <1>1, <2>1 DEF Doomed, Watching
    <3>5. \A q \in Runs : q # r /\ Doomed(q) => Doomed(q)'
      BY <1>1, <2>1, <3>1, <3>2 DEF Doomed, Watching
    <3>6. QED
      BY <1>1, <2>1, <2>3, <3>1, <3>3, <3>4, <3>5 DEF UpKnown, Watching
  <2>4. QED
    <3>1. \/ UNCHANGED <<ctr, owner>>
          \/ \E c \in NextContainer : Launch(c, r) /\ (\/ th'[r] = "started" /\ fresh'[r] = c
                                                       \/ th'[r] = "failing")
      <4>1. \A c \in NextContainer : c \in Containers
        BY DEF NextContainer
      <4>2. QED
        BY <1>2, <4>1 DEF DaemonStart, LaunchFails, dockVars, TypeOK
    <3>2. QED
      BY <2>2, <2>3, <3>1
<1>3. ASSUME StoreContainer(r) PROVE UpKnown'
  <2>1. /\ UNCHANGED <<ctr, owner, fresh>> /\ th[r] = "started" /\ cid[r] = Null
        /\ th'[r] \in {"done", "failing"}
        /\ cid'[r] = fresh[r] \/ cid'[r] = Null
        /\ \A q \in Runs : q # r => th'[q] = th[q] /\ cid'[q] = cid[q]
    BY <1>3 DEF StoreContainer, dockVars, TypeOK, Claims
  <2>2. \A d \in Containers : owner[d] = r /\ ctr[d] = "up" => d = fresh[r]
    BY <1>1, <2>1, Numbers DEF UpKnown, Doomed, Watching
  <2>3. cid'[r] = Null => Doomed(r)'
    BY <1>1, <2>1 DEF Doomed, Watching
  <2>4. \A q \in Runs : q # r /\ Doomed(q) => Doomed(q)'
    BY <1>1, <2>1 DEF Doomed, Watching
  <2>5. QED
    BY <1>1, <2>1, <2>2, <2>3, <2>4 DEF UpKnown, Watching
<1>4. ASSUME RecordFailure(r) PROVE UpKnown'
  <2>1. /\ UNCHANGED <<ctr, owner, fresh, cid>> /\ th[r] \in {"failing", "raised"} /\ th'[r] \in {"raised", "done"}
        /\ \A q \in Runs : q # r => th'[q] = th[q]
    BY <1>4 DEF RecordFailure, dockVars, TypeOK
  <2>2. QED
    BY <1>1, <2>1 DEF UpKnown, Doomed, Watching
<1>5. QED
  BY <1>2, <1>3, <1>4 DEF ThreadStep

\* While the monitor restarts a run, nothing else of it is up.
LEMMA Restarting ==
    ASSUME ~RmMayFail, DaemonInv, UpKnown, mon \in {"remove", "start", "store"}
    PROVE  /\ watched.cid # Null /\ cid[watched.run] = watched.cid
           /\ th[watched.run] \notin {"none", "begin", "started"}
           /\ mon # "remove" => ctr[watched.cid] = "gone"
           /\ \A c \in Containers : owner[c] = watched.run /\ ctr[c] = "up" => mon = "store" /\ c = fresh2
<1> USE DEF DaemonInv
<1>1. /\ watched.cid # Null /\ cid[watched.run] = watched.cid /\ watched.run \in Runs
      /\ th[watched.run] \notin {"none", "begin", "started"}
      /\ mon = "remove" => ctr[watched.cid] \in {"ok", "bad"}
      /\ mon # "remove" => ctr[watched.cid] = "gone"
  BY WatchedRow DEF MonitorDoes
<1>2. ~Doomed(watched.run)
  BY <1>1 DEF Doomed, Watching
<1>3. QED
  BY <1>1, <1>2 DEF UpKnown

LEMMA UpMonitor ==
    ASSUME ~RmMayFail, DaemonInv, UpKnown, MonitorStep
    PROVE  UpKnown'
<1> USE DEF DaemonInv
<1>1. CASE MonitorPoll \/ MonitorFail \/ MonitorEnd
  BY <1>1, UpUntouched DEF MonitorPoll, MonitorFail, MonitorEnd, Dealt, Rest, dockVars, thVars, rowVars
<1>2. CASE MonitorCheck
  BY <1>2, UpUntouched DEF MonitorCheck, Rest, dockVars, thVars, rowVars
<1>3. CASE MonitorRemove
  <2>1. /\ UNCHANGED <<cid, owner, th, fresh, watched, fresh2>> /\ mon = "remove" /\ mon' = "start"
        /\ ctr' = [ctr EXCEPT ![watched.cid] = "gone"]
    BY <1>3 DEF MonitorRemove, rowVars, thVars
  <2>2. \A d \in Containers : ctr'[d] \in {ctr[d], "gone"}
    BY <2>1 DEF TypeOK
  <2>3. \A q \in Runs : cid[q] # Null => cid[q] \in Containers
    BY DEF TypeOK
  <2>4. \A d \in Containers : owner[d] = watched.run => ctr'[d] # "up"
    BY <2>1, <2>2, Restarting
  <2>5. \A q \in Runs : q # watched.run /\ Doomed(q) => Doomed(q)'
    BY <2>1, <2>2, <2>3 DEF Doomed, Watching
  <2>6. QED
    BY <2>1, <2>2, <2>4, <2>5 DEF UpKnown
<1>4. CASE MonitorStart
  <2>1. UNCHANGED <<cid, th, fresh, watched>> /\ mon = "start" /\ watched.run \in Runs
    BY <1>4, WatchedRow DEF MonitorStart, rowVars, thVars
  <2>2. CASE UNCHANGED <<ctr, owner, fresh2>> /\ mon' = "fail"
    BY <2>1, <2>2 DEF UpKnown, Doomed
  <2>3. ASSUME NEW c \in NextContainer, Launch(c, watched.run), (mon' = "store" /\ fresh2' = c) \/ mon' = "fail"
        PROVE  UpKnown'
    <3>1. /\ ctr[c] = "none" /\ owner'[c] = watched.run
          /\ \A d \in Containers : d # c => ctr'[d] = ctr[d] /\ owner'[d] = owner[d]
      BY <2>1, <2>3, LaunchKeeps
    <3>2. \A q \in Runs : cid[q] # Null => cid[q] \in Containers
      BY DEF TypeOK
    <3>3. \A d \in Containers : owner'[d] = watched.run /\ ctr'[d] = "up" => d = c
      BY <2>1, <3>1, Restarting
    <3>4. mon' = "fail" => Doomed(watched.run)'
      BY <2>1, <3>1, <3>2, Restarting DEF Doomed
    <3>5. \A q \in Runs : q # watched.run /\ Doomed(q) => Doomed(q)'
      BY <2>1, <3>1, <3>2 DEF Doomed, Watching
    <3>6. QED
      BY <2>1, <2>3, <3>1, <3>3, <3>4, <3>5 DEF UpKnown, Watching
  <2>4. QED
    BY <1>4, <2>2, <2>3 DEF MonitorStart, LaunchFails, dockVars
<1>5. CASE MonitorStore
  <2>1. /\ UNCHANGED <<ctr, owner, th, fresh>> /\ mon = "store" /\ mon' \notin {"start", "store"}
        /\ cid' = [cid EXCEPT ![watched.run] = fresh2] /\ watched.run \in Runs
    BY <1>5, WatchedRow DEF MonitorStore, dockVars, thVars, Dealt, Rest
  <2>2. cid'[watched.run] = fresh2 /\ \A q \in Runs : q # watched.run => cid'[q] = cid[q]
    BY <2>1 DEF TypeOK
  <2>3. \A q \in Runs : q # watched.run /\ Doomed(q) => Doomed(q)'
    BY <2>1, <2>2 DEF Doomed
  <2>4. QED
    BY <2>1, <2>2, <2>3, Restarting DEF UpKnown, Watching
<1>6. CASE MonitorDbError
  <2>1. UNCHANGED <<ctr, owner, th, fresh, cid>> /\ mon' \notin {"start", "store"}
    BY <1>6 DEF MonitorDbError, rowVars, dockVars, thVars, Dealt, Rest
  <2>2. CASE mon = "store" /\ UNCHANGED watched
    <3>1. Doomed(watched.run)'
      BY <2>1, <2>2, Restarting DEF Doomed
    <3>2. QED
      BY <2>1, <2>2, <3>1 DEF UpKnown, Doomed, Watching
  <2>3. CASE mon \in {"fail", "end"}
    BY <2>1, <2>3, UpUntouched
  <2>4. QED
    BY <1>6, <2>2, <2>3 DEF MonitorDbError
<1>7. QED
  BY <1>1, <1>2, <1>3, <1>4, <1>5, <1>6 DEF MonitorStep

LEMMA UpNext ==
    ASSUME ~RmMayFail, DaemonInv, UpKnown, [Next]_vars
    PROVE  UpKnown'
<1> USE DEF DaemonInv
<1>1. CASE \E p \in Packages : CreateRun(p)
  BY <1>1, UpUntouched DEF CreateRun, dockVars, thVars, monVars
<1>2. CASE MainStep
  <2>1. CASE Start \/ AutoBegin \/ AutoInspect \/ AutoDecide \/ AutoRollback \/ \E p \in AutoStart : AutoRead(p)
    BY <2>1, UpUntouched DEF Start, AutoBegin, AutoInspect, AutoDecide, AutoRollback, AutoRead,
       dockVars, thVars, monVars, rowVars
  <2>2. CASE AutoCommit
    BY <2>2, UpUntouched DEF AutoCommit, dockVars, thVars
  <2>3. CASE Claim
    <3>1. PICK r \in Runs : status[r] = "queued" /\ th' = [th EXCEPT ![r] = "begin"]
      BY <2>3 DEF Claim
    <3>2. UNCHANGED <<ctr, owner, cid, fresh, mon, watched, fresh2>>
      BY <2>3 DEF Claim, dockVars, monVars
    <3>3. Owned(r) = {} /\ \A q \in Runs : q # r => th'[q] = th[q]
      BY <3>1 DEF Claims, Claimed, TypeOK
    <3>4. QED
      BY <3>2, <3>3 DEF UpKnown, Doomed, Watching, Owned
  <2>4. QED
    BY <1>2, <2>1, <2>2, <2>3 DEF MainStep
<1>3. CASE \E c \in Containers : ContainerExit(c)
  <2>1. /\ UNCHANGED <<owner, cid, th, fresh, mon, watched, fresh2>>
        /\ \A d \in Containers : ctr'[d] = ctr[d] \/ (ctr[d] = "up" /\ ctr'[d] \in {"ok", "bad"})
    BY <1>3 DEF ContainerExit, rowVars, thVars, monVars, TypeOK
  <2>2. \A q \in Runs : cid[q] # Null => cid[q] \in Containers
    BY DEF TypeOK
  <2>3. \A q \in Runs : Doomed(q) => Doomed(q)'
    BY <2>1, <2>2 DEF Doomed, Watching
  <2>4. QED
    BY <2>1, <2>3 DEF UpKnown, Watching
<1>4. CASE Crash
  <2>1. /\ UNCHANGED <<ctr, owner, cid, fresh>> /\ mon' = "off"
        /\ \A q \in Runs : th'[q] = th[q] \/ th'[q] = "lost"
        /\ \A q \in Runs : th[q] = "started" => th'[q] = "lost"
    BY <1>4 DEF Crash, dockVars, rowVars
  <2>2. \A q \in Runs : Doomed(q) => Doomed(q)'
    BY <2>1 DEF Doomed
  <2>3. \A q \in Runs : th[q] = "started" => Doomed(q)'
    BY <2>1 DEF Doomed, Claims
  <2>4. \A q \in Runs : mon = "store" /\ Watching(q) => Doomed(q)'
    BY <2>1, Restarting DEF Doomed, Watching
  <2>5. QED
    BY <2>1, <2>2, <2>3, <2>4 DEF UpKnown
<1>5. CASE UNCHANGED vars
  BY <1>5, UpUntouched DEF vars, rowVars, dockVars, thVars, monVars
<1>6. QED
  BY <1>1, <1>2, <1>3, <1>4, <1>5, UpThread, UpMonitor DEF Next

\* A run the monitor ended as completed or stopped has no container that still
\* runs, and a completed one has a container that exited with 0, provided docker
\* rm -f never fails: the rows it reads may be stale and its restarts may race
\* the pool's threads and auto-start, but what it concludes is true.
THEOREM EndedRunsAreDead ==
    ASSUME ~RmMayFail
    PROVE  Spec => []EndedIsDead
<1>1. Init => DaemonInv /\ UpKnown
  <2>1. Init => UpKnown
    BY DEF Init, UpKnown
  <2>2. QED
    BY <2>1, DaemonInit
<1>2. (DaemonInv /\ UpKnown) /\ [Next]_vars => (DaemonInv /\ UpKnown)'
  BY DaemonNext, UpNext
<1>3. DaemonInv /\ UpKnown => EndedIsDead
  <2> SUFFICES ASSUME DaemonInv, UpKnown, NEW r \in Runs, status[r] \in {"completed", "stopped"}
               PROVE  /\ Up(r) = {}
                      /\ \E c \in Containers : owner[c] = r /\ (status[r] = "completed" => ctr[c] = "ok")
    BY DEF EndedIsDead
  <2> USE DEF DaemonInv
  <2>1. /\ cid[r] # Null /\ cid[r] \in Containers /\ owner[cid[r]] = r
        /\ ctr[cid[r]] \in {"ok", "bad"} /\ (status[r] = "completed" => ctr[cid[r]] = "ok")
    BY DEF EndedSeen, Engine, TypeOK
  <2>2. th[r] # "started" /\ ~(mon = "store" /\ Watching(r)) /\ ~Doomed(r)
    BY <2>1, WatchedRow DEF Claims, Watching, Doomed
  <2>3. Up(r) = {}
    BY <2>1, <2>2 DEF Up, UpKnown
  <2>4. QED
    BY <2>1, <2>3
<1>4. QED
  BY <1>1, <1>2, <1>3, PTL DEF Spec
-----------------------------------------------------------------------------
(* A run has no more containers than its restarts allow. *)

LEMMA OwnedFinite ==
    ASSUME NEW r \in Runs
    PROVE  /\ IsFiniteSet(Owned(r)) /\ Cardinality(Owned(r)) \in Nat
           /\ \A c : Cardinality(Owned(r) \cup {c}) <= 1 + Cardinality(Owned(r))
<1>1. Owned(r) \in SUBSET Containers
  BY DEF Owned
<1>2. IsFiniteSet(Owned(r)) /\ Cardinality(Owned(r)) \in Nat
  BY <1>1, Numbers, FS_Subset, FS_CardinalityType
<1>3. ASSUME NEW c PROVE Cardinality(Owned(r) \cup {c}) <= 1 + Cardinality(Owned(r))
  <2>1. Cardinality(Owned(r) \cup {c}) = IF c \in Owned(r) THEN Cardinality(Owned(r)) ELSE Cardinality(Owned(r)) + 1
    BY <1>2, FS_AddElement
  <2>2. QED
    BY <1>2, <2>1
<1>4. QED
  BY <1>2, <1>3

LEMMA CountedUntouched ==
    ASSUME Counted, UNCHANGED <<owner, restarts>>, \A r \in Runs : Spent(r) => Spent(r)'
    PROVE  Counted'
<1>1. \A r \in Runs : Owned(r)' = Owned(r)
  BY DEF Owned
<1>2. QED
  BY <1>1 DEF Counted

\* What keeps a run spent.
LEMMA StillSpent ==
    ASSUME UNCHANGED <<ctr, cid>>,
           \/ UNCHANGED <<mon, watched>>
           \/ mon \notin {"start", "store", "fail"} /\ mon' # "start",
           \A r \in Runs : status[r] = "failed" /\ r \notin Listed => status'[r] = "failed" /\ r \notin Listed'
    PROVE  \A r \in Runs : Spent(r) => Spent(r)'
  BY DEF Spent, Watching

LEMMA CountedThread ==
    ASSUME DaemonInv, Counted, NEW r \in Runs, ThreadStep(r)
    PROVE  Counted'
<1> USE DEF DaemonInv
<1>1. UNCHANGED <<restarts, mon, watched, list>>
  BY DEF ThreadStep, DaemonStart, StoreContainer, RecordFailure, rowVars, monVars
<1>2. ASSUME DaemonStart(r) PROVE Counted'
  <2>1. UNCHANGED <<cid, status>> /\ Owned(r) = {}
    BY <1>2 DEF DaemonStart, rowVars, Claims
  <2>2. CASE UNCHANGED <<ctr, owner>>
    BY <1>1, <2>1, <2>2, CountedUntouched DEF Spent, Watching, Listed
  <2>3. ASSUME NEW c \in NextContainer, Launch(c, r)
        PROVE  Counted'
    <3>1. /\ ctr[c] = "none" /\ Owned(r)' = {c}
          /\ \A d \in Containers : d # c => ctr'[d] = ctr[d]
          /\ \A q \in Runs : q # r => Owned(q)' = Owned(q)
      BY <2>1, <2>3, LaunchKeeps
    <3>2. \A q \in Runs : cid[q] # Null => cid[q] \in Containers
      BY DEF TypeOK
    <3>3. \A q \in Runs : Spent(q) => Spent(q)'
      BY <1>1, <2>1, <3>1, <3>2 DEF Spent, Watching, Listed
    <3>4. Cardinality(Owned(r)') = 1
      BY <3>1, FS_Singleton
    <3>5. restarts[r] \in Nat
      BY DEF TypeOK
    <3>6. restarts[r] <= MaxRestarts /\ Cardinality(Owned(r)') <= 1 + restarts[r]
      BY <3>4, <3>5 DEF Counted
    <3>7. QED
      BY <1>1, <3>1, <3>3, <3>6 DEF Counted
  <2>4. QED
    BY <1>2, <2>2, <2>3 DEF DaemonStart, LaunchFails, dockVars
<1>3. ASSUME StoreContainer(r) PROVE Counted'
  <2>1. /\ UNCHANGED <<ctr, owner, status>> /\ cid[r] = Null
        /\ \A q \in Runs : q # r => cid'[q] = cid[q]
    BY <1>3 DEF StoreContainer, dockVars, TypeOK, Claims
  <2>2. QED
    BY <1>1, <2>1, CountedUntouched DEF Spent, Watching, Listed
<1>4. ASSUME RecordFailure(r) PROVE Counted'
  <2>1. UNCHANGED <<ctr, owner, cid>> /\ \A q \in Runs : status'[q] \in {status[q], "failed"}
    BY <1>4 DEF RecordFailure, SetStatus, dockVars, TypeOK
  <2>2. QED
    BY <1>1, <2>1, CountedUntouched DEF Spent, Watching, Listed
<1>5. QED
  BY <1>2, <1>3, <1>4 DEF ThreadStep

\* The run the monitor deals with is one of those it listed.
LEMMA WatchedListed ==
    ASSUME DaemonInv, mon \in {"remove", "start", "store", "fail", "end"}
    PROVE  /\ watched.run \in Listed /\ watched.run \in Runs
           /\ Dealt => watched.run \notin Listed'
           /\ Dealt => \A r \in Runs : r \notin Listed => r \notin Listed'
  BY WatchedRow DEF DaemonInv, MonitorReads, Listed, Dealt

LEMMA CountedMonitor ==
    ASSUME ~RmMayFail \/ ~DbMayFail, DaemonInv, Counted, MonitorStep
    PROVE  Counted'
<1> USE DEF DaemonInv
<1>1. CASE MonitorPoll
  <2>1. /\ UNCHANGED <<status, cid, restarts, ctr, owner>> /\ mon = "sleep" /\ mon' # "start"
        /\ list' = {Snapshot(r) : r \in {s \in Runs : status[s] = "running"}}
    BY <1>1 DEF MonitorPoll, Rest, rowVars, dockVars
  <2>2. \A r \in Runs : status[r] = "failed" => r \notin Listed'
    BY <2>1 DEF Listed, Snapshot
  <2>3. QED
    BY <2>1, <2>2, StillSpent, CountedUntouched
<1>2. CASE MonitorCheck
  <2>1. /\ UNCHANGED <<status, cid, restarts, ctr, owner>> /\ mon = "next" /\ mon' # "start"
        /\ list' \subseteq list
    BY <1>2 DEF MonitorCheck, Rest, rowVars, dockVars
  <2>2. QED
    BY <2>1, StillSpent, CountedUntouched DEF Listed
<1>3. CASE MonitorFail
  <2>1. /\ UNCHANGED <<cid, restarts, ctr, owner>> /\ mon = "fail" /\ mon' \notin {"start", "store", "fail"}
        /\ Dealt /\ \A r \in Runs : status'[r] = IF r = watched.run THEN "failed" ELSE status[r]
    BY <1>3 DEF MonitorFail, SetStatus, Dealt, Rest, dockVars, TypeOK
  <2>2. \A r \in Runs : Spent(r) => Spent(r)'
    BY <2>1, WatchedListed DEF Spent, Watching
  <2>3. QED
    BY <2>1, <2>2, CountedUntouched
<1>4. CASE MonitorEnd
  <2>1. /\ UNCHANGED <<cid, restarts, ctr, owner>> /\ mon = "end" /\ mon' \notin {"start", "store", "fail"}
        /\ Dealt /\ \A r \in Runs : r # watched.run => status'[r] = status[r]
    BY <1>4 DEF MonitorEnd, SetStatus, Dealt, Rest, dockVars, TypeOK
  <2>2. \A r \in Runs : Spent(r) => Spent(r)'
    BY <2>1, WatchedListed DEF Spent, Watching
  <2>3. QED
    BY <2>1, <2>2, CountedUntouched
<1>5. CASE MonitorRemove
  <2>1. /\ UNCHANGED <<status, cid, restarts, owner, watched, list>> /\ mon = "remove" /\ mon' = "start"
        /\ ctr' = [ctr EXCEPT ![watched.cid] = "gone"] \/ (RmMayFail /\ UNCHANGED ctr)
    BY <1>5 DEF MonitorRemove, rowVars
  <2>2. watched.cid = cid[watched.run] /\ ctr[cid[watched.run]] \in {"ok", "bad"}
    BY <2>1, WatchedRow DEF MonitorDoes
  <2>3. \A r \in Runs : cid[r] # Null /\ ctr[cid[r]] = "gone" => ctr'[cid[r]] = "gone"
    BY <2>1 DEF TypeOK
  <2>4. \A r \in Runs : Spent(r) => Spent(r)'
    BY <2>1, <2>2, <2>3 DEF Spent, Watching, Listed
  <2>5. QED
    BY <2>1, <2>4, CountedUntouched
<1>6. CASE MonitorStart
  <2>0. PICK w \in Runs : w = watched.run
    BY <1>6, WatchedRow DEF MonitorStart
  <2>1. UNCHANGED <<status, cid, restarts, watched, list>> /\ mon = "start" /\ mon' \in {"store", "fail"}
    BY <1>6 DEF MonitorStart, rowVars
  <2>2. /\ w \in Runs /\ w \in Listed /\ restarts[w] < MaxRestarts /\ restarts[w] \in Nat
        /\ cid[w] \in Containers /\ cid[w] # Null /\ (~RmMayFail => ctr[cid[w]] = "gone")
        /\ ctr[cid[w]] # "none"
    BY <2>0, <2>1, WatchedRow, WatchedListed DEF MonitorDoes
  <2>3. ~Spent(w)
    BY <2>0, <2>1, <2>2 DEF Spent, Watching
  <2>4. Cardinality(Owned(w)) <= 1 + restarts[w]
    BY <2>2, <2>3 DEF Counted
  <2>5. CASE UNCHANGED <<ctr, owner>>
    <3>1. \A r \in Runs : Spent(r) => Spent(r)'
      BY <2>1, <2>5 DEF Spent, Watching, Listed
    <3>2. QED
      BY <2>1, <2>5, <3>1, CountedUntouched
  <2>6. ASSUME NEW c \in NextContainer, Launch(c, w)
        PROVE  Counted'
    <3>1. /\ ctr[c] = "none" /\ Owned(w)' = Owned(w) \cup {c}
          /\ \A d \in Containers : d # c => ctr'[d] = ctr[d]
          /\ \A q \in Runs : q # w => Owned(q)' = Owned(q)
      BY <2>2, <2>6, LaunchKeeps
    <3>2. \A q \in Runs : cid[q] # Null => cid[q] \in Containers
      BY DEF TypeOK
    <3>3. \A q \in Runs : Spent(q) => Spent(q)'
      BY <2>1, <3>1, <3>2 DEF Spent, Watching, Listed
    <3>4. Spent(w)'
      BY <2>0, <2>1, <2>2, <3>1 DEF Spent, Watching
    <3>5. Cardinality(Owned(w)') <= 2 + restarts[w]
      <4>1. Cardinality(Owned(w)) \in Nat /\ Cardinality(Owned(w) \cup {c}) <= 1 + Cardinality(Owned(w))
        BY <2>2, OwnedFinite
      <4>2. Owned(w)' \in SUBSET Containers
        BY DEF Owned
      <4>3. Cardinality(Owned(w)') \in Nat
        BY <4>2, Numbers, FS_Subset, FS_CardinalityType
      <4>4. QED
        BY <2>2, <2>4, <3>1, <4>1, <4>3
    <3>6. QED
      BY <2>1, <2>2, <3>1, <3>3, <3>4, <3>5 DEF Counted
  <2>7. QED
    BY <1>6, <2>0, <2>5, <2>6 DEF MonitorStart, LaunchFails, dockVars
<1>7. CASE MonitorStore
  <2>0. PICK w \in Runs : w = watched.run
    BY <1>7, WatchedRow DEF MonitorStore
  <2>1. /\ UNCHANGED <<ctr, owner>> /\ mon = "store" /\ mon' \notin {"start", "store", "fail"} /\ Dealt
        /\ \A r \in Runs : r # w => status'[r] = status[r] /\ cid'[r] = cid[r] /\ restarts'[r] = restarts[r]
        /\ restarts' = [restarts EXCEPT ![w] = watched.restarts + 1]
    BY <1>7, <2>0 DEF MonitorStore, Dealt, Rest, dockVars, TypeOK
  <2>2. /\ w \in Runs /\ restarts[w] = watched.restarts /\ restarts[w] < MaxRestarts /\ restarts[w] \in Nat
        /\ watched \in list
    BY <2>0, <2>1, WatchedRow DEF MonitorDoes
  <2>3. restarts'[w] = restarts[w] + 1
    BY <2>1, <2>2 DEF TypeOK
  <2>4. \A r \in Runs : r # w /\ Spent(r) => Spent(r)'
    BY <2>0, <2>1, WatchedListed DEF Spent, Watching
  <2>5. \A r \in Runs : Owned(r)' = Owned(r)
    BY <2>1 DEF Owned
  <2>6. Cardinality(Owned(w)) \in Nat
    BY <2>2, OwnedFinite
  <2>7. Cardinality(Owned(w)) <= 2 + restarts[w]
    BY <2>2, <2>6 DEF Counted
  <2>8. restarts'[w] <= MaxRestarts /\ Cardinality(Owned(w)) <= 1 + restarts'[w]
    BY <2>2, <2>3, <2>6, <2>7, Numbers
  <2>9. QED
    BY <2>1, <2>4, <2>5, <2>8 DEF Counted
<1>8. CASE MonitorDbError
  <2>1. UNCHANGED <<status, cid, restarts, ctr, owner>> /\ mon' # "start"
    BY <1>8 DEF MonitorDbError, Dealt, Rest, rowVars, dockVars
  <2>2. \A r \in Runs : Spent(r) => Spent(r)'
    BY <1>8, <2>1, DaemonAssumption DEF MonitorDbError, Spent
  <2>3. QED
    BY <2>1, <2>2, CountedUntouched
<1>9. QED
  BY <1>1, <1>2, <1>3, <1>4, <1>5, <1>6, <1>7, <1>8 DEF MonitorStep
LEMMA CountedNext ==
    ASSUME ~RmMayFail \/ (MaxCrashes = 0 /\ ~DbMayFail), DaemonInv, Counted, [Next]_vars
    PROVE  Counted'
<1> USE DEF DaemonInv
<1>1. CASE \E p \in Packages : CreateRun(p)
  <2>1. UNCHANGED <<ctr, cid, owner, restarts, mon, watched, list>>
    BY <1>1 DEF CreateRun, dockVars, monVars
  <2>2. \A r \in Runs : status[r] = "failed" => status'[r] = "failed"
    <3>1. PICK r \in Runs : r = Cardinality(Used) + 1 /\ status' = [status EXCEPT ![r] = "queued"]
      BY <1>1 DEF CreateRun
    <3>2. status[r] = "absent"
      BY <3>1, UsedFinite
    <3>3. QED
      BY <3>1, <3>2 DEF TypeOK
  <2>3. QED
    BY <2>1, <2>2, StillSpent, CountedUntouched DEF Listed
<1>2. CASE MainStep
  <2>1. CASE Start \/ AutoBegin \/ AutoInspect \/ AutoDecide \/ AutoRollback \/ \E p \in AutoStart : AutoRead(p)
    <3>1. UNCHANGED <<status, ctr, cid, owner, restarts, mon, watched, list>>
      BY <2>1 DEF Start, AutoBegin, AutoInspect, AutoDecide, AutoRollback, AutoRead, dockVars, monVars, rowVars
    <3>2. QED
      BY <3>1, StillSpent, CountedUntouched DEF Listed
  <2>2. CASE AutoCommit
    <3>1. UNCHANGED <<ctr, cid, owner, restarts, watched, list>>
          /\ (UNCHANGED mon \/ (mon = "off" /\ mon' = "sleep"))
      BY <2>2 DEF AutoCommit, dockVars
    <3>2. PICK f \in [adds -> Runs] :
              /\ Inserted(f)
              /\ status' = [r \in Runs |-> IF r \in fails THEN "failed"
                                           ELSE IF \E p \in adds : f[p] = r THEN "queued"
                                           ELSE status[r]]
      BY <2>2 DEF AutoCommit
    <3>3. \A r \in Runs : (\E p \in adds : f[p] = r) => status[r] = "absent"
      <4>1. Cardinality(Used) \in Nat /\ Cardinality(adds) \in Nat
        BY <3>2, UsedFinite, InsertedIds
      <4>2. QED
        BY <3>2, <4>1, UsedFinite, Numbers DEF Inserted
    <3>4. \A r \in Runs : status[r] = "failed" => status'[r] = "failed"
      BY <3>2, <3>3
    <3>5. QED
      BY <3>1, <3>4, StillSpent, CountedUntouched DEF Listed
  <2>3. CASE Claim
    <3>1. UNCHANGED <<ctr, cid, owner, restarts, mon, watched, list>>
      BY <2>3 DEF Claim, dockVars, monVars
    <3>2. \A r \in Runs : status[r] = "failed" => status'[r] = "failed"
      BY <2>3 DEF Claim, TypeOK
    <3>3. QED
      BY <3>1, <3>2, StillSpent, CountedUntouched DEF Listed
  <2>4. QED
    BY <1>2, <2>1, <2>2, <2>3 DEF MainStep
<1>3. CASE \E c \in Containers : ContainerExit(c)
  <2>1. /\ UNCHANGED <<status, owner, cid, restarts, mon, watched, list>>
        /\ \A d \in Containers : ctr[d] = "gone" => ctr'[d] = "gone"
    BY <1>3 DEF ContainerExit, rowVars, monVars, TypeOK
  <2>2. \A r \in Runs : cid[r] # Null => cid[r] \in Containers
    BY DEF TypeOK
  <2>3. \A r \in Runs : Spent(r) => Spent(r)'
    BY <2>1, <2>2 DEF Spent, Watching, Listed
  <2>4. QED
    BY <2>1, <2>3, CountedUntouched
<1>4. CASE Crash
  <2>1. UNCHANGED <<ctr, owner, cid, restarts>> /\ mon' = "off"
    BY <1>4 DEF Crash, dockVars, rowVars
  <2>2. ~RmMayFail
    BY <1>4 DEF Crash, TypeOK
  <2>3. \A r \in Runs : Spent(r) => Spent(r)'
    BY <2>1, <2>2 DEF Spent
  <2>4. QED
    BY <2>1, <2>3, CountedUntouched
<1>5. CASE UNCHANGED vars
  <2>1. UNCHANGED <<status, ctr, cid, owner, restarts, mon, watched, list>>
    BY <1>5 DEF vars, rowVars, dockVars, monVars
  <2>2. QED
    BY <2>1, StillSpent, CountedUntouched DEF Listed
<1>6. QED
  BY <1>1, <1>2, <1>3, <1>4, <1>5, CountedThread, CountedMonitor DEF Next

\* A run gets at most one container from the pool and max_restarts from the
\* monitor, whatever is read late and whoever is failing the run meanwhile, if
\* docker rm -f never fails, or if neither the worker dies nor a statement raises
\* between a docker run and the UPDATE that counts it.
THEOREM RestartsAreBounded ==
    ASSUME ~RmMayFail \/ (MaxCrashes = 0 /\ ~DbMayFail)
    PROVE  Spec => []RestartBudget
<1>1. Init => DaemonInv /\ Counted
  <2>1. Init => Counted
    <3> SUFFICES ASSUME Init, NEW r \in Runs
                 PROVE  restarts[r] <= MaxRestarts /\ Cardinality(Owned(r)) <= 1 + restarts[r]
      BY DEF Counted
    <3>1. restarts[r] = 0 /\ Owned(r) = {}
      BY Numbers DEF Init, Owned
    <3>2. QED
      BY <3>1, FS_EmptySet, Numbers
  <2>2. QED
    BY <2>1, DaemonInit
<1>2. (DaemonInv /\ Counted) /\ [Next]_vars => (DaemonInv /\ Counted)'
  BY DaemonNext, CountedNext
<1>3. DaemonInv /\ Counted => RestartBudget
  <2> SUFFICES ASSUME DaemonInv, Counted, NEW r \in Runs
               PROVE  Cardinality(Owned(r)) <= 1 + MaxRestarts
    BY DEF RestartBudget, Owned
  <2>1. Cardinality(Owned(r)) \in Nat
    BY OwnedFinite
  <2>2. restarts[r] \in Nat
    BY DEF DaemonInv, TypeOK
  <2>3. QED
    BY <2>1, <2>2, Numbers DEF Counted
<1>4. QED
  BY <1>1, <1>2, <1>3, PTL DEF Spec
=============================================================================
