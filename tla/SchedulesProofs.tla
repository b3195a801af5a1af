-------------------------- MODULE SchedulesProofs --------------------------
(***************************************************************************)
(* Proofs about Schedules, for every number of schedules, secrets, requests *)
(* and configurations. The last two theorems are about a deployment served  *)
(* by one worker.                                                           *)
(***************************************************************************)
EXTENDS Schedules, TLAPS

-----------------------------------------------------------------------------
(* Rows, sessions and what they write. *)

RowColumns    == {"exists", "conf", "active", "last", "next"}
SecretColumns == {"exists", "key", "set"}
Package       == [meta : Meta, enables : BOOLEAN]

\* The columns of a schedule a session writes. Only a deletion touches
\* last_run_time, which is the scheduler's.
ScheduleDiff(d) ==
    /\ DOMAIN d \subseteq RowColumns /\ AnyConf \in Confs
    /\ "exists" \in DOMAIN d => d["exists"] \in BOOLEAN
    /\ "conf" \in DOMAIN d => d["conf"] \in Confs
    /\ "active" \in DOMAIN d => d["active"] \in BOOLEAN
    /\ "next" \in DOMAIN d => d["next"] \in Nat
    /\ "last" \in DOMAIN d => "exists" \in DOMAIN d /\ d["exists"] = FALSE

PackageDiff(d) ==
    /\ DOMAIN d \subseteq {"meta", "enables"}
    /\ "meta" \in DOMAIN d => d["meta"] \in Meta
    /\ "enables" \in DOMAIN d => d["enables"] \in BOOLEAN

SecretDiff(d) ==
    /\ DOMAIN d \subseteq SecretColumns
    /\ "exists" \in DOMAIN d => d["exists"] \in BOOLEAN
    /\ "key" \in DOMAIN d => d["key"] \in Keys
    /\ "set" \in DOMAIN d => d["set"] \in BOOLEAN

SecretDiffs(f) == DOMAIN f \subseteq SecretRows /\ \A r \in DOMAIN f : SecretDiff(f[r])

SessionsTyped ==
    /\ request = [q \in Requests |-> request[q]]
    /\ \A q \in Requests :
        /\ \A s \in DOMAIN request[q].schedule : ScheduleDiff(request[q].schedule[s])
        /\ PackageDiff(request[q].package)
        /\ SecretDiffs(request[q].secret)

TypeInv == TypeOK /\ SessionsTyped

LEMMA NoRowFields ==
    /\ DOMAIN NoRow = RowColumns /\ NoRow["exists"] = FALSE /\ NoRow["conf"] = AnyConf
    /\ NoRow["active"] = FALSE /\ NoRow["last"] = 0 /\ NoRow["next"] = 0
  BY DEF NoRow, RowColumns, Null

LEMMA RowFields ==
    ASSUME NEW row \in Row
    PROVE  /\ DOMAIN row = RowColumns /\ row["exists"] = TRUE /\ row["conf"] \in Confs
           /\ row["active"] \in BOOLEAN /\ row["last"] \in Nat /\ row["next"] \in Nat
           /\ row = [c \in RowColumns |-> row[c]]
  BY DEF Row, RowColumns

\* Whether or not the row exists.
LEMMA AnyRowFields ==
    ASSUME NEW row \in Row \cup {NoRow}
    PROVE  /\ DOMAIN row = RowColumns /\ row["exists"] \in BOOLEAN /\ row["active"] \in BOOLEAN
           /\ row["last"] \in Nat /\ row["next"] \in Nat
           /\ row["exists"] = FALSE <=> row = NoRow
<1>1. CASE row = NoRow
  <2>1. DOMAIN row = RowColumns /\ row["exists"] = FALSE /\ row["active"] = FALSE
    BY <1>1, NoRowFields
  <2>2. row["last"] = 0 /\ row["next"] = 0
    BY <1>1, NoRowFields
  <2>3. row["exists"] \in BOOLEAN /\ row["active"] \in BOOLEAN
    BY <2>1
  <2>4. row["last"] \in Nat /\ row["next"] \in Nat
    BY <2>2
  <2>5. QED
    BY <1>1, <2>1, <2>3, <2>4
<1>2. CASE row \in Row
  BY <1>2, RowFields, NoRowFields
<1>3. QED
  BY <1>1, <1>2

LEMMA RowIs ==
    ASSUME NEW row, row = [c \in RowColumns |-> row[c]], row["exists"] = TRUE, row["conf"] \in Confs,
           row["active"] \in BOOLEAN, row["last"] \in Nat, row["next"] \in Nat
    PROVE  row \in Row
  BY DEF Row, RowColumns

LEMMA SecretFields ==
    ASSUME NEW row \in Secret \cup {NoSecret}
    PROVE  /\ DOMAIN row = SecretColumns /\ row["exists"] \in BOOLEAN /\ row["set"] \in BOOLEAN
           /\ row["key"] \in Keys
<1>1. AnyKey \in Keys
  BY SchedulesAssumption DEF AnyKey
<1>2. CASE row = NoSecret
  BY <1>1, <1>2 DEF NoSecret, SecretColumns
<1>3. CASE row \in Secret
  BY <1>3 DEF Secret, SecretColumns
<1>4. QED
  BY <1>2, <1>3

LEMMA SecretIs ==
    ASSUME NEW row, row = [c \in SecretColumns |-> row[c]], row["exists"] = TRUE, row["key"] \in Keys,
           row["set"] \in BOOLEAN
    PROVE  row \in Secret
  BY DEF Secret, SecretColumns

\* The times schedule_service.py computes are times, or NULL.
LEMMA NextRunType ==
    ASSUME NEW conf \in Confs, NEW last \in Nat, NEW t \in Nat
    PROVE  NextRun(conf, last, t) \in Nat
<1>1. /\ conf.type \in {"interval", "cron", "at"} /\ conf.n \in Nat
      /\ conf.type = "cron" => conf.n \in Nat \ {0}
  BY SchedulesAssumption
<1>2. ASSUME conf.type = "cron"
      PROVE  (t \div conf.n + 1) * conf.n \in Nat
  <2>1. t \div conf.n \in Nat
    BY <1>1, <1>2
  <2>2. QED
    BY <1>1, <2>1
<1>3. QED
  BY <1>1, <1>2 DEF NextRun, Null

LEMMA FlagsType ==
    ASSUME package.meta \in Meta, NEW requested \in BOOLEAN, NEW M \in SUBSET Keys
    PROVE  Flags(requested, M) \in Meta
  BY DEF Flags, Meta

\* What a session writes of a row, and what the row is then.
LEMMA ChangedSchedule ==
    ASSUME NEW old \in Row \cup {NoRow}, NEW new \in Row \cup {NoRow}, old # new,
           new.last = old.last \/ new = NoRow
    PROVE  ScheduleDiff(Changed(old, new))
<1> DEFINE d == Changed(old, new)
<1>1. AnyConf \in Confs
  <2>1. PICK row \in Row : TRUE
    OBVIOUS
  <2>2. row["conf"] \in Confs
    BY <2>1, RowFields
  <2>3. QED
    BY <2>2 DEF AnyConf
<1>2. new["conf"] \in Confs
  BY <1>1, RowFields, NoRowFields
<1>3. /\ DOMAIN d = {c \in DOMAIN new : new[c] # old[c]}
      /\ \A c \in DOMAIN d : d[c] = new[c] /\ new[c] # old[c]
  BY DEF Changed
<1>4. DOMAIN d \subseteq RowColumns
  BY <1>3, AnyRowFields
<1>5. ASSUME "last" \in DOMAIN d
      PROVE  "exists" \in DOMAIN d /\ d["exists"] = FALSE
  <2>1. new = NoRow /\ old \in Row
    BY <1>3, <1>5
  <2>2. old["exists"] = TRUE /\ new["exists"] = FALSE /\ "exists" \in DOMAIN new
    BY <2>1, RowFields, NoRowFields DEF RowColumns
  <2>3. QED
    BY <1>3, <2>2
<1>6. QED
  BY <1>1, <1>2, <1>3, <1>4, <1>5, AnyRowFields DEF ScheduleDiff

LEMMA WrittenSchedule ==
    ASSUME NEW old \in Row \cup {NoRow}, NEW d, ScheduleDiff(d)
    PROVE  /\ Stored(Over(old, d), NoRow) \in Row \cup {NoRow}
           /\ \/ Stored(Over(old, d), NoRow) = NoRow
              \/ Stored(Over(old, d), NoRow)["last"] = old["last"]
<1> DEFINE row == Over(old, d)
<1>1. DOMAIN old = RowColumns /\ row = [c \in RowColumns |-> row[c]]
  BY AnyRowFields DEF Over
<1>2. \A c \in RowColumns : row[c] = IF c \in DOMAIN d THEN d[c] ELSE old[c]
  BY <1>1 DEF Over
<1>3. row["exists"] \in BOOLEAN
  BY <1>2, AnyRowFields DEF ScheduleDiff, RowColumns
<1>4. row.exists = row["exists"]
  OBVIOUS
<1>5. CASE row["exists"] = TRUE
  <2>1. row["last"] = old["last"]
    BY <1>2, <1>5 DEF ScheduleDiff, RowColumns
  <2>2. old["conf"] \in Confs
    BY RowFields, NoRowFields DEF ScheduleDiff
  <2>3. row["conf"] \in Confs
    BY <1>2, <2>2 DEF ScheduleDiff, RowColumns
  <2>4. row["active"] \in BOOLEAN /\ row["next"] \in Nat /\ row["last"] \in Nat
    BY <1>2, <2>1, AnyRowFields DEF ScheduleDiff, RowColumns
  <2>5. row \in Row
    BY <1>1, <1>5, <2>3, <2>4, RowIs
  <2>6. QED
    BY <1>4, <1>5, <2>1, <2>5 DEF Stored
<1>6. CASE row["exists"] = FALSE
  BY <1>4, <1>6 DEF Stored
<1>7. QED
  BY <1>3, <1>5, <1>6

LEMMA WrittenSecret ==
    ASSUME NEW old \in Secret \cup {NoSecret}, NEW d, SecretDiff(d)
    PROVE  Stored(Over(old, d), NoSecret) \in Secret \cup {NoSecret}
<1> DEFINE row == Over(old, d)
<1>1. /\ row = [c \in SecretColumns |-> row[c]] /\ row["exists"] \in BOOLEAN
      /\ row["key"] \in Keys /\ row["set"] \in BOOLEAN
  BY SecretFields DEF Over, SecretDiff, SecretColumns
<1>2. CASE row["exists"] = TRUE
  BY <1>1, <1>2, SecretIs DEF Stored
<1>3. CASE row["exists"] = FALSE
  BY <1>3 DEF Stored
<1>4. QED
  BY <1>1, <1>2, <1>3

LEMMA ChangedPackage ==
    ASSUME NEW old \in Package, NEW new \in Package
    PROVE  PackageDiff(Changed(old, new))
<1>1. /\ DOMAIN new = {"meta", "enables"} /\ new["meta"] \in Meta /\ new["enables"] \in BOOLEAN
  BY DEF Package
<1>2. /\ DOMAIN Changed(old, new) \subseteq {"meta", "enables"}
      /\ \A c \in DOMAIN Changed(old, new) : Changed(old, new)[c] = new[c]
  BY <1>1 DEF Changed
<1>3. QED
  BY <1>1, <1>2 DEF PackageDiff

LEMMA WrittenPackage ==
    ASSUME NEW old \in Package, NEW d, PackageDiff(d)
    PROVE  Over(old, d) \in Package
<1>1. DOMAIN old = {"meta", "enables"} /\ old["meta"] \in Meta /\ old["enables"] \in BOOLEAN
  BY DEF Package
<1>2. Over(old, d) = [c \in {"meta", "enables"} |-> IF c \in DOMAIN d THEN d[c] ELSE old[c]]
  BY <1>1 DEF Over
<1>3. QED
  BY <1>1, <1>2 DEF PackageDiff, Package

\* A handler that holds rows of the right type opens a session of the right type.
LEMMA OpenType ==
    ASSUME TypeInv, NEW q \in Requests,
           NEW schedules \in [Schedules -> Row \cup {NoRow}],
           \A s \in Schedules : schedules[s].last = schedule[s].last \/ schedules[s] = NoRow,
           NEW pkg \in Package, package' \in Package,
           NEW diffs, SecretDiffs(diffs), NEW run \in {0, 1},
           Open(q, schedules, pkg, diffs, run)
    PROVE  TypeInv'
<1> DEFINE session == [busy |-> TRUE, schedule |-> ChangedRows(schedule, schedules),
                       package |-> Changed(package', pkg), secret |-> diffs, run |-> run]
<1>1. /\ request' = [request EXCEPT ![q] = session] /\ made' = made + 1 /\ made < MaxRequests
      /\ UNCHANGED <<schedule, secret, runs, tick, errors, now>>
  BY DEF Open
<1>2. /\ DOMAIN session.schedule \subseteq Schedules
      /\ \A s \in DOMAIN session.schedule : ScheduleDiff(session.schedule[s])
  <2>1. DOMAIN schedules = Schedules /\ schedule \in [Schedules -> Row \cup {NoRow}]
    BY DEF TypeInv, TypeOK
  <2>2. SUFFICES ASSUME NEW s \in Schedules, schedules[s] # schedule[s]
                 PROVE  ScheduleDiff(Changed(schedule[s], schedules[s]))
    BY <2>1 DEF ChangedRows
  <2>3. QED
    BY <2>1, <2>2, ChangedSchedule
<1>3. PackageDiff(session.package)
  BY ChangedPackage
<1>4. request' = [p \in Requests |-> request'[p]] /\ request'[q] = session
  BY <1>1 DEF TypeInv, SessionsTyped
<1>5. \A p \in Requests : p # q => request'[p] = request[p]
  BY <1>1 DEF TypeInv, SessionsTyped
<1>6. made' \in 0 .. MaxRequests
  BY <1>1, SchedulesAssumption DEF TypeInv, TypeOK
<1>7. SessionsTyped'
  <2>1. SUFFICES ASSUME NEW p \in Requests
                 PROVE  /\ \A s \in DOMAIN request'[p].schedule : ScheduleDiff(request'[p].schedule[s])
                        /\ PackageDiff(request'[p].package)
                        /\ SecretDiffs(request'[p].secret)
    BY <1>4 DEF SessionsTyped, ScheduleDiff, PackageDiff, SecretDiffs, SecretDiff
  <2>2. CASE p = q
    BY <1>2, <1>3, <1>4, <2>2
  <2>3. CASE p # q
    BY <1>5, <2>3 DEF TypeInv, SessionsTyped
  <2>4. QED
    BY <2>2, <2>3
<1>8. TypeOK'
  <2>1. \A p \in Requests :
            /\ request'[p].busy \in BOOLEAN /\ request'[p].run \in {0, 1}
            /\ DOMAIN request'[p].schedule \subseteq Schedules
            /\ DOMAIN request'[p].package \subseteq {"meta", "enables"}
            /\ DOMAIN request'[p].secret \subseteq SecretRows
    <3>1. SUFFICES ASSUME NEW p \in Requests
                   PROVE  /\ request'[p].busy \in BOOLEAN /\ request'[p].run \in {0, 1}
                          /\ DOMAIN request'[p].schedule \subseteq Schedules
                          /\ DOMAIN request'[p].package \subseteq {"meta", "enables"}
                          /\ DOMAIN request'[p].secret \subseteq SecretRows
      OBVIOUS
    <3>2. CASE p = q
      <4>1. session.busy \in BOOLEAN /\ session.run \in {0, 1}
        OBVIOUS
      <4>2. DOMAIN session.package \subseteq {"meta", "enables"}
        BY <1>3 DEF PackageDiff
      <4>3. DOMAIN session.secret \subseteq SecretRows
        BY DEF SecretDiffs
      <4>4. QED
        BY <1>2, <1>4, <3>2, <4>1, <4>2, <4>3
    <3>3. CASE p # q
      BY <1>5, <3>3 DEF TypeInv, TypeOK
    <3>4. QED
      BY <3>2, <3>3
  <2>2. QED
    BY <1>1, <1>6, <2>1 DEF TypeInv, TypeOK, Package
<1>9. QED
  BY <1>7, <1>8 DEF TypeInv

-----------------------------------------------------------------------------
(* Each handler, the commit and each step of the scheduler. *)

LEMMA NewRowType ==
    ASSUME NEW c \in Confs, NEW active \in BOOLEAN, now \in Nat
    PROVE  NewRow(c, active) \in Row /\ NewRow(c, active).last = 0
<1>1. NextRun(c, Null, now) \in Nat
  BY NextRunType DEF Null
<1>2. QED
  BY <1>1 DEF NewRow, Row, Null

LEMMA Stepping ==
    ASSUME TypeInv
    PROVE  /\ schedule \in [Schedules -> Row \cup {NoRow}] /\ package \in Package
           /\ now \in Nat /\ package.meta.requested \in BOOLEAN /\ SecretDiffs(NoWrites)
           /\ \A s \in Schedules : schedule[s].exists => schedule[s] \in Row
           /\ \A s \in Schedules : ~schedule[s].exists => schedule[s] = NoRow
           /\ \A s \in Schedules : schedule[s].last \in Nat
<1>1. schedule \in [Schedules -> Row \cup {NoRow}] /\ package \in Package /\ now \in Nat
  BY SchedulesAssumption DEF TypeInv, TypeOK, Package
<1>2. package.meta.requested \in BOOLEAN
  BY <1>1 DEF Package, Meta
<1>3. SecretDiffs(NoWrites)
  BY DEF SecretDiffs, NoWrites
<1>4. \A s \in Schedules : schedule[s] \in Row \cup {NoRow}
  BY <1>1
<1>5. \A s \in Schedules : schedule[s].last \in Nat
  <2>1. TAKE s \in Schedules
  <2>2. schedule[s]["last"] \in Nat
    BY <1>4, AnyRowFields
  <2>3. QED
    BY <2>2
<1>6. \A s \in Schedules : (~schedule[s].exists => schedule[s] = NoRow) /\ (schedule[s].exists => schedule[s] \in Row)
  <2>1. TAKE s \in Schedules
  <2>2. schedule[s]["exists"] \in BOOLEAN /\ (schedule[s]["exists"] = FALSE <=> schedule[s] = NoRow)
    BY <1>4, AnyRowFields
  <2>3. QED
    BY <1>4, <2>2
<1>7. QED
  BY <1>1, <1>2, <1>3, <1>5, <1>6

LEMMA MissingType ==
    ASSUME TypeInv, NEW rows, NEW M \in MissingKeys(rows)
    PROVE  M \in SUBSET Keys
<1>1. package.meta.required \in SUBSET Keys
  BY Stepping DEF Package, Meta
<1>2. QED
  BY <1>1 DEF MissingKeys, MissingOf

\* What the flags written with a schedule are.
LEMMA PackageOfFlags ==
    ASSUME TypeInv, NEW requested \in BOOLEAN, NEW M \in SUBSET Keys, NEW enables \in BOOLEAN
    PROVE  [meta |-> Flags(requested, M), enables |-> enables] \in Package
<1>1. package.meta \in Meta
  BY Stepping DEF Package
<1>2. QED
  BY <1>1, FlagsType DEF Package

LEMMA CreateScheduleType ==
    ASSUME TypeInv, NEW q \in Requests, NEW s \in Schedules, NEW c \in Confs, NEW e \in BOOLEAN,
           CreateSchedule(q, s, c, e)
    PROVE  TypeInv'
<1>1. PICK M \in MissingKeys(secret) :
        Open(q, [schedule EXCEPT ![s] = NewRow(c, e /\ M = {})],
             [meta |-> Flags(e, M), enables |-> e /\ M = {}], NoWrites, 0)
  BY DEF CreateSchedule
<1> DEFINE rows == [schedule EXCEPT ![s] = NewRow(c, e /\ M = {})]
<1>2. schedule[s] = NoRow /\ package' = package
  BY Stepping DEF CreateSchedule, Free, Unknown
<1>3. NewRow(c, e /\ M = {}) \in Row /\ NewRow(c, e /\ M = {}).last = 0
  BY NewRowType, Stepping
<1>4. rows \in [Schedules -> Row \cup {NoRow}]
  BY <1>3, Stepping
<1>5. \A t \in Schedules : rows[t].last = schedule[t].last \/ rows[t] = NoRow
  BY <1>2, <1>3, NoRowFields, Stepping
<1>6. [meta |-> Flags(e, M), enables |-> e /\ M = {}] \in Package
  BY PackageOfFlags, MissingType
<1>7. QED
  BY <1>1, <1>2, <1>4, <1>5, <1>6, Stepping, OpenType

LEMMA UpdateScheduleType ==
    ASSUME TypeInv, NEW q \in Requests, NEW s \in Schedules, NEW c \in Confs, NEW e \in BOOLEAN,
           UpdateSchedule(q, s, c, e)
    PROVE  TypeInv'
<1>1. PICK M \in MissingKeys(secret) :
        Open(q, [schedule EXCEPT ![s] = [@ EXCEPT
                    !.conf = c, !.active = e /\ M = {}, !.next = NextRun(c, schedule[s].last, now)]],
             [meta |-> Flags(e, M), enables |-> e /\ M = {}], NoWrites, 0)
  BY DEF UpdateSchedule
<1> DEFINE row  == [schedule[s] EXCEPT !.conf = c, !.active = e /\ M = {},
                                       !.next = NextRun(c, schedule[s].last, now)]
           rows == [schedule EXCEPT ![s] = row]
<1>2. schedule[s] \in Row /\ package' = package
  BY Stepping DEF UpdateSchedule
<1>3. NextRun(c, schedule[s].last, now) \in Nat
  BY NextRunType, Stepping
<1>4. row \in Row /\ row.last = schedule[s].last
  BY <1>2, <1>3 DEF Row
<1>5. rows \in [Schedules -> Row \cup {NoRow}]
  BY <1>4, Stepping
<1>6. \A t \in Schedules : rows[t].last = schedule[t].last \/ rows[t] = NoRow
  BY <1>4, Stepping
<1>7. [meta |-> Flags(e, M), enables |-> e /\ M = {}] \in Package
  BY PackageOfFlags, MissingType
<1>8. Open(q, rows, [meta |-> Flags(e, M), enables |-> e /\ M = {}], NoWrites, 0)
  BY <1>1
<1>9. QED
  BY <1>2, <1>5, <1>6, <1>7, <1>8, Stepping, OpenType

LEMMA ActivateScheduleType ==
    ASSUME TypeInv, NEW q \in Requests, NEW s \in Schedules, ActivateSchedule(q, s)
    PROVE  TypeInv'
<1>1. PICK M \in MissingKeys(secret) :
        Open(q, [schedule EXCEPT ![s].active = IF M = {} THEN TRUE ELSE @],
             [meta |-> Flags(TRUE, M), enables |-> M = {}], NoWrites, 0)
  BY DEF ActivateSchedule
<1> DEFINE row  == [schedule[s] EXCEPT !.active = IF M = {} THEN TRUE ELSE @]
           rows == [schedule EXCEPT ![s] = row]
<1>2. schedule[s] \in Row /\ package' = package
  BY Stepping DEF ActivateSchedule
<1>3. row \in Row /\ row.last = schedule[s].last
  BY <1>2 DEF Row
<1>4. rows \in [Schedules -> Row \cup {NoRow}]
  BY <1>3, Stepping
<1>5. \A t \in Schedules : rows[t].last = schedule[t].last \/ rows[t] = NoRow
  BY <1>3, Stepping
<1>6. [meta |-> Flags(TRUE, M), enables |-> M = {}] \in Package
  BY PackageOfFlags, MissingType
<1>7. Open(q, rows, [meta |-> Flags(TRUE, M), enables |-> M = {}], NoWrites, 0)
  BY <1>1
<1>8. QED
  BY <1>2, <1>4, <1>5, <1>6, <1>7, Stepping, OpenType

LEMMA DeactivateScheduleType ==
    ASSUME TypeInv, NEW q \in Requests, NEW s \in Schedules, DeactivateSchedule(q, s)
    PROVE  TypeInv'
<1> DEFINE row  == [schedule[s] EXCEPT !.active = FALSE]
           rows == [schedule EXCEPT ![s] = row]
<1>1. schedule[s] \in Row /\ package' = package
  BY Stepping DEF DeactivateSchedule
<1>2. row \in Row /\ row.last = schedule[s].last
  BY <1>1 DEF Row
<1>3. rows \in [Schedules -> Row \cup {NoRow}]
  BY <1>2, Stepping
<1>4. \A t \in Schedules : rows[t].last = schedule[t].last \/ rows[t] = NoRow
  BY <1>2, Stepping
<1>5. Open(q, rows, package, NoWrites, 0)
  BY DEF DeactivateSchedule
<1>6. QED
  BY <1>1, <1>3, <1>4, <1>5, Stepping, OpenType

LEMMA DeleteScheduleType ==
    ASSUME TypeInv, NEW q \in Requests, NEW s \in Schedules, DeleteSchedule(q, s)
    PROVE  TypeInv'
<1> DEFINE rows == [schedule EXCEPT ![s] = NoRow]
<1>1. rows \in [Schedules -> Row \cup {NoRow}]
  BY Stepping
<1>2. \A t \in Schedules : rows[t].last = schedule[t].last \/ rows[t] = NoRow
  BY Stepping
<1>3. package' = package /\ Open(q, rows, package, NoWrites, 0)
  BY DEF DeleteSchedule
<1>4. QED
  BY <1>1, <1>2, <1>3, Stepping, OpenType

\* The four writes of secrets recompute every schedule.
LEMMA ReconcileType ==
    ASSUME TypeInv, NEW q \in Requests, NEW seen, NEW diffs, SecretDiffs(diffs),
           ReconcileSecrets(q, seen, diffs)
    PROVE  TypeInv'
<1>1. PICK M \in MissingKeys(seen) : Open(q, ReconciledSchedules(M), ReconciledPackage(M), diffs, 0)
  BY DEF ReconcileSecrets
<1>2. M \in SUBSET Keys /\ package' = package
  BY MissingType DEF ReconcileSecrets
<1>3. \A s \in Schedules :
        /\ ReconciledSchedules(M)[s] \in Row \cup {NoRow}
        /\ ReconciledSchedules(M)[s].last = schedule[s].last \/ ReconciledSchedules(M)[s] = NoRow
  <2>1. TAKE s \in Schedules
  <2>2. CASE ~schedule[s].exists
    BY <2>2 DEF ReconciledSchedules
  <2>3. CASE schedule[s].exists
    <3>1. schedule[s] \in Row /\ schedule[s].conf \in Confs
      BY <2>3, Stepping DEF Row
    <3>2. NextRun(schedule[s].conf, schedule[s].last, now) \in Nat
      BY <3>1, NextRunType, Stepping
    <3>3. [schedule[s] EXCEPT !.active = TRUE,
                !.next = NextRun(schedule[s].conf, schedule[s].last, now)] \in Row
      BY <3>1, <3>2 DEF Row
    <3>4. [schedule[s] EXCEPT !.active = FALSE] \in Row
      BY <3>1 DEF Row
    <3>5. QED
      BY <2>3, <3>1, <3>3, <3>4 DEF ReconciledSchedules, Row
  <2>4. QED
    BY <2>2, <2>3
<1>4. ReconciledSchedules(M) \in [Schedules -> Row \cup {NoRow}]
  BY <1>3 DEF ReconciledSchedules
<1>5. ReconciledPackage(M) \in Package
  BY <1>2, Stepping, PackageOfFlags DEF ReconciledPackage
<1>6. QED
  BY <1>1, <1>2, <1>3, <1>4, <1>5, Stepping, OpenType

LEMMA SecretsType ==
    ASSUME TypeInv, NEW q \in Requests, NEW r \in SecretRows, NEW k \in Keys,
           SetSecret(q, k) \/ AddSecret(q, r, k) \/ UpdateSecret(q, r, k) \/ DeleteSecret(q, r)
    PROVE  TypeInv'
<1>1. CASE SetSecret(q, k)
  <2>1. PICK i \in RowsOf(k) :
          ReconcileSecrets(q, [secret EXCEPT ![i].set = TRUE], [j \in {i} |-> [set |-> TRUE]])
    BY <1>1 DEF SetSecret
  <2>2. SecretDiffs([j \in {i} |-> [set |-> TRUE]])
    BY DEF SecretDiffs, SecretDiff, SecretColumns, RowsOf
  <2>3. QED
    BY <2>1, <2>2, ReconcileType
<1>2. CASE AddSecret(q, r, k)
  <2>1. SecretDiffs([i \in {r} |-> [exists |-> TRUE, key |-> k, set |-> TRUE]])
    BY DEF SecretDiffs, SecretDiff, SecretColumns
  <2>2. QED
    BY <1>2, <2>1, ReconcileType DEF AddSecret
<1>3. CASE UpdateSecret(q, r, k)
  <2> DEFINE new  == [exists |-> TRUE, key |-> k, set |-> TRUE]
             diff == [c \in {"set"} \cup DOMAIN Changed(secret[r], new) |-> new[c]]
  <2>1. DOMAIN diff \subseteq SecretColumns
    BY DEF Changed, SecretColumns
  <2>2. SecretDiff(diff)
    BY <2>1 DEF SecretDiff
  <2>3. SecretDiffs([i \in {r} |-> diff])
    BY <2>2 DEF SecretDiffs
  <2>4. QED
    BY <1>3, <2>3, ReconcileType DEF UpdateSecret
<1>4. CASE DeleteSecret(q, r)
  <2>1. SecretDiff(NoSecret)
    <3>1. NoSecret \in Secret \cup {NoSecret}
      OBVIOUS
    <3>2. QED
      BY <3>1, SecretFields DEF SecretDiff
  <2>2. SecretDiffs([i \in {r} |-> NoSecret])
    BY <2>1 DEF SecretDiffs
  <2>3. QED
    BY <1>4, <2>2, ReconcileType DEF DeleteSecret
<1>5. QED
  BY <1>1, <1>2, <1>3, <1>4

LEMMA RegisterPackageType ==
    ASSUME TypeInv, NEW q \in Requests, NEW keys \in SUBSET Keys, NEW given \in BOOLEAN,
           NEW e \in BOOLEAN, RegisterPackage(q, keys, given, e)
    PROVE  TypeInv'
<1> DEFINE seenEnables == IF given THEN e ELSE package.enables
           bare        == {k \in keys : RowsOf(k) = {}}
           pkg(M, req) == [meta    |-> [Flags(e, M) EXCEPT !.required = req],
                           enables |-> IF M = {} THEN seenEnables ELSE FALSE]
           diffs(f)    == [r \in {f[k] : k \in bare} |->
                            [exists |-> TRUE, key |-> CHOOSE k \in bare : f[k] = r, set |-> FALSE]]
<1>1. package' = [package EXCEPT !.enables = seenEnables]
  BY DEF RegisterPackage
<1>2. PICK M \in (IF e THEN MissingOf(keys, secret) ELSE {{}}),
           req \in {keys} \cup (IF keys = {} THEN {package.meta.required} ELSE {}),
           f \in [bare -> SecretRows] :
        \E rows \in RegisteredSchedules(e /\ M = {}) :
            /\ \A k \in bare : FreeRow(f[k]) /\ \A j \in bare : f[j] = f[k] => j = k
            /\ Open(q, rows, pkg(M, req), diffs(f), 0)
  BY Zenon DEF RegisterPackage
<1>3. PICK rows \in RegisteredSchedules(e /\ M = {}) : Open(q, rows, pkg(M, req), diffs(f), 0)
  BY <1>2
<1>4. M \in SUBSET Keys
  BY <1>2 DEF MissingOf
<1>5. package.meta \in Meta /\ package.meta.required \in SUBSET Keys /\ req \in SUBSET Keys
  BY <1>2, Stepping DEF Package, Meta
<1>6. seenEnables \in BOOLEAN
  BY Stepping DEF Package
<1>7. package' \in Package
  BY <1>1, <1>6, Stepping DEF Package
<1>8. pkg(M, req) \in Package
  <2>1. Flags(e, M) \in Meta
    BY <1>4, <1>5, FlagsType
  <2>2. [Flags(e, M) EXCEPT !.required = req] \in Meta
    BY <1>5, <2>1 DEF Meta
  <2>3. QED
    BY <1>6, <2>2 DEF Package
<1>9. /\ rows \in [Schedules -> Row \cup {NoRow}]
      /\ \A t \in Schedules : rows[t].last = schedule[t].last \/ rows[t] = NoRow
  <2>1. CASE rows = schedule
    BY <2>1, Stepping
  <2>2. CASE rows # schedule
    <3> DEFINE row(s, c) == [NewRow(c, e /\ M = {}) EXCEPT !.last = schedule[s].last]
    <3>1. PICK s \in Schedules, c \in Confs : rows = [schedule EXCEPT ![s] = row(s, c)]
      BY <1>3, <2>2 DEF RegisteredSchedules
    <3>2. NewRow(c, e /\ M = {}) \in Row /\ schedule[s].last \in Nat
      BY NewRowType, Stepping
    <3>3. row(s, c) \in Row /\ row(s, c).last = schedule[s].last
      BY <3>2 DEF Row
    <3> HIDE DEF row
    <3>4. QED
      BY <3>1, <3>3, Stepping
  <2>3. QED
    BY <2>1, <2>2
<1>10. SecretDiffs(diffs(f))
  <2>1. \A r \in {f[k] : k \in bare} : (CHOOSE k \in bare : f[k] = r) \in Keys
    OBVIOUS
  <2>2. \A key \in Keys : SecretDiff([exists |-> TRUE, key |-> key, set |-> FALSE])
    BY DEF SecretDiff, SecretColumns
  <2>3. {f[k] : k \in bare} \subseteq SecretRows
    OBVIOUS
  <2>4. QED
    BY <2>1, <2>2, <2>3 DEF SecretDiffs
<1> HIDE DEF pkg, diffs
<1>11. QED
  BY <1>3, <1>7, <1>8, <1>9, <1>10, OpenType

LEMMA CreateRunType ==
    ASSUME TypeInv, NEW q \in Requests, CreateRun(q)
    PROVE  TypeInv'
<1>1. PICK M \in MissingKeys(secret) :
        Open(q, schedule,
             IF M = {} THEN package
             ELSE [package EXCEPT !.meta = Flags(package.meta.requested, M)],
             NoWrites, IF M = {} THEN 1 ELSE 0)
  BY DEF CreateRun
<1> DEFINE pkg == IF M = {} THEN package
                  ELSE [package EXCEPT !.meta = Flags(package.meta.requested, M)]
<1>2. M \in SUBSET Keys /\ package' = package
  BY MissingType DEF CreateRun
<1>3. Flags(package.meta.requested, M) \in Meta
  BY <1>2, Stepping, FlagsType DEF Package
<1>4. pkg \in Package
  BY <1>3, Stepping DEF Package
<1> HIDE DEF pkg
<1>5. Open(q, schedule, pkg, NoWrites, IF M = {} THEN 1 ELSE 0)
  BY <1>1 DEF pkg
<1>6. QED
  BY <1>2, <1>4, <1>5, Stepping, OpenType

\* A session is closed.
LEMMA SessionReset ==
    ASSUME TypeInv, NEW q \in Requests,
           request' = [p \in Requests |-> request'[p]], request'[q] = Idle,
           \A p \in Requests : p # q => request'[p] = request[p],
           UNCHANGED <<made, tick, errors, now>>,
           schedule' \in [Schedules -> Row \cup {NoRow}], package' \in Package,
           secret' \in [SecretRows -> Secret \cup {NoSecret}], runs' \in [api : Nat, scheduled : Nat]
    PROVE  TypeOK' /\ SessionsTyped'
<1>1. /\ Idle.busy = FALSE /\ Idle.run = 0 /\ DOMAIN Idle.schedule = {}
      /\ DOMAIN Idle.package = {} /\ DOMAIN Idle.secret = {}
  BY DEF Idle, NoWrites
<1>2. PackageDiff(Idle.package) /\ SecretDiffs(Idle.secret)
  BY <1>1 DEF PackageDiff, SecretDiffs
<1>3. \A p \in Requests :
        /\ \A s \in DOMAIN request'[p].schedule : ScheduleDiff(request'[p].schedule[s])
        /\ PackageDiff(request'[p].package) /\ SecretDiffs(request'[p].secret)
  <2>1. TAKE p \in Requests
  <2>2. CASE p = q
    BY <1>1, <1>2, <2>2
  <2>3. CASE p # q
    BY <2>3 DEF TypeInv, SessionsTyped
  <2>4. QED
    BY <2>2, <2>3
<1>4. SessionsTyped'
  BY <1>3 DEF SessionsTyped, ScheduleDiff, PackageDiff, SecretDiffs, SecretDiff
<1>5. \A p \in Requests :
        /\ request'[p].busy \in BOOLEAN /\ request'[p].run \in {0, 1}
        /\ DOMAIN request'[p].schedule \subseteq Schedules
        /\ DOMAIN request'[p].package \subseteq {"meta", "enables"}
        /\ DOMAIN request'[p].secret \subseteq SecretRows
  <2>1. TAKE p \in Requests
  <2>2. CASE p = q
    BY <1>1, <2>2
  <2>3. CASE p # q
    BY <2>3 DEF TypeInv, TypeOK
  <2>4. QED
    BY <2>2, <2>3
<1>6. TypeOK'
  BY <1>5 DEF TypeInv, TypeOK, Package
<1>7. QED
  BY <1>4, <1>6

LEMMA CommitType ==
    ASSUME TypeInv, NEW q \in Requests, Commit(q)
    PROVE  /\ TypeInv'
           /\ \A s \in Schedules : schedule'[s] = NoRow \/ schedule'[s].last = schedule[s].last
<1> DEFINE d == request[q].schedule
           e == request[q].secret
<1>1. /\ schedule' = Written(schedule, d, NoRow) /\ package' = Over(package, request[q].package)
      /\ secret' = Written(secret, e, NoSecret) /\ runs' = [runs EXCEPT !.api = @ + request[q].run]
      /\ request' = [request EXCEPT ![q] = Idle] /\ UNCHANGED <<made, tick, errors, now>>
  BY DEF Commit
<1>2. /\ \A s \in DOMAIN d : ScheduleDiff(d[s])
      /\ PackageDiff(request[q].package) /\ SecretDiffs(e)
      /\ request[q].run \in {0, 1} /\ request = [p \in Requests |-> request[p]]
  BY DEF TypeInv, TypeOK, SessionsTyped
<1>3. \A s \in Schedules :
        /\ schedule'[s] \in Row \cup {NoRow}
        /\ schedule'[s] = NoRow \/ schedule'[s].last = schedule[s].last
  <2>1. TAKE s \in Schedules
  <2>2. schedule[s] \in Row \cup {NoRow} /\ DOMAIN schedule = Schedules
    BY Stepping
  <2>3. schedule'[s] = IF s \in DOMAIN d THEN Stored(Over(schedule[s], d[s]), NoRow) ELSE schedule[s]
    BY <1>1, <2>2 DEF Written
  <2>4. CASE s \in DOMAIN d
    BY <1>2, <2>2, <2>3, <2>4, WrittenSchedule
  <2>5. CASE s \notin DOMAIN d
    BY <2>2, <2>3, <2>5
  <2>6. QED
    BY <2>4, <2>5
<1>4. schedule' \in [Schedules -> Row \cup {NoRow}]
  BY <1>1, <1>3, Stepping DEF Written
<1>5. secret' \in [SecretRows -> Secret \cup {NoSecret}]
  <2>1. secret \in [SecretRows -> Secret \cup {NoSecret}]
    BY DEF TypeInv, TypeOK
  <2>2. \A r \in SecretRows :
          (IF r \in DOMAIN e THEN Stored(Over(secret[r], e[r]), NoSecret) ELSE secret[r])
            \in Secret \cup {NoSecret}
    BY <1>2, <2>1, WrittenSecret DEF SecretDiffs
  <2>3. QED
    BY <1>1, <2>1, <2>2 DEF Written
<1>6. package' \in Package
  BY <1>1, <1>2, Stepping, WrittenPackage
<1>7. runs' \in [api : Nat, scheduled : Nat]
  <2>1. request[q].run \in Nat
    BY <1>2
  <2>2. QED
    BY <1>1, <2>1 DEF TypeInv, TypeOK
<1>8. request' = [p \in Requests |-> request'[p]] /\ request'[q] = Idle
      /\ \A p \in Requests : p # q => request'[p] = request[p]
  BY <1>1, <1>2
<1>9. SessionsTyped' /\ TypeOK'
  BY <1>1, <1>4, <1>5, <1>6, <1>7, <1>8, SessionReset
<1>10. QED
  BY <1>3, <1>9 DEF TypeInv

LEMMA RollbackType ==
    ASSUME TypeInv, NEW q \in Requests, Rollback(q)
    PROVE  TypeInv'
<1>1. /\ request' = [request EXCEPT ![q] = Idle]
      /\ UNCHANGED <<schedule, package, secret, runs, made, tick, errors, now>>
  BY DEF Rollback, dbVars
<1>2. request = [p \in Requests |-> request[p]]
  BY DEF TypeInv, SessionsTyped
<1>3. request' = [p \in Requests |-> request'[p]] /\ request'[q] = Idle
      /\ \A p \in Requests : p # q => request'[p] = request[p]
  BY <1>1, <1>2
<1>4. /\ schedule' \in [Schedules -> Row \cup {NoRow}] /\ package' \in Package
      /\ secret' \in [SecretRows -> Secret \cup {NoSecret}] /\ runs' \in [api : Nat, scheduled : Nat]
  BY <1>1, Stepping DEF TypeInv, TypeOK
<1>5. QED
  BY <1>1, <1>3, <1>4, SessionReset DEF TypeInv

\* The scheduler touches no session.
LEMMA TicksType ==
    ASSUME TypeInv, UNCHANGED <<package, secret, request, made>>,
           schedule' \in [Schedules -> Row \cup {NoRow}], runs' \in [api : Nat, scheduled : Nat],
           tick' \in [Workers -> [busy : BOOLEAN, at : 0 .. MaxTime,
                                  due : SUBSET [id : Schedules, conf : Confs],
                                  row : SUBSET [id : Schedules, conf : Confs],
                                  fire : SUBSET [id : Schedules, next : Nat], ran : Nat]],
           errors' \in 0 .. MaxErrors, now' \in 1 .. MaxTime
    PROVE  TypeInv'
<1>1. TypeOK'
  BY DEF TypeInv, TypeOK
<1>2. SessionsTyped'
  BY DEF TypeInv, SessionsTyped, ScheduleDiff, PackageDiff, SecretDiffs, SecretDiff
<1>3. QED
  BY <1>1, <1>2 DEF TypeInv

\* Handlers write nothing but their session and, registering, the package's flag.
LEMMA HandlerFrame ==
    ASSUME NEW q \in Requests, Handler(q)
    PROVE  UNCHANGED <<schedule, secret, runs, tick, errors, now>>
<1>1. ASSUME NEW seen, NEW diffs, ReconcileSecrets(q, seen, diffs)
      PROVE  UNCHANGED <<schedule, secret, runs, tick, errors, now>>
  BY <1>1 DEF ReconcileSecrets, Open
<1>2. ASSUME NEW s \in Schedules, NEW c \in Confs, NEW e \in BOOLEAN,
             CreateSchedule(q, s, c, e) \/ UpdateSchedule(q, s, c, e)
      PROVE  UNCHANGED <<schedule, secret, runs, tick, errors, now>>
  BY <1>2 DEF CreateSchedule, UpdateSchedule, Open
<1>3. ASSUME NEW s \in Schedules,
             ActivateSchedule(q, s) \/ DeactivateSchedule(q, s) \/ DeleteSchedule(q, s)
      PROVE  UNCHANGED <<schedule, secret, runs, tick, errors, now>>
  BY <1>3 DEF ActivateSchedule, DeactivateSchedule, DeleteSchedule, Open
<1>4. ASSUME NEW k \in Keys, SetSecret(q, k)
      PROVE  UNCHANGED <<schedule, secret, runs, tick, errors, now>>
  BY <1>1, <1>4 DEF SetSecret
<1>5. ASSUME NEW r \in SecretRows, NEW k \in Keys, AddSecret(q, r, k) \/ UpdateSecret(q, r, k)
      PROVE  UNCHANGED <<schedule, secret, runs, tick, errors, now>>
  BY <1>1, <1>5 DEF AddSecret, UpdateSecret
<1>6. ASSUME NEW r \in SecretRows, DeleteSecret(q, r)
      PROVE  UNCHANGED <<schedule, secret, runs, tick, errors, now>>
  BY <1>1, <1>6 DEF DeleteSecret
<1>7. ASSUME NEW keys \in SUBSET Keys, NEW given \in BOOLEAN, NEW e \in BOOLEAN,
             RegisterPackage(q, keys, given, e)
      PROVE  UNCHANGED <<schedule, secret, runs, tick, errors, now>>
  BY <1>7 DEF RegisterPackage, Open
<1>8. CASE CreateRun(q)
  BY <1>8 DEF CreateRun, Open
<1>9. QED
  BY <1>2, <1>3, <1>4, <1>5, <1>6, <1>7, <1>8 DEF Handler

LEMMA HandlerType ==
    ASSUME TypeInv, NEW q \in Requests, Handler(q)
    PROVE  TypeInv'
<1>1. ASSUME NEW k \in Keys, SetSecret(q, k)
      PROVE  TypeInv'
  <2>1. PICK r \in SecretRows : TRUE
    BY <1>1 DEF SetSecret, RowsOf
  <2>2. QED
    BY <1>1, <2>1, SecretsType
<1>2. ASSUME NEW r \in SecretRows, DeleteSecret(q, r)
      PROVE  TypeInv'
  <2>1. PICK k \in Keys : TRUE
    BY SchedulesAssumption
  <2>2. QED
    BY <1>2, <2>1, SecretsType
<1>3. QED
  BY <1>1, <1>2, CreateScheduleType, UpdateScheduleType, ActivateScheduleType,
     DeactivateScheduleType, DeleteScheduleType, SecretsType, RegisterPackageType,
     CreateRunType DEF Handler

TickState == [busy : BOOLEAN, at : 0 .. MaxTime, due : SUBSET [id : Schedules, conf : Confs],
              row : SUBSET [id : Schedules, conf : Confs],
              fire : SUBSET [id : Schedules, next : Nat], ran : Nat]

\* The states of a worker's scheduler between the steps.
LEMMA TickKinds ==
    ASSUME TypeInv, NEW w \in Workers
    PROVE  /\ Resting \in TickState
           /\ TickSelect(w) => /\ tick' = [tick EXCEPT ![w] = tick'[w]] /\ tick'[w] \in TickState
                               /\ tick'[w].at = now /\ tick'[w].ran = 0
           /\ \A d \in [id : Schedules, conf : Confs] :
                TickSkip(w, d) \/ TickFire(w, d) \/ TickAdvance(w, d) \/ TickSwallows(w, d) =>
                    /\ tick' = [tick EXCEPT ![w] = tick'[w]] /\ tick'[w] \in TickState
                    /\ tick'[w].at = tick[w].at /\ tick'[w].busy = tick[w].busy
                    /\ TickFire(w, d) => tick'[w].ran = tick[w].ran + 1
                    /\ ~TickFire(w, d) => tick'[w].ran = tick[w].ran
<1>1. tick \in [Workers -> TickState] /\ tick[w] \in TickState /\ MaxTime \in Nat /\ now \in 1 .. MaxTime
  BY SchedulesAssumption DEF TypeInv, TypeOK, TickState
<1>2. Resting \in TickState
  BY <1>1 DEF Resting, TickState
<1>3. ASSUME TickSelect(w)
      PROVE  /\ tick' = [tick EXCEPT ![w] = tick'[w]] /\ tick'[w] \in TickState
             /\ tick'[w].at = now /\ tick'[w].ran = 0
  <2> DEFINE due == {[id |-> s, conf |-> schedule[s].conf] : s \in {x \in Schedules : Due(x, now)}}
             t   == [busy |-> TRUE, at |-> now, row |-> {}, fire |-> {}, ran |-> 0, due |-> due]
  <2>1. due \in SUBSET [id : Schedules, conf : Confs]
    <3>1. \A s \in Schedules : Due(s, now) => schedule[s].conf \in Confs
      BY Stepping DEF Due, Row
    <3>2. QED
      BY <3>1
  <2>2. t \in TickState /\ t.at = now /\ t.ran = 0
    BY <1>1, <2>1 DEF TickState
  <2>3. tick' = [tick EXCEPT ![w] = t]
    BY <1>3 DEF TickSelect
  <2> HIDE DEF t
  <2>4. tick'[w] = t
    BY <1>1, <2>3
  <2>5. QED
    BY <2>2, <2>3, <2>4
<1>4. ASSUME NEW d \in [id : Schedules, conf : Confs], NEW t \in TickState,
             tick' = [tick EXCEPT ![w] = t], t.at = tick[w].at, t.busy = tick[w].busy,
             TickFire(w, d) => t.ran = tick[w].ran + 1, ~TickFire(w, d) => t.ran = tick[w].ran
      PROVE  /\ tick' = [tick EXCEPT ![w] = tick'[w]] /\ tick'[w] \in TickState
             /\ tick'[w].at = tick[w].at /\ tick'[w].busy = tick[w].busy
             /\ TickFire(w, d) => tick'[w].ran = tick[w].ran + 1
             /\ ~TickFire(w, d) => tick'[w].ran = tick[w].ran
  <2>1. tick'[w] = t
    BY <1>1, <1>4
  <2>2. QED
    BY <1>4, <2>1
<1> DEFINE Moved(d) ==
             /\ tick' = [tick EXCEPT ![w] = tick'[w]] /\ tick'[w] \in TickState
             /\ tick'[w].at = tick[w].at /\ tick'[w].busy = tick[w].busy
             /\ TickFire(w, d) => tick'[w].ran = tick[w].ran + 1
             /\ ~TickFire(w, d) => tick'[w].ran = tick[w].ran
<1>5. ASSUME NEW d \in [id : Schedules, conf : Confs], TickSkip(w, d)
      PROVE  Moved(d)
  <2> DEFINE t == [tick[w] EXCEPT !.due = @ \ {d}]
  <2>1. t \in TickState /\ t.at = tick[w].at /\ t.busy = tick[w].busy /\ t.ran = tick[w].ran
    BY <1>1 DEF TickState
  <2>2. tick' = [tick EXCEPT ![w] = t] /\ ~TickFire(w, d)
    BY <1>5 DEF TickSkip, TickFire
  <2> HIDE DEF t
  <2>3. QED
    BY <1>4, <2>1, <2>2
<1>6. ASSUME NEW d \in [id : Schedules, conf : Confs], TickFire(w, d)
      PROVE  Moved(d)
  <2> DEFINE ran == tick[w].ran + 1
             t   == [tick[w] EXCEPT !.due = @ \ {d}, !.row = {d}, !.ran = ran]
  <2>1. tick' = [tick EXCEPT ![w] = t]
    BY <1>1, <1>6 DEF TickFire, TickState
  <2>2. ran \in Nat /\ ran = tick[w].ran + 1
    BY <1>1 DEF TickState
  <2> HIDE DEF ran
  <2>3. t \in TickState /\ t.at = tick[w].at /\ t.busy = tick[w].busy /\ t.ran = ran
    BY <1>1, <2>2 DEF TickState
  <2> HIDE DEF t
  <2>4. QED
    BY <1>4, <1>6, <2>1, <2>2, <2>3
<1>7. ASSUME NEW d \in [id : Schedules, conf : Confs], TickAdvance(w, d)
      PROVE  Moved(d)
  <2> DEFINE f == Advance(w, d)
             t == [tick[w] EXCEPT !.row = {}, !.fire = @ \cup {f}]
  <2>1. f \in [id : Schedules, next : Nat]
    <3>1. tick[w].at \in Nat /\ d.conf \in Confs /\ now \in Nat
      BY <1>1 DEF TickState
    <3>2. NextRun(d.conf, tick[w].at, now) \in Nat
      BY <3>1, NextRunType
    <3>3. QED
      BY <3>2 DEF Advance
  <2>2. tick' = [tick EXCEPT ![w] = t]
    BY <1>1, <1>7 DEF TickAdvance, TickState
  <2>3. ~TickFire(w, d)
    BY <1>7 DEF TickAdvance, TickFire
  <2> HIDE DEF f
  <2>4. t \in TickState /\ t.at = tick[w].at /\ t.busy = tick[w].busy /\ t.ran = tick[w].ran
    BY <1>1, <2>1 DEF TickState
  <2> HIDE DEF t
  <2>5. QED
    BY <1>4, <2>2, <2>3, <2>4
<1>8. ASSUME NEW d \in [id : Schedules, conf : Confs], TickSwallows(w, d)
      PROVE  Moved(d)
  <2> DEFINE t == [tick[w] EXCEPT !.row = {}]
  <2>1. t \in TickState /\ t.at = tick[w].at /\ t.busy = tick[w].busy /\ t.ran = tick[w].ran
    BY <1>1 DEF TickState
  <2>2. tick' = [tick EXCEPT ![w] = t] /\ ~TickFire(w, d)
    BY <1>8 DEF TickSwallows, TickFire
  <2> HIDE DEF t
  <2>3. QED
    BY <1>4, <2>1, <2>2
<1>9. QED
  BY <1>2, <1>3, <1>5, <1>6, <1>7, <1>8

LEMMA TickCommitType ==
    ASSUME TypeInv, NEW w \in Workers, TickCommit(w)
    PROVE  /\ TypeInv'
           /\ \A s \in Schedules : schedule'[s].last \in {tick[w].at, schedule[s].last}
<1>1. /\ schedule' = [s \in Schedules |->
            IF s \in LockedBy(w)
            THEN [schedule[s] EXCEPT !.last = tick[w].at,
                    !.next = (CHOOSE f \in tick[w].fire : f.id = s).next]
            ELSE schedule[s]]
      /\ runs' = [runs EXCEPT !.scheduled = @ + tick[w].ran]
      /\ tick' = [tick EXCEPT ![w] = Resting]
      /\ UNCHANGED <<package, secret, request, made, errors, now>>
  BY DEF TickCommit, apiVars
<1>2. tick \in [Workers -> TickState] /\ tick[w] \in TickState /\ MaxTime \in Nat
  BY SchedulesAssumption DEF TypeInv, TypeOK, TickState
<1>3. \A s \in Schedules :
        /\ schedule'[s] \in Row \cup {NoRow}
        /\ schedule'[s].last \in {tick[w].at, schedule[s].last}
  <2>1. TAKE s \in Schedules
  <2>2. CASE s \in LockedBy(w)
    <3>1. PICK f \in tick[w].fire : f.id = s /\ schedule[s].exists
      BY <2>2 DEF LockedBy
    <3>2. schedule[s] \in Row
      BY <3>1, Stepping
    <3>3. (CHOOSE g \in tick[w].fire : g.id = s).next \in Nat
      <4>1. (CHOOSE g \in tick[w].fire : g.id = s) \in tick[w].fire
        BY <3>1
      <4>2. tick[w].fire \subseteq [id : Schedules, next : Nat]
        BY <1>2 DEF TickState
      <4>3. QED
        BY <4>1, <4>2
    <3>4. tick[w].at \in Nat
      BY <1>2 DEF TickState
    <3> DEFINE next == (CHOOSE g \in tick[w].fire : g.id = s).next
               row  == [schedule[s] EXCEPT !.last = tick[w].at, !.next = next]
    <3>5. schedule'[s] = row
      BY <1>1, <2>2
    <3> HIDE DEF next
    <3>6. row \in Row /\ row.last = tick[w].at
      BY <3>2, <3>3, <3>4 DEF Row, next
    <3>7. QED
      BY <3>5, <3>6
  <2>3. CASE s \notin LockedBy(w)
    BY <1>1, <2>3, Stepping
  <2>4. QED
    BY <2>2, <2>3
<1>4. schedule' \in [Schedules -> Row \cup {NoRow}]
  BY <1>1, <1>3
<1>5. runs' \in [api : Nat, scheduled : Nat]
  <2>1. tick[w].ran \in Nat
    BY <1>2 DEF TickState
  <2>2. runs \in [api : Nat, scheduled : Nat]
    BY DEF TypeInv, TypeOK
  <2>3. runs.scheduled + tick[w].ran \in Nat
    BY <2>1, <2>2
  <2>4. QED
    BY <1>1, <2>2, <2>3
<1>6. tick' \in [Workers -> TickState]
  BY <1>1, <1>2, TickKinds
<1>7. errors' \in 0 .. MaxErrors /\ now' \in 1 .. MaxTime
  BY <1>1 DEF TypeInv, TypeOK
<1>8. TypeInv'
  BY <1>1, <1>4, <1>5, <1>6, <1>7, TicksType DEF TickState
<1>9. QED
  BY <1>3, <1>8

-----------------------------------------------------------------------------
(* The type invariant. *)

LEMMA TypeInvInit == Init => TypeInv
<1> SUFFICES ASSUME Init PROVE TypeInv
  OBVIOUS
<1>1. SessionsTyped
  BY DEF Init, Idle, NoWrites, SessionsTyped, PackageDiff, SecretDiffs
<1>2. \A f, set : set \in BOOLEAN => Provisioned(f, set) \in [SecretRows -> Secret \cup {NoSecret}]
  <2>1. TAKE f, set
  <2>2. HAVE set \in BOOLEAN
  <2>3. \A r \in SecretRows : (\E k \in Keys : f[k] = r) => (CHOOSE k \in Keys : f[k] = r) \in Keys
    OBVIOUS
  <2>4. \A k \in Keys : [exists |-> TRUE, key |-> k, set |-> set] \in Secret
    BY <2>2 DEF Secret
  <2>5. QED
    BY <2>3, <2>4 DEF Provisioned
<1>3. 1 \in 1 .. MaxTime /\ now \in Nat
  BY SchedulesAssumption DEF Init
<1>4. tick \in [Workers -> TickState]
  BY SchedulesAssumption DEF Init, Resting, TickState
<1>5. secret \in [SecretRows -> Secret \cup {NoSecret}]
  BY <1>2 DEF Init
<1>6. package \in [meta : Meta, enables : BOOLEAN]
  BY DEF Init, Meta
<1>7. schedule \in [Schedules -> Row \cup {NoRow}]
  <2>1. \A c \in Confs, set \in BOOLEAN : NewRow(c, set) \in Row
    BY <1>3, NewRowType
  <2>2. QED
    BY <2>1 DEF Init
<1>8. TypeOK
  <2>1. runs \in [api : Nat, scheduled : Nat]
    BY DEF Init
  <2>2. made \in 0 .. MaxRequests /\ errors \in 0 .. MaxErrors /\ now \in 1 .. MaxTime
    BY <1>3, SchedulesAssumption DEF Init
  <2>3. \A q \in Requests :
          /\ request[q].busy \in BOOLEAN /\ request[q].run \in {0, 1}
          /\ DOMAIN request[q].schedule \subseteq Schedules
          /\ DOMAIN request[q].package \subseteq {"meta", "enables"}
          /\ DOMAIN request[q].secret \subseteq SecretRows
    BY DEF Init, Idle, NoWrites
  <2>4. QED
    BY <1>4, <1>5, <1>6, <1>7, <2>1, <2>2, <2>3 DEF TypeOK, TickState
<1>9. QED
  BY <1>1, <1>8 DEF TypeInv

LEMMA TypeInvStep == TypeInv /\ [Next]_vars => TypeInv'
<1> SUFFICES ASSUME TypeInv, [Next]_vars PROVE TypeInv'
  OBVIOUS
<1>1. /\ schedule \in [Schedules -> Row \cup {NoRow}] /\ runs \in [api : Nat, scheduled : Nat]
      /\ tick \in [Workers -> TickState] /\ errors \in 0 .. MaxErrors /\ now \in 1 .. MaxTime
      /\ MaxTime \in Nat /\ MaxErrors \in Nat
  BY SchedulesAssumption DEF TypeInv, TypeOK, TickState
<1>2. ASSUME NEW q \in Requests, Handler(q) \/ Commit(q) \/ Rollback(q)
      PROVE  TypeInv'
  BY <1>2, HandlerType, CommitType, RollbackType
<1>3. ASSUME NEW w \in Workers, TickSelect(w)
      PROVE  TypeInv'
  <2>1. tick' = [tick EXCEPT ![w] = tick'[w]] /\ tick'[w] \in TickState
    BY <1>3, TickKinds
  <2>2. tick' \in [Workers -> TickState]
    BY <1>1, <2>1
  <2>3. UNCHANGED <<schedule, package, secret, runs, request, made, errors, now>>
    BY <1>3 DEF TickSelect, dbVars, apiVars
  <2>4. QED
    BY <1>1, <2>2, <2>3, TicksType DEF TickState
<1>4. ASSUME NEW w \in Workers, NEW d \in [id : Schedules, conf : Confs],
             TickSkip(w, d) \/ TickFire(w, d) \/ TickAdvance(w, d) \/ TickSwallows(w, d)
      PROVE  TypeInv'
  <2>1. tick' = [tick EXCEPT ![w] = tick'[w]] /\ tick'[w] \in TickState
    BY <1>4, TickKinds
  <2>2. tick' \in [Workers -> TickState]
    BY <1>1, <2>1
  <2>3. UNCHANGED <<schedule, package, secret, runs, request, made, now>>
    BY <1>4 DEF TickSkip, TickFire, TickAdvance, TickSwallows, dbVars, apiVars
  <2>4. errors' \in 0 .. MaxErrors
    BY <1>1, <1>4 DEF TickSkip, TickFire, TickAdvance, TickSwallows
  <2>5. QED
    BY <1>1, <2>2, <2>3, <2>4, TicksType DEF TickState
<1>5. ASSUME NEW w \in Workers, TickCommit(w)
      PROVE  TypeInv'
  BY <1>5, TickCommitType
<1>6. ASSUME NEW w \in Workers, TickFails(w)
      PROVE  TypeInv'
  <2>1. /\ tick' = [tick EXCEPT ![w] = Resting] /\ errors' = errors + 1 /\ errors < MaxErrors
        /\ UNCHANGED <<schedule, package, secret, runs, request, made, now>>
    BY <1>6 DEF TickFails, dbVars, apiVars
  <2>2. tick' \in [Workers -> TickState]
    BY <1>1, <2>1, TickKinds
  <2>3. errors' \in 0 .. MaxErrors
    BY <1>1, <2>1
  <2>4. QED
    BY <1>1, <2>1, <2>2, <2>3, TicksType DEF TickState
<1>7. ASSUME NEW by \in {"api", "scheduled"}, RunEnds(by)
      PROVE  TypeInv'
  <2>1. /\ runs[by] > 0 /\ runs' = [runs EXCEPT ![by] = @ - 1]
        /\ UNCHANGED <<schedule, package, secret, request, made, tick, errors, now>>
    BY <1>7 DEF RunEnds, apiVars
  <2>2. runs[by] - 1 \in Nat
    BY <1>1, <2>1
  <2>3. runs' \in [api : Nat, scheduled : Nat]
    BY <1>1, <2>1, <2>2
  <2>4. QED
    BY <1>1, <2>1, <2>3, TicksType DEF TickState
<1>8. CASE TimePasses
  <2>1. now' = now + 1 /\ now < MaxTime
        /\ UNCHANGED <<schedule, package, secret, runs, request, made, tick, errors>>
    BY <1>8 DEF TimePasses, dbVars, apiVars
  <2>2. now' \in 1 .. MaxTime
    BY <1>1, <2>1
  <2>3. QED
    BY <1>1, <2>1, <2>2, TicksType DEF TickState
<1>9. CASE UNCHANGED vars
  <2>1. UNCHANGED <<schedule, package, secret, runs, request, made, tick, errors, now>>
    BY <1>9 DEF vars, dbVars, apiVars
  <2>2. QED
    BY <1>1, <2>1, TicksType DEF TickState
<1>10. QED
  BY <1>2, <1>3, <1>4, <1>5, <1>6, <1>7, <1>8, <1>9 DEF Next, Tick, TickNothing

\* The rows, the sessions of the handlers and the ticks stay well-formed: no
\* partial write of a stale session leaves a row the code cannot read back.
THEOREM TypeCorrect == Spec => []TypeOK
<1>1. TypeInv => TypeOK
  BY DEF TypeInv
<1>2. QED
  BY <1>1, TypeInvInit, TypeInvStep, PTL DEF Spec

-----------------------------------------------------------------------------
(* One worker. With two, both select the due rows before either commits. *)

OneWorker == \A v, w \in Workers : v = w

\* The scheduler's own run, if any, is either in the database or in the open
\* transaction, and never two of them.
AloneInv ==
    /\ \A w \in Workers : tick[w].ran <= 1 /\ (tick[w].ran > 0 => runs.scheduled = 0)
    /\ runs.scheduled <= 1

\* A tick reads the clock once, and no row of the table is ahead of it.
ClockInv ==
    /\ \A s \in Schedules : schedule[s].last <= now
    /\ \A w \in Workers : tick[w].busy =>
        /\ tick[w].at <= now
        /\ \A s \in Schedules : schedule[s].last <= tick[w].at

LEMMA AloneInvStep ==
    ASSUME OneWorker, TypeInv, AloneInv, [Next]_vars
    PROVE  AloneInv'
<1>1. /\ runs \in [api : Nat, scheduled : Nat] /\ tick \in [Workers -> TickState]
      /\ \A w \in Workers : tick[w].ran \in Nat
  BY DEF TypeInv, TypeOK, TickState
<1>2. ASSUME UNCHANGED tick, runs'.scheduled <= runs.scheduled, runs'.scheduled \in Nat
      PROVE  AloneInv'
  BY <1>1, <1>2 DEF AloneInv
<1>3. ASSUME NEW q \in Requests, Handler(q) \/ Commit(q) \/ Rollback(q)
      PROVE  AloneInv'
  <2>1. UNCHANGED tick /\ runs'.scheduled = runs.scheduled
    BY <1>1, <1>3, HandlerFrame DEF Commit, Rollback, dbVars
  <2>2. QED
    BY <1>1, <1>2, <2>1
<1>4. ASSUME NEW w \in Workers, tick'[w].ran = 0, runs'.scheduled <= 1
      PROVE  AloneInv'
  BY <1>4 DEF AloneInv, OneWorker
<1>5. ASSUME NEW w \in Workers, TickSelect(w) \/ TickFails(w)
      PROVE  AloneInv'
  <2>1. tick'[w].ran = 0
    BY <1>1, <1>5, TickKinds DEF TickFails, Resting
  <2>2. UNCHANGED runs
    BY <1>5 DEF TickSelect, TickFails, dbVars
  <2>3. QED
    BY <1>4, <2>1, <2>2 DEF AloneInv
<1>6. ASSUME NEW w \in Workers, NEW d \in [id : Schedules, conf : Confs],
             TickSkip(w, d) \/ TickAdvance(w, d) \/ TickSwallows(w, d), ~TickFire(w, d)
      PROVE  AloneInv'
  <2>1. tick'[w].ran = tick[w].ran /\ UNCHANGED runs /\ \A v \in Workers : v = w
    BY <1>6, TickKinds DEF TickSkip, TickAdvance, TickSwallows, dbVars, OneWorker
  <2>2. QED
    BY <2>1 DEF AloneInv
<1>7. ASSUME NEW w \in Workers, NEW d \in [id : Schedules, conf : Confs], TickFire(w, d)
      PROVE  AloneInv'
  <2>1. tick'[w].ran = tick[w].ran + 1
    BY <1>7, TickKinds
  <2>2. tick[w].ran = 0 /\ runs.scheduled = 0 /\ UNCHANGED runs /\ \A v \in Workers : v = w
    BY <1>1, <1>7 DEF TickFire, HasActiveRun, dbVars, OneWorker
  <2>3. QED
    BY <2>1, <2>2 DEF AloneInv
<1>8. ASSUME NEW w \in Workers, TickCommit(w)
      PROVE  AloneInv'
  <2>1. /\ runs' = [runs EXCEPT !.scheduled = @ + tick[w].ran]
        /\ tick' = [tick EXCEPT ![w] = Resting]
    BY <1>8 DEF TickCommit
  <2>2. tick'[w].ran = 0
    BY <1>1, <2>1 DEF Resting
  <2>3. runs'.scheduled = runs.scheduled + tick[w].ran
    BY <1>1, <2>1
  <2>4. runs'.scheduled <= 1
    BY <1>1, <2>3 DEF AloneInv
  <2>5. QED
    BY <1>4, <2>2, <2>4
<1>9. ASSUME NEW by \in {"api", "scheduled"}, RunEnds(by)
      PROVE  AloneInv'
  BY <1>1, <1>2, <1>9 DEF RunEnds
<1>10. CASE TimePasses \/ UNCHANGED vars
  BY <1>1, <1>2, <1>10 DEF TimePasses, vars, dbVars
<1>11. QED
  BY <1>3, <1>5, <1>6, <1>7, <1>8, <1>9, <1>10 DEF Next, Tick, TickNothing

\* The scheduler skips a package that has a run (scheduler.py:99): one worker's
\* own runs never overlap, however many schedules come due at once and whatever
\* the handlers commit between its SELECT and its commit.
THEOREM OwnRunsDoNotOverlap ==
    ASSUME OneWorker
    PROVE  Spec => []NoOverlap
<1>1. Init => AloneInv
  <2>1. Init => runs.scheduled = 0 /\ \A w \in Workers : tick[w].ran = 0
    BY DEF Init, Resting
  <2>2. QED
    BY <2>1 DEF AloneInv
<1>2. TypeInv /\ AloneInv /\ [Next]_vars => AloneInv'
  BY AloneInvStep
<1>3. AloneInv => NoOverlap
  BY DEF AloneInv, NoOverlap
<1>4. QED
  BY <1>1, <1>2, <1>3, TypeInvInit, TypeInvStep, PTL DEF Spec

LEMMA ClockInvStep ==
    ASSUME OneWorker, TypeInv, ClockInv, [Next]_vars
    PROVE  ClockInv' /\ \A s \in Schedules :
              schedule[s].exists /\ schedule'[s].exists => schedule[s].last <= schedule'[s].last
<1> DEFINE Kept == \A s \in Schedules :
              schedule[s].exists /\ schedule'[s].exists => schedule[s].last <= schedule'[s].last
<1>1. /\ tick \in [Workers -> TickState] /\ now \in Nat /\ MaxTime \in Nat
      /\ \A s \in Schedules : schedule[s].last \in Nat
      /\ \A w \in Workers : tick[w].at \in Nat /\ tick[w].busy \in BOOLEAN
  BY Stepping, SchedulesAssumption DEF TypeInv, TypeOK, TickState
<1>2. ASSUME UNCHANGED tick, now' \in {now, now + 1},
             \A s \in Schedules : schedule'[s].last = schedule[s].last \/ schedule'[s] = NoRow
      PROVE  ClockInv' /\ Kept
  <2>1. NoRow.exists = FALSE /\ NoRow.last = 0
    BY NoRowFields
  <2>2. \A s \in Schedules : schedule'[s].last \in {0, schedule[s].last}
    BY <1>2, <2>1
  <2>3. Kept
    BY <1>1, <1>2, <2>1
  <2>4. QED
    BY <1>1, <1>2, <2>2, <2>3 DEF ClockInv
<1>3. ASSUME NEW q \in Requests, Handler(q) \/ Commit(q) \/ Rollback(q)
      PROVE  ClockInv' /\ Kept
  <2>1. UNCHANGED <<tick, now>>
    BY <1>3, HandlerFrame DEF Commit, Rollback
  <2>2. \A s \in Schedules : schedule'[s].last = schedule[s].last \/ schedule'[s] = NoRow
    BY <1>3, HandlerFrame, CommitType DEF Rollback, dbVars
  <2>3. QED
    BY <1>2, <2>1, <2>2
<1>4. ASSUME NEW w \in Workers, UNCHANGED <<schedule, now>>,
             tick'[w].busy => tick'[w].at = now \/ (tick[w].busy /\ tick'[w].at = tick[w].at)
      PROVE  ClockInv' /\ Kept
  <2>1. \A v \in Workers : v = w
    BY DEF OneWorker
  <2>2. QED
    BY <1>1, <1>4, <2>1 DEF ClockInv
<1>5. ASSUME NEW w \in Workers, TickSelect(w)
      PROVE  ClockInv' /\ Kept
  <2>1. tick'[w].at = now /\ UNCHANGED <<schedule, now>>
    BY <1>5, TickKinds DEF TickSelect, dbVars
  <2>2. QED
    BY <1>4, <2>1
<1>6. ASSUME NEW w \in Workers, NEW d \in [id : Schedules, conf : Confs],
             TickSkip(w, d) \/ TickFire(w, d) \/ TickAdvance(w, d) \/ TickSwallows(w, d)
      PROVE  ClockInv' /\ Kept
  <2>1. tick'[w].at = tick[w].at /\ tick'[w].busy = tick[w].busy /\ UNCHANGED <<schedule, now>>
    BY <1>6, TickKinds DEF TickSkip, TickFire, TickAdvance, TickSwallows, dbVars
  <2>2. QED
    BY <1>4, <2>1
<1>7. ASSUME NEW w \in Workers, TickFails(w)
      PROVE  ClockInv' /\ Kept
  <2>1. tick'[w].busy = FALSE /\ UNCHANGED <<schedule, now>>
    BY <1>1, <1>7 DEF TickFails, Resting, dbVars
  <2>2. QED
    BY <1>4, <2>1
<1>8. ASSUME NEW w \in Workers, TickCommit(w)
      PROVE  ClockInv' /\ Kept
  <2>1. \A s \in Schedules : schedule'[s].last \in {tick[w].at, schedule[s].last}
    BY <1>8, TickCommitType
  <2>2. tick[w].busy /\ tick'[w].busy = FALSE /\ now' = now /\ \A v \in Workers : v = w
    BY <1>1, <1>8 DEF TickCommit, Resting, OneWorker
  <2>3. QED
    BY <1>1, <2>1, <2>2 DEF ClockInv
<1>9. ASSUME NEW by \in {"api", "scheduled"}, RunEnds(by)
      PROVE  ClockInv' /\ Kept
  BY <1>2, <1>9 DEF RunEnds
<1>10. CASE TimePasses \/ UNCHANGED vars
  BY <1>2, <1>10 DEF TimePasses, vars, dbVars
<1>11. QED
  BY <1>3, <1>5, <1>6, <1>7, <1>8, <1>9, <1>10 DEF Next, Tick, TickNothing

\* A handler that read a schedule before a tick fired it, and commits after,
\* writes back only the columns it changed: last_run_time never goes back,
\* whatever the handlers and the order of the commits.
THEOREM LastRunStays ==
    ASSUME OneWorker
    PROVE  Spec => LastRunKept
<1>1. Init => ClockInv
  <2>1. SUFFICES ASSUME Init PROVE ClockInv
    OBVIOUS
  <2>2. \A s \in Schedules : schedule[s].last = 0
    BY <2>1, NoRowFields DEF Init, NewRow, Null
  <2>3. now = 1 /\ \A w \in Workers : ~tick[w].busy
    BY <2>1 DEF Init, Resting
  <2>4. QED
    BY <2>2, <2>3 DEF ClockInv
<1>2. TypeInv /\ ClockInv /\ [Next]_vars => ClockInv'
  BY ClockInvStep
<1>3. TypeInv /\ ClockInv /\ [Next]_vars =>
        [\A s \in Schedules :
            schedule[s].exists /\ schedule'[s].exists => schedule[s].last <= schedule'[s].last]_vars
  BY ClockInvStep
<1>4. QED
  BY <1>1, <1>2, <1>3, TypeInvInit, TypeInvStep, PTL DEF Spec, LastRunKept
=============================================================================
