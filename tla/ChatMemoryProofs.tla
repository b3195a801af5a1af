-------------------------- MODULE ChatMemoryProofs --------------------------
(***************************************************************************)
(* Proofs about ChatMemory, for every set of requests, every cap, every     *)
(* trigger and any number of messages.                                      *)
(***************************************************************************)
EXTENDS ChatMemory, FiniteSetTheorems, TLAPS

-----------------------------------------------------------------------------
(* Sets of messages. *)

LEMMA CapType == MaxRows \in Nat /\ MaxRows >= 2
  BY ChatAssumption DEF MaxRows

LEMMA IdsFinite ==
    ASSUME NEW S \in SUBSET Ids
    PROVE  IsFiniteSet(S) /\ Cardinality(S) \in Nat
<1>1. IsFiniteSet(Ids)
  BY FS_Interval, ChatAssumption DEF Ids
<1>2. QED
  BY <1>1, FS_Subset, FS_CardinalityType

LEMMA FewerRows ==
    ASSUME NEW S \in SUBSET Ids, NEW T \in SUBSET S
    PROVE  Cardinality(T) <= Cardinality(S)
  BY IdsFinite, FS_Subset

LEMMA RowsTogether ==
    ASSUME NEW S \in SUBSET Ids, NEW T \in SUBSET Ids
    PROVE  Cardinality(S \cup T) <= Cardinality(S) + Cardinality(T)
<1>1. Cardinality(S \cup T) = Cardinality(S) + Cardinality(T) - Cardinality(S \cap T)
  BY IdsFinite, FS_Union
<1>2. Cardinality(S \cap T) \in Nat /\ Cardinality(S) \in Nat /\ Cardinality(T) \in Nat
  BY IdsFinite
<1>3. QED
  BY <1>1, <1>2

LEMMA OldestRow ==
    ASSUME NEW S \in SUBSET Ids, S # {}
    PROVE  \E i \in S : \A j \in S : i <= j
<1>1. S \subseteq Nat
  BY DEF Ids
<1>2. PICK i \in S : \A j \in S : ~(<<j, i>> \in OpToRel(<, Nat))
  BY <1>1, NatLessThanWellFounded, WFMin
<1>3. \A j \in S : ~(j < i)
  BY <1>1, <1>2 DEF OpToRel
<1>4. QED
  BY <1>1, <1>3

\* What BeyondCap leaves of the rows it sees is within the cap: all but the
\* oldest of them are newer than that one.
LEMMA CapCaps ==
    ASSUME NEW rows \in SUBSET Ids
    PROVE  Cardinality(rows \ BeyondCap(rows)) <= MaxRows
<1> DEFINE kept == rows \ BeyondCap(rows)
<1>1. CASE kept = {}
  BY <1>1, FS_EmptySet, CapType
<1>2. CASE kept # {}
  <2>1. PICK i \in kept : \A j \in kept : i <= j
    BY <1>2, OldestRow
  <2>2. Newer(rows, i) \in SUBSET Ids /\ kept \in SUBSET Ids
    BY DEF Newer
  <2>3. kept \ {i} \subseteq Newer(rows, i)
    <3>1. \A j \in kept : j \in Int
      BY <2>2 DEF Ids
    <3>2. \A j \in kept \ {i} : j \in rows /\ j > i
      BY <2>1, <3>1
    <3>3. QED
      BY <3>2 DEF Newer
  <2>4. Cardinality(Newer(rows, i)) < MaxRows
    BY <2>2, IdsFinite, CapType DEF BeyondCap
  <2>5. Cardinality(kept \ {i}) = Cardinality(kept) - 1
    BY <2>1, <2>2, IdsFinite, FS_RemoveElement
  <2>6. Cardinality(kept \ {i}) <= Cardinality(Newer(rows, i))
    BY <2>2, <2>3, FewerRows
  <2>7. QED
    BY <2>2, <2>4, <2>5, <2>6, IdsFinite, CapType
<1>3. QED
  BY <1>1, <1>2

-----------------------------------------------------------------------------
(* The invariant. *)

Persisted == {q \in Requests : turn[q].at = "persisted"}

\* p flushed its rows before q flushed its own; both are still open.
Before(p, q) == \A i \in turn[p].mine, j \in turn[q].mine : i < j
Earlier(q)   == {p \in Persisted \ {q} : Before(p, q)}

\* The rows there will be if q commits now.
After(q) == (memory \cup turn[q].mine) \ turn[q].doomed

\* Rows are stored once, under ids that are never given again.
StoredRows == memory \subseteq stored /\ \A i \in stored : i < nextId

\* A flushed turn has one or two rows of its own, not stored yet.
OwnRows ==
    \A q \in Persisted :
        /\ turn[q].mine # {} /\ Cardinality(turn[q].mine) <= 2
        /\ turn[q].mine \cap stored = {}
        /\ \A i \in turn[q].mine : i < nextId

FlushedInOrder == \A p, q \in Persisted : p # q => Before(p, q) \/ Before(q, p)

\* A session that has rows to delete has seen enough newer ones.
DoomedAreOld ==
    \A q \in Persisted : \A i \in turn[q].doomed :
        Cardinality(Newer(stored \cup turn[q].mine, i)) >= MaxRows

\* What a summary is being made from.
SummarySources ==
    \A q \in Requests :
        /\ turn[q].at = "persisted" => turn[q].of \subseteq stored \cup turn[q].mine
        /\ turn[q].at = "forced" => turn[q].of \subseteq stored

\* A commit exceeds the cap by at most one turn for each other thread that
\* may have committed since the session looked: those still open that
\* flushed before it have not.
CommitBound ==
    \A q \in Persisted :
        Cardinality(After(q)) <= MaxRows + 2 * (Cardinality(Requests) - 1 - Cardinality(Earlier(q)))

ChatInv ==
    /\ TypeOK /\ StoredRows /\ OwnRows /\ FlushedInOrder /\ DoomedAreOld
    /\ SummarySources /\ SummaryOfStored /\ CommitBound /\ CapBound

-----------------------------------------------------------------------------
(* Types. *)

LEMMA WriteType ==
    ASSUME TypeOK, NEW of \in SUBSET Ids, NEW target \in SummaryIds \cup {NewRow}, Write(of, target)
    PROVE  summary' \in [SummaryIds -> SUBSET Ids]
<1>1. CASE of = {}
  BY <1>1 DEF Write, TypeOK
<1>2. CASE of # {}
  <2>1. PICK s \in SummaryIds : summary' = [summary EXCEPT ![s] = of]
    BY <1>2 DEF Write, Unused
  <2>2. QED
    BY <2>1 DEF TypeOK
<1>3. QED
  BY <1>1, <1>2

LEMMA InitType == Init => TypeOK
  BY ChatAssumption DEF Init, TypeOK, Idle, Session, NoSummary

LEMMA PersistType ==
    ASSUME TypeOK, NEW q \in Requests, NEW n \in 0 .. 2, PersistTurn(q, n)
    PROVE  TypeOK'
<1> DEFINE mine == nextId .. nextId + n - 1
<1>1. nextId' \in 1 .. MaxId + 1
  BY ChatAssumption DEF PersistTurn, TypeOK
<1>2. mine \in SUBSET Ids
  BY ChatAssumption DEF PersistTurn, TypeOK, Ids
<1>3. turn' \in [Requests -> Session]
  <2>1. CASE n = 0
    BY <2>1 DEF PersistTurn, TypeOK, Idle, Session
  <2>2. CASE n # 0
    <3>1. PICK r \in Refreshes(Seen(mine)) :
             turn' = [turn EXCEPT ![q] =
               [at |-> "persisted", mine |-> mine, doomed |-> BeyondCap(Seen(mine)),
                of |-> r[1], target |-> r[2]]]
      BY <2>2 DEF PersistTurn
    <3>2. Seen(mine) \in SUBSET Ids
      BY <1>2 DEF Seen, TypeOK
    <3>3. r[1] \in SUBSET Ids /\ r[2] \in SummaryIds \cup {NewRow}
      BY <3>2 DEF Refreshes, Summaries
    <3>4. BeyondCap(Seen(mine)) \in SUBSET Ids
      BY <3>2 DEF BeyondCap
    <3>5. [at |-> "persisted", mine |-> mine, doomed |-> BeyondCap(Seen(mine)),
           of |-> r[1], target |-> r[2]] \in Session
      BY <1>2, <3>3, <3>4 DEF Session
    <3>6. QED
      BY <3>1, <3>5 DEF TypeOK
  <2>3. QED
    BY <2>1, <2>2
<1>4. QED
  BY <1>1, <1>3 DEF PersistTurn, TypeOK

LEMMA StepType ==
    ASSUME TypeOK, [Next]_vars
    PROVE  TypeOK'
<1>1. ASSUME NEW q \in Requests, Chat(q) PROVE TypeOK'
  <2>1. turn' \in [Requests -> Session]
    BY <1>1 DEF Chat, TypeOK, Session
  <2>2. QED
    BY <1>1, <2>1 DEF Chat, TypeOK
<1>2. ASSUME NEW q \in Requests, NEW n \in 0 .. 2, PersistTurn(q, n) PROVE TypeOK'
  BY <1>2, PersistType
<1>3. ASSUME NEW q \in Requests, CommitTurn(q) PROVE TypeOK'
  <2>1. summary' \in [SummaryIds -> SUBSET Ids]
    BY <1>3, WriteType DEF CommitTurn, TypeOK, Session
  <2>2. QED
    BY <1>3, <2>1 DEF CommitTurn, TypeOK, Session, Idle
<1>4. ASSUME NEW q \in Requests, Rollback(q) PROVE TypeOK'
  BY <1>4 DEF Rollback, TypeOK, Session, Idle
<1>5. ASSUME NEW q \in Requests, ForceRefresh(q) PROVE TypeOK'
  <2>1. [Idle EXCEPT !.at = "forced", !.of = memory] \in Session
    BY DEF Idle, Session, TypeOK
  <2>2. QED
    BY <1>5, <2>1 DEF ForceRefresh, TypeOK
<1>6. ASSUME NEW q \in Requests, CommitForced(q) PROVE TypeOK'
  <2>1. summary' \in [SummaryIds -> SUBSET Ids]
    BY <1>6, WriteType DEF CommitForced, TypeOK, Session, Summaries
  <2>2. QED
    BY <1>6, <2>1 DEF CommitForced, TypeOK, Session, Idle
<1>7. ASSUME NEW c \in 1 .. nextId, Prune(c) PROVE TypeOK'
  BY <1>7 DEF Prune, TypeOK, NoSummary
<1>8. CASE UNCHANGED vars
  BY <1>8 DEF vars, TypeOK
<1>9. QED
  BY <1>1, <1>2, <1>3, <1>4, <1>5, <1>6, <1>7, <1>8 DEF Next

\* The rows, the summaries and the sessions of a conversation stay well-formed
\* (api/services/chat_memory_service.py).
THEOREM TypeCorrect == Spec => []TypeOK
<1>1. QED
  BY InitType, StepType, PTL DEF Spec

-----------------------------------------------------------------------------
(* Steps that neither flush nor commit a turn. *)

LEMMA EarlierFinite ==
    ASSUME NEW q
    PROVE  IsFiniteSet(Earlier(q)) /\ Cardinality(Earlier(q)) \in Nat
<1>1. Earlier(q) \in SUBSET Requests
  BY DEF Earlier, Persisted
<1>2. QED
  BY <1>1, ChatAssumption, FS_Subset, FS_CardinalityType

LEMMA AfterRows ==
    ASSUME TypeOK, NEW q \in Requests
    PROVE  After(q) \in SUBSET Ids /\ turn[q].mine \in SUBSET Ids
  BY DEF After, TypeOK, Session

\* Nothing is flushed, nothing stored: a session may have ended, rows may be gone.
Quiet ==
    /\ memory' \subseteq memory /\ stored' = stored /\ nextId' = nextId
    /\ \A p \in Requests : p \in Persisted' => p \in Persisted /\ turn'[p] = turn[p]

LEMMA QuietStep ==
    ASSUME ChatInv, TypeOK', Quiet
    PROVE  StoredRows' /\ OwnRows' /\ FlushedInOrder' /\ DoomedAreOld' /\ CommitBound' /\ CapBound'
<1> USE DEF ChatInv
<1>1. ASSUME NEW p \in Persisted' PROVE p \in Requests /\ p \in Persisted /\ turn'[p] = turn[p]
  BY <1>1 DEF Quiet, Persisted
<1>2. StoredRows'
  BY DEF StoredRows, Quiet
<1>3. OwnRows'
  BY <1>1 DEF OwnRows, Quiet
<1>4. FlushedInOrder'
  <2>1. SUFFICES ASSUME NEW p \in Persisted', NEW q \in Persisted', p # q
                 PROVE  Before(p, q)' \/ Before(q, p)'
    BY DEF FlushedInOrder
  <2>2. QED
    BY <1>1, <2>1 DEF FlushedInOrder, Before
<1>5. DoomedAreOld'
  BY <1>1 DEF DoomedAreOld, Newer, Quiet
<1>6. CommitBound'
  <2>1. SUFFICES ASSUME NEW q \in Persisted'
                 PROVE  Cardinality(After(q)') <= MaxRows + 2 * (Cardinality(Requests) - 1 - Cardinality(Earlier(q)'))
    BY DEF CommitBound
  <2>2. q \in Requests /\ q \in Persisted /\ turn'[q] = turn[q]
    BY <1>1
  <2>3. After(q)' \in SUBSET After(q)
    BY <2>2 DEF After, Quiet
  <2>4. Earlier(q)' \in SUBSET Earlier(q)
    BY <1>1, <2>2 DEF Earlier, Before
  <2>5. Cardinality(After(q)') <= Cardinality(After(q)) /\ Cardinality(After(q)') \in Nat /\ Cardinality(After(q)) \in Nat
    BY <2>2, <2>3, AfterRows, FewerRows, IdsFinite
  <2>6. Cardinality(Earlier(q)') <= Cardinality(Earlier(q)) /\ Cardinality(Earlier(q)') \in Nat
    BY <2>4, EarlierFinite, FS_Subset, FS_CardinalityType
  <2>7. Cardinality(After(q)) <= MaxRows + 2 * (Cardinality(Requests) - 1 - Cardinality(Earlier(q)))
    BY <2>2 DEF CommitBound
  <2>8. QED
    BY <2>5, <2>6, <2>7, EarlierFinite, CapType, ChatAssumption, FS_CardinalityType
<1>7. CapBound'
  <2>1. Cardinality(memory') <= Cardinality(memory) /\ Cardinality(memory') \in Nat /\ Cardinality(memory) \in Nat
    BY FewerRows, IdsFinite DEF Quiet, TypeOK
  <2>2. QED
    BY <2>1, CapType, ChatAssumption, FS_CardinalityType DEF CapBound
<1>8. QED
  BY <1>2, <1>3, <1>4, <1>5, <1>6, <1>7

LEMMA SummaryWritten ==
    ASSUME TypeOK, SummaryOfStored, stored \subseteq stored',
           NEW of, of \subseteq stored', NEW target \in SummaryIds \cup {NewRow}, Write(of, target)
    PROVE  SummaryOfStored'
<1>1. CASE of = {}
  BY <1>1 DEF Write, SummaryOfStored, Summaries
<1>2. CASE of # {}
  <2>1. PICK s \in SummaryIds : summary' = [summary EXCEPT ![s] = of]
    BY <1>2 DEF Write, Unused
  <2>2. QED
    BY <2>1 DEF TypeOK, SummaryOfStored, Summaries
<1>3. QED
  BY <1>1, <1>2

-----------------------------------------------------------------------------
(* A turn is flushed: it sees the committed rows and its own. *)

LEMMA FlushStep ==
    ASSUME ChatInv, TypeOK', NEW q \in Requests, NEW n \in 1 .. 2, PersistTurn(q, n)
    PROVE  ChatInv'
<1> USE DEF ChatInv
<1> DEFINE mine == nextId .. nextId + n - 1
<1>1. PICK r \in Refreshes(Seen(mine)) :
         turn' = [turn EXCEPT ![q] =
           [at |-> "persisted", mine |-> mine, doomed |-> BeyondCap(Seen(mine)),
            of |-> r[1], target |-> r[2]]]
  BY DEF PersistTurn
<1>2. /\ turn'[q].at = "persisted" /\ turn'[q].mine = mine /\ turn'[q].of = r[1]
      /\ turn'[q].doomed = BeyondCap(Seen(mine))
      /\ \A p \in Requests \ {q} : turn'[p] = turn[p]
  BY <1>1 DEF TypeOK
<1>3. memory' = memory /\ stored' = stored /\ summary' = summary /\ nextId' = nextId + n
  BY DEF PersistTurn
<1>4. Persisted' = Persisted \cup {q} /\ q \notin Persisted
  BY <1>2 DEF Persisted, PersistTurn
<1>5. nextId \in Nat /\ mine \in SUBSET Ids /\ mine # {} /\ \A i \in mine : i >= nextId /\ i < nextId'
  <2>1. nextId \in Nat /\ MaxId \in Nat /\ nextId >= 1 /\ nextId + n <= MaxId + 1
    BY ChatAssumption DEF TypeOK, PersistTurn
  <2>2. nextId \in mine /\ \A i \in mine : i \in Int /\ i >= nextId /\ i < nextId + n
    BY <2>1
  <2>3. \A i \in mine : i \in Ids
    BY <2>1, <2>2 DEF Ids
  <2>4. QED
    BY <1>3, <2>1, <2>2, <2>3
<1>6. StoredRows'
  BY <1>3, <1>5 DEF StoredRows, TypeOK, Ids
<1>7. OwnRows'
  <2>1. Cardinality(mine) <= 2
    <3>1. nextId \in Int /\ nextId + n - 1 \in Int
      BY <1>5
    <3>2. Cardinality(mine) = IF nextId > nextId + n - 1 THEN 0 ELSE nextId + n - 1 - nextId + 1
      BY <3>1, FS_Interval
    <3>3. QED
      BY <1>5, <3>2
  <2>2. mine \cap stored = {}
    BY <1>5 DEF StoredRows, TypeOK, Ids
  <2>3. ASSUME NEW p \in Persisted
        PROVE  /\ turn'[p].mine # {} /\ Cardinality(turn'[p].mine) <= 2
               /\ turn'[p].mine \cap stored' = {}
               /\ \A i \in turn'[p].mine : i < nextId'
    <3>1. p \in Requests \ {q} /\ turn'[p] = turn[p]
      BY <1>2, <1>4 DEF Persisted
    <3>2. turn[p].mine \subseteq Int
      BY <3>1, AfterRows DEF Ids
    <3>3. QED
      BY <1>3, <1>5, <3>1, <3>2 DEF OwnRows
  <2>4. QED
    BY <1>2, <1>3, <1>4, <1>5, <2>1, <2>2, <2>3 DEF OwnRows
<1>8. ASSUME NEW p \in Persisted PROVE Before(p, q)' /\ ~Before(q, p)'
  <2>1. p \in Requests \ {q} /\ turn'[p] = turn[p]
    BY <1>2, <1>4 DEF Persisted
  <2>2. turn[p].mine \subseteq Int /\ turn[p].mine # {} /\ \A i \in turn[p].mine : i < nextId
    BY <2>1, AfterRows DEF Ids, OwnRows
  <2>3. \A i \in turn[p].mine, j \in mine : i < j /\ ~(j < i)
    BY <1>5, <2>2 DEF Ids
  <2>4. QED
    BY <1>2, <1>5, <2>1, <2>2, <2>3 DEF Before
<1>9. FlushedInOrder'
  <2>1. SUFFICES ASSUME NEW p \in Persisted', NEW u \in Persisted', p # u
                 PROVE  Before(p, u)' \/ Before(u, p)'
    BY DEF FlushedInOrder
  <2>2. CASE p = q \/ u = q
    BY <1>4, <1>8, <2>1, <2>2
  <2>3. CASE p # q /\ u # q
    <3>1. p \in Persisted /\ u \in Persisted /\ turn'[p] = turn[p] /\ turn'[u] = turn[u]
      BY <1>2, <1>4, <2>1, <2>3 DEF Persisted
    <3>2. QED
      BY <2>1, <3>1 DEF FlushedInOrder, Before
  <2>4. QED
    BY <2>2, <2>3
<1>10. DoomedAreOld'
  <2>1. ASSUME NEW i \in BeyondCap(Seen(mine))
        PROVE  Cardinality(Newer(stored \cup mine, i)) >= MaxRows
    <3>1. Newer(Seen(mine), i) \in SUBSET Newer(stored \cup mine, i)
      BY DEF Newer, Seen, StoredRows
    <3>2. Newer(stored \cup mine, i) \in SUBSET Ids
      BY <1>5 DEF Newer, TypeOK
    <3>3. Cardinality(Newer(Seen(mine), i)) <= Cardinality(Newer(stored \cup mine, i))
      BY <3>1, <3>2, FewerRows
    <3>4. Cardinality(Newer(Seen(mine), i)) >= MaxRows
      BY DEF BeyondCap
    <3>5. Newer(Seen(mine), i) \in SUBSET Ids
      BY <3>1, <3>2
    <3>6. Cardinality(Newer(Seen(mine), i)) \in Nat /\ Cardinality(Newer(stored \cup mine, i)) \in Nat
      BY <3>2, <3>5, IdsFinite
    <3>7. QED
      BY <3>3, <3>4, <3>6, CapType
  <2>2. ASSUME NEW p \in Persisted PROVE turn'[p] = turn[p]
    BY <1>2, <1>4 DEF Persisted
  <2>3. QED
    BY <1>2, <1>3, <1>4, <2>1, <2>2 DEF DoomedAreOld, Newer
<1>11. SummarySources' /\ SummaryOfStored'
  <2>1. r[1] \subseteq stored \cup mine
    BY DEF Refreshes, Seen, StoredRows
  <2>2. SummarySources'
    BY <1>2, <1>3, <2>1 DEF SummarySources
  <2>3. QED
    BY <1>3, <2>2 DEF SummaryOfStored, Summaries
<1>12. CapBound'
  BY <1>3 DEF CapBound
<1>13. CommitBound'
  <2>1. ASSUME NEW p \in Persisted' PROVE Cardinality(After(p)') <= MaxRows + 2 * (Cardinality(Requests) - 1 - Cardinality(Earlier(p)'))
    <3>1. CASE p = q
      <4>1. After(q)' = Seen(mine) \ BeyondCap(Seen(mine))
        BY <1>2, <1>3 DEF After, Seen
      <4>2. Cardinality(After(q)') <= MaxRows
        BY <1>5, <4>1, CapCaps DEF Seen, TypeOK
      <4>3. Earlier(q)' \in SUBSET (Requests \ {q})
        BY DEF Earlier, Persisted
      <4>4. /\ Cardinality(Requests \ {q}) = Cardinality(Requests) - 1 /\ Cardinality(Requests) \in Nat
            /\ IsFiniteSet(Requests \ {q})
        BY ChatAssumption, FS_RemoveElement, FS_CardinalityType
      <4>5. Cardinality(Earlier(q)') <= Cardinality(Requests \ {q}) /\ Cardinality(Earlier(q)') \in Nat
        BY <4>3, <4>4, FS_Subset, FS_CardinalityType
      <4>6. After(q)' \in SUBSET Ids
        BY <1>5, <4>1 DEF Seen, TypeOK
      <4>7. QED
        BY <3>1, <4>2, <4>4, <4>5, <4>6, CapType, IdsFinite
    <3>2. CASE p # q
      <4>1. p \in Persisted /\ turn'[p] = turn[p]
        BY <1>2, <1>4, <3>2 DEF Persisted
      <4>2. After(p)' = After(p)
        BY <1>3, <4>1 DEF After
      <4>3. Earlier(p)' = Earlier(p)
        <5>1. \A u \in Persisted : turn'[u] = turn[u]
          BY <1>2, <1>4 DEF Persisted
        <5>2. \A u \in Persisted : Before(u, p)' <=> Before(u, p)
          BY <4>1, <5>1 DEF Before
        <5>3. QED
          BY <1>4, <1>8, <4>1, <5>2 DEF Earlier
      <4>4. QED
        BY <4>1, <4>2, <4>3 DEF CommitBound
    <3>3. QED
      BY <3>1, <3>2
  <2>2. QED
    BY <2>1 DEF CommitBound
<1>14. QED
  BY <1>6, <1>7, <1>9, <1>10, <1>11, <1>12, <1>13

-----------------------------------------------------------------------------
(* A turn is committed. *)

LEMMA CommitStep ==
    ASSUME ChatInv, TypeOK', NEW q \in Requests, CommitTurn(q)
    PROVE  ChatInv'
<1> USE DEF ChatInv
<1>1. /\ q \in Persisted /\ Persisted' = Persisted \ {q}
      /\ \A p \in Requests \ {q} : turn'[p] = turn[p]
      /\ turn'[q].at = "idle"
  BY DEF CommitTurn, Persisted, TypeOK, Idle
<1>2. memory' = After(q) /\ stored' = stored \cup turn[q].mine /\ nextId' = nextId
  BY DEF CommitTurn, After
<1>3. ASSUME NEW p \in Persisted' PROVE p \in Requests /\ p \in Persisted /\ p # q /\ turn'[p] = turn[p]
  BY <1>1, <1>3 DEF Persisted
<1>4. turn[q].mine \in SUBSET Ids /\ After(q) \in SUBSET Ids /\ stored \in SUBSET Ids
  BY AfterRows DEF TypeOK
<1>5. StoredRows'
  BY <1>1, <1>2 DEF StoredRows, After, OwnRows
<1>6. ASSUME NEW p \in Persisted' PROVE turn[p].mine \cap turn[q].mine = {}
  <2>1. Before(p, q) \/ Before(q, p)
    BY <1>1, <1>3 DEF FlushedInOrder
  <2>2. turn[p].mine \subseteq Int
    BY <1>3, AfterRows DEF Ids
  <2>3. QED
    BY <2>1, <2>2 DEF Before
<1>7. OwnRows'
  BY <1>2, <1>3, <1>6 DEF OwnRows
<1>8. FlushedInOrder'
  <2>1. SUFFICES ASSUME NEW p \in Persisted', NEW u \in Persisted', p # u
                 PROVE  Before(p, u)' \/ Before(u, p)'
    BY DEF FlushedInOrder
  <2>2. QED
    BY <1>3, <2>1 DEF FlushedInOrder, Before
<1>9. DoomedAreOld'
  <2>1. SUFFICES ASSUME NEW p \in Persisted', NEW i \in turn[p].doomed
                 PROVE  Cardinality(Newer(stored' \cup turn[p].mine, i)) >= MaxRows
    BY <1>3 DEF DoomedAreOld, Newer
  <2>2. Newer(stored \cup turn[p].mine, i) \in SUBSET Newer(stored' \cup turn[p].mine, i)
    BY <1>2 DEF Newer
  <2>3. Newer(stored' \cup turn[p].mine, i) \in SUBSET Ids
    BY <1>2, <1>3, <1>4, AfterRows DEF Newer
  <2>4. Newer(stored \cup turn[p].mine, i) \in SUBSET Ids
    BY <2>2, <2>3
  <2>5. Cardinality(Newer(stored \cup turn[p].mine, i)) >= MaxRows
    BY <1>3 DEF DoomedAreOld
  <2>6. Cardinality(Newer(stored \cup turn[p].mine, i)) <= Cardinality(Newer(stored' \cup turn[p].mine, i))
    BY <2>2, <2>3, FewerRows
  <2>7. /\ Cardinality(Newer(stored \cup turn[p].mine, i)) \in Nat
        /\ Cardinality(Newer(stored' \cup turn[p].mine, i)) \in Nat
    BY <2>3, <2>4, IdsFinite
  <2>8. QED
    BY <2>5, <2>6, <2>7, CapType
<1>10. SummarySources'
  BY <1>1, <1>2, <1>3 DEF SummarySources, Persisted
<1>11. SummaryOfStored'
  <2>1. turn[q].of \subseteq stored'
    BY <1>1, <1>2 DEF SummarySources, Persisted
  <2>2. turn[q].target \in SummaryIds \cup {NewRow}
    BY DEF TypeOK, Session
  <2>3. QED
    BY <1>2, <2>1, <2>2, SummaryWritten DEF CommitTurn
<1>12. /\ Cardinality(After(q)) \in Nat /\ Cardinality(Requests) \in Nat /\ Cardinality(Earlier(q)) \in Nat
       /\ Cardinality(After(q)) <= MaxRows + 2 * (Cardinality(Requests) - 1 - Cardinality(Earlier(q)))
  BY <1>1, <1>4, IdsFinite, EarlierFinite, ChatAssumption, FS_CardinalityType DEF CommitBound
<1>13. CapBound'
  BY <1>2, <1>12, CapType DEF CapBound
<1>14. ASSUME NEW p \in Persisted'
       PROVE  Cardinality(After(p)') <= MaxRows + 2 * (Cardinality(Requests) - 1 - Cardinality(Earlier(p)'))
  <2>1. p \in Requests /\ p \in Persisted /\ p # q /\ turn'[p] = turn[p]
    BY <1>3
  <2>2. After(p)' = (After(q) \cup turn[p].mine) \ turn[p].doomed
    BY <1>2, <2>1 DEF After
  <2>3. Earlier(p)' = Earlier(p) \ {q}
    <3>1. \A u \in Persisted \ {q} : turn'[u] = turn[u]
      BY <1>1 DEF Persisted
    <3>2. \A u \in Persisted \ {q} : Before(u, p)' <=> Before(u, p)
      BY <2>1, <3>1 DEF Before
    <3>3. QED
      BY <1>1, <2>1, <3>2 DEF Earlier
  <2>4. /\ turn[p].mine \in SUBSET Ids /\ After(p) \in SUBSET Ids /\ After(p)' \in SUBSET Ids
        /\ Cardinality(turn[p].mine) \in Nat /\ Cardinality(turn[q].mine) \in Nat
        /\ Cardinality(After(p)) \in Nat /\ Cardinality(After(p)') \in Nat
    BY <1>4, <2>1, <2>2, AfterRows, IdsFinite
  <2>5. Cardinality(turn[p].mine) <= 2 /\ Cardinality(turn[q].mine) <= 2
    BY <1>1, <2>1 DEF OwnRows
  <2>6. /\ IsFiniteSet(Earlier(p)) /\ Cardinality(Earlier(p)) \in Nat
        /\ IsFiniteSet(Earlier(p)') /\ Cardinality(Earlier(p)') \in Nat
        /\ IsFiniteSet(Earlier(q))
    <3>1. IsFiniteSet(Earlier(p)) /\ Cardinality(Earlier(p)) \in Nat /\ IsFiniteSet(Earlier(q))
      BY EarlierFinite
    <3>2. Earlier(p)' \in SUBSET Earlier(p)
      BY <2>3
    <3>3. QED
      BY <3>1, <3>2, FS_Subset, FS_CardinalityType
  <2>7. CASE Before(q, p)
    <3>1. q \in Earlier(p)
      BY <1>1, <2>1, <2>7 DEF Earlier
    <3>2. Cardinality(Earlier(p)') = Cardinality(Earlier(p)) - 1
      BY <2>3, <2>6, <3>1, FS_RemoveElement
    <3>3. After(p)' \in SUBSET (After(p) \cup turn[q].mine)
      BY <2>2 DEF After
    <3>4. Cardinality(After(p)') <= Cardinality(After(p) \cup turn[q].mine)
      BY <1>4, <2>4, <3>3, FewerRows
    <3>5. Cardinality(After(p) \cup turn[q].mine) <= Cardinality(After(p)) + Cardinality(turn[q].mine)
      BY <1>4, <2>4, RowsTogether
    <3>6. Cardinality(After(p) \cup turn[q].mine) \in Nat
      BY <1>4, <2>4, IdsFinite
    <3>7. Cardinality(After(p)) <= MaxRows + 2 * (Cardinality(Requests) - 1 - Cardinality(Earlier(p)))
      BY <2>1 DEF CommitBound
    <3>8. QED
      BY <1>12, <2>4, <2>5, <2>6, <3>2, <3>4, <3>5, <3>6, <3>7, CapType
  <2>8. CASE ~Before(q, p)
    <3>1. Before(p, q)
      BY <1>1, <2>1, <2>8 DEF FlushedInOrder
    <3>2. p \in Earlier(q)
      BY <2>1, <3>1 DEF Earlier
    <3>3. Earlier(p)' \in SUBSET (Earlier(q) \ {p})
      <4>1. SUFFICES ASSUME NEW u \in Persisted \ {p, q}, Before(u, p)
                     PROVE  Before(u, q)
        BY <2>3 DEF Earlier
      <4>2. /\ turn[u].mine \subseteq Int /\ turn[p].mine \subseteq Int /\ turn[q].mine \subseteq Int
            /\ turn[p].mine # {}
        BY <1>4, <2>1, <4>1, AfterRows DEF Ids, OwnRows, Persisted
      <4>3. QED
        BY <3>1, <4>1, <4>2 DEF Before
    <3>4. Cardinality(Earlier(p)') <= Cardinality(Earlier(q)) - 1
      <4>1. IsFiniteSet(Earlier(q) \ {p}) /\ Cardinality(Earlier(q) \ {p}) = Cardinality(Earlier(q)) - 1
        BY <2>6, <3>2, FS_RemoveElement
      <4>2. Cardinality(Earlier(p)') <= Cardinality(Earlier(q) \ {p})
        BY <3>3, <4>1, FS_Subset
      <4>3. QED
        BY <4>1, <4>2
    <3>5. After(p)' \in SUBSET (After(q) \cup turn[p].mine)
      BY <2>2
    <3>6. Cardinality(After(p)') <= Cardinality(After(q) \cup turn[p].mine)
      BY <1>4, <2>4, <3>5, FewerRows
    <3>7. Cardinality(After(q) \cup turn[p].mine) <= Cardinality(After(q)) + Cardinality(turn[p].mine)
      BY <1>4, <2>4, RowsTogether
    <3>8. Cardinality(After(q) \cup turn[p].mine) \in Nat
      BY <1>4, <2>4, IdsFinite
    <3>9. QED
      BY <1>12, <2>4, <2>5, <2>6, <3>4, <3>6, <3>7, <3>8, CapType
  <2>9. QED
    BY <2>7, <2>8
<1>15. CommitBound'
  BY <1>14 DEF CommitBound
<1>16. QED
  BY <1>5, <1>7, <1>8, <1>9, <1>10, <1>11, <1>13, <1>15

-----------------------------------------------------------------------------
LEMMA InitInv == Init => ChatInv
<1> SUFFICES ASSUME Init PROVE ChatInv
  OBVIOUS
<1>1. TypeOK
  BY InitType
<1>2. Persisted = {}
  BY DEF Init, Persisted, Idle
<1>3. StoredRows /\ OwnRows /\ FlushedInOrder /\ DoomedAreOld /\ CommitBound
  BY <1>2 DEF Init, StoredRows, OwnRows, FlushedInOrder, DoomedAreOld, CommitBound
<1>4. SummarySources /\ SummaryOfStored
  BY DEF Init, SummarySources, SummaryOfStored, Summaries, Idle
<1>5. CapBound
  <2>1. Cardinality(memory) = 0
    BY FS_EmptySet DEF Init
  <2>2. QED
    BY <2>1, CapType, ChatAssumption, FS_CardinalityType DEF CapBound
<1>6. QED
  BY <1>1, <1>3, <1>4, <1>5 DEF ChatInv

LEMMA StepInv == ChatInv /\ [Next]_vars => ChatInv'
<1> SUFFICES ASSUME ChatInv, [Next]_vars PROVE ChatInv'
  OBVIOUS
<1>1. TypeOK /\ TypeOK'
  BY StepType DEF ChatInv
<1>2. ASSUME Quiet, SummarySources', SummaryOfStored' PROVE ChatInv'
  BY <1>1, <1>2, QuietStep DEF ChatInv
<1>3. ASSUME NEW q \in Requests, Chat(q) PROVE ChatInv'
  <2>1. Quiet
    BY <1>1, <1>3 DEF Quiet, Chat, Persisted, TypeOK
  <2>2. SummarySources' /\ SummaryOfStored'
    BY <1>1, <1>3 DEF Chat, ChatInv, SummarySources, SummaryOfStored, Summaries, TypeOK
  <2>3. QED
    BY <1>2, <2>1, <2>2
<1>4. ASSUME NEW q \in Requests, NEW n \in 0 .. 2, PersistTurn(q, n) PROVE ChatInv'
  <2>1. CASE n = 0
    <3>1. turn' = [turn EXCEPT ![q] = Idle] /\ UNCHANGED <<memory, stored, nextId, summary>>
      BY <1>1, <1>4, <2>1 DEF PersistTurn, TypeOK
    <3>2. Quiet
      BY <1>1, <3>1 DEF Quiet, Persisted, TypeOK, Idle
    <3>3. SummarySources' /\ SummaryOfStored'
      BY <1>1, <3>1 DEF ChatInv, SummarySources, SummaryOfStored, Summaries, TypeOK, Idle
    <3>4. QED
      BY <1>2, <3>2, <3>3
  <2>2. CASE n # 0
    BY <1>1, <1>4, <2>2, FlushStep
  <2>3. QED
    BY <2>1, <2>2
<1>5. ASSUME NEW q \in Requests, CommitTurn(q) PROVE ChatInv'
  BY <1>1, <1>5, CommitStep
<1>6. ASSUME NEW q \in Requests, Rollback(q) PROVE ChatInv'
  <2>1. Quiet
    BY <1>1, <1>6 DEF Quiet, Rollback, Persisted, TypeOK, Idle
  <2>2. SummarySources' /\ SummaryOfStored'
    BY <1>1, <1>6 DEF Rollback, ChatInv, SummarySources, SummaryOfStored, Summaries, TypeOK, Idle
  <2>3. QED
    BY <1>2, <2>1, <2>2
<1>7. ASSUME NEW q \in Requests, ForceRefresh(q) PROVE ChatInv'
  <2>1. turn'[q].at = "forced" /\ turn'[q].of = memory /\ \A p \in Requests \ {q} : turn'[p] = turn[p]
    BY <1>1, <1>7 DEF ForceRefresh, TypeOK, Idle
  <2>2. Quiet
    BY <1>1, <1>7, <2>1 DEF Quiet, ForceRefresh, Persisted
  <2>3. SummarySources' /\ SummaryOfStored'
    BY <1>7, <2>1 DEF ForceRefresh, ChatInv, StoredRows, SummarySources, SummaryOfStored, Summaries
  <2>4. QED
    BY <1>2, <2>2, <2>3
<1>8. ASSUME NEW q \in Requests, CommitForced(q) PROVE ChatInv'
  <2>1. Quiet
    BY <1>1, <1>8 DEF Quiet, CommitForced, Persisted, TypeOK, Idle
  <2>2. SummaryOfStored'
    <3>1. PICK s \in SummaryIds \cup {NewRow} : Write(turn[q].of, s)
      BY <1>8 DEF CommitForced, Summaries
    <3>2. turn[q].of \subseteq stored' /\ stored' = stored
      BY <1>8 DEF CommitForced, ChatInv, SummarySources
    <3>3. QED
      BY <1>1, <3>1, <3>2, SummaryWritten DEF ChatInv
  <2>3. SummarySources'
    BY <1>1, <1>8 DEF CommitForced, ChatInv, SummarySources, TypeOK, Idle
  <2>4. QED
    BY <1>2, <2>1, <2>2, <2>3
<1>9. ASSUME NEW c \in 1 .. nextId, Prune(c) PROVE ChatInv'
  <2>1. Quiet
    BY <1>9 DEF Quiet, Prune, Persisted
  <2>2. SummarySources' /\ SummaryOfStored'
    BY <1>1, <1>9 DEF Prune, ChatInv, SummarySources, SummaryOfStored, Summaries, NoSummary
  <2>3. QED
    BY <1>2, <2>1, <2>2
<1>10. CASE UNCHANGED vars
  <2>1. Quiet
    BY <1>10 DEF Quiet, vars, Persisted
  <2>2. SummarySources' /\ SummaryOfStored'
    BY <1>10 DEF vars, ChatInv, SummarySources, SummaryOfStored, Summaries
  <2>3. QED
    BY <1>2, <2>1, <2>2
<1>11. QED
  BY <1>3, <1>4, <1>5, <1>6, <1>7, <1>8, <1>9, <1>10 DEF Next

LEMMA Invariance == Spec => []ChatInv
<1>1. QED
  BY InitInv, StepInv, PTL DEF Spec

\* Turns that overlap exceed the cap on stored turns by at most one turn for
\* each other thread of the API, for every number of threads and every cap
\* (enforce_max_stored_turns sees only its own and the committed rows).
THEOREM CapHolds == Spec => []CapBound
<1>1. ChatInv => CapBound
  BY DEF ChatInv
<1>2. QED
  BY <1>1, Invariance, PTL

\* No summary is made of a message that was not stored, whichever turns failed
\* while it was being made (maybe_refresh_summary, force_refresh_summary).
THEOREM SummariesAreOfStored == Spec => []SummaryOfStored
<1>1. ChatInv => SummaryOfStored
  BY DEF ChatInv
<1>2. QED
  BY <1>1, Invariance, PTL

\* The cap deletes no message that is among the newest 2 * MaxTurns when the
\* deletion commits (enforce_max_stored_turns).
THEOREM NewestStay == Spec => NewestKept
<1> DEFINE Kept ==
      \A i \in memory \ memory' :
          \/ Cardinality(Newer(stored', i)) >= MaxRows
          \/ \E c \in 1 .. MaxId + 1 : Prune(c)
<1>1. ChatInv /\ [Next]_vars => [Kept]_vars
  <2> SUFFICES ASSUME ChatInv, Next PROVE Kept
    BY DEF Kept
  <2>1. ASSUME NEW q \in Requests, CommitTurn(q) PROVE Kept
    <3>1. q \in Persisted /\ stored' = stored \cup turn[q].mine /\ memory \ memory' \subseteq turn[q].doomed
      BY <2>1 DEF CommitTurn, Persisted
    <3>2. QED
      BY <3>1 DEF ChatInv, DoomedAreOld, Newer
  <2>2. ASSUME NEW c \in 1 .. nextId, Prune(c) PROVE Kept
    <3>1. c \in 1 .. MaxId + 1
      BY ChatAssumption DEF ChatInv, TypeOK
    <3>2. QED
      BY <2>2, <3>1
  <2>3. CASE memory' = memory
    BY <2>3
  <2>4. QED
    BY <2>1, <2>2, <2>3 DEF Next, Chat, PersistTurn, Rollback, ForceRefresh, CommitForced
<1>2. QED
  BY <1>1, Invariance, PTL DEF Spec, NewestKept
=============================================================================
