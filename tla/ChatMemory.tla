----------------------------- MODULE ChatMemory -----------------------------
(***************************************************************************)
(* The stored memory of one conversation with one LLM provider               *)
(* (api/services/chat_memory_service.py, api/routers/chat.py): its messages, *)
(* capped to the newest, and its summary. Every request of the conversation  *)
(* carries the same conversation and session ids.                            *)
(*                                                                           *)
(* A chat request is one database session around two calls of the LLM, the   *)
(* answer and, now and then, a new summary; each may take seconds, and other *)
(* requests of the conversation come and go meanwhile. What it writes it has *)
(* computed from the rows committed before its last call.                    *)
(***************************************************************************)
EXTENDS Integers, FiniteSets

CONSTANTS
    Requests,      \* threads of the API
    MaxTurns,      \* LLM_CHAT_MEMORY_MAX_TURNS
    TriggerTurns,  \* LLM_CHAT_MEMORY_SUMMARIZATION_TRIGGER_TURNS
    SummaryIds,    \* ids of llm_chat_summary
    NewRow,        \* "insert a summary" instead of the id of one to update
    MaxId          \* bound on the messages a behaviour writes

ASSUME ChatAssumption ==
    /\ IsFiniteSet(Requests) /\ NewRow \notin SummaryIds
    /\ {MaxTurns, TriggerTurns} \subseteq Nat \ {0} /\ MaxId \in Nat

Ids == 1 .. MaxId   \* ids of llm_chat_memory, in the order of created_at

VARIABLES
    memory,   \* the conversation's rows of llm_chat_memory
    stored,   \* every row a commit has ever stored (a history variable)
    nextId,   \* the next id
    summary,  \* its rows of llm_chat_summary
    turn      \* the open session of each thread

vars == <<memory, stored, nextId, summary, turn>>

-----------------------------------------------------------------------------
\* A summary is the rows its text was made from, memory_count many.
NoSummary == {}
Session   == [at : {"idle", "llm", "persisted", "forced"}, mine : SUBSET Ids, doomed : SUBSET Ids,
              of : SUBSET Ids, target : SummaryIds \cup {NewRow}]
Idle      == [at |-> "idle", mine |-> {}, doomed |-> {}, of |-> {}, target |-> NewRow]

TypeOK ==
    /\ memory \subseteq Ids /\ stored \subseteq Ids
    /\ nextId \in 1 .. MaxId + 1
    /\ summary \in [SummaryIds -> SUBSET Ids]
    /\ turn \in [Requests -> Session]

Init ==
    /\ memory = {} /\ stored = {} /\ nextId = 1
    /\ summary = [s \in SummaryIds |-> NoSummary]
    /\ turn = [q \in Requests |-> Idle]

-----------------------------------------------------------------------------
(* Helpers *)

MaxRows   == 2 * MaxTurns
Summaries == {s \in SummaryIds : summary[s] # NoSummary}
Unused    == SummaryIds \ Summaries
Newer(rows, i) == {j \in rows : j > i}
Older(rows, i) == {j \in rows : j < i}

\* Mutant of BeyondCap: the rows are taken oldest first.
NewestBeyondCap(rows) == {i \in rows : Cardinality(Older(rows, i)) >= MaxRows}

\* enforce_max_stored_turns: all but the newest MaxRows of the rows it sees.
BeyondCap(rows) == {i \in rows : Cardinality(Newer(rows, i)) >= MaxRows}

\* Mutant of Seen: the turn's own rows are not flushed.
SeenUnflushed(own) == memory

\* Mutant of Seen: the turn's own rows have no id yet (0).
SeenUnnumbered(own) == memory \cup {0 : i \in own}

\* The rows a query returns after the flush of the turn's own. Rows marked for
\* deletion are returned as well, until the commit.
Seen(own) == memory \cup own

\* maybe_refresh_summary: what it writes after its call of the LLM. of = {} is
\* nothing; of several summaries it takes any.
Refreshes(rows) ==
    IF Cardinality(rows) < 2 * TriggerTurns THEN {<<{}, NewRow>>}
    ELSE IF Summaries = {} THEN {<<rows, NewRow>>}
    ELSE {IF Cardinality(rows) - Cardinality(summary[s]) < 2 THEN <<{}, NewRow>> ELSE <<rows, s>> :
            s \in Summaries}

\* The summaries after a session has written its own.
Write(of, target) ==
    IF of = {} THEN summary' = summary
    ELSE \E s \in IF target = NewRow THEN Unused ELSE {target} :
            summary' = [summary EXCEPT ![s] = of]

-----------------------------------------------------------------------------
(* A chat turn *)

\* The request loads the conversation's memory and calls the LLM with it.
Chat(q) ==
    /\ turn[q].at = "idle"
    /\ turn' = [turn EXCEPT ![q].at = "llm"]
    /\ UNCHANGED <<memory, stored, nextId, summary>>

\* The LLM answered: the user's message and the reply are flushed, n of them not
\* blank, the cap is enforced, the need for a summary is decided.
PersistTurn(q, n) ==
    /\ turn[q].at = "llm" /\ nextId + n <= MaxId + 1
    /\ nextId' = nextId + n
    /\ LET mine == nextId .. nextId + n - 1
       IN  IF n = 0 THEN turn' = [turn EXCEPT ![q] = Idle]
           ELSE \E r \in Refreshes(Seen(mine)) :
                  turn' = [turn EXCEPT ![q] =
                    [at |-> "persisted", mine |-> mine, doomed |-> BeyondCap(Seen(mine)),
                     of |-> r[1], target |-> r[2]]]
    /\ UNCHANGED <<memory, stored, summary>>

\* The new summary, if any, is there, and the session commits. An UPDATE of a
\* summary that a prune has deleted raises instead.
CommitTurn(q) ==
    /\ turn[q].at = "persisted"
    /\ turn[q].target # NewRow => turn[q].target \in Summaries
    /\ memory' = (memory \cup turn[q].mine) \ turn[q].doomed
    /\ stored' = stored \cup turn[q].mine
    /\ Write(turn[q].of, turn[q].target)
    /\ turn' = [turn EXCEPT ![q] = Idle]
    /\ UNCHANGED nextId

\* Mutant of Rollback: the summary is committed on its own.
RollbackTurnOnly(q) ==
    /\ turn[q].at # "idle"
    /\ Write(turn[q].of, turn[q].target)
    /\ turn' = [turn EXCEPT ![q] = Idle]
    /\ UNCHANGED <<memory, stored, nextId>>

\* The LLM fails to answer, a statement raises, or the API dies: nothing of the
\* session stays. (A failure to summarise only gives a fallback text.)
Rollback(q) ==
    /\ turn[q].at # "idle"
    /\ turn' = [turn EXCEPT ![q] = Idle]
    /\ UNCHANGED <<memory, stored, nextId, summary>>

-----------------------------------------------------------------------------
(* The other requests *)

\* force_refresh_summary reads all rows and calls the LLM; it looks for the
\* summary to update only afterwards.
ForceRefresh(q) ==
    /\ turn[q].at = "idle" /\ memory # {}
    /\ turn' = [turn EXCEPT ![q] = [Idle EXCEPT !.at = "forced", !.of = memory]]
    /\ UNCHANGED <<memory, stored, nextId, summary>>

CommitForced(q) ==
    /\ turn[q].at = "forced"
    /\ \E s \in IF Summaries = {} THEN {NewRow} ELSE Summaries : Write(turn[q].of, s)
    /\ turn' = [turn EXCEPT ![q] = Idle]
    /\ UNCHANGED <<memory, stored, nextId>>

\* prune_expired_memory: the messages older than message c. Of the summaries
\* made from such messages alone, those not updated since; which, is left open.
Prune(c) ==
    /\ memory' = {i \in memory : i >= c}
    /\ \E S \in SUBSET {s \in Summaries : \A i \in summary[s] : i < c} :
        summary' = [s \in SummaryIds |-> IF s \in S THEN NoSummary ELSE summary[s]]
    /\ UNCHANGED <<stored, nextId, turn>>

-----------------------------------------------------------------------------
Next ==
    \/ \E q \in Requests :
        \/ Chat(q) \/ CommitTurn(q) \/ Rollback(q) \/ ForceRefresh(q) \/ CommitForced(q)
        \/ \E n \in 0 .. 2 : PersistTurn(q, n)
    \/ \E c \in 1 .. nextId : Prune(c)

Spec == Init /\ [][Next]_vars

-----------------------------------------------------------------------------
(* What must hold. *)

\* The cap on stored turns is a cap on what one request sees; requests that
\* overlap do not see each other's messages, and exceed it by at most one turn
\* for each other thread, however long their calls of the LLM take.
CapBound == Cardinality(memory) <= MaxRows + 2 * (Cardinality(Requests) - 1)

\* The cap never costs a message among the newest MaxRows: what it deletes has
\* at least so many newer messages that were stored, whichever sessions commit
\* or fail meanwhile. (Only the prune by age deletes more.)
NewestKept ==
    [][\A i \in memory \ memory' :
          \/ Cardinality(Newer(stored', i)) >= MaxRows
          \/ \E c \in 1 .. MaxId + 1 : Prune(c)]_vars

\* A summary never speaks of a turn that failed: everything it was made from
\* was stored.
SummaryOfStored == \A s \in Summaries : summary[s] \subseteq stored
=============================================================================
