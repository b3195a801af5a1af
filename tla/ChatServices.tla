---------------------------- MODULE ChatServices ----------------------------
(***************************************************************************)
(* A chat request (api/routers/chat.py, api/services/chat_tool_service.py)  *)
(* among the administrators of its provider (LlmProviders) and of its tools *)
(* (ToolRegistry). The request reads the provider, has the LLM plan which   *)
(* tools of the MCP server to call, calls them                              *)
(* (api/services/mcp_client_service.py), has the LLM answer and stores the  *)
(* turn. It holds a connection of the API's database pool throughout. A     *)
(* tool the MCP server runs may ask the API back for its secret             *)
(* (mcp_server/secret_resolver.py), which takes a connection too.           *)
(***************************************************************************)
EXTENDS LlmProviders, ToolRegistry, Sequences, SequencesExt

CONSTANTS
    Turns,        \* chat requests
    MaxTools,     \* tools called in a turn (MCP_CHAT_TOOLING_MAX_TOOLS)
    Pools,        \* sizes the pool may have
    MaxRestarts,  \* bound on restarts of the MCP server
    MaxChanges    \* bound on the requests of all administrators

ASSUME ChatServicesAssumption ==
    /\ MaxTools \in Nat \ {0} /\ Pools \subseteq Nat \ {0} /\ MaxRestarts \in Nat /\ MaxChanges \in Nat
    /\ None \notin Keys

VARIABLES
    turn,      \* the chat requests
    memory,    \* the providers llm_chat_memory and llm_chat_summary refer to
    pool,      \* the size of the pool, the same throughout
    restarts

vars == <<providerVars, registryVars, turn, memory, pool, restarts>>

Ended == {"ok", "failed"}

TypeOK ==
    /\ ProvidersTypeOK /\ RegistryTypeOK
    /\ turn \in [Turns -> [at : {"idle", "begun", "list", "plan", "status", "tools", "calling", "answer",
                                 "store", "stored"} \cup Ended,
                           on : Providers \cup {None}, reachable : BOOLEAN,
                           scoped : BOOLEAN, useTools : BOOLEAN, todo : BoundedSeq(Tools, MaxTools),
                           refused : SUBSET Tools,
                           barred : SUBSET Tools,    \* history: tools refused ever since the turn began
                           excused : BOOLEAN,        \* history: the call met no secret, or a failure
                           key : Keys \cup {None},   \* what the last call ran with
                           pruned : BOOLEAN,         \* history: its provider's memory was pruned since it was stored
                           why : {"refused", "llm", "db", "gone", None}]]
    /\ memory \subseteq Providers
    /\ pool \in Pools /\ restarts \in 0 .. MaxRestarts

Idle == [at |-> "idle", on |-> None, reachable |-> TRUE, scoped |-> FALSE, useTools |-> FALSE,
         todo |-> <<>>, refused |-> {}, barred |-> {}, excused |-> FALSE, key |-> None, pruned |-> FALSE,
         why |-> None]

Init ==
    /\ ProvidersInit /\ RegistryInit
    /\ turn = [t \in Turns |-> Idle]
    /\ memory = {} /\ pool \in Pools /\ restarts = 0

-----------------------------------------------------------------------------
Chatting == {t \in Turns : turn[t].at \notin {"idle"} \cup Ended}
Free     == Cardinality(Chatting) + Cardinality(Writing) + Cardinality(Editing) < pool

\* For the history: a registered tool that may not be called.
Barred(row)  == row.is /\ (row.enabled => row.needs /\ row.secret = Null)

To(t, at)    == turn' = [turn EXCEPT ![t].at = at]
Forget(t)    == [Idle EXCEPT !.on = turn[t].on, !.scoped = turn[t].scoped, !.reachable = turn[t].reachable]
AnswerNow(t) == turn' = [turn EXCEPT ![t] = [Forget(t) EXCEPT !.at = "answer"]]
Fail(t, why) == turn' = [turn EXCEPT ![t] = [Forget(t) EXCEPT !.at = "failed", !.why = why]]
Succeed(t)   == turn' = [turn EXCEPT ![t] = [Forget(t) EXCEPT !.at = "ok"]]
TurnOnly     == UNCHANGED <<providerVars, registryVars, memory, pool, restarts>>

\* Some kinds of LLM can be asked without a key.
Keyless(name) == name \notin NeedsKey

\* chat_with_provider: the provider's row is read once and used in all calls of
\* the LLM; the request names the kind it expects there. It is scoped if it
\* names a conversation or a session and anything is said in the turn.
StartTurn(t, p, name, scoped, useTools) ==
    /\ turn[t].at = "idle" /\ Free
    /\ IF p \in Rows /\ name = provider[p].name
       THEN turn' = [turn EXCEPT ![t] =
              [Idle EXCEPT !.at = "begun", !.on = p, !.reachable = Keyless(name), !.scoped = scoped,
                           !.useTools = useTools, !.barred = {x \in Tools : Barred(tool[x])}]]
       ELSE Fail(t, "refused")
    /\ TurnOnly

\* So are its credentials, in a statement of their own.
ReadCredentials(t) ==
    /\ turn[t].at = "begun"
    /\ turn' = [turn EXCEPT ![t].reachable = @ \/ provider[turn[t].on].creds # {},
                            ![t].at = IF turn[t].useTools THEN "list" ELSE "answer", ![t].useTools = FALSE]
    /\ TurnOnly

\* The MCP server cannot be reached, does not answer in time, or answers with an
\* error, nonsense or no tools: the LLM answers without them.
NoList(t) == AnswerNow(t)

List(t) ==
    /\ turn[t].at = "list"
    /\ To(t, "plan") \/ NoList(t)
    /\ TurnOnly

\* Mutant of Plan: a plan that fails ends the turn.
PlanOrFail(t) ==
    /\ turn[t].at = "plan"
    /\ \/ Fail(t, "plan")
       \/ turn[t].reachable /\ \E todo \in BoundedSeq(Tools, MaxTools) :
            IF todo = <<>> THEN AnswerNow(t) ELSE turn' = [turn EXCEPT ![t].todo = todo, ![t].at = "status"]
    /\ TurnOnly

\* A plan that fails, or that names no tool that was listed, is
\* followed by an answer without tools as well.
Plan(t) ==
    /\ turn[t].at = "plan"
    /\ \/ AnswerNow(t)
       \/ turn[t].reachable /\ \E todo \in BoundedSeq(Tools, MaxTools) \ {<<>>} :
            turn' = [turn EXCEPT ![t].todo = todo, ![t].at = "status"]
    /\ TurnOnly

\* The registry is read once, for all calls.
ReadStatus(t) ==
    /\ turn[t].at = "status"
    /\ \/ turn' = [turn EXCEPT ![t].refused = {x \in Tools : Refused(tool[x])}, ![t].at = "tools"]
       \/ Fail(t, "db")
    /\ TurnOnly

\* A tool that was refused is passed over; a failed call is a result as well.
PassOn(t) == turn' = [turn EXCEPT ![t].at = "tools", ![t].todo = Tail(@)]

NextTool(t) ==
    LET x == Head(turn[t].todo) IN
    /\ turn[t].at = "tools"
    /\ IF turn[t].todo = <<>> THEN AnswerNow(t)
       ELSE IF x \in turn[t].refused THEN PassOn(t)
       ELSE turn' = [turn EXCEPT ![t].at = "calling", ![t].key = None,
                                 ![t].excused = Resolves(tool[x]) # "secret"]
    /\ TurnOnly

-----------------------------------------------------------------------------
(* A call: the MCP server runs the tool, the tool asks for its secret *)

Calling(t)  == turn[t].at = "calling"
Called(t)   == Head(turn[t].todo)
RunsWith(t, key) == turn' = [turn EXCEPT ![t].at = "tools", ![t].todo = Tail(@), ![t].key = key]

UseRemembered(t) ==
    /\ Calling(t) /\ cache[Called(t)] # Null
    /\ RunsWith(t, cache[Called(t)])
    /\ TurnOnly

\* The MCP server asks the API, whose answer takes another connection.
Resolve(t) ==
    LET key == Resolves(tool[Called(t)]) IN
    /\ Calling(t) /\ cache[Called(t)] = Null /\ Free
    /\ RunsWith(t, key) /\ Remember(Called(t), key)
    /\ UNCHANGED <<providerVars, tool, edit, edits, memory, pool, restarts>>

\* Mutant of ResolveFails: the request waits for a connection without a limit.
ResolveWaits(t) ==
    /\ Calling(t) /\ cache[Called(t)] = Null /\ Free
    /\ turn' = [turn EXCEPT ![t].at = "tools", ![t].todo = Tail(@), ![t].key = "environment", ![t].excused = TRUE]
    /\ TurnOnly

\* The request is refused, fails, or gets no answer in time.
ResolveFails(t) ==
    /\ Calling(t) /\ cache[Called(t)] = Null
    /\ turn' = [turn EXCEPT ![t].at = "tools", ![t].todo = Tail(@), ![t].key = "environment", ![t].excused = TRUE]
    /\ TurnOnly

\* The MCP server does not answer; the tool may have its secret nevertheless.
CallFails(t) ==
    /\ Calling(t) /\ PassOn(t)
    /\ \/ UNCHANGED cache
       \/ cache[Called(t)] = Null /\ Free /\ Remember(Called(t), Resolves(tool[Called(t)]))
    /\ UNCHANGED <<providerVars, tool, edit, edits, memory, pool, restarts>>

RestartServer ==
    /\ restarts < MaxRestarts /\ restarts' = restarts + 1
    /\ cache' = [x \in Tools |-> Null]
    /\ turn' = [t \in Turns |-> IF Calling(t) THEN [turn[t] EXCEPT !.at = "tools", !.todo = Tail(@)] ELSE turn[t]]
    /\ UNCHANGED <<providerVars, tool, edit, edits, memory, pool>>

-----------------------------------------------------------------------------
(* The answer and its storing *)

\* The LLM cannot be reached, does not answer in time, or refuses.
LlmFails(t) == Fail(t, "llm")

Answer(t) ==
    /\ turn[t].at = "answer"
    /\ (turn[t].reachable /\ To(t, "store")) \/ LlmFails(t)
    /\ TurnOnly

\* persist_chat_turn: the rows are inserted; the one they refer to is locked,
\* while the LLM may be asked for a summary.
Store(t) ==
    /\ turn[t].at = "store"
    /\ IF ~turn[t].scoped THEN Succeed(t)
       ELSE IF turn[t].on \in Rows THEN To(t, "stored") ELSE Fail(t, "gone")
    /\ TurnOnly

CommitTurn(t) ==
    /\ turn[t].at = "stored"
    /\ \/ Succeed(t) /\ memory' = memory \cup {turn[t].on}
       \/ Fail(t, "db") /\ UNCHANGED memory
    /\ UNCHANGED <<providerVars, registryVars, pool, restarts>>

\* prune_expired_memory: what was written more than an hour ago, at least, is
\* deleted, of one provider or of all; of some it is all there is.
Prune ==
    /\ Free
    /\ \E gone \in SUBSET memory \ {{}} :
         /\ memory' = memory \ gone
         /\ turn' = [t \in Turns |-> [turn[t] EXCEPT
              !.pruned = @ \/ (turn[t].at = "ok" /\ turn[t].scoped /\ turn[t].on \in gone)]]
    /\ UNCHANGED <<providerVars, registryVars, pool, restarts>>

-----------------------------------------------------------------------------
(* The administrators *)

MayOpen == Free /\ writes + edits < MaxChanges

Locked == {turn[t].on : t \in {u \in Turns : turn[u].at = "stored"}}

\* What an edit of the registry is to the turns under way.
Noted ==
    turn' = [t \in Turns |->
               [turn[t] EXCEPT !.barred = {x \in @ : Barred(tool'[x])},
                               !.excused = @ \/ (Calling(t) /\ Resolves(tool'[Called(t)]) # "secret")]]

Administer ==
    \/ /\ \/ MayOpen /\ \E w \in Writers : OpenWrite(w)
          \/ \E w \in Writers : (write[w].op = "delete" => write[w].on \notin Locked) /\ ServeWrite(w, memory)
       /\ UNCHANGED <<registryVars, turn, memory, pool, restarts>>
    \/ /\ \/ MayOpen /\ \E e \in Editors : OpenEdit(e)
          \/ \E e \in Editors : ServeEdit(e)
       /\ Noted
       /\ UNCHANGED <<providerVars, memory, pool, restarts>>

TurnStep(t) ==
    \/ ReadCredentials(t) \/ List(t) \/ Plan(t) \/ ReadStatus(t) \/ NextTool(t)
    \/ UseRemembered(t) \/ Resolve(t) \/ ResolveFails(t)
    \/ Answer(t) \/ Store(t) \/ CommitTurn(t)

Next ==
    \/ \E t \in Turns : TurnStep(t) \/ CallFails(t)
    \/ \E t \in Turns, p \in Providers, name \in Names, scoped, useTools \in BOOLEAN :
         StartTurn(t, p, name, scoped, useTools)
    \/ Prune \/ RestartServer \/ Administer

Spec == Init /\ [][Next]_vars

\* A request's thread goes on: the LLM, the MCP server's answer and the
\* request for a secret are all waited for with a timeout.
FairSpec == Spec /\ \A t \in Turns : WF_vars(TurnStep(t))

-----------------------------------------------------------------------------
(* Properties *)

\* A turn that was answered and belongs to a conversation is stored, and its
\* provider is there until the memory is pruned: a deletion that overlaps the
\* turn fails one of the two, even while the summary is made, and a later one
\* is refused (persist_chat_turn, delete_llm_provider, prune_expired_memory).
AnsweredIsStored ==
    \A t \in Turns : turn[t].at = "ok" /\ turn[t].scoped /\ ~turn[t].pruned =>
                       turn[t].on \in memory /\ turn[t].on \in Rows

\* A chat never calls a tool that was disabled, or lacked a secret it needs,
\* ever since the chat's request arrived (get_tool_secret_status_map).
BarredNotCalled == \A t \in Turns : Calling(t) => Called(t) \notin turn[t].barred

\* A tool falls back on its environment only if during its call its secret was
\* missing or could not be asked for: an earlier failure, or a time before the
\* secret was stored, is not remembered (resolve_tool_secret).
FallsBackOnlyWithout == \A t \in Turns : turn[t].key = "environment" => turn[t].excused

\* A turn that goes to the tools ends, and fails only for the LLM's answer or
\* the database: not for the MCP server, the plan or a tool, and not when the
\* turns that wait for a tool's secret hold all connections the secret's
\* request would need (chat_with_optional_mcp_tools).
TurnsAnswer == \A t \in Turns : turn[t].at = "list" ~> turn[t].at = "ok" \/ turn[t].why \in {"llm", "db", "gone"}
=============================================================================
