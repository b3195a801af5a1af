---------------------------- MODULE ToolRegistry ----------------------------
(***************************************************************************)
(* The registry of MCP tools and their secrets                              *)
(* (api/services/mcp_tool_registry_service.py, api/routers/mcp_registry.py) *)
(* and what the MCP server remembers of it (mcp_server/secret_resolver.py). *)
(* Administrators write tools and secrets and have the MCP server's tools   *)
(* registered, with requests that may overlap: each reads what it needs,    *)
(* and writes and commits afterwards. A tool needs one secret key or none.  *)
(***************************************************************************)
EXTENDS Naturals, FiniteSets

CONSTANTS
    Tools,      \* the tools of the MCP server
    Registered, \* those registered at the beginning, enabled and without a secret
    Editors,    \* threads of the API that serve administrators
    MaxEdits,   \* bound on their requests
    Null

ASSUME RegistryAssumption ==
    Registered \subseteq Tools /\ MaxEdits \in Nat /\ Null \notin Tools

VARIABLES
    tool,   \* mcp_tool_registry with mcp_tool_secrets
    cache,  \* the answers to requests for a tool's secret that the MCP server remembers
    edit,   \* the requests being served
    edits   \* how many there have been

registryVars == <<tool, cache, edit, edits>>

\* A row and its secret are known by the number of the request that made them.
Absent == [is |-> FALSE, id |-> 0, enabled |-> FALSE, needs |-> FALSE, secret |-> Null, off |-> FALSE]
Fresh(n, enabled, needs) == [Absent EXCEPT !.is = TRUE, !.id = n, !.enabled = enabled, !.needs = needs]

NoEdit == [at |-> "idle", op |-> Null, on |-> Null, enabled |-> FALSE, needs |-> FALSE,
           number |-> 0, sees |-> Null, alone |-> TRUE]

\* What a tool runs with: its secret, or what its environment says.
Keys == {"secret", "environment"}

RegistryTypeOK ==
    /\ tool \in [Tools -> [is : BOOLEAN, id : 0 .. MaxEdits, enabled : BOOLEAN, needs : BOOLEAN,
                           secret : 1 .. MaxEdits \cup {Null},
                           off : BOOLEAN]]   \* history: the last upsert, overlapping no other edit of it, disabled it
    /\ cache \in [Tools -> Keys \cup {Null}]
    /\ \A e \in Editors :
         /\ edit[e].at \in {"idle", "open"} /\ edit[e].on \in Tools \cup {Null}
         /\ edit[e].op \in {"upsert", "delete", "put", "drop", "sync", Null}
         /\ edit[e].enabled \in BOOLEAN /\ edit[e].needs \in BOOLEAN
         /\ edit[e].number \in 0 .. MaxEdits /\ edit[e].alone \in BOOLEAN
    /\ edits \in 0 .. MaxEdits

RegistryInit ==
    /\ tool = [x \in Tools |-> IF x \in Registered THEN Fresh(0, TRUE, FALSE) ELSE Absent]
    /\ cache = [x \in Tools |-> Null]
    /\ edit = [e \in Editors |-> NoEdit]
    /\ edits = 0

-----------------------------------------------------------------------------
Editing == {e \in Editors : edit[e].at # "idle"}

\* The edits that race with one of a tool; a sync is not one of them.
Rivals(x) == {e \in Editing : edit[e].op \in {"upsert", "delete"} /\ edit[e].on = x}

Begin(e, req) ==
    LET rivals == IF req.op \in {"upsert", "delete"} THEN Rivals(req.on) ELSE {} IN
    /\ edit[e].at = "idle" /\ edits < MaxEdits
    /\ edits' = edits + 1
    /\ edit' = [d \in Editors |->
                  CASE d = e         -> [req EXCEPT !.at = "open", !.number = edits + 1, !.alone = (rivals = {})]
                    [] d \in rivals  -> [edit[d] EXCEPT !.alone = FALSE]
                    [] OTHER         -> edit[d]]
    /\ UNCHANGED <<tool, cache>>

End(e)         == edit' = [edit EXCEPT ![e] = NoEdit] /\ UNCHANGED <<cache, edits>>
Serving(e, op) == edit[e].at = "open" /\ edit[e].op = op
Saw(e)         == edit[e].sees
Becomes(x, row) == tool' = [tool EXCEPT ![x] = row]

\* The row read is still there.
Same(e) == tool[edit[e].on].is /\ tool[edit[e].on].id = Saw(e).id

ReadTool(x) == [tool[x] EXCEPT !.off = FALSE]

BeginOn(e, op, x) == Begin(e, [NoEdit EXCEPT !.op = op, !.on = x, !.sees = ReadTool(x)])

\* upsert_mcp_tool: a row that was not there is inserted; the tool's name is
\* unique. Of a row that was, the columns that differ from what was read are
\* written; it must still be there.
BeginUpsert(e, x, enabled, needs) ==
    Begin(e, [NoEdit EXCEPT !.op = "upsert", !.on = x, !.sees = ReadTool(x), !.enabled = enabled, !.needs = needs])

CommitUpsert(e) ==
    LET x == edit[e].on  row == tool[x]
        new == IF ~Saw(e).is THEN Fresh(edit[e].number, edit[e].enabled, edit[e].needs)
               ELSE [row EXCEPT !.enabled = IF edit[e].enabled = Saw(e).enabled THEN @ ELSE edit[e].enabled,
                                !.needs = IF edit[e].needs = Saw(e).needs THEN @ ELSE edit[e].needs] IN
    /\ Serving(e, "upsert")
    /\ IF (Saw(e).is /\ Same(e)) \/ (~Saw(e).is /\ ~row.is)
       THEN Becomes(x, [new EXCEPT !.off = edit[e].alone /\ ~edit[e].enabled])
       ELSE UNCHANGED tool
    /\ End(e)

\* delete_mcp_tool: the secret read with the row is deleted with it; one stored
\* since refers to the row and keeps it.
CommitDeleteTool(e) ==
    LET x == edit[e].on IN
    /\ Serving(e, "delete")
    /\ IF Same(e) /\ tool[x].secret \in {Null, Saw(e).secret} THEN Becomes(x, Absent) ELSE UNCHANGED tool
    /\ End(e)

\* upsert_tool_secret: a secret is inserted under the row that was read, or the
\* one that was read is changed: its value, of which nothing is kept here.
CommitPut(e) ==
    LET x == edit[e].on IN
    /\ Serving(e, "put")
    /\ IF Same(e) /\ Saw(e).secret = Null /\ tool[x].secret = Null
       THEN Becomes(x, [tool[x] EXCEPT !.secret = edit[e].number])
       ELSE UNCHANGED tool
    /\ End(e)

\* delete_tool_secret
CommitDrop(e) ==
    LET x == edit[e].on IN
    /\ Serving(e, "drop")
    /\ IF Same(e) /\ tool[x].secret = Saw(e).secret
       THEN Becomes(x, [tool[x] EXCEPT !.secret = Null]) ELSE UNCHANGED tool
    /\ End(e)

\* register_tools_if_missing: the tools whose name was not in the registry are
\* inserted, all or none: one inserted meanwhile fails the transaction.
BeginSync(e) == Begin(e, [NoEdit EXCEPT !.op = "sync", !.sees = {x \in Tools : tool[x].is}])

\* Mutant of CommitSync: a tool that has come since is written over.
MergeSync(e) ==
    /\ Serving(e, "sync")
    /\ tool' = [x \in Tools |-> IF x \in Saw(e) THEN tool[x]
                                ELSE IF tool[x].is THEN [tool[x] EXCEPT !.enabled = TRUE, !.needs = FALSE]
                                ELSE Fresh(edit[e].number, TRUE, FALSE)]
    /\ End(e)

CommitSync(e) ==
    LET missing == Tools \ Saw(e) IN
    /\ Serving(e, "sync")
    /\ tool' = IF \E x \in missing : tool[x].is THEN tool
               ELSE [x \in Tools |-> IF x \in missing THEN Fresh(edit[e].number, TRUE, FALSE) ELSE tool[x]]
    /\ End(e)

-----------------------------------------------------------------------------
(* What the others read of the registry *)

\* Mutant of Refused: the secrets a tool needs are not looked at.
DisabledOnly(row) == row.is /\ ~row.enabled

\* get_tool_secret_status_map, as chat_with_optional_mcp_tools reads it; a tool
\* that is not registered may be called.
Refused(row) == row.is /\ (~row.enabled \/ (row.needs /\ row.secret = Null))

\* resolve_tool_secret_value: 404 for a tool or a secret that is not there.
Resolves(row) == IF row.is /\ row.secret # Null THEN "secret" ELSE "environment"

\* Mutant of Remember: that there is no secret is remembered as well.
RememberAll(x, key) == cache' = [cache EXCEPT ![x] = key]

\* resolve_tool_secret keeps a value it was given, for as long as the MCP server lives.
Remember(x, key) == cache' = IF key = "secret" THEN [cache EXCEPT ![x] = key] ELSE cache

-----------------------------------------------------------------------------
\* Administrators can store a secret only for a tool that is registered, and
\* drop only one that is stored.
OpenEdit(e) ==
    \/ BeginSync(e)
    \/ \E x \in Tools :
         \/ \E enabled, needs \in BOOLEAN : BeginUpsert(e, x, enabled, needs)
         \/ tool[x].is /\ (BeginOn(e, "delete", x) \/ BeginOn(e, "put", x))
         \/ tool[x].secret # Null /\ BeginOn(e, "drop", x)

ServeEdit(e) == CommitUpsert(e) \/ CommitDeleteTool(e) \/ CommitPut(e) \/ CommitDrop(e) \/ CommitSync(e)

-----------------------------------------------------------------------------
(* Properties *)

\* A tool that an upsert disabled, without another upsert or deletion of it at
\* the same time, stays disabled whatever syncs come: also one that looked for
\* the tool before it was registered ("Existing tools are intentionally skipped
\* and never mutated", mcp_tool_registry_service.py:91).
DisabledStays == \A x \in Tools : tool[x].off => ~tool[x].enabled
=============================================================================
