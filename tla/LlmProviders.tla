---------------------------- MODULE LlmProviders ----------------------------
(***************************************************************************)
(* The LLM providers and their credentials (api/services/llm_service.py,    *)
(* api/schemas/model.py): administrators create, update and delete them     *)
(* with requests that may overlap. A request is a transaction of several    *)
(* statements, each of which sees what was committed before it began; no    *)
(* constraint of the database keeps a provider's name, or a key among its   *)
(* credentials, from being stored twice.                                    *)
(*                                                                          *)
(* Of the columns the name is kept (the endpoint and the description are    *)
(* written like it), of the credentials the number of the request that      *)
(* stored them.                                                             *)
(***************************************************************************)
EXTENDS Naturals, FiniteSets

CONSTANTS
    Providers,    \* ids, given in their order
    Names,        \* provider names; the kinds of LLM the API can talk to
    NeedsKey,     \* the names whose chats need an api_key
    Stored,       \* providers stored at the beginning
    FirstName,    \* their names
    Earlier,      \* requests before the beginning that overlapped, each of which
                  \* gave all of them credentials
    Writers,      \* threads of the API that serve administrators
    MaxWrites,    \* bound on their requests
    None

ASSUME ProvidersAssumption ==
    /\ Providers \subseteq Nat /\ Stored \subseteq Providers /\ MaxWrites \in Nat /\ Earlier \in 0 .. MaxWrites
    /\ NeedsKey \subseteq Names /\ FirstName \in [Stored -> Names] /\ None \notin Names \cup Providers
    /\ \A p, q \in Stored : FirstName[p] = FirstName[q] => p = q

VARIABLES
    provider,  \* llm_providers with their llm_credentials
    write,     \* the requests being served
    writes     \* how many there have been

providerVars == <<provider, write, writes>>

NoRow   == [is |-> "none", name |-> None, creds |-> {}, raced |-> FALSE, last |-> 0, settled |-> TRUE]
NoWrite == [at |-> "idle", op |-> None, on |-> None, name |-> None, creds |-> None,
            number |-> 0, sees |-> None, gone |-> {}, alone |-> TRUE]

ProvidersTypeOK ==
    /\ provider \in [Providers -> [is : {"none", "row", "deleted"}, name : Names \cup {None},
                                   creds : SUBSET (1 .. MaxWrites),
                                   raced : BOOLEAN,               \* history: name written by an overlapped request
                                   last : 0 .. MaxWrites,         \* history: the last request that wrote credentials
                                   settled : BOOLEAN]]            \* history: it overlapped no other
    /\ \A w \in Writers :
         /\ write[w].at \in {"idle", "open", "ready"} /\ write[w].op \in {"create", "update", "delete", None}
         /\ write[w].on \in Providers \cup {None} /\ write[w].name \in Names \cup {None}
         /\ write[w].creds \in {"keep", "set", "clear", None} /\ write[w].number \in 0 .. MaxWrites
         /\ write[w].gone \subseteq 1 .. MaxWrites /\ write[w].alone \in BOOLEAN
    /\ writes \in 0 .. MaxWrites

ProvidersInit ==
    /\ provider = [p \in Providers |-> IF p \in Stored
                     THEN [NoRow EXCEPT !.is = "row", !.name = FirstName[p], !.creds = 1 .. Earlier,
                                        !.last = Earlier, !.settled = Earlier <= 1]
                     ELSE NoRow]
    /\ write = [w \in Writers |-> NoWrite]
    /\ writes = Earlier

-----------------------------------------------------------------------------
Rows        == {p \in Providers : provider[p].is = "row"}
Named(name) == {p \in Rows : provider[p].name = name}
Writing     == {w \in Writers : write[w].at # "idle"}

\* What a request keeps of a row and its credentials.
Read(p)     == [name |-> provider[p].name, creds |-> provider[p].creds]

\* A request begins; those it overlaps are no longer alone.
Open(w, req) ==
    /\ write[w].at = "idle" /\ writes < MaxWrites
    /\ writes' = writes + 1
    /\ write' = [v \in Writers |->
                   CASE v = w          -> [req EXCEPT !.number = writes + 1, !.alone = (Writing = {})]
                     [] v \in Writing  -> [write[v] EXCEPT !.alone = FALSE]
                     [] OTHER          -> write[v]]
    /\ UNCHANGED provider

Close(w) == write' = [write EXCEPT ![w] = NoWrite]

\* What a request that stores credentials leaves behind.
WithCreds(row, w, creds) ==
    [row EXCEPT !.creds = creds, !.last = write[w].number, !.settled = write[w].alone]

\* create_llm_provider: the name is looked up, the row and its credentials
\* are inserted. A name that is taken is answered with 409.
OpenCreate(w, name, creds) ==
    /\ Named(name) = {}
    /\ Open(w, [NoWrite EXCEPT !.at = "ready", !.op = "create", !.name = name, !.creds = creds])

CommitCreate(w) ==
    LET free == {p \in Providers : provider[p].is = "none"}
        id   == CHOOSE p \in free : \A q \in free : p <= q
        new  == [provider[id] EXCEPT !.is = "row", !.name = write[w].name, !.raced = ~write[w].alone] IN
    /\ write[w].at = "ready" /\ write[w].op = "create"
    /\ provider' = IF free = {} THEN provider   \* the bound on ids
                   ELSE [provider EXCEPT ![id] = WithCreds(new, w, IF write[w].creds = "set" THEN {write[w].number} ELSE {})]
    /\ Close(w) /\ UNCHANGED writes

\* update_llm_provider: the row is read; the name is looked up among the other
\* rows and the credentials stored by then are deleted; what the row said
\* otherwise is changed and the new credentials are inserted.
OpenUpdate(w, p, name, creds) ==
    /\ p \in Rows
    /\ Open(w, [NoWrite EXCEPT !.at = "open", !.op = "update", !.on = p, !.name = name,
                               !.creds = creds, !.sees = Read(p)])

\* Mutant of Conflict: the row's own name is looked up, not the new one.
OwnNameConflict(w) == Named(write[w].sees.name) \ {write[w].on} # {}

Conflict(w) == Named(write[w].name) \ {write[w].on} # {}

\* Mutant of Replaced: the old credentials are left to the new ones' insertion.
NothingReplaced(w) == {}

Replaced(w) == IF write[w].creds = "keep" THEN {} ELSE provider[write[w].on].creds

CheckUpdate(w) ==
    /\ write[w].at = "open" /\ write[w].op = "update"
    /\ IF Conflict(w) THEN Close(w)
       ELSE write' = [write EXCEPT ![w].at = "ready", ![w].gone = Replaced(w)]
    /\ UNCHANGED <<provider, writes>>

\* Nothing is changed of a row that is gone: the statement matches no row, or
\* its credentials refer to none.
CommitUpdate(w) ==
    LET p == write[w].on  row == provider[p]
        named == IF write[w].name = write[w].sees.name THEN row
                 ELSE [row EXCEPT !.name = write[w].name, !.raced = ~write[w].alone]
        kept == row.creds \ write[w].gone IN
    /\ write[w].at = "ready" /\ write[w].op = "update"
    /\ IF p \notin Rows THEN UNCHANGED provider
       ELSE provider' = [provider EXCEPT ![p] =
              CASE write[w].creds = "keep"  -> named
                [] write[w].creds = "set"   -> WithCreds(named, w, kept \cup {write[w].number})
                [] write[w].creds = "clear" -> WithCreds(named, w, kept)]
    /\ Close(w) /\ UNCHANGED writes

\* delete_llm_provider: the row and the credentials read with it are deleted,
\* unless something else refers to the row.
OpenDelete(w, p) ==
    /\ p \in Rows
    /\ Open(w, [NoWrite EXCEPT !.at = "ready", !.op = "delete", !.on = p, !.sees = Read(p)])

\* Mutant of Referenced: deleting the row takes what refers to it along.
NeverReferenced(w, elsewhere) == FALSE

Referenced(w, elsewhere) ==
    write[w].on \in elsewhere \/ provider[write[w].on].creds \ write[w].sees.creds # {}

CommitDelete(w, elsewhere) ==
    /\ write[w].at = "ready" /\ write[w].op = "delete"
    /\ provider' = IF write[w].on \notin Rows \/ Referenced(w, elsewhere) THEN provider
                   ELSE [provider EXCEPT ![write[w].on] = [NoRow EXCEPT !.is = "deleted"]]
    /\ Close(w) /\ UNCHANGED writes

\* A credential that is not allowed, found after the old ones were deleted, or
\* a statement that raises: the session is closed without a commit.
FailWrite(w) ==
    /\ w \in Writing
    /\ Close(w) /\ UNCHANGED <<provider, writes>>

-----------------------------------------------------------------------------
OpenWrite(w) ==
    \/ \E name \in Names : \E creds \in {"set", "clear"} : OpenCreate(w, name, creds)
    \/ \E p \in Providers : OpenDelete(w, p) \/ \E name \in Names : \E creds \in {"keep", "set", "clear"} :
                                                   OpenUpdate(w, p, name, creds)

\* elsewhere: the providers other tables refer to.
ServeWrite(w, elsewhere) ==
    CheckUpdate(w) \/ CommitCreate(w) \/ CommitUpdate(w) \/ CommitDelete(w, elsewhere) \/ FailWrite(w)

-----------------------------------------------------------------------------
(* Properties *)

\* Two providers have one name only when the requests that gave it to them
\* overlapped: the lookup of create_llm_provider and update_llm_provider is all
\* that keeps names apart.
NamesDistinctUnlessRaced ==
    \A p, q \in Rows : p # q /\ provider[p].name = provider[q].name => provider[p].raced /\ provider[q].raced

\* A request that stores credentials and overlaps no other leaves exactly its
\* own behind, whatever earlier requests that overlapped had piled up
\* (update_llm_provider deletes all before it inserts).
AloneReplaces ==
    \A p \in Rows : provider[p].settled => provider[p].creds \subseteq {provider[p].last}
=============================================================================
