------------------------- MODULE ChatServicesProofs -------------------------
(***************************************************************************)
(* Proofs about ChatServices and the two modules it is made of, for every   *)
(* number of providers, tools, administrators and chat requests and every   *)
(* size of the database pool.                                               *)
(***************************************************************************)
EXTENDS ChatServices, SequenceTheorems, WellFoundedInduction, TLAPS

-----------------------------------------------------------------------------
(* The providers. *)

ProviderRow == [is : {"none", "row", "deleted"}, name : Names \cup {None}, creds : SUBSET (1 .. MaxWrites),
                raced : BOOLEAN, last : 0 .. MaxWrites, settled : BOOLEAN]

Reading == [name : Names \cup {None}, creds : SUBSET (1 .. MaxWrites)]

Request == [at : {"idle", "open", "ready"}, op : {"create", "update", "delete", None},
            on : Providers \cup {None}, name : Names \cup {None}, creds : {"keep", "set", "clear", None},
            number : 0 .. MaxWrites, sees : Reading \cup {None}, gone : SUBSET (1 .. MaxWrites),
            alone : BOOLEAN]

\* What a request was opened with.
Opened(r) ==
    r.at # "idle" =>
        /\ r.number >= 1 /\ r.op \in {"create", "update", "delete"}
        /\ r.op = "create" => r.at = "ready" /\ r.on = None /\ r.name \in Names /\ r.creds \in {"set", "clear"}
        /\ r.op = "update" => r.on \in Providers /\ r.name \in Names /\ r.creds \in {"keep", "set", "clear"}
        /\ r.op # "create" => r.sees \in Reading

ProvidersTyped ==
    /\ provider \in [Providers -> ProviderRow]
    /\ write \in [Writers -> Request]
    /\ writes \in 0 .. MaxWrites
    /\ \A w \in Writers : Opened(write[w])

\* Requests that overlap know it.
TheyKnow == \A v, w \in Writing : v # w => ~write[v].alone

\* The name a request is about to write is another's only if both overlapped.
Looked(w) ==
    write[w].at = "ready" /\ write[w].op \in {"create", "update"} =>
        \A q \in Named(write[w].name) \ {write[w].on} : provider[q].raced /\ ~write[w].alone

\* A request that overlaps no other has deleted all credentials there were.
AllGone(w) ==
    write[w].at = "ready" /\ write[w].op = "update" /\ write[w].creds # "keep" /\ write[w].alone =>
        provider[write[w].on].creds \subseteq write[w].gone

ProvidersInv ==
    /\ ProvidersTyped /\ TheyKnow
    /\ \A w \in Writers : Looked(w)
    /\ \A w \in Writers : AllGone(w)
    /\ NamesDistinctUnlessRaced
    /\ AloneReplaces

-----------------------------------------------------------------------------
(* The registry. *)

ToolRow == [is : BOOLEAN, id : 0 .. MaxEdits, enabled : BOOLEAN, needs : BOOLEAN,
            secret : 1 .. MaxEdits \cup {Null}, off : BOOLEAN]

Edit == [at : {"idle", "open"}, op : {"upsert", "delete", "put", "drop", "sync", Null}, on : Tools \cup {Null},
         enabled : BOOLEAN, needs : BOOLEAN, number : 0 .. MaxEdits,
         sees : ToolRow \cup (SUBSET Tools) \cup {Null}, alone : BOOLEAN]

Begun(r) ==
    r.at = "open" =>
        /\ r.number \in 1 .. edits /\ r.op \in {"upsert", "delete", "put", "drop", "sync"}
        /\ r.op # "sync" => r.on \in Tools /\ r.sees \in ToolRow
        /\ r.op = "sync" => r.sees \subseteq Tools

RegistryTyped ==
    /\ tool \in [Tools -> ToolRow]
    /\ cache \in [Tools -> {"secret", Null}]
    /\ edit \in [Editors -> Edit]
    /\ edits \in 0 .. MaxEdits
    /\ \A e \in Editors : Begun(edit[e])

\* A row's id tells it from a later row of the same tool.
IdsDiffer ==
    /\ \A x \in Tools : tool[x].id <= edits
    /\ \A d \in Editing :
        /\ \A x \in Tools : tool[x].id # edit[d].number
        /\ \A e \in Editing : d # e => edit[d].number # edit[e].number
        /\ \A e \in Editing : edit[e].op # "sync" => Saw(e).id <= edits /\ Saw(e).id # edit[d].number

\* Upserts and deletions of a tool that overlap know it.
RivalsKnow ==
    \A d, e \in Editing :
        d # e /\ {edit[d].op, edit[e].op} \subseteq {"upsert", "delete"} /\ edit[d].on = edit[e].on => ~edit[d].alone

\* What an upsert without rivals read is still so, unless the row was replaced.
StillSo(e) ==
    edit[e].at = "open" /\ edit[e].op = "upsert" /\ edit[e].alone /\ Same(e) =>
        tool[edit[e].on].enabled = Saw(e).enabled

RegistryInv ==
    /\ RegistryTyped /\ IdsDiffer /\ RivalsKnow
    /\ \A e \in Editors : StillSo(e)
    /\ DisabledStays

-----------------------------------------------------------------------------
(* The chat requests. *)

Turn == [at : {"idle", "begun", "list", "plan", "status", "tools", "calling", "answer", "store", "stored"} \cup Ended,
         on : Providers \cup {None}, reachable : BOOLEAN, scoped : BOOLEAN, useTools : BOOLEAN,
         todo : BoundedSeq(Tools, MaxTools), refused : SUBSET Tools, barred : SUBSET Tools, excused : BOOLEAN,
         key : Keys \cup {None}, pruned : BOOLEAN, why : {"refused", "llm", "db", "gone", None}]

\* A call is of a tool that was not refused, and has an excuse for doing without
\* a secret; a turn that is being stored holds its provider.
Sound(r, tools, rows, stored) ==
    /\ r.at = "calling" =>
        /\ r.todo # <<>> /\ Head(r.todo) \notin r.refused
        /\ Resolves(tools[Head(r.todo)]) # "secret" => r.excused
    /\ r.at \in {"tools", "calling"} => r.barred \subseteq r.refused
    /\ \A x \in r.barred : Barred(tools[x])
    /\ r.key = "environment" => r.excused
    /\ r.at = "stored" => r.on \in rows
    /\ r.at = "ok" /\ r.scoped /\ ~r.pruned => r.on \in stored

TurnsInv ==
    /\ turn \in [Turns -> Turn]
    /\ \A t \in Turns : Sound(turn[t], tool, Rows, memory)
    /\ memory \subseteq Rows
    /\ pool \in Pools /\ restarts \in 0 .. MaxRestarts

ServicesInv == ProvidersInv /\ RegistryInv /\ TurnsInv
-----------------------------------------------------------------------------
(* The administrators of the providers. *)

LEMMA NoWriteTyped ==
    /\ NoWrite \in Request /\ NoWrite.at = "idle" /\ NoRow \in ProviderRow
    /\ MaxWrites \in Nat /\ None \notin Providers /\ None \notin Names
  BY ProvidersAssumption DEF NoWrite, Request, NoRow, ProviderRow

LEMMA OpenKeeps ==
    ASSUME ProvidersInv, NEW w \in Writers, NEW r \in Request, r.at \in {"open", "ready"},
           r.op \in {"create", "update", "delete"},
           r.op = "create" => r.at = "ready" /\ r.on = None /\ r.name \in Names /\ r.creds \in {"set", "clear"},
           r.op = "update" => r.on \in Providers /\ r.name \in Names /\ r.creds \in {"keep", "set", "clear"},
           r.op # "create" => r.sees \in Reading,
           r.op = "update" => r.at = "open",
           r.op = "create" => Named(r.name) = {},
           Open(w, r)
    PROVE  ProvidersInv'
<1> USE DEF ProvidersInv
<1>1. /\ UNCHANGED provider /\ write[w].at = "idle" /\ writes < MaxWrites /\ writes' = writes + 1
      /\ w \notin Writing
  BY DEF Open, Writing
<1>2. write' = [v \in Writers |->
                   IF v = w THEN [r EXCEPT !.number = writes + 1, !.alone = (Writing = {})]
                   ELSE IF v \in Writing THEN [write[v] EXCEPT !.alone = FALSE] ELSE write[v]]
  BY <1>1 DEF Open
<1>3. writes + 1 \in 1 .. MaxWrites /\ writes' \in 0 .. MaxWrites
  BY <1>1, NoWriteTyped DEF ProvidersTyped
<1>4. /\ write'[w] \in Request /\ write'[w].number = writes + 1 /\ write'[w].alone = (Writing = {})
      /\ write'[w].at = r.at /\ write'[w].op = r.op /\ write'[w].on = r.on /\ write'[w].name = r.name
      /\ write'[w].creds = r.creds /\ write'[w].sees = r.sees /\ write'[w].gone = r.gone
  <2>1. write'[w] = [r EXCEPT !.number = writes + 1, !.alone = (Writing = {})]
    BY <1>2
  <2>2. writes + 1 \in 0 .. MaxWrites
    BY <1>3
  <2>3. (Writing = {}) \in BOOLEAN
    OBVIOUS
  <2>4. QED
    BY <2>1, <2>2, <2>3 DEF Request
<1>5. ASSUME NEW v \in Writers, v # w
      PROVE  /\ write'[v] \in Request /\ write'[v].at = write[v].at /\ write'[v].op = write[v].op
             /\ write'[v].on = write[v].on /\ write'[v].name = write[v].name /\ write'[v].creds = write[v].creds
             /\ write'[v].number = write[v].number /\ write'[v].sees = write[v].sees
             /\ write'[v].gone = write[v].gone
             /\ write'[v].alone => write[v].alone /\ v \notin Writing
  <2>1. write[v] \in Request
    BY DEF ProvidersTyped
  <2>2. write'[v] = IF v \in Writing THEN [write[v] EXCEPT !.alone = FALSE] ELSE write[v]
    BY <1>2, <1>5
  <2>3. CASE v \in Writing
    <3>1. write'[v] = [write[v] EXCEPT !.alone = FALSE]
      BY <2>2, <2>3
    <3>2. QED
      BY <2>1, <3>1 DEF Request
  <2>4. CASE v \notin Writing
    BY <2>1, <2>2, <2>4
  <2>5. QED
    BY <2>3, <2>4
<1>6. Writing' = Writing \cup {w}
  BY <1>4, <1>5 DEF Writing
<1>7. Rows' = Rows /\ \A name : Named(name)' = Named(name)
  BY <1>1 DEF Rows, Named
<1>8. ProvidersTyped'
  <2>1. write' \in [Writers -> Request]
    BY <1>2, <1>4, <1>5
  <2>2. Opened(write'[w])
    BY <1>3, <1>4 DEF Opened, ProvidersTyped
  <2>3. \A v \in Writers : v # w => Opened(write'[v])
    BY <1>5 DEF Opened, ProvidersTyped
  <2>4. QED
    BY <1>1, <1>3, <2>1, <2>2, <2>3 DEF ProvidersTyped
<1>9. TheyKnow'
  BY <1>4, <1>5, <1>6 DEF TheyKnow, Writing
<1>10. \A v \in Writers : Looked(v)'
  <2>1. Looked(w)'
    BY <1>4, <1>7 DEF Looked
  <2>2. \A v \in Writers : v # w => Looked(v)'
    BY <1>1, <1>5, <1>7 DEF Looked
  <2>3. QED
    BY <2>1, <2>2
<1>11. \A v \in Writers : AllGone(v)'
  <2>1. AllGone(w)'
    BY <1>4 DEF AllGone
  <2>2. \A v \in Writers : v # w => AllGone(v)'
    BY <1>1, <1>5 DEF AllGone
  <2>3. QED
    BY <2>1, <2>2
<1>12. NamesDistinctUnlessRaced' /\ AloneReplaces'
  BY <1>1, <1>7 DEF NamesDistinctUnlessRaced, AloneReplaces
<1>13. QED
  BY <1>8, <1>9, <1>10, <1>11, <1>12

\* A request that writes the row p, or none, and ends.
LEMMA CommitKeeps ==
    ASSUME ProvidersInv, NEW w \in Writing, NEW p \in Providers, NEW row \in ProviderRow,
           provider' = [provider EXCEPT ![p] = row], Close(w), UNCHANGED writes,
           row.is = "row" =>
               \/ provider[p].is = "row" /\ row.name = provider[p].name /\ row.raced = provider[p].raced
               \/ /\ write[w].at = "ready" /\ write[w].op \in {"create", "update"} /\ write[w].on \in {p, None}
                  /\ row.name = write[w].name /\ row.raced = ~write[w].alone,
           row.is = "row" /\ row.settled => row.creds \subseteq {row.last}
    PROVE  ProvidersInv'
<1> USE DEF ProvidersInv
<1>1. w \in Writers /\ write' = [write EXCEPT ![w] = NoWrite]
  BY DEF Writing, Close
<1>2. write'[w] = NoWrite /\ write'[w].at = "idle" /\ \A v \in Writers : v # w => write'[v] = write[v]
  BY <1>1, NoWriteTyped DEF ProvidersTyped
<1>3. provider'[p] = row /\ \A q \in Providers : q # p => provider'[q] = provider[q]
  BY DEF ProvidersTyped
<1>4. Writing' = Writing \ {w}
  BY <1>2 DEF Writing
<1>5. ProvidersTyped'
  <2>1. provider' \in [Providers -> ProviderRow] /\ write' \in [Writers -> Request]
    BY <1>1, NoWriteTyped DEF ProvidersTyped
  <2>2. \A v \in Writers : Opened(write'[v])
    BY <1>2 DEF ProvidersTyped, Opened
  <2>3. QED
    BY <2>1, <2>2 DEF ProvidersTyped
<1>6. TheyKnow'
  BY <1>2, <1>4 DEF TheyKnow, Writing
<1>7. Rows' \subseteq Providers /\ \A q \in Rows' : q # p => q \in Rows
  BY <1>3 DEF Rows
<1>8. \A v \in Writers : Looked(v)'
  <2> SUFFICES ASSUME NEW v \in Writers, v # w, write[v].at = "ready", write[v].op \in {"create", "update"},
                      NEW q \in Rows', provider'[q].name = write[v].name, q # write[v].on
               PROVE  provider'[q].raced /\ ~write[v].alone
    BY <1>2 DEF Looked, Named
  <2>1. v \in Writing /\ ~write[v].alone /\ ~write[w].alone
    BY DEF TheyKnow, Writing
  <2>2. CASE q # p
    <3>1. q \in Named(write[v].name) \ {write[v].on}
      BY <1>3, <1>7, <2>2 DEF Named
    <3>2. QED
      BY <1>3, <1>7, <2>1, <2>2, <3>1 DEF Looked
  <2>3. CASE q = p
    <3>1. row.is = "row" /\ row.name = write[v].name
      BY <1>3, <2>3 DEF Rows
    <3>2. CASE provider[p].is = "row" /\ row.name = provider[p].name /\ row.raced = provider[p].raced
      <4>1. p \in Named(write[v].name) \ {write[v].on}
        BY <2>3, <3>1, <3>2 DEF Named, Rows
      <4>2. QED
        BY <1>3, <2>1, <2>3, <3>2, <4>1 DEF Looked
    <3>3. CASE row.raced = ~write[w].alone
      BY <1>3, <2>1, <2>3, <3>3
    <3>4. QED
      BY <3>1, <3>2, <3>3
  <2>4. QED
    BY <2>2, <2>3
<1>9. \A v \in Writers : AllGone(v)'
  BY <1>2 DEF AllGone, TheyKnow, Writing
<1>10. NamesDistinctUnlessRaced'
  <2>1. ASSUME NEW q \in Rows, q # p, row.is = "row", provider[q].name = row.name
        PROVE  row.raced /\ provider[q].raced
    <3>1. CASE provider[p].is = "row" /\ row.name = provider[p].name /\ row.raced = provider[p].raced
      <4>1. p \in Rows
        BY <3>1 DEF Rows
      <4>2. QED
        BY <2>1, <3>1, <4>1 DEF NamesDistinctUnlessRaced
    <3>2. CASE /\ write[w].at = "ready" /\ write[w].op \in {"create", "update"} /\ write[w].on \in {p, None}
               /\ row.name = write[w].name /\ row.raced = ~write[w].alone
      <4>1. q \in Named(write[w].name) \ {write[w].on}
        BY <2>1, <3>2, NoWriteTyped DEF Named, Rows
      <4>2. Looked(w)
        BY <1>1
      <4>3. QED
        BY <3>2, <4>1, <4>2 DEF Looked
    <3>3. QED
      BY <2>1, <3>1, <3>2
  <2>2. p \in Rows' => row.is = "row"
    BY <1>3 DEF Rows
  <2>3. QED
    BY <1>3, <1>7, <2>1, <2>2 DEF NamesDistinctUnlessRaced
<1>11. AloneReplaces'
  BY <1>3, <1>7 DEF AloneReplaces, Rows
<1>12. QED
  BY <1>5, <1>6, <1>8, <1>9, <1>10, <1>11

\* A request that writes no row, and ends.
LEMMA CloseKeeps ==
    ASSUME ProvidersInv, NEW w \in Writing, Close(w), UNCHANGED <<provider, writes>>
    PROVE  ProvidersInv'
<1> USE DEF ProvidersInv
<1>1. w \in Writers /\ write' = [write EXCEPT ![w] = NoWrite]
  BY DEF Writing, Close
<1>2. write'[w] = NoWrite /\ write'[w].at = "idle" /\ \A v \in Writers : v # w => write'[v] = write[v]
  BY <1>1, NoWriteTyped DEF ProvidersTyped
<1>3. ProvidersTyped'
  <2>1. write' \in [Writers -> Request]
    BY <1>1, NoWriteTyped DEF ProvidersTyped
  <2>2. QED
    BY <1>2, <2>1 DEF ProvidersTyped, Opened
<1>4. TheyKnow'
  BY <1>2 DEF TheyKnow, Writing
<1>5. \A v \in Writers : Looked(v)' /\ AllGone(v)'
  BY <1>2 DEF Looked, AllGone, Named, Rows
<1>6. NamesDistinctUnlessRaced' /\ AloneReplaces'
  BY DEF NamesDistinctUnlessRaced, AloneReplaces, Rows
<1>7. QED
  BY <1>3, <1>4, <1>5, <1>6

LEMMA LeastIsThere ==
    ASSUME NEW S \in SUBSET Nat, S # {}
    PROVE  \E p \in S : \A q \in S : p <= q
<1>1. PICK p \in S : \A q \in S : <<q, p>> \notin OpToRel(<, Nat)
  BY NatLessThanWellFounded, WFMin
<1>2. \A q \in S : ~(q < p)
  BY <1>1 DEF OpToRel
<1>3. QED
  BY <1>2

LEMMA CredsWritten ==
    ASSUME NEW row \in ProviderRow, NEW w \in Writers, write[w] \in Request, NEW creds \in SUBSET (1 .. MaxWrites)
    PROVE  /\ WithCreds(row, w, creds) \in ProviderRow
           /\ WithCreds(row, w, creds).is = row.is
           /\ WithCreds(row, w, creds).name = row.name
           /\ WithCreds(row, w, creds).raced = row.raced
           /\ WithCreds(row, w, creds).creds = creds
           /\ WithCreds(row, w, creds).last = write[w].number
           /\ WithCreds(row, w, creds).settled = write[w].alone
<1>1. write[w].number \in 0 .. MaxWrites /\ write[w].alone \in BOOLEAN
  BY DEF Request
<1>2. QED
  BY <1>1 DEF WithCreds, ProviderRow

LEMMA CreateKeeps ==
    ASSUME ProvidersInv, NEW w \in Writers, CommitCreate(w)
    PROVE  ProvidersInv'
<1> DEFINE free == {p \in Providers : provider[p].is = "none"}
           id   == CHOOSE p \in free : \A q \in free : p <= q
           new  == [provider[id] EXCEPT !.is = "row", !.name = write[w].name, !.raced = ~write[w].alone]
           row  == WithCreds(new, w, IF write[w].creds = "set" THEN {write[w].number} ELSE {})
<1>1. /\ write[w].at = "ready" /\ write[w].op = "create" /\ Close(w) /\ UNCHANGED writes
      /\ provider' = IF free = {} THEN provider ELSE [provider EXCEPT ![id] = row]
  BY DEF CommitCreate
<1>2. w \in Writing
  BY <1>1 DEF Writing
<1>3. CASE free = {}
  BY <1>1, <1>2, <1>3, CloseKeeps
<1>4. CASE free # {}
  <2>1. id \in Providers
    <3>1. free \in SUBSET Nat
      BY ProvidersAssumption
    <3>2. \E p \in free : \A q \in free : p <= q
      BY <1>4, <3>1, LeastIsThere
    <3>3. id \in free
      BY <3>2
    <3>4. QED
      BY <3>3
  <2> HIDE DEF id
  <2>2. provider[id] \in ProviderRow /\ write[w] \in Request /\ write[w].number \in 1 .. MaxWrites
        /\ write[w].on = None /\ write[w].name \in Names /\ write[w].alone \in BOOLEAN
    BY <1>1, <2>1, NoWriteTyped DEF ProvidersInv, ProvidersTyped, Opened, Request
  <2>3. new \in ProviderRow /\ new.name = write[w].name /\ new.raced = ~write[w].alone
    BY <2>2 DEF ProviderRow
  <2> HIDE DEF new
  <2>4. /\ row \in ProviderRow /\ row.name = write[w].name /\ row.raced = ~write[w].alone
        /\ row.last = write[w].number /\ row.creds \subseteq {write[w].number}
    BY <2>2, <2>3, CredsWritten
  <2> HIDE DEF row
  <2>5. provider' = [provider EXCEPT ![id] = row]
    BY <1>1, <1>4
  <2>6. QED
    BY <1>1, <1>2, <2>1, <2>2, <2>4, <2>5, CommitKeeps
<1>5. QED
  BY <1>3, <1>4

LEMMA UpdateKeeps ==
    ASSUME ProvidersInv, NEW w \in Writers, CommitUpdate(w)
    PROVE  ProvidersInv'
<1> DEFINE p == write[w].on
           row == provider[p]
           named == IF write[w].name = write[w].sees.name THEN row
                    ELSE [row EXCEPT !.name = write[w].name, !.raced = ~write[w].alone]
           kept == row.creds \ write[w].gone
           next == CASE write[w].creds = "keep"  -> named
                     [] write[w].creds = "set"   -> WithCreds(named, w, kept \cup {write[w].number})
                     [] write[w].creds = "clear" -> WithCreds(named, w, kept)
<1>1. /\ write[w].at = "ready" /\ write[w].op = "update" /\ Close(w) /\ UNCHANGED writes
      /\ IF p \notin Rows THEN UNCHANGED provider ELSE provider' = [provider EXCEPT ![p] = next]
  BY DEF CommitUpdate
<1>2. w \in Writing
  BY <1>1 DEF Writing
<1>3. CASE p \notin Rows
  BY <1>1, <1>2, <1>3, CloseKeeps
<1>4. CASE p \in Rows
  <2>1. /\ row \in ProviderRow /\ row.is = "row" /\ write[w] \in Request /\ write[w].number \in 1 .. MaxWrites
        /\ write[w].name \in Names /\ write[w].alone \in BOOLEAN /\ p \in Providers
        /\ write[w].creds \in {"keep", "set", "clear"} /\ write[w].gone \subseteq 1 .. MaxWrites
    BY <1>1, <1>4, NoWriteTyped DEF ProvidersInv, ProvidersTyped, Opened, Request, Rows
  <2>2. row.settled => row.creds \subseteq {row.last}
    BY <1>4 DEF ProvidersInv, AloneReplaces
  <2>3. write[w].creds # "keep" /\ write[w].alone => kept = {}
    BY <1>1 DEF ProvidersInv, AllGone
  <2>4. kept \subseteq 1 .. MaxWrites
    BY <2>1 DEF ProviderRow
  <2> HIDE DEF kept, p
  <2>5. /\ named \in ProviderRow /\ named.is = "row"
        /\ named.creds = row.creds /\ named.last = row.last /\ named.settled = row.settled
        /\ \/ named.name = row.name /\ named.raced = row.raced
           \/ named.name = write[w].name /\ named.raced = ~write[w].alone
    <3>1. CASE write[w].name = write[w].sees.name
      BY <2>1, <3>1
    <3>2. CASE write[w].name # write[w].sees.name
      BY <2>1, <3>2 DEF ProviderRow
    <3>3. QED
      BY <3>1, <3>2
  <2> HIDE DEF named, row
  <2>6. /\ next \in ProviderRow /\ next.is = "row"
        /\ next.name = named.name /\ next.raced = named.raced
        /\ next.settled => next.creds \subseteq {next.last}
    <3>1. CASE write[w].creds = "keep"
      BY <2>2, <2>5, <3>1
    <3>2. CASE write[w].creds = "set"
      <4>1. next = WithCreds(named, w, kept \cup {write[w].number})
        BY <3>2
      <4>2. kept \cup {write[w].number} \in SUBSET (1 .. MaxWrites)
        BY <2>1, <2>4
      <4>3. /\ next \in ProviderRow /\ next.is = named.is /\ next.name = named.name /\ next.raced = named.raced
            /\ next.creds = kept \cup {write[w].number} /\ next.last = write[w].number
            /\ next.settled = write[w].alone
        BY <2>1, <2>5, <4>1, <4>2, CredsWritten
      <4>4. write[w].alone => kept = {}
        BY <2>3, <3>2
      <4>5. QED
        BY <2>5, <4>3, <4>4
    <3>3. CASE write[w].creds = "clear"
      <4>1. next = WithCreds(named, w, kept)
        BY <3>3
      <4>2. QED
        BY <2>1, <2>3, <2>4, <2>5, <3>3, <4>1, CredsWritten
    <3>4. QED
      BY <2>1, <3>1, <3>2, <3>3
  <2> HIDE DEF next
  <2>7. provider' = [provider EXCEPT ![p] = next]
    BY <1>1, <1>4
  <2>8. QED
    BY <1>1, <1>2, <2>1, <2>5, <2>6, <2>7, CommitKeeps DEF row, p
<1>5. QED
  BY <1>3, <1>4

LEMMA CheckKeeps ==
    ASSUME ProvidersInv, NEW w \in Writers, CheckUpdate(w)
    PROVE  ProvidersInv'
<1> USE DEF ProvidersInv
<1>1. /\ write[w].at = "open" /\ write[w].op = "update" /\ UNCHANGED <<provider, writes>>
      /\ IF Conflict(w) THEN Close(w)
         ELSE write' = [write EXCEPT ![w].at = "ready", ![w].gone = Replaced(w)]
  BY DEF CheckUpdate
<1>2. w \in Writing
  BY <1>1 DEF Writing
<1>3. CASE Conflict(w)
  BY <1>1, <1>2, <1>3, CloseKeeps
<1>4. CASE ~Conflict(w)
  <2>1. write[w] \in Request /\ write[w].on \in Providers /\ Replaced(w) \in SUBSET (1 .. MaxWrites)
    BY <1>1, <1>2 DEF ProvidersTyped, Opened, Replaced, ProviderRow
  <2>2. /\ write'[w] = [write[w] EXCEPT !.at = "ready", !.gone = Replaced(w)]
        /\ write' = [write EXCEPT ![w] = write'[w]]
    BY <1>1, <1>4 DEF ProvidersTyped
  <2>3. /\ write'[w] \in Request /\ write'[w].at = "ready" /\ write'[w].op = "update"
        /\ write'[w].on = write[w].on /\ write'[w].name = write[w].name /\ write'[w].creds = write[w].creds
        /\ write'[w].number = write[w].number /\ write'[w].sees = write[w].sees
        /\ write'[w].gone = Replaced(w) /\ write'[w].alone = write[w].alone
    BY <1>1, <2>1, <2>2 DEF Request
  <2>4. \A v \in Writers : v # w => write'[v] = write[v]
    BY <2>2 DEF ProvidersTyped
  <2>5. write' \in [Writers -> Request]
    BY <2>2, <2>3 DEF ProvidersTyped
  <2>6. ProvidersTyped'
    BY <1>1, <2>3, <2>4, <2>5 DEF ProvidersTyped, Opened
  <2>7. TheyKnow'
    BY <1>1, <2>3, <2>4 DEF TheyKnow, Writing
  <2>8. \A v \in Writers : Looked(v)'
    <3>1. Looked(w)'
      BY <1>1, <1>4, <2>3 DEF Looked, Conflict, Named, Rows
    <3>2. \A v \in Writers : v # w => Looked(v)'
      BY <1>1, <2>4 DEF Looked, Named, Rows
    <3>3. QED
      BY <3>1, <3>2
  <2>9. \A v \in Writers : AllGone(v)'
    <3>1. AllGone(w)'
      BY <1>1, <2>3 DEF AllGone, Replaced
    <3>2. \A v \in Writers : v # w => AllGone(v)'
      BY <1>1, <2>4 DEF AllGone
    <3>3. QED
      BY <3>1, <3>2
  <2>10. NamesDistinctUnlessRaced' /\ AloneReplaces'
    BY <1>1 DEF NamesDistinctUnlessRaced, AloneReplaces, Rows
  <2>11. QED
    BY <2>6, <2>7, <2>8, <2>9, <2>10
<1>5. QED
  BY <1>3, <1>4

LEMMA DeleteKeeps ==
    ASSUME ProvidersInv, NEW w \in Writers, NEW elsewhere, CommitDelete(w, elsewhere)
    PROVE  ProvidersInv'
<1>1. w \in Writing /\ Close(w) /\ UNCHANGED writes
  BY DEF CommitDelete, Writing
<1>2. CASE UNCHANGED provider
  BY <1>1, <1>2, CloseKeeps
<1>3. CASE write[w].on \in Rows /\ provider' = [provider EXCEPT ![write[w].on] = [NoRow EXCEPT !.is = "deleted"]]
  <2>1. [NoRow EXCEPT !.is = "deleted"] \in ProviderRow /\ [NoRow EXCEPT !.is = "deleted"].is # "row"
    BY NoWriteTyped DEF NoRow, ProviderRow
  <2>2. write[w].on \in Providers
    BY <1>3 DEF Rows
  <2>3. QED
    BY <1>1, <1>3, <2>1, <2>2, CommitKeeps
<1>4. QED
  BY <1>2, <1>3 DEF CommitDelete

LEMMA OpenWriteKeeps ==
    ASSUME ProvidersInv, NEW w \in Writers, OpenWrite(w)
    PROVE  ProvidersInv'
<1>1. \A p \in Providers : p \in Rows => Read(p) \in Reading
  BY DEF Read, Reading, ProvidersInv, ProvidersTyped, ProviderRow
<1>2. ASSUME NEW name \in Names, NEW creds \in {"set", "clear"}, OpenCreate(w, name, creds)
      PROVE  ProvidersInv'
  <2> DEFINE r == [NoWrite EXCEPT !.at = "ready", !.op = "create", !.name = name, !.creds = creds]
  <2>1. r \in Request /\ r.at = "ready" /\ r.op = "create" /\ r.on = None /\ r.name = name /\ r.creds = creds
    BY NoWriteTyped DEF NoWrite, Request
  <2>2. Named(name) = {} /\ Open(w, r)
    BY <1>2 DEF OpenCreate
  <2> HIDE DEF r
  <2>3. QED
    BY <2>1, <2>2, OpenKeeps
<1>3. ASSUME NEW p \in Providers, OpenDelete(w, p)
      PROVE  ProvidersInv'
  <2> DEFINE r == [NoWrite EXCEPT !.at = "ready", !.op = "delete", !.on = p, !.sees = Read(p)]
  <2>1. p \in Rows /\ Open(w, r)
    BY <1>3 DEF OpenDelete
  <2>2. r \in Request /\ r.at = "ready" /\ r.op = "delete" /\ r.sees \in Reading
    BY <1>1, <2>1, NoWriteTyped DEF NoWrite, Request
  <2> HIDE DEF r
  <2>3. QED
    BY <2>1, <2>2, OpenKeeps
<1>4. ASSUME NEW p \in Providers, NEW name \in Names, NEW creds \in {"keep", "set", "clear"},
             OpenUpdate(w, p, name, creds)
      PROVE  ProvidersInv'
  <2> DEFINE r == [NoWrite EXCEPT !.at = "open", !.op = "update", !.on = p, !.name = name,
                                  !.creds = creds, !.sees = Read(p)]
  <2>1. p \in Rows /\ Open(w, r)
    BY <1>4 DEF OpenUpdate
  <2>2. r \in Request /\ r.at = "open" /\ r.op = "update" /\ r.sees \in Reading /\ r.on = p /\ r.name = name
        /\ r.creds = creds
    BY <1>1, <2>1, NoWriteTyped DEF NoWrite, Request
  <2> HIDE DEF r
  <2>3. QED
    BY <2>1, <2>2, OpenKeeps
<1>5. QED
  BY <1>2, <1>3, <1>4 DEF OpenWrite

LEMMA ServeWriteKeeps ==
    ASSUME ProvidersInv, NEW w \in Writers, NEW elsewhere, ServeWrite(w, elsewhere)
    PROVE  ProvidersInv'
<1>1. CASE FailWrite(w)
  BY <1>1, CloseKeeps DEF FailWrite
<1>2. QED
  BY <1>1, CheckKeeps, CreateKeeps, UpdateKeeps, DeleteKeeps DEF ServeWrite

LEMMA ProvidersStart == ProvidersInit => ProvidersInv
<1> SUFFICES ASSUME ProvidersInit PROVE ProvidersInv
  OBVIOUS
<1>1. /\ write = [w \in Writers |-> NoWrite] /\ writes = Earlier
      /\ provider = [p \in Providers |-> IF p \in Stored
                       THEN [NoRow EXCEPT !.is = "row", !.name = FirstName[p], !.creds = 1 .. Earlier,
                                          !.last = Earlier, !.settled = Earlier <= 1]
                       ELSE NoRow]
  BY DEF ProvidersInit
<1>2. Earlier \in 0 .. MaxWrites /\ 1 .. Earlier \subseteq 1 .. MaxWrites
  BY ProvidersAssumption
<1>3. ASSUME NEW p \in Stored
      PROVE  /\ provider[p] \in ProviderRow /\ provider[p].name = FirstName[p] /\ provider[p].creds = 1 .. Earlier
             /\ provider[p].last = Earlier /\ provider[p].settled = (Earlier <= 1)
  <2>1. p \in Providers /\ FirstName[p] \in Names
    BY ProvidersAssumption
  <2>2. provider[p] = [NoRow EXCEPT !.is = "row", !.name = FirstName[p], !.creds = 1 .. Earlier,
                                    !.last = Earlier, !.settled = Earlier <= 1]
    BY <1>1, <2>1
  <2>3. (Earlier <= 1) \in BOOLEAN
    BY <1>2
  <2>4. QED
    BY <1>2, <2>1, <2>2, <2>3 DEF NoRow, ProviderRow
<1>4. \A p \in Providers : p \notin Stored => provider[p] = NoRow /\ NoRow.is = "none"
  BY <1>1 DEF NoRow
<1>5. Rows \subseteq Stored
  BY <1>4 DEF Rows
<1>6. ProvidersTyped
  <2>1. provider \in [Providers -> ProviderRow]
    <3>1. \A p \in Providers : provider[p] \in ProviderRow
      BY <1>3, <1>4, NoWriteTyped
    <3>2. QED
      BY <1>1, <3>1
  <2>2. QED
    BY <1>1, <1>2, <2>1, NoWriteTyped DEF ProvidersTyped, Opened
<1>7. TheyKnow /\ \A w \in Writers : Looked(w) /\ AllGone(w)
  BY <1>1, NoWriteTyped DEF TheyKnow, Writing, Looked, AllGone
<1>8. NamesDistinctUnlessRaced
  BY <1>3, <1>5, ProvidersAssumption DEF NamesDistinctUnlessRaced
<1>9. AloneReplaces
  <2>1. Earlier <= 1 => 1 .. Earlier \subseteq {Earlier}
    BY <1>2
  <2>2. QED
    BY <1>3, <1>5, <2>1 DEF AloneReplaces
<1>10. QED
  BY <1>6, <1>7, <1>8, <1>9 DEF ProvidersInv
-----------------------------------------------------------------------------
(* The administrators of the tools. *)

LEMMA NoEditTyped ==
    /\ NoEdit \in Edit /\ NoEdit.at = "idle" /\ Absent \in ToolRow /\ MaxEdits \in Nat
    /\ Absent.id = 0 /\ ~Absent.is /\ ~Absent.off
    /\ \A n \in 0 .. MaxEdits, enabled, needs \in BOOLEAN :
         /\ Fresh(n, enabled, needs) \in ToolRow /\ Fresh(n, enabled, needs).id = n
         /\ Fresh(n, enabled, needs).enabled = enabled /\ ~Fresh(n, enabled, needs).off
<1>1. MaxEdits \in Nat
  BY RegistryAssumption
<1>2. NoEdit \in Edit /\ NoEdit.at = "idle"
  <2> DEFINE Seen == ToolRow \cup (SUBSET Tools) \cup {Null}
  <2>1. Null \in Seen /\ Null \in Tools \cup {Null}
    OBVIOUS
  <2> HIDE DEF Seen
  <2>0. 0 \in 0 .. MaxEdits
    BY <1>1
  <2>2. Edit = [at : {"idle", "open"}, op : {"upsert", "delete", "put", "drop", "sync", Null}, on : Tools \cup {Null},
                enabled : BOOLEAN, needs : BOOLEAN, number : 0 .. MaxEdits, sees : Seen, alone : BOOLEAN]
    BY DEF Edit, Seen
  <2>3. QED
    BY <2>0, <2>1, <2>2 DEF NoEdit
<1>3. Absent \in ToolRow /\ Absent.id = 0 /\ ~Absent.is /\ ~Absent.off
  BY <1>1 DEF Absent, ToolRow
<1>4. ASSUME NEW n \in 0 .. MaxEdits, NEW enabled \in BOOLEAN, NEW needs \in BOOLEAN
      PROVE  /\ Fresh(n, enabled, needs) \in ToolRow /\ Fresh(n, enabled, needs).id = n
             /\ Fresh(n, enabled, needs).enabled = enabled /\ ~Fresh(n, enabled, needs).off
  BY DEF Fresh, Absent, ToolRow
<1>5. QED
  BY <1>1, <1>2, <1>3, <1>4

LEMMA BeginKeeps ==
    ASSUME RegistryInv, NEW e \in Editors, NEW r \in Edit, r.op \in {"upsert", "delete", "put", "drop", "sync"},
           r.op # "sync" => r.on \in Tools /\ r.sees = ReadTool(r.on),
           r.op = "sync" => r.sees \subseteq Tools,
           Begin(e, r)
    PROVE  RegistryInv'
<1> USE DEF RegistryInv
<1> DEFINE rivals == IF r.op \in {"upsert", "delete"} THEN Rivals(r.on) ELSE {}
<1>1. /\ UNCHANGED <<tool, cache>> /\ edit[e].at = "idle" /\ edits < MaxEdits /\ edits' = edits + 1
      /\ e \notin Editing
  BY DEF Begin, Editing
<1>2. edit' = [d \in Editors |-> IF d = e THEN [r EXCEPT !.at = "open", !.number = edits + 1, !.alone = (rivals = {})]
                                 ELSE IF d \in rivals THEN [edit[d] EXCEPT !.alone = FALSE] ELSE edit[d]]
  <2>1. e \notin rivals
    BY <1>1 DEF Rivals
  <2>2. QED
    BY <2>1 DEF Begin
<1>3. edits \in Nat /\ edits + 1 \in 1 .. MaxEdits /\ edits' \in 0 .. MaxEdits
  BY <1>1, NoEditTyped DEF RegistryTyped
<1>4. \A d \in rivals : d \in Editing /\ edit[d].op \in {"upsert", "delete"} /\ edit[d].on = r.on
  BY DEF Rivals
<1>5. r.op \in {"upsert", "delete"} =>
          \A d \in Editing : edit[d].op \in {"upsert", "delete"} /\ edit[d].on = r.on => d \in rivals
  BY DEF Rivals
<1> HIDE DEF rivals
<1>6. /\ edit'[e] \in Edit /\ edit'[e].number = edits + 1 /\ edit'[e].alone = (rivals = {})
      /\ edit'[e].at = "open" /\ edit'[e].op = r.op /\ edit'[e].on = r.on /\ edit'[e].sees = r.sees
  <2>1. edit'[e] = [r EXCEPT !.at = "open", !.number = edits + 1, !.alone = (rivals = {})]
    BY <1>2
  <2>2. edits + 1 \in 0 .. MaxEdits /\ (rivals = {}) \in BOOLEAN
    BY <1>3
  <2>3. QED
    BY <2>1, <2>2 DEF Edit
<1>7. ASSUME NEW d \in Editors, d # e
      PROVE  /\ edit'[d] \in Edit /\ edit'[d].at = edit[d].at /\ edit'[d].op = edit[d].op
             /\ edit'[d].on = edit[d].on /\ edit'[d].number = edit[d].number /\ edit'[d].sees = edit[d].sees
             /\ edit'[d].alone => edit[d].alone /\ d \notin rivals
  <2>1. edit[d] \in Edit
    BY DEF RegistryTyped
  <2>2. CASE d \in rivals
    <3>1. edit'[d] = [edit[d] EXCEPT !.alone = FALSE]
      BY <1>2, <1>7, <2>2
    <3>2. QED
      BY <2>1, <3>1 DEF Edit
  <2>3. CASE d \notin rivals
    BY <1>2, <1>7, <2>1, <2>3
  <2>4. QED
    BY <2>2, <2>3
<1>8. Editing' = Editing \cup {e}
  BY <1>6, <1>7 DEF Editing
<1>9. r.op # "sync" => /\ r.sees \in ToolRow /\ r.sees.id = tool[r.on].id
                       /\ r.sees.enabled = tool[r.on].enabled
  <2>1. r.op # "sync" => r.on \in Tools /\ tool[r.on] \in ToolRow /\ r.sees = [tool[r.on] EXCEPT !.off = FALSE]
    BY DEF ReadTool, RegistryTyped
  <2>2. QED
    BY <2>1 DEF ToolRow
<1>10. RegistryTyped'
  <2>1. edit' \in [Editors -> Edit]
    BY <1>2, <1>6, <1>7
  <2>2. Begun(edit[e])'
    BY <1>1, <1>3, <1>6, <1>9 DEF Begun
  <2>3. \A d \in Editors : d # e => Begun(edit[d])'
    BY <1>1, <1>3, <1>7 DEF Begun, RegistryTyped
  <2>4. QED
    BY <1>1, <1>3, <2>1, <2>2, <2>3 DEF RegistryTyped
<1>11. IdsDiffer'
  <2>1. \A x \in Tools : tool[x].id \in Nat /\ tool[x].id <= edits
    BY DEF IdsDiffer, RegistryTyped, ToolRow
  <2>2. \A d \in Editing : d # e /\ edit[d].number \in 1 .. edits /\ edit'[d].number = edit[d].number
                           /\ edit'[d].op = edit[d].op /\ edit'[d].sees = edit[d].sees
    <3>1. \A d \in Editing : d \in Editors /\ edit[d].at = "open" /\ d # e
      BY <1>1 DEF Editing, RegistryTyped, Edit
    <3>2. QED
      BY <1>7, <3>1 DEF RegistryTyped, Begun
  <2>3. r.op # "sync" => /\ r.sees.id <= edits /\ r.sees.id \in Nat
                         /\ \A d \in Editing : r.sees.id # edit[d].number
    BY <1>9, <2>1 DEF IdsDiffer
  <2>4. \A d \in Editing : edit[d].op # "sync" => Saw(d).id <= edits /\ Saw(d).id \in Nat
    <3>1. \A d \in Editing : edit[d].op # "sync" => Saw(d) \in ToolRow
      BY DEF Editing, RegistryTyped, Begun, Edit, Saw
    <3>2. QED
      BY <3>1 DEF IdsDiffer, ToolRow
  <2>5. \A x \in Tools : tool'[x].id <= edits' /\ tool'[x].id # edits + 1
    BY <1>1, <1>3, <2>1
  <2>6. \A d \in Editing : edit[d].number # edits + 1
    BY <1>3, <2>2
  <2>7. \A d \in Editing' : edit'[d].op # "sync" => Saw(d)'.id <= edits' /\ Saw(d)'.id # edits + 1
    BY <1>1, <1>3, <1>6, <1>8, <2>2, <2>3, <2>4 DEF Saw
  <2>8. \A d, f \in Editing' : d # f => edit'[d].number # edit'[f].number
    BY <1>6, <1>8, <2>2, <2>6 DEF IdsDiffer
  <2>9. \A d \in Editing', x \in Tools : tool'[x].id # edit'[d].number
    BY <1>1, <1>6, <1>8, <2>2, <2>5 DEF IdsDiffer
  <2>10. \A d, f \in Editing' : edit'[f].op # "sync" => Saw(f)'.id # edit'[d].number
    <3>1. \A f \in Editing' : edit'[f].op # "sync" => Saw(f)'.id # edit'[e].number
      BY <1>6, <2>7
    <3>2. \A d, f \in Editing : edit'[f].op # "sync" => Saw(f)'.id # edit'[d].number
      BY <2>2 DEF IdsDiffer, Saw
    <3>3. \A d \in Editing : edit'[e].op # "sync" => Saw(e)'.id # edit'[d].number
      BY <1>6, <2>2, <2>3 DEF Saw
    <3>4. QED
      BY <1>8, <3>1, <3>2, <3>3
  <2>11. QED
    BY <2>5, <2>7, <2>8, <2>9, <2>10 DEF IdsDiffer
<1>12. RivalsKnow'
  <2> SUFFICES ASSUME NEW c \in Editing', NEW d \in Editing', c # d,
                      {edit'[c].op, edit'[d].op} \subseteq {"upsert", "delete"}, edit'[c].on = edit'[d].on
               PROVE  ~edit'[c].alone
    BY DEF RivalsKnow
  <2>1. CASE c = e
    <3>1. d \in Editing /\ d # e /\ d \in Editors
      BY <1>8, <2>1 DEF Editing
    <3>2. d \in rivals
      BY <1>5, <1>6, <1>7, <2>1, <3>1
    <3>3. QED
      BY <1>6, <2>1, <3>2
  <2>2. CASE c # e /\ d = e
    <3>1. c \in Editing /\ c \in Editors
      BY <1>8, <2>2 DEF Editing
    <3>2. c \in rivals
      BY <1>5, <1>6, <1>7, <2>2, <3>1
    <3>3. QED
      BY <1>7, <2>2, <3>1, <3>2
  <2>3. CASE c # e /\ d # e
    <3>1. c \in Editing /\ d \in Editing /\ c \in Editors /\ d \in Editors
      BY <1>8, <2>3 DEF Editing
    <3>2. QED
      BY <1>7, <2>3, <3>1 DEF RivalsKnow
  <2>4. QED
    BY <2>1, <2>2, <2>3
<1>13. \A d \in Editors : StillSo(d)'
  <2>1. StillSo(e)'
    BY <1>1, <1>6, <1>9 DEF StillSo, Saw
  <2>2. \A d \in Editors : d # e => StillSo(d)'
    BY <1>1, <1>7 DEF StillSo, Saw, Same
  <2>3. QED
    BY <2>1, <2>2
<1>14. DisabledStays'
  BY <1>1 DEF DisabledStays
<1>15. QED
  BY <1>10, <1>11, <1>12, <1>13, <1>14

\* What a commit may make of the rows.
LEMMA EndKeeps ==
    ASSUME RegistryInv, NEW e \in Editing, End(e), tool' \in [Tools -> ToolRow],
           \A x \in Tools :
               /\ tool'[x].off => ~tool'[x].enabled
               /\ \/ tool'[x].is = tool[x].is /\ tool'[x].id = tool[x].id /\ tool'[x].enabled = tool[x].enabled
                  \/ ~tool'[x].is /\ tool'[x].id = 0
                  \/ tool'[x].id = edit[e].number
                  \/ tool'[x].id = tool[x].id /\ edit[e].op = "upsert" /\ edit[e].on = x
    PROVE  RegistryInv'
<1> USE DEF RegistryInv
<1>1. /\ edit' = [edit EXCEPT ![e] = NoEdit] /\ UNCHANGED <<cache, edits>>
      /\ e \in Editors /\ edit[e].at = "open" /\ edit[e].number \in 1 .. edits
  BY DEF End, Editing, RegistryTyped, Edit, Begun
<1>2. edit'[e].at = "idle" /\ \A d \in Editors : d # e => edit'[d] = edit[d]
  BY <1>1, NoEditTyped DEF RegistryTyped
<1>3. Editing' = Editing \ {e} /\ Editing' \subseteq Editors
  BY <1>2 DEF Editing
<1>4. RegistryTyped'
  <2>1. edit' \in [Editors -> Edit]
    BY <1>1, NoEditTyped DEF RegistryTyped
  <2>2. \A d \in Editors : Begun(edit[d])'
    BY <1>1, <1>2 DEF RegistryTyped, Begun
  <2>3. QED
    BY <1>1, <2>1, <2>2 DEF RegistryTyped
<1>5. \A d \in Editing' : d \in Editing /\ d # e /\ edit'[d] = edit[d] /\ edit[d].number >= 1
                          /\ edit[d].number # edit[e].number
  <2>1. \A d \in Editing : edit[d].number >= 1
    BY DEF RegistryTyped, Begun, Editing, Edit
  <2>2. QED
    BY <1>2, <1>3, <2>1 DEF IdsDiffer
<1>6. IdsDiffer'
  <2>1. \A x \in Tools : tool'[x].id \in {tool[x].id, 0, edit[e].number}
    OBVIOUS
  <2>2. \A x \in Tools : tool'[x].id <= edits
    BY <1>1, <2>1 DEF IdsDiffer, RegistryTyped
  <2>3. \A d \in Editing', x \in Tools : tool'[x].id # edit'[d].number
    BY <1>5, <2>1 DEF IdsDiffer
  <2>4. QED
    BY <1>1, <1>5, <2>2, <2>3 DEF IdsDiffer, Saw
<1>7. RivalsKnow'
  BY <1>5 DEF RivalsKnow
<1>8. \A d \in Editors : StillSo(d)'
  <2> SUFFICES ASSUME NEW d \in Editors, d # e, edit[d].at = "open", edit[d].op = "upsert", edit[d].alone,
                      tool'[edit[d].on].is, tool'[edit[d].on].id = Saw(d).id
               PROVE  tool'[edit[d].on].enabled = Saw(d).enabled
    BY <1>2 DEF StillSo, Same, Saw
  <2> DEFINE x == edit[d].on
  <2>1. x \in Tools /\ d \in Editing
    BY DEF RegistryTyped, Begun, Editing
  <2>2. tool'[x].id # edit[e].number
    BY <2>1 DEF IdsDiffer
  <2>3. ~(edit[e].op = "upsert" /\ edit[e].on = x)
    BY <2>1 DEF RivalsKnow
  <2>4. tool'[x].is = tool[x].is /\ tool'[x].id = tool[x].id /\ tool'[x].enabled = tool[x].enabled
    BY <2>1, <2>2, <2>3
  <2>5. QED
    BY <2>4 DEF StillSo, Same
<1>9. DisabledStays'
  BY DEF DisabledStays
<1>10. QED
  BY <1>4, <1>6, <1>7, <1>8, <1>9
LEMMA UpsertKeeps ==
    ASSUME RegistryInv, NEW e \in Editors, CommitUpsert(e)
    PROVE  RegistryInv'
<1> USE DEF RegistryInv
<1> DEFINE x   == edit[e].on
           row == tool[x]
           new == IF ~Saw(e).is THEN Fresh(edit[e].number, edit[e].enabled, edit[e].needs)
                  ELSE [row EXCEPT !.enabled = IF edit[e].enabled = Saw(e).enabled THEN @ ELSE edit[e].enabled,
                                   !.needs = IF edit[e].needs = Saw(e).needs THEN @ ELSE edit[e].needs]
           last == [new EXCEPT !.off = edit[e].alone /\ ~edit[e].enabled]
<1>1. /\ edit[e].at = "open" /\ edit[e].op = "upsert" /\ End(e)
      /\ IF (Saw(e).is /\ Same(e)) \/ (~Saw(e).is /\ ~row.is)
         THEN tool' = [tool EXCEPT ![x] = last] ELSE UNCHANGED tool
  BY DEF CommitUpsert, Serving, Becomes
<1>2. e \in Editing
  BY <1>1 DEF Editing
<1>3. /\ x \in Tools /\ row \in ToolRow /\ Saw(e) \in ToolRow /\ edit[e] \in Edit
      /\ edit[e].enabled \in BOOLEAN /\ edit[e].needs \in BOOLEAN /\ edit[e].alone \in BOOLEAN
      /\ edit[e].number \in 0 .. MaxEdits
  <2>1. x \in Tools /\ edit[e].sees \in ToolRow /\ edit[e] \in Edit
    BY <1>1 DEF RegistryTyped, Begun
  <2>2. edit[e].enabled \in BOOLEAN /\ edit[e].needs \in BOOLEAN /\ edit[e].alone \in BOOLEAN
        /\ edit[e].number \in 0 .. MaxEdits
    BY <2>1 DEF Edit
  <2>3. QED
    BY <2>1, <2>2 DEF RegistryTyped, Saw
<1>4. \A y \in Tools : tool[y].off => ~tool[y].enabled
  BY DEF DisabledStays
<1>5. CASE UNCHANGED tool
  BY <1>1, <1>2, <1>4, <1>5, EndKeeps DEF RegistryTyped
<1>6. CASE ((Saw(e).is /\ Same(e)) \/ ~Saw(e).is) /\ tool' = [tool EXCEPT ![x] = last]
  <2>1. /\ new \in ToolRow
        /\ new.id = (IF Saw(e).is THEN row.id ELSE edit[e].number)
        /\ new.enabled = (IF Saw(e).is /\ edit[e].enabled = Saw(e).enabled THEN row.enabled ELSE edit[e].enabled)
    <3>1. CASE ~Saw(e).is
      BY <1>3, <3>1, NoEditTyped
    <3>2. CASE Saw(e).is
      BY <1>3, <3>2 DEF ToolRow
    <3>3. QED
      BY <3>1, <3>2
  <2>2. edit[e].alone => new.enabled = edit[e].enabled
    BY <1>1, <1>6, <2>1 DEF StillSo
  <2> HIDE DEF new
  <2>3. /\ last \in ToolRow /\ last.id = new.id /\ last.enabled = new.enabled
        /\ last.off = (edit[e].alone /\ ~edit[e].enabled)
    <3>1. (edit[e].alone /\ ~edit[e].enabled) \in BOOLEAN
      BY <1>3
    <3>2. QED
      BY <2>1, <3>1 DEF ToolRow
  <2> HIDE DEF last, row
  <2>4. tool'[x] = last /\ \A y \in Tools : y # x => tool'[y] = tool[y]
    BY <1>3, <1>6 DEF RegistryTyped
  <2>5. tool' \in [Tools -> ToolRow]
    BY <1>6, <2>3 DEF RegistryTyped
  <2>6. last.off => ~last.enabled
    BY <2>2, <2>3
  <2>7. last.id \in {tool[x].id, edit[e].number}
    BY <2>1, <2>3 DEF row
  <2> HIDE DEF x
  <2>8. edit[e].on = x
    BY DEF x
  <2>9. QED
    BY <1>1, <1>2, <1>4, <2>4, <2>5, <2>6, <2>7, <2>8, EndKeeps
<1>7. QED
  BY <1>1, <1>5, <1>6

\* The other commits: no row is disabled or enabled.
LEMMA OthersKeep ==
    ASSUME RegistryInv, NEW e \in Editors,
           CommitDeleteTool(e) \/ CommitPut(e) \/ CommitDrop(e) \/ CommitSync(e)
    PROVE  RegistryInv'
<1> USE DEF RegistryInv
<1>1. e \in Editing /\ End(e) /\ edit[e].at = "open"
  BY DEF CommitDeleteTool, CommitPut, CommitDrop, CommitSync, Serving, Editing
<1>2. /\ \A y \in Tools : (tool[y].off => ~tool[y].enabled) /\ tool[y] \in ToolRow
      /\ tool = [y \in Tools |-> tool[y]] /\ tool \in [Tools -> ToolRow]
  BY DEF DisabledStays, RegistryTyped
<1>3. CASE UNCHANGED tool
  BY <1>1, <1>2, <1>3, EndKeeps
<1>4. edit[e].number \in 1 .. MaxEdits
  BY <1>1, NoEditTyped DEF RegistryTyped, Begun
<1>5. ASSUME NEW x \in Tools, NEW row \in ToolRow, tool' = [tool EXCEPT ![x] = row],
             \/ row = Absent
             \/ row.is = tool[x].is /\ row.id = tool[x].id /\ row.enabled = tool[x].enabled /\ row.off = tool[x].off
      PROVE  RegistryInv'
  <2>1. tool'[x] = row /\ (\A y \in Tools : y # x => tool'[y] = tool[y]) /\ tool' \in [Tools -> ToolRow]
    BY <1>2, <1>5
  <2>2. row.off => ~row.enabled
    BY <1>2, <1>5, NoEditTyped
  <2>3. \/ ~row.is /\ row.id = 0
        \/ row.is = tool[x].is /\ row.id = tool[x].id /\ row.enabled = tool[x].enabled
    BY <1>5, NoEditTyped
  <2>4. QED
    BY <1>1, <1>2, <2>1, <2>2, <2>3, EndKeeps
<1>6. edit[e].op # "sync" => edit[e].on \in Tools
  BY <1>1 DEF RegistryTyped, Begun
<1>7. CASE CommitDeleteTool(e)
  <2>1. edit[e].on \in Tools /\ (tool' = [tool EXCEPT ![edit[e].on] = Absent] \/ UNCHANGED tool)
    BY <1>6, <1>7 DEF CommitDeleteTool, Serving, Becomes
  <2>2. QED
    BY <1>3, <1>5, <2>1, NoEditTyped
<1>8. ASSUME NEW x \in Tools, NEW secret \in 1 .. MaxEdits \cup {Null},
             tool' = [tool EXCEPT ![x] = [tool[x] EXCEPT !.secret = secret]]
      PROVE  RegistryInv'
  <2> DEFINE row == [tool[x] EXCEPT !.secret = secret]
  <2>1. /\ row \in ToolRow /\ row.is = tool[x].is /\ row.id = tool[x].id /\ row.enabled = tool[x].enabled
        /\ row.off = tool[x].off
    BY <1>2 DEF ToolRow
  <2> HIDE DEF row
  <2>2. tool' = [tool EXCEPT ![x] = row]
    BY <1>8 DEF row
  <2>3. QED
    BY <1>5, <2>1, <2>2
<1>9. CASE CommitPut(e)
  <2>1. edit[e].on \in Tools
    BY <1>6, <1>9 DEF CommitPut, Serving
  <2>2. \/ UNCHANGED tool
        \/ tool' = [tool EXCEPT ![edit[e].on] = [tool[edit[e].on] EXCEPT !.secret = edit[e].number]]
    BY <1>9 DEF CommitPut, Becomes
  <2>3. QED
    BY <1>3, <1>4, <1>8, <2>1, <2>2
<1>10. CASE CommitDrop(e)
  <2>1. edit[e].on \in Tools
    BY <1>6, <1>10 DEF CommitDrop, Serving
  <2>2. \/ UNCHANGED tool
        \/ tool' = [tool EXCEPT ![edit[e].on] = [tool[edit[e].on] EXCEPT !.secret = Null]]
    BY <1>10 DEF CommitDrop, Becomes
  <2>3. QED
    BY <1>3, <1>8, <2>1, <2>2
<1>11. CASE CommitSync(e) /\ tool' # tool
  <2> DEFINE new == Fresh(edit[e].number, TRUE, FALSE)
  <2>1. tool' = [x \in Tools |-> IF x \in Tools \ Saw(e) THEN new ELSE tool[x]]
    BY <1>11 DEF CommitSync
  <2>2. new \in ToolRow /\ new.id = edit[e].number /\ ~new.off
    <3>1. edit[e].number \in 0 .. MaxEdits
      BY <1>4
    <3>2. QED
      BY <3>1, NoEditTyped
  <2> HIDE DEF new
  <2>3. tool' \in [Tools -> ToolRow]
    BY <1>2, <2>1, <2>2
  <2>4. \A x \in Tools : tool'[x] = new \/ tool'[x] = tool[x]
    BY <2>1
  <2>5. QED
    BY <1>1, <1>2, <2>2, <2>3, <2>4, EndKeeps
<1>12. QED
  BY <1>3, <1>7, <1>9, <1>10, <1>11

LEMMA ServeEditKeeps ==
    ASSUME RegistryInv, NEW e \in Editors, ServeEdit(e)
    PROVE  RegistryInv'
  BY UpsertKeeps, OthersKeep DEF ServeEdit

LEMMA OpenEditKeeps ==
    ASSUME RegistryInv, NEW e \in Editors, OpenEdit(e)
    PROVE  RegistryInv'
<1> DEFINE Seen == ToolRow \cup (SUBSET Tools) \cup {Null}
<1>1. \A x \in Tools : ReadTool(x) \in Seen
  BY DEF RegistryInv, RegistryTyped, ReadTool, ToolRow
<1>2. {x \in Tools : tool[x].is} \in Seen
  OBVIOUS
<1> HIDE DEF Seen
<1>3. Edit = [at : {"idle", "open"}, op : {"upsert", "delete", "put", "drop", "sync", Null}, on : Tools \cup {Null},
              enabled : BOOLEAN, needs : BOOLEAN, number : 0 .. MaxEdits, sees : Seen, alone : BOOLEAN]
  BY DEF Edit, Seen
<1>4. NoEdit \in Edit
  BY NoEditTyped
<1>5. CASE BeginSync(e)
  <2> DEFINE r == [NoEdit EXCEPT !.op = "sync", !.sees = {x \in Tools : tool[x].is}]
  <2>1. r \in Edit /\ r.op = "sync" /\ r.sees \subseteq Tools
    BY <1>2, <1>3, <1>4 DEF NoEdit
  <2>2. Begin(e, r)
    BY <1>5 DEF BeginSync
  <2> HIDE DEF r
  <2>3. QED
    BY <2>1, <2>2, BeginKeeps
<1>6. ASSUME NEW x \in Tools, NEW enabled \in BOOLEAN, NEW needs \in BOOLEAN, BeginUpsert(e, x, enabled, needs)
      PROVE  RegistryInv'
  <2> DEFINE r == [NoEdit EXCEPT !.op = "upsert", !.on = x, !.sees = ReadTool(x), !.enabled = enabled,
                                 !.needs = needs]
  <2>1. r \in Edit /\ r.op = "upsert" /\ r.on = x /\ r.sees = ReadTool(x)
    BY <1>1, <1>3, <1>4 DEF NoEdit
  <2>2. Begin(e, r)
    BY <1>6 DEF BeginUpsert
  <2> HIDE DEF r
  <2>3. QED
    BY <2>1, <2>2, BeginKeeps
<1>7. ASSUME NEW x \in Tools, NEW op \in {"delete", "put", "drop"}, BeginOn(e, op, x)
      PROVE  RegistryInv'
  <2> DEFINE r == [NoEdit EXCEPT !.op = op, !.on = x, !.sees = ReadTool(x)]
  <2>1. r \in Edit /\ r.op = op /\ r.on = x /\ r.sees = ReadTool(x)
    BY <1>1, <1>3, <1>4 DEF NoEdit
  <2>2. Begin(e, r)
    BY <1>7 DEF BeginOn
  <2> HIDE DEF r
  <2>3. QED
    BY <2>1, <2>2, BeginKeeps
<1>8. QED
  BY <1>5, <1>6, <1>7 DEF OpenEdit

LEMMA RegistryStart == RegistryInit => RegistryInv
<1> SUFFICES ASSUME RegistryInit PROVE RegistryInv
  OBVIOUS
<1>1. /\ tool = [x \in Tools |-> IF x \in Registered THEN Fresh(0, TRUE, FALSE) ELSE Absent]
      /\ cache = [x \in Tools |-> Null] /\ edit = [e \in Editors |-> NoEdit] /\ edits = 0
  BY DEF RegistryInit
<1>2. Editing = {} /\ \A e \in Editors : edit[e].at = "idle"
  BY <1>1, NoEditTyped DEF Editing
<1>3. 0 \in 0 .. MaxEdits
  BY NoEditTyped
<1>4. \A x \in Tools : tool[x] \in ToolRow /\ tool[x].id = 0 /\ ~tool[x].off
  BY <1>1, <1>3, NoEditTyped
<1>5. RegistryTyped
  BY <1>1, <1>2, <1>3, <1>4, NoEditTyped DEF RegistryTyped, Begun
<1>6. IdsDiffer /\ RivalsKnow
  <2>0. edits = 0 /\ 0 <= 0
    BY <1>1
  <2>1. \A x \in Tools : tool[x].id <= edits
    BY <1>4, <2>0
  <2>2. QED
    BY <1>2, <2>1 DEF IdsDiffer, RivalsKnow
<1>7. (\A e \in Editors : StillSo(e)) /\ DisabledStays
  BY <1>2, <1>4 DEF StillSo, DisabledStays
<1>8. QED
  BY <1>5, <1>6, <1>7 DEF RegistryInv
-----------------------------------------------------------------------------
(* The chat requests. *)

LEMMA Todo ==
    /\ <<>> \in BoundedSeq(Tools, MaxTools)
    /\ \A s \in BoundedSeq(Tools, MaxTools) :
         s # <<>> => Head(s) \in Tools /\ Tail(s) \in BoundedSeq(Tools, MaxTools)
<1>1. MaxTools \in Nat
  BY ChatServicesAssumption
<1>2. BoundedSeq(Tools, MaxTools) = UNION {[1 .. m -> Tools] : m \in 0 .. MaxTools}
  BY DEF BoundedSeq, SeqOf
<1>3. <<>> \in BoundedSeq(Tools, MaxTools)
  <2>1. <<>> \in [1 .. 0 -> Tools]
    OBVIOUS
  <2>2. QED
    BY <1>1, <1>2, <2>1
<1>4. ASSUME NEW s \in BoundedSeq(Tools, MaxTools), s # <<>>
      PROVE  Head(s) \in Tools /\ Tail(s) \in BoundedSeq(Tools, MaxTools)
  <2>1. PICK m \in 0 .. MaxTools : s \in [1 .. m -> Tools]
    BY <1>2
  <2>2. s \in Seq(Tools) /\ Len(s) = m
    BY <1>1, <2>1
  <2>3. m - 1 \in 0 .. MaxTools
    BY <1>1, <1>4, <2>1, <2>2
  <2>4. Head(s) \in Tools /\ Tail(s) \in Seq(Tools) /\ Len(Tail(s)) = m - 1
    BY <1>4, <2>2
  <2>5. Tail(s) \in [1 .. (m - 1) -> Tools]
    <3>1. Tail(s) \in [1 .. Len(Tail(s)) -> Tools]
      BY <2>4, LenProperties
    <3>2. QED
      BY <2>4, <3>1
  <2>6. QED
    BY <1>2, <2>3, <2>4, <2>5
<1>5. QED
  BY <1>3, <1>4

LEMMA IdleTurn ==
    /\ Idle \in Turn /\ Idle.at = "idle" /\ Idle.barred = {} /\ Idle.key = None /\ None # "environment"
  BY Todo, ChatServicesAssumption DEF Idle, Turn, Ended, Keys

\* The database and the registry stay, and one turn goes on.
LEMMA TurnGoesOn ==
    ASSUME TurnsInv, NEW t \in Turns, NEW r \in Turn, turn' = [turn EXCEPT ![t] = r],
           UNCHANGED <<provider, tool, pool, restarts>>, memory \subseteq memory', memory' \subseteq Rows,
           Sound(r, tool, Rows, memory')
    PROVE  TurnsInv'
<1> USE DEF TurnsInv
<1>1. Rows' = Rows
  BY DEF Rows
<1>2. turn' \in [Turns -> Turn] /\ turn'[t] = r /\ \A u \in Turns : u # t => turn'[u] = turn[u]
  OBVIOUS
<1>3. \A u \in Turns : Sound(turn[u], tool, Rows, memory')
  BY DEF Sound
<1>4. QED
  BY <1>1, <1>2, <1>3

\* What is left of a turn whose tools are done with.
LEMMA Forgotten ==
    ASSUME TurnsInv, NEW t \in Turns
    PROVE  /\ [Forget(t) EXCEPT !.at = "answer"] \in Turn
           /\ [Forget(t) EXCEPT !.at = "ok"] \in Turn
           /\ \A why \in {"refused", "llm", "db", "gone"} : [Forget(t) EXCEPT !.at = "failed", !.why = why] \in Turn
           /\ \A mem : Sound([Forget(t) EXCEPT !.at = "answer"], tool, Rows, mem)
           /\ \A why, mem : Sound([Forget(t) EXCEPT !.at = "failed", !.why = why], tool, Rows, mem)
           /\ \A mem : (turn[t].scoped => turn[t].on \in mem) =>
                           Sound([Forget(t) EXCEPT !.at = "ok"], tool, Rows, mem)
<1>1. turn[t] \in Turn
  BY DEF TurnsInv
<1>2. /\ Forget(t) \in Turn /\ Forget(t).barred = {} /\ Forget(t).key = None
      /\ Forget(t).on = turn[t].on /\ Forget(t).scoped = turn[t].scoped
  <2>1. turn[t].on \in Providers \cup {None} /\ turn[t].scoped \in BOOLEAN /\ turn[t].reachable \in BOOLEAN
    BY <1>1 DEF Turn
  <2>2. QED
    BY <2>1, IdleTurn DEF Forget, Turn
<1>3. \A mem : Sound([Forget(t) EXCEPT !.at = "answer"], tool, Rows, mem)
  BY <1>2, IdleTurn DEF Sound, Turn
<1>4. \A why, mem : Sound([Forget(t) EXCEPT !.at = "failed", !.why = why], tool, Rows, mem)
  BY <1>2, IdleTurn DEF Sound, Turn
<1>5. \A mem : (turn[t].scoped => turn[t].on \in mem) => Sound([Forget(t) EXCEPT !.at = "ok"], tool, Rows, mem)
  BY <1>2, IdleTurn DEF Sound, Turn
<1>6. QED
  BY <1>2, <1>3, <1>4, <1>5 DEF Turn, Ended

LEMMA AnswerNowKeeps ==
    ASSUME TurnsInv, NEW t \in Turns, AnswerNow(t), TurnOnly
    PROVE  TurnsInv'
<1>1. UNCHANGED <<provider, tool, pool, restarts, memory>> /\ memory \subseteq Rows
  BY DEF TurnOnly, providerVars, registryVars, TurnsInv
<1>2. QED
  BY <1>1, Forgotten, TurnGoesOn DEF AnswerNow

LEMMA FailKeeps ==
    ASSUME TurnsInv, NEW t \in Turns, NEW why \in {"refused", "llm", "db", "gone"}, Fail(t, why),
           UNCHANGED <<provider, tool, pool, restarts, memory>>
    PROVE  TurnsInv'
<1>1. memory \subseteq Rows
  BY DEF TurnsInv
<1>2. QED
  BY <1>1, Forgotten, TurnGoesOn DEF Fail

\* A turn of which only some fields change, and which keeps what Sound asks.
LEMMA TurnStepKeeps ==
    ASSUME TurnsInv, RegistryInv, NEW t \in Turns, TurnStep(t) \/ CallFails(t)
    PROVE  TurnsInv'
<1> USE DEF TurnsInv
<1> DEFINE old == turn[t]
<1>1. old \in Turn /\ Sound(old, tool, Rows, memory) /\ memory \subseteq Rows
  OBVIOUS
<1>2. \A x \in Tools : cache[x] \in {"secret", Null}
  BY DEF RegistryInv, RegistryTyped
<1>3. TurnOnly => UNCHANGED <<provider, tool, pool, restarts, memory>>
  BY DEF TurnOnly, providerVars, registryVars
<1>4. old.at = "calling" => Called(t) \in Tools /\ Tail(old.todo) \in BoundedSeq(Tools, MaxTools)
  BY <1>1, Todo DEF Turn, Sound, Called
<1>5. CASE ReadCredentials(t)
  <2> DEFINE r == [old EXCEPT !.reachable = @ \/ provider[old.on].creds # {},
                              !.at = IF old.useTools THEN "list" ELSE "answer", !.useTools = FALSE]
  <2>1. old.at = "begun" /\ turn' = [turn EXCEPT ![t] = r]
    BY <1>5 DEF ReadCredentials
  <2>2. r \in Turn /\ Sound(r, tool, Rows, memory)
    BY <1>1, <2>1 DEF Turn, Sound, Ended
  <2>3. UNCHANGED <<provider, tool, pool, restarts, memory>>
    BY <1>3, <1>5 DEF ReadCredentials
  <2>4. turn' = [turn EXCEPT ![t] = r]
    BY <2>1
  <2> HIDE DEF r
  <2>5. QED
    BY <1>1, <2>2, <2>3, <2>4, TurnGoesOn
<1>6. ASSUME NEW at \in {"plan", "store"}, old.at \in {"list", "answer"}, To(t, at), TurnOnly
      PROVE  TurnsInv'
  <2> DEFINE r == [old EXCEPT !.at = at]
  <2>1. turn' = [turn EXCEPT ![t] = r]
    BY <1>6 DEF To
  <2>2. r \in Turn /\ Sound(r, tool, Rows, memory)
    BY <1>1, <1>6 DEF Turn, Sound, Ended
  <2> HIDE DEF r
  <2>3. QED
    BY <1>1, <1>3, <1>6, <2>1, <2>2, TurnGoesOn
<1>7. CASE List(t)
  BY <1>6, <1>7, AnswerNowKeeps DEF List, NoList
<1>8. CASE Plan(t)
  <2>1. ASSUME NEW todo2 \in BoundedSeq(Tools, MaxTools), turn[t].at = "plan",
               turn' = [turn EXCEPT ![t].todo = todo2, ![t].at = "status"], TurnOnly
        PROVE  TurnsInv'
    <3> DEFINE r == [old EXCEPT !.todo = todo2, !.at = "status"]
    <3>1. turn' = [turn EXCEPT ![t] = r]
      BY <2>1
    <3>2. r \in Turn /\ Sound(r, tool, Rows, memory)
      BY <1>1 DEF Turn, Sound, Ended
    <3>3. UNCHANGED <<provider, tool, pool, restarts, memory>>
      BY <1>3, <2>1
    <3> HIDE DEF r
    <3>4. QED
      BY <1>1, <3>1, <3>2, <3>3, TurnGoesOn
  <2>2. QED
    BY <1>8, <2>1, AnswerNowKeeps DEF Plan
<1>9. CASE ReadStatus(t)
  <2>1. CASE turn' = [turn EXCEPT ![t].refused = {x \in Tools : Refused(tool[x])}, ![t].at = "tools"]
    <3> DEFINE r == [old EXCEPT !.refused = {x \in Tools : Refused(tool[x])}, !.at = "tools"]
    <3>1. turn' = [turn EXCEPT ![t] = r]
      BY <2>1
    <3>2. r \in Turn
      BY <1>1 DEF Turn, Ended
    <3>3. Sound(r, tool, Rows, memory)
      <4>1. old.barred \subseteq {x \in Tools : Refused(tool[x])}
        BY <1>1 DEF Turn, Sound, Barred, Refused
      <4>2. QED
        BY <1>1, <4>1 DEF Turn, Sound
    <3> HIDE DEF r
    <3>4. QED
      BY <1>1, <1>3, <1>9, <3>1, <3>2, <3>3, TurnGoesOn DEF ReadStatus
  <2>2. CASE Fail(t, "db")
    BY <1>3, <1>9, <2>2, FailKeeps DEF ReadStatus
  <2>3. QED
    BY <1>9, <2>1, <2>2 DEF ReadStatus
\* A call is over, or was passed over.
<1>10. ASSUME NEW key \in Keys \cup {None}, NEW excused \in BOOLEAN,
              old.at \in {"tools", "calling"}, old.todo # <<>>,
              turn' = [turn EXCEPT ![t] = [old EXCEPT !.at = "tools", !.todo = Tail(@), !.key = key,
                                                      !.excused = excused]],
              key = "environment" => excused,
              UNCHANGED <<provider, tool, pool, restarts, memory>>
       PROVE  TurnsInv'
  <2> DEFINE r == [old EXCEPT !.at = "tools", !.todo = Tail(@), !.key = key, !.excused = excused]
  <2>1. Tail(old.todo) \in BoundedSeq(Tools, MaxTools)
    BY <1>1, <1>10, Todo DEF Turn
  <2>2. r \in Turn /\ Sound(r, tool, Rows, memory)
    BY <1>1, <1>10, <2>1 DEF Turn, Sound, Ended
  <2>3. turn' = [turn EXCEPT ![t] = r]
    BY <1>10
  <2> HIDE DEF r
  <2>4. QED
    BY <1>1, <1>10, <2>2, <2>3, TurnGoesOn
<1>11. /\ old.key \in Keys \cup {None} /\ old.excused \in BOOLEAN /\ (old.key = "environment" => old.excused)
       /\ [old EXCEPT !.at = "tools", !.todo = Tail(@)]
            = [old EXCEPT !.at = "tools", !.todo = Tail(@), !.key = old.key, !.excused = old.excused]
  BY <1>1 DEF Turn, Sound
<1>12. CASE NextTool(t)
  <2>1. old.at = "tools" /\ UNCHANGED <<provider, tool, pool, restarts, memory>>
    BY <1>3, <1>12 DEF NextTool
  <2>2. CASE old.todo = <<>>
    BY <1>12, <2>2, AnswerNowKeeps DEF NextTool
  <2>3. CASE old.todo # <<>> /\ Head(old.todo) \in old.refused
    <3>1. turn' = [turn EXCEPT ![t] = [old EXCEPT !.at = "tools", !.todo = Tail(@)]]
      BY <1>12, <2>3 DEF NextTool, PassOn
    <3>2. QED
      BY <1>10, <1>11, <2>1, <2>3, <3>1
  <2>4. CASE old.todo # <<>> /\ Head(old.todo) \notin old.refused
    <3> DEFINE r == [old EXCEPT !.at = "calling", !.key = None,
                                !.excused = Resolves(tool[Head(old.todo)]) # "secret"]
    <3>1. turn' = [turn EXCEPT ![t] = r]
      BY <1>12, <2>4 DEF NextTool
    <3>2. r \in Turn
      BY <1>1 DEF Turn, Ended
    <3>3. Sound(r, tool, Rows, memory)
      BY <1>1, <2>1, <2>4, IdleTurn DEF Turn, Sound
    <3> HIDE DEF r
    <3>4. QED
      BY <1>1, <2>1, <3>1, <3>2, <3>3, TurnGoesOn
  <2>5. QED
    BY <2>2, <2>3, <2>4
<1>13. old.at = "calling" => old.todo # <<>> /\ (Resolves(tool[Called(t)]) # "secret" => old.excused)
  BY <1>1 DEF Sound, Called
<1>14. \A key : [old EXCEPT !.at = "tools", !.todo = Tail(@), !.key = key]
                  = [old EXCEPT !.at = "tools", !.todo = Tail(@), !.key = key, !.excused = old.excused]
  BY <1>1 DEF Turn
<1>15. CASE UseRemembered(t)
  <2>1. /\ old.at = "calling" /\ cache[Called(t)] # Null
        /\ turn' = [turn EXCEPT ![t] = [old EXCEPT !.at = "tools", !.todo = Tail(@), !.key = cache[Called(t)]]]
        /\ UNCHANGED <<provider, tool, pool, restarts, memory>>
    BY <1>3, <1>15 DEF UseRemembered, Calling, RunsWith
  <2>2. cache[Called(t)] = "secret"
    BY <1>2, <1>4, <2>1
  <2>3. "secret" \in Keys \cup {None} /\ "secret" # "environment"
    BY DEF Keys
  <2>4. turn' = [turn EXCEPT ![t] = [old EXCEPT !.at = "tools", !.todo = Tail(@), !.key = "secret",
                                                !.excused = old.excused]]
    BY <1>14, <2>1, <2>2
  <2>5. QED
    BY <1>10, <1>11, <1>13, <2>1, <2>3, <2>4
<1>16. CASE Resolve(t)
  <2> DEFINE key == Resolves(tool[Called(t)])
  <2>1. /\ old.at = "calling"
        /\ turn' = [turn EXCEPT ![t] = [old EXCEPT !.at = "tools", !.todo = Tail(@), !.key = key]]
        /\ UNCHANGED <<provider, tool, pool, restarts, memory>>
    BY <1>16 DEF Resolve, Calling, RunsWith, providerVars
  <2>2. key \in Keys /\ (key = "environment" => old.excused)
    BY <1>13, <2>1 DEF Resolves, Keys
  <2>3. QED
    BY <1>10, <1>11, <1>13, <1>14, <2>1, <2>2
<1>17. CASE ResolveFails(t)
  <2>1. /\ old.at = "calling"
        /\ turn' = [turn EXCEPT ![t] = [old EXCEPT !.at = "tools", !.todo = Tail(@), !.key = "environment",
                                                   !.excused = TRUE]]
        /\ UNCHANGED <<provider, tool, pool, restarts, memory>>
    BY <1>3, <1>17 DEF ResolveFails, Calling
  <2>2. QED
    BY <1>10, <1>13, <2>1 DEF Keys
<1>18. CASE CallFails(t)
  <2>1. /\ old.at = "calling"
        /\ turn' = [turn EXCEPT ![t] = [old EXCEPT !.at = "tools", !.todo = Tail(@)]]
        /\ UNCHANGED <<provider, tool, pool, restarts, memory>>
    BY <1>18 DEF CallFails, Calling, PassOn, providerVars
  <2>2. QED
    BY <1>10, <1>11, <1>13, <2>1
<1>19. CASE Answer(t)
  BY <1>3, <1>6, <1>19, FailKeeps DEF Answer, LlmFails
\* A turn that succeeds.
<1>20. ASSUME Succeed(t), UNCHANGED <<provider, tool, pool, restarts>>, memory \subseteq memory',
              memory' \subseteq Rows, old.scoped => old.on \in memory'
       PROVE  TurnsInv'
  BY <1>20, Forgotten, TurnGoesOn DEF Succeed
<1>21. CASE Store(t)
  <2>1. old.at = "store" /\ UNCHANGED <<provider, tool, pool, restarts, memory>>
    BY <1>3, <1>21 DEF Store
  <2>2. CASE ~old.scoped
    BY <1>1, <1>20, <1>21, <2>1, <2>2 DEF Store
  <2>3. CASE old.scoped /\ old.on \in Rows
    <3> DEFINE r == [old EXCEPT !.at = "stored"]
    <3>1. turn' = [turn EXCEPT ![t] = r]
      BY <1>21, <2>3 DEF Store, To
    <3>2. r \in Turn /\ Sound(r, tool, Rows, memory)
      BY <1>1, <2>1, <2>3 DEF Turn, Sound, Ended
    <3> HIDE DEF r
    <3>3. QED
      BY <1>1, <2>1, <3>1, <3>2, TurnGoesOn
  <2>4. CASE old.scoped /\ old.on \notin Rows
    BY <1>21, <2>1, <2>4, FailKeeps DEF Store
  <2>5. QED
    BY <1>1, <2>2, <2>3, <2>4 DEF Turn
<1>22. CASE CommitTurn(t)
  <2>1. old.on \in Rows /\ UNCHANGED <<provider, tool, pool, restarts>>
    BY <1>1, <1>22 DEF CommitTurn, providerVars, registryVars, Sound
  <2>2. CASE Succeed(t) /\ memory' = memory \cup {old.on}
    BY <1>1, <1>20, <2>1, <2>2
  <2>3. CASE Fail(t, "db") /\ UNCHANGED memory
    BY <2>1, <2>3, FailKeeps
  <2>4. QED
    BY <1>22, <2>2, <2>3 DEF CommitTurn
<1>23. QED
  BY <1>5, <1>7, <1>8, <1>9, <1>12, <1>15, <1>16, <1>17, <1>18, <1>19, <1>21, <1>22 DEF TurnStep
LEMMA StartTurnKeeps ==
    ASSUME TurnsInv, NEW t \in Turns, NEW p \in Providers, NEW name \in Names,
           NEW scoped \in BOOLEAN, NEW useTools \in BOOLEAN, StartTurn(t, p, name, scoped, useTools)
    PROVE  TurnsInv'
<1>1. UNCHANGED <<provider, tool, pool, restarts, memory>> /\ memory \subseteq Rows
  BY DEF StartTurn, TurnOnly, providerVars, registryVars, TurnsInv
<1>2. CASE p \in Rows /\ name = provider[p].name
  <2> DEFINE barred == {x \in Tools : Barred(tool[x])}
             r == [Idle EXCEPT !.at = "begun", !.on = p, !.reachable = Keyless(name), !.scoped = scoped,
                               !.useTools = useTools, !.barred = barred]
  <2>1. turn' = [turn EXCEPT ![t] = r]
    BY <1>2 DEF StartTurn
  <2>2. barred \in SUBSET Tools /\ (\A x \in barred : Barred(tool[x])) /\ Keyless(name) \in BOOLEAN
    BY DEF Keyless
  <2> HIDE DEF barred
  <2> DEFINE reachable == Keyless(name)
  <2>3. reachable \in BOOLEAN
    BY <2>2
  <2> HIDE DEF reachable
  <2> DEFINE begun == [Idle EXCEPT !.at = "begun", !.on = p, !.reachable = reachable]
  <2>4. r = [begun EXCEPT !.scoped = scoped, !.useTools = useTools, !.barred = barred]
    BY DEF reachable
  <2>5. begun \in Turn /\ begun.at = "begun" /\ begun.key = None
    BY <2>3, IdleTurn DEF Turn
  <2> HIDE DEF r, begun
  <2>6. r \in Turn /\ r.at = "begun" /\ r.key = None /\ r.barred = barred
    BY <2>2, <2>4, <2>5 DEF Turn
  <2>7. Sound(r, tool, Rows, memory)
    BY <2>2, <2>6, IdleTurn DEF Sound
  <2>8. QED
    BY <1>1, <2>1, <2>6, <2>7, TurnGoesOn
<1>3. CASE ~(p \in Rows /\ name = provider[p].name)
  BY <1>1, <1>3, FailKeeps DEF StartTurn
<1>4. QED
  BY <1>2, <1>3

LEMMA RestartKeeps ==
    ASSUME TurnsInv, RestartServer
    PROVE  TurnsInv'
<1>1. UNCHANGED <<provider, tool, memory, pool>> /\ restarts' \in 0 .. MaxRestarts
  <2>1. UNCHANGED <<provider, tool, memory, pool>> /\ restarts < MaxRestarts /\ restarts' = restarts + 1
    BY DEF RestartServer, providerVars
  <2>2. MaxRestarts \in Nat /\ restarts \in 0 .. MaxRestarts
    BY ChatServicesAssumption DEF TurnsInv
  <2>3. restarts' \in 0 .. MaxRestarts
    BY <2>1, <2>2
  <2>4. QED
    BY <2>1, <2>3
<1>2. Rows' = Rows
  BY <1>1 DEF Rows
<1>3. ASSUME NEW t \in Turns
      PROVE  turn'[t] \in Turn /\ Sound(turn'[t], tool, Rows, memory)
  <2>1. turn[t] \in Turn /\ Sound(turn[t], tool, Rows, memory)
    BY DEF TurnsInv
  <2>2. CASE Calling(t)
    <3> DEFINE r == [turn[t] EXCEPT !.at = "tools", !.todo = Tail(@)]
    <3>1. turn'[t] = r
      BY <2>2 DEF RestartServer
    <3>2. turn[t].todo # <<>> /\ Tail(turn[t].todo) \in BoundedSeq(Tools, MaxTools)
      BY <2>1, <2>2, Todo DEF Turn, Sound, Calling
    <3>3. r \in Turn /\ Sound(r, tool, Rows, memory)
      BY <2>1, <2>2, <3>2 DEF Turn, Sound, Calling, Ended
    <3>4. QED
      BY <3>1, <3>3
  <2>3. CASE ~Calling(t)
    BY <2>1, <2>3 DEF RestartServer
  <2>4. QED
    BY <2>2, <2>3
<1>4. turn' \in [Turns -> Turn]
  BY <1>3 DEF RestartServer
<1>5. memory \subseteq Rows /\ pool \in Pools
  BY DEF TurnsInv
<1>6. QED
  BY <1>1, <1>2, <1>3, <1>4, <1>5 DEF TurnsInv

\* A pruning is noted in the histories of the turns whose memory it takes.
LEMMA PruneKeeps ==
    ASSUME TurnsInv, Prune
    PROVE  TurnsInv'
<1>1. UNCHANGED <<provider, tool, pool, restarts>> /\ Rows' = Rows
  BY DEF Prune, providerVars, registryVars, Rows
<1>2. PICK gone \in SUBSET memory :
        /\ memory' = memory \ gone
        /\ turn' = [t \in Turns |-> [turn[t] EXCEPT
             !.pruned = @ \/ (turn[t].at = "ok" /\ turn[t].scoped /\ turn[t].on \in gone)]]
  BY DEF Prune
<1>3. ASSUME NEW t \in Turns
      PROVE  turn'[t] \in Turn /\ Sound(turn'[t], tool, Rows, memory')
  <2> DEFINE pruned == turn[t].pruned \/ (turn[t].at = "ok" /\ turn[t].scoped /\ turn[t].on \in gone)
             r == [turn[t] EXCEPT !.pruned = pruned]
  <2>1. turn[t] \in Turn /\ Sound(turn[t], tool, Rows, memory)
    BY DEF TurnsInv
  <2>2. turn'[t] = r
    BY <1>2
  <2>3. /\ pruned \in BOOLEAN
        /\ ~pruned => ~turn[t].pruned /\ ~(turn[t].at = "ok" /\ turn[t].scoped /\ turn[t].on \in gone)
    BY <2>1 DEF Turn
  <2> HIDE DEF pruned
  <2>4. r \in Turn
    BY <2>1, <2>3 DEF Turn
  <2>5. Sound(r, tool, Rows, memory')
    BY <1>2, <2>1, <2>3 DEF Turn, Sound
  <2>6. QED
    BY <2>2, <2>4, <2>5
<1>4. turn' \in [Turns -> Turn]
  BY <1>2, <1>3
<1>5. memory' \subseteq Rows /\ pool \in Pools /\ restarts \in 0 .. MaxRestarts
  BY <1>2 DEF TurnsInv
<1>6. QED
  BY <1>1, <1>3, <1>4, <1>5 DEF TurnsInv

\* A provider stays while something refers to it or it is not the one deleted.
LEMMA RowsStay ==
    ASSUME ProvidersInv, NEW w \in Writers, NEW elsewhere, OpenWrite(w) \/ ServeWrite(w, elsewhere),
           NEW p \in Rows, p \in elsewhere \/ (write[w].op = "delete" => write[w].on # p)
    PROVE  p \in Rows'
<1>1. provider \in [Providers -> ProviderRow] /\ write[w] \in Request /\ Opened(write[w])
  BY DEF ProvidersInv, ProvidersTyped
<1>2. p \in Providers /\ provider[p].is = "row"
  BY DEF Rows
<1>3. CASE UNCHANGED provider
  BY <1>3 DEF Rows
<1>4. ASSUME NEW q \in Providers, NEW row, row.is = "row" \/ q # p, provider' = [provider EXCEPT ![q] = row]
      PROVE  p \in Rows'
  BY <1>1, <1>2, <1>4 DEF Rows
<1>5. CASE OpenWrite(w)
  BY <1>3, <1>5 DEF OpenWrite, OpenCreate, OpenUpdate, OpenDelete, Open
<1>6. CASE CheckUpdate(w) \/ FailWrite(w)
  BY <1>3, <1>6 DEF CheckUpdate, FailWrite
<1>7. CASE CommitCreate(w)
  <2> DEFINE free == {q \in Providers : provider[q].is = "none"}
             id   == CHOOSE q \in free : \A s \in free : q <= s
             new  == [provider[id] EXCEPT !.is = "row", !.name = write[w].name, !.raced = ~write[w].alone]
             creds == IF write[w].creds = "set" THEN {write[w].number} ELSE {}
             row  == WithCreds(new, w, creds)
  <2>1. free = {} \/ provider' = [provider EXCEPT ![id] = row]
    BY <1>7 DEF CommitCreate
  <2>2. free = {} => UNCHANGED provider
    BY <1>7 DEF CommitCreate
  <2>3. CASE free # {}
    <3>1. free \in SUBSET Nat
      BY ProvidersAssumption
    <3>2. id \in Providers
      BY <2>3, <3>1, LeastIsThere
    <3> HIDE DEF id, creds
    <3>3. row.is = "row"
      BY <1>1, <3>2 DEF WithCreds, ProviderRow
    <3> HIDE DEF row
    <3>4. QED
      BY <1>4, <2>1, <2>3, <3>2, <3>3
  <2>4. QED
    BY <1>3, <2>2, <2>3
<1>8. CASE CommitUpdate(w) /\ ~UNCHANGED provider
  <2> DEFINE q == write[w].on
             row == provider[q]
             named == IF write[w].name = write[w].sees.name THEN row
                      ELSE [row EXCEPT !.name = write[w].name, !.raced = ~write[w].alone]
             kept == row.creds \ write[w].gone
             next == CASE write[w].creds = "keep"  -> named
                       [] write[w].creds = "set"   -> WithCreds(named, w, kept \cup {write[w].number})
                       [] write[w].creds = "clear" -> WithCreds(named, w, kept)
  <2>1. provider' = [provider EXCEPT ![q] = next] /\ q \in Rows
    BY <1>8 DEF CommitUpdate
  <2>2. write[w].creds \in {"keep", "set", "clear"} /\ q \in Providers /\ row \in ProviderRow /\ row.is = "row"
    BY <1>1, <1>8, <2>1 DEF CommitUpdate, Opened, Rows
  <2> HIDE DEF row
  <2>3. named.is = "row" /\ named = [is |-> named.is, name |-> named.name, creds |-> named.creds,
                                     raced |-> named.raced, last |-> named.last, settled |-> named.settled]
    BY <2>2 DEF ProviderRow
  <2> HIDE DEF named, kept
  <2>4. next.is = "row"
    BY <2>2, <2>3 DEF WithCreds
  <2> HIDE DEF next
  <2>5. QED
    BY <1>4, <2>1, <2>2, <2>4
<1>9. CASE CommitDelete(w, elsewhere) /\ ~UNCHANGED provider
  <2>1. /\ write[w].op = "delete" /\ write[w].on \notin elsewhere
        /\ provider' = [provider EXCEPT ![write[w].on] = [NoRow EXCEPT !.is = "deleted"]]
        /\ write[w].on \in Providers
    BY <1>9 DEF CommitDelete, Referenced, Rows
  <2>2. write[w].on # p
    BY <2>1
  <2>3. QED
    BY <1>4, <2>1, <2>2
<1>10. QED
  BY <1>3, <1>5, <1>6, <1>7, <1>8, <1>9 DEF ServeWrite
\* The administrators of the providers let the turns be: a provider that is
\* stored with a turn, or is being stored, is not deleted.
LEMMA WritesLeaveTurns ==
    ASSUME TurnsInv, ProvidersInv, NEW w \in Writers, UNCHANGED <<tool, turn, memory, pool, restarts>>,
           \/ OpenWrite(w)
           \/ (write[w].op = "delete" => write[w].on \notin Locked) /\ ServeWrite(w, memory)
    PROVE  TurnsInv'
<1>1. ASSUME NEW p \in Rows, p \in memory \/ p \in Locked
      PROVE  p \in Rows'
  <2>1. CASE OpenWrite(w)
    BY <2>1 DEF OpenWrite, OpenCreate, OpenUpdate, OpenDelete, Open, Rows
  <2>2. CASE (write[w].op = "delete" => write[w].on \notin Locked) /\ ServeWrite(w, memory)
    <3>1. p \in memory \/ (write[w].op = "delete" => write[w].on # p)
      BY <1>1, <2>2
    <3>2. QED
      BY <2>2, <3>1, RowsStay
  <2>3. QED
    BY <2>1, <2>2
<1>2. memory \subseteq Rows'
  BY <1>1 DEF TurnsInv
<1>3. ASSUME NEW t \in Turns
      PROVE  Sound(turn[t], tool, Rows', memory)
  <2>1. Sound(turn[t], tool, Rows, memory)
    BY DEF TurnsInv
  <2>2. turn[t].at = "stored" => turn[t].on \in Rows'
    BY <1>1, <2>1 DEF Sound, Locked
  <2>3. QED
    BY <2>1, <2>2 DEF Sound
<1>4. QED
  BY <1>2, <1>3 DEF TurnsInv

\* An edit of the registry is noted in the histories of the turns.
LEMMA EditsLeaveTurns ==
    ASSUME TurnsInv, Noted, UNCHANGED <<provider, memory, pool, restarts>>
    PROVE  TurnsInv'
<1>1. Rows' = Rows
  BY DEF Rows
<1>2. ASSUME NEW t \in Turns
      PROVE  turn'[t] \in Turn /\ Sound(turn'[t], tool', Rows, memory)
  <2> DEFINE barred  == {x \in turn[t].barred : Barred(tool'[x])}
             excused == turn[t].excused \/ (Calling(t) /\ Resolves(tool'[Called(t)]) # "secret")
             r == [turn[t] EXCEPT !.barred = barred, !.excused = excused]
  <2>1. turn[t] \in Turn /\ Sound(turn[t], tool, Rows, memory)
    BY DEF TurnsInv
  <2>2. turn'[t] = r
    BY DEF Noted
  <2>3. /\ barred \subseteq turn[t].barred /\ \A x \in barred : Barred(tool'[x])
        /\ excused \in BOOLEAN /\ (turn[t].excused => excused)
        /\ turn[t].at = "calling" /\ Resolves(tool'[Head(turn[t].todo)]) # "secret" => excused
    BY <2>1 DEF Turn, Calling, Called
  <2> HIDE DEF barred, excused
  <2>4. r \in Turn
    BY <2>1, <2>3 DEF Turn
  <2>5. Sound(r, tool', Rows, memory)
    BY <2>1, <2>3 DEF Turn, Sound
  <2>6. QED
    BY <2>2, <2>4, <2>5
<1>3. turn' \in [Turns -> Turn]
  BY <1>2 DEF Noted
<1>4. memory \subseteq Rows /\ pool \in Pools /\ restarts \in 0 .. MaxRestarts
  BY DEF TurnsInv
<1>5. QED
  BY <1>1, <1>2, <1>3, <1>4 DEF TurnsInv

LEMMA ProvidersLeft ==
    ASSUME ProvidersInv, UNCHANGED providerVars
    PROVE  ProvidersInv'
<1>1. /\ UNCHANGED <<provider, write, writes>> /\ Rows' = Rows /\ Writing' = Writing
      /\ \A name : Named(name)' = Named(name)
  BY DEF providerVars, Rows, Writing, Named
<1>2. QED
  BY <1>1 DEF ProvidersInv, ProvidersTyped, TheyKnow, Looked, AllGone, NamesDistinctUnlessRaced, AloneReplaces

\* The MCP server remembers secrets only.
LEMMA RegistryLeft ==
    ASSUME RegistryInv, UNCHANGED <<tool, edit, edits>>, cache' \in [Tools -> {"secret", Null}]
    PROVE  RegistryInv'
<1>1. UNCHANGED <<tool, edit, edits>>
  OBVIOUS
<1>2. RegistryTyped'
  BY <1>1 DEF RegistryInv, RegistryTyped, Begun
<1>3. IdsDiffer' /\ RivalsKnow'
  BY <1>1 DEF RegistryInv, IdsDiffer, RivalsKnow, Editing, Saw
<1>4. \A e \in Editors : StillSo(e)'
  BY <1>1 DEF RegistryInv, StillSo, Saw, Same
<1>5. DisabledStays'
  BY <1>1 DEF RegistryInv, DisabledStays
<1>6. QED
  BY <1>2, <1>3, <1>4, <1>5 DEF RegistryInv

LEMMA Remembered ==
    ASSUME RegistryInv, NEW x \in Tools, NEW key, Remember(x, key)
    PROVE  cache' \in [Tools -> {"secret", Null}]
  BY DEF RegistryInv, RegistryTyped, Remember

-----------------------------------------------------------------------------
(* All of them. *)

LEMMA Starts == Init => ServicesInv
<1> SUFFICES ASSUME Init PROVE ServicesInv
  OBVIOUS
<1>1. ProvidersInv /\ RegistryInv
  BY ProvidersStart, RegistryStart DEF Init
<1>2. /\ turn = [t \in Turns |-> Idle] /\ memory = {} /\ pool \in Pools /\ restarts = 0
  BY DEF Init
<1>3. Sound(Idle, tool, Rows, memory)
  BY IdleTurn DEF Sound, Ended, Idle
<1>4. restarts \in 0 .. MaxRestarts
  BY <1>2, ChatServicesAssumption
<1>5. TurnsInv
  BY <1>2, <1>3, <1>4, IdleTurn DEF TurnsInv
<1>6. QED
  BY <1>1, <1>5 DEF ServicesInv

LEMMA TurnOnlyKeeps ==
    ASSUME ProvidersInv, RegistryInv, TurnOnly
    PROVE  ProvidersInv' /\ RegistryInv'
<1>1. UNCHANGED providerVars /\ UNCHANGED <<tool, edit, edits>> /\ cache' \in [Tools -> {"secret", Null}]
  BY DEF TurnOnly, registryVars, RegistryInv, RegistryTyped
<1>2. QED
  BY <1>1, ProvidersLeft, RegistryLeft

LEMMA EveryStepKeeps == ServicesInv /\ [Next]_vars => ServicesInv'
<1> SUFFICES ASSUME ServicesInv, [Next]_vars
             PROVE  ServicesInv'
  OBVIOUS
<1>1. ProvidersInv /\ RegistryInv /\ TurnsInv
  BY DEF ServicesInv
<1>2. cache \in [Tools -> {"secret", Null}]
  BY <1>1 DEF RegistryInv, RegistryTyped
<1>3. ASSUME NEW t \in Turns, TurnStep(t) \/ CallFails(t)
      PROVE  ServicesInv'
  <2>1. TurnsInv'
    BY <1>1, <1>3, TurnStepKeeps
  <2>2. Calling(t) => Called(t) \in Tools
    BY <1>1, Todo DEF TurnsInv, Turn, Sound, Calling, Called
  <2>3. CASE TurnOnly
    BY <1>1, <2>1, <2>3, TurnOnlyKeeps DEF ServicesInv
  <2>4. CASE UNCHANGED providerVars /\ UNCHANGED <<tool, edit, edits>> /\ cache' \in [Tools -> {"secret", Null}]
    BY <1>1, <2>1, <2>4, ProvidersLeft, RegistryLeft DEF ServicesInv
  <2>5. CASE Resolve(t)
    <3>1. PICK key : Remember(Called(t), key)
      BY <2>5 DEF Resolve
    <3>2. QED
      BY <1>1, <2>2, <2>4, <2>5, <3>1, Remembered DEF Resolve
  <2>6. CASE CallFails(t)
    <3>1. UNCHANGED cache \/ \E key : Remember(Called(t), key)
      BY <2>6 DEF CallFails
    <3>2. cache' \in [Tools -> {"secret", Null}]
      BY <1>1, <1>2, <2>2, <2>6, <3>1, Remembered DEF CallFails
    <3>3. QED
      BY <2>4, <2>6, <3>2 DEF CallFails
  <2>7. CASE CommitTurn(t)
    <3>1. UNCHANGED providerVars /\ UNCHANGED <<tool, edit, edits, cache>>
      BY <2>7 DEF CommitTurn, registryVars
    <3>2. QED
      BY <1>2, <2>4, <3>1
  <2>8. CASE TurnStep(t) /\ ~Resolve(t) /\ ~CommitTurn(t)
    BY <2>3, <2>8 DEF TurnStep, ReadCredentials, List, Plan, ReadStatus, NextTool, UseRemembered, ResolveFails,
                      Answer, Store
  <2>9. QED
    BY <1>3, <2>5, <2>6, <2>7, <2>8
<1>4. ASSUME NEW t \in Turns, NEW p \in Providers, NEW name \in Names, NEW scoped \in BOOLEAN,
             NEW useTools \in BOOLEAN, StartTurn(t, p, name, scoped, useTools)
      PROVE  ServicesInv'
  <2>1. TurnOnly
    BY <1>4 DEF StartTurn
  <2>2. QED
    BY <1>1, <1>4, <2>1, TurnOnlyKeeps, StartTurnKeeps DEF ServicesInv
<1>5. CASE RestartServer
  <2>1. UNCHANGED providerVars /\ UNCHANGED <<tool, edit, edits>> /\ cache' \in [Tools -> {"secret", Null}]
    BY <1>5 DEF RestartServer
  <2>2. QED
    BY <1>1, <1>5, <2>1, RestartKeeps, ProvidersLeft, RegistryLeft DEF ServicesInv
<1>6. ASSUME NEW w \in Writers, UNCHANGED <<registryVars, turn, memory, pool, restarts>>,
             \/ OpenWrite(w)
             \/ (write[w].op = "delete" => write[w].on \notin Locked) /\ ServeWrite(w, memory)
      PROVE  ServicesInv'
  <2>1. ProvidersInv'
    BY <1>1, <1>6, OpenWriteKeeps, ServeWriteKeeps
  <2>2. UNCHANGED <<tool, edit, edits, cache>>
    BY <1>6 DEF registryVars
  <2>3. RegistryInv'
    BY <1>1, <1>2, <2>2, RegistryLeft
  <2>4. TurnsInv'
    BY <1>1, <1>6, <2>2, WritesLeaveTurns
  <2>5. QED
    BY <2>1, <2>3, <2>4 DEF ServicesInv
<1>7. ASSUME NEW e \in Editors, OpenEdit(e) \/ ServeEdit(e), Noted,
             UNCHANGED <<providerVars, memory, pool, restarts>>
      PROVE  ServicesInv'
  <2>1. ProvidersInv' /\ UNCHANGED provider
    BY <1>1, <1>7, ProvidersLeft DEF providerVars
  <2>2. RegistryInv'
    BY <1>1, <1>7, OpenEditKeeps, ServeEditKeeps
  <2>3. TurnsInv'
    BY <1>1, <1>7, <2>1, EditsLeaveTurns
  <2>4. QED
    BY <2>1, <2>2, <2>3 DEF ServicesInv
<1>8. CASE Administer
  BY <1>6, <1>7, <1>8 DEF Administer
<1>9. CASE UNCHANGED vars
  <2>1. TurnOnly /\ UNCHANGED turn
    BY <1>9 DEF vars, TurnOnly
  <2>2. UNCHANGED <<provider, tool, memory, pool, restarts, turn>>
    BY <2>1 DEF TurnOnly, providerVars, registryVars
  <2>3. TurnsInv'
    BY <1>1, <2>2 DEF TurnsInv, Rows
  <2>4. QED
    BY <1>1, <2>1, <2>3, TurnOnlyKeeps DEF ServicesInv
<1>10. CASE Prune
  <2>1. UNCHANGED providerVars /\ UNCHANGED <<tool, edit, edits, cache>>
    BY <1>10 DEF Prune, registryVars
  <2>2. QED
    BY <1>1, <1>2, <1>10, <2>1, PruneKeeps, ProvidersLeft, RegistryLeft DEF ServicesInv
<1>11. QED
  BY <1>3, <1>4, <1>5, <1>8, <1>9, <1>10 DEF Next

LEMMA AlwaysServicesInv == Spec => []ServicesInv
  BY Starts, EveryStepKeeps, PTL DEF Spec
-----------------------------------------------------------------------------
(* The theorems. *)

\* What the API and the MCP server keep has its types, whatever requests of
\* administrators and chats overlap (llm_service.py, mcp_tool_registry_service.py,
\* chat_tool_service.py, secret_resolver.py).
THEOREM TypeCorrect == Spec => []TypeOK
<1>1. ServicesInv => TypeOK
  <2> SUFFICES ASSUME ServicesInv PROVE TypeOK
    OBVIOUS
  <2>1. ProvidersTypeOK
    BY DEF ServicesInv, ProvidersInv, ProvidersTyped, ProvidersTypeOK, ProviderRow, Request
  <2>2. RegistryTypeOK
    BY DEF ServicesInv, RegistryInv, RegistryTyped, RegistryTypeOK, ToolRow, Edit, Keys
  <2>3. memory \subseteq Providers
    BY DEF ServicesInv, TurnsInv, Rows
  <2>4. QED
    BY <2>1, <2>2, <2>3 DEF ServicesInv, TurnsInv, TypeOK, Turn
<1>2. QED
  BY <1>1, AlwaysServicesInv, PTL

\* create_llm_provider and update_llm_provider give two providers one name only
\* when they overlap: nothing else takes the place of a unique constraint.
THEOREM NamesStayDistinct == Spec => []NamesDistinctUnlessRaced
<1>1. ServicesInv => NamesDistinctUnlessRaced
  BY DEF ServicesInv, ProvidersInv
<1>2. QED
  BY <1>1, AlwaysServicesInv, PTL

\* update_llm_provider, alone, leaves only its own credentials behind, however
\* many earlier updates that overlapped had left.
THEOREM LoneUpdatesReplace == Spec => []AloneReplaces
<1>1. ServicesInv => AloneReplaces
  BY DEF ServicesInv, ProvidersInv
<1>2. QED
  BY <1>1, AlwaysServicesInv, PTL

\* register_tools_if_missing never enables a tool that upsert_mcp_tool disabled.
THEOREM DisabledToolsStay == Spec => []DisabledStays
<1>1. ServicesInv => DisabledStays
  BY DEF ServicesInv, RegistryInv
<1>2. QED
  BY <1>1, AlwaysServicesInv, PTL

\* A chat that was answered is stored and keeps its provider until
\* prune_expired_memory takes the memory, whatever delete_llm_provider finds
\* while persist_chat_turn is under way or afterwards.
THEOREM AnswersAreStored == Spec => []AnsweredIsStored
<1>1. ServicesInv => AnsweredIsStored
  BY DEF ServicesInv, TurnsInv, Sound, AnsweredIsStored
<1>2. QED
  BY <1>1, AlwaysServicesInv, PTL

\* chat_with_optional_mcp_tools calls no tool that get_tool_secret_status_map
\* would have refused at every moment since the chat began.
THEOREM BarredAreNotCalled == Spec => []BarredNotCalled
<1>1. ServicesInv => BarredNotCalled
  BY DEF ServicesInv, TurnsInv, Sound, BarredNotCalled, Calling, Called
<1>2. QED
  BY <1>1, AlwaysServicesInv, PTL

\* resolve_tool_secret lets a tool run with its environment only if during the
\* call its secret was missing or could not be asked for.
THEOREM EnvironmentIsExcused == Spec => []FallsBackOnlyWithout
<1>1. ServicesInv => FallsBackOnlyWithout
  BY DEF ServicesInv, TurnsInv, Sound, FallsBackOnlyWithout
<1>2. QED
  BY <1>1, AlwaysServicesInv, PTL
=============================================================================
