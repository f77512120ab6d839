----------------------------- MODULE DuneQueries -----------------------------
(***************************************************************************)
(* How requests run SQL at Dune.  One saved query per purpose is reused: a *)
(* run reads its slot, PATCHes its SQL into the query and executes it, each *)
(* an await of its own, so runs of one purpose rewrite each other's query. *)
(* A request over balances first asks the catalogue which table holds them *)
(* and caches the answer.  Beside the runs, the archive handler empties    *)
(* the account and a deleted watchlist forgets its slot.                   *)
(***************************************************************************)
EXTENDS Integers, FiniteSets

CONSTANTS
    Runs,       \* requests and monitor runs in progress at the same time
    Chains,
    Requested,  \* the requests made: pairs of a kind and a chain
    Queries,    \* query ids at Dune
    Cap,        \* the private queries an account may own
    MaxRequests,\* bound: requests made
    MaxMishaps, \* bound: calls that fail, crashes, cache entries dropped,
                \* queries deleted at Dune, watchlists deleted
    None

Kinds == {"holders", "positions", "coverage", "plain", "discover"}

ASSUME RequestedAssumption == Requested \subseteq Kinds \X Chains
ASSUME QueriesAssumption == IsFiniteSet(Queries) /\ Queries \subseteq Nat
ASSUME CapAssumption ==
    /\ Cap \in Nat \ {0} /\ MaxRequests \in Nat /\ MaxMishaps \in Nat

VARIABLES
    slot,     \* dune_query_slots of the account: the query of each purpose
    sql,      \* what each query of the account says, None where there is none
    cached,   \* the disk cache: for each catalogue and chain, the chain whose
              \* table was found
    pc, kind, chain,    \* a request: where it is, what it wants
    job,      \* the query it is running now: a catalogue's or its own
    source,   \* the chain whose balance table it resolved
    query,    \* the query id it holds
    ran,      \* the SQL its execution runs
    again,    \* whether this is the second attempt
    todo,     \* the archive handler's targets
    cleared,  \* whether it archived any
    met,      \* auxiliary: another run used the purpose at the same time
    lapped,   \* auxiliary: the purposes that two runs ever used at once
    spent,    \* auxiliary: the executions a request has paid for
    requests, mishaps

runVars    == <<pc, kind, chain, job, source, query, ran, again, todo, cleared>>
budgetVars == <<requests, mishaps>>
vars == <<slot, sql, cached, runVars, met, lapped, spent, budgetVars>>

-----------------------------------------------------------------------------
Catalogues == {"source", "contracts"}
Purposes   == (Kinds \ {"discover"}) \cup {"diagnostic"}
Sql == [author : Runs, what : Catalogues \cup Kinds, chain : Chains]

ASSUME NoneAssumption ==
    /\ None \notin Queries /\ None \notin Chains
    /\ None \notin Kinds \cup Catalogues \cup {"own"}
    /\ None \notin Sql

\* Requests that read balances, and those that start over when the table they
\* resolved has been rebuilt away.
ReadsBalances(k) == k \in {"holders", "positions", "coverage"}
StartsOver(k)    == k \in {"holders", "positions"}

TypeOK ==
    /\ slot \in [Purposes -> Queries \cup {None}]
    /\ sql \in [Queries -> Sql \cup {None}]
    /\ Cardinality({q \in Queries : sql[q] # None}) <= Cap
    /\ cached \in [Catalogues \X Chains -> Chains \cup {None}]
    /\ pc \in [Runs -> {"idle", "resolving", "reusing", "patching", "dropping",
                        "creating", "storing", "executing", "waiting",
                        "archiving"}]
    /\ kind \in [Runs -> Kinds \cup {None}]
    /\ chain \in [Runs -> Chains \cup {None}]
    /\ job \in [Runs -> Catalogues \cup {"own", None}]
    /\ source \in [Runs -> Chains \cup {None}]
    /\ query \in [Runs -> Queries \cup {None}]
    /\ ran \in [Runs -> Sql \cup {None}]
    /\ again \in [Runs -> BOOLEAN]
    /\ todo \in [Runs -> SUBSET Queries]
    /\ cleared \in [Runs -> BOOLEAN]
    /\ met \in [Runs -> BOOLEAN]
    /\ lapped \subseteq Purposes
    /\ spent \in [Runs -> Nat]
    /\ requests \in 0 .. MaxRequests
    /\ \A r \in Runs :
        pc[r] = "reusing" /\ job[r] = "own" /\ ReadsBalances(kind[r])
            => source[r] # None
    /\ mishaps \in 0 .. MaxMishaps

Live == {q \in Queries : sql[q] # None}

\* Catalogues and /api/discover share the default purpose of _run_sql.
Purpose(r) ==
    IF job[r] \in Catalogues \/ kind[r] = "discover" THEN "diagnostic"
    ELSE kind[r]

\* The SQL the run builds for its job.
Wanted(r) ==
    [author |-> r, what |-> IF job[r] = "own" THEN kind[r] ELSE job[r],
     chain |-> chain[r]]

Goto(r, where) == pc' = [pc EXCEPT ![r] = where]

Init ==
    /\ slot = [p \in Purposes |-> None]
    /\ sql = [q \in Queries |-> None]
    /\ cached = [k \in Catalogues \X Chains |-> None]
    /\ pc = [r \in Runs |-> "idle"]
    /\ kind = [r \in Runs |-> None]
    /\ chain = [r \in Runs |-> None]
    /\ job = [r \in Runs |-> None]
    /\ source = [r \in Runs |-> None]
    /\ query = [r \in Runs |-> None]
    /\ ran = [r \in Runs |-> None]
    /\ again = [r \in Runs |-> FALSE]
    /\ todo = [r \in Runs |-> {}]
    /\ cleared = [r \in Runs |-> FALSE]
    /\ met = [r \in Runs |-> FALSE]
    /\ lapped = {}
    /\ spent = [r \in Runs |-> 0]
    /\ requests = 0 /\ mishaps = 0

\* The request is over.
Reset(r) ==
    /\ Goto(r, "idle")
    /\ kind' = [kind EXCEPT ![r] = None]
    /\ chain' = [chain EXCEPT ![r] = None]
    /\ job' = [job EXCEPT ![r] = None]
    /\ source' = [source EXCEPT ![r] = None]
    /\ query' = [query EXCEPT ![r] = None]
    /\ ran' = [ran EXCEPT ![r] = None]
    /\ again' = [again EXCEPT ![r] = FALSE]
    /\ todo' = [todo EXCEPT ![r] = {}]
    /\ cleared' = [cleared EXCEPT ![r] = FALSE]
    /\ met' = [met EXCEPT ![r] = FALSE]
    /\ spent' = [spent EXCEPT ![r] = 0]

-----------------------------------------------------------------------------
(* The slot of a purpose. *)

\* A run is between reading the slot and executing what it names; the archive
\* handler is at every slot.
Using(r, p) ==
    \/ /\ pc[r] \in {"patching", "dropping", "creating", "storing", "executing"}
       /\ Purpose(r) = p
    \/ pc[r] = "archiving"

Others(r, p) == {o \in Runs \ {r} : Using(o, p)}

\* Note who meets whom at purpose p.
Meet(r, p) ==
    /\ met' = [o \in Runs |-> IF o = r THEN Others(r, p) # {}
                              ELSE met[o] \/ o \in Others(r, p)]
    /\ lapped' = IF Others(r, p) = {} THEN lapped ELSE lapped \cup {p}

\* Mutants: a cache shared by the chains; a retry every time.
OneKey(r) == <<job[r], CHOOSE c \in Chains : TRUE>>
AlwaysRetries(r) == job[r] = "own" /\ StartsOver(kind[r])

\* A request resolves its table first, when it needs one.
FirstJob(k) == IF ReadsBalances(k) THEN "source" ELSE "own"

Begin(r, k, c) ==
    /\ pc[r] = "idle"
    /\ requests < MaxRequests
    /\ requests' = requests + 1
    /\ kind' = [kind EXCEPT ![r] = k]
    /\ chain' = [chain EXCEPT ![r] = c]
    /\ job' = [job EXCEPT ![r] = FirstJob(k)]
    /\ Goto(r, IF ReadsBalances(k) THEN "resolving" ELSE "reusing")
    /\ UNCHANGED <<slot, sql, cached, source, query, ran, again, todo,
                   cleared, met, lapped, mishaps, spent>>

\* cache.get: the entry of this catalogue and chain.
Key(r) == <<job[r], chain[r]>>

\* After the balance table, a holders request resolves the contracts table.
Following(r) ==
    IF job[r] = "source" /\ kind[r] = "holders" THEN "contracts" ELSE "own"

\* Mutant: the answer is cached and not used.
Unresolved(r, table) ==
    /\ source' = source
    /\ job' = [job EXCEPT ![r] = Following(r)]
    /\ Goto(r, IF Following(r) = "own" THEN "reusing" ELSE "resolving")

Resolved(r, table) ==
    /\ source' = [source EXCEPT ![r] = IF job[r] = "source" THEN table ELSE @]
    /\ job' = [job EXCEPT ![r] = Following(r)]
    /\ Goto(r, IF Following(r) = "own" THEN "reusing" ELSE "resolving")

CacheHit(r) ==
    /\ pc[r] = "resolving" /\ cached[Key(r)] # None
    /\ Resolved(r, cached[Key(r)])
    /\ UNCHANGED <<slot, sql, cached, kind, chain, query, ran, again,
                   todo, cleared, met, lapped, budgetVars, spent>>

CacheMiss(r) ==
    /\ pc[r] = "resolving" /\ cached[Key(r)] = None
    /\ Goto(r, "reusing")
    /\ UNCHANGED <<slot, sql, cached, kind, chain, job, source, query,
                   ran, again, todo, cleared, met, lapped, budgetVars, spent>>

\* ensure_query's get_query_slot.
ReadSlot(r) ==
    /\ pc[r] = "reusing"
    /\ query' = [query EXCEPT ![r] = slot[Purpose(r)]]
    /\ Goto(r, IF slot[Purpose(r)] = None THEN "creating" ELSE "patching")
    /\ Meet(r, Purpose(r))
    /\ UNCHANGED <<slot, sql, cached, kind, chain, job, source, ran,
                   again, todo, cleared, budgetVars, spent>>

Patched(r) == [sql EXCEPT ![query[r]] = Wanted(r)]

\* update_query returned.
Patch(r) ==
    /\ pc[r] = "patching" /\ query[r] \in Live
    /\ sql' = Patched(r)
    /\ Goto(r, "executing")
    /\ UNCHANGED <<slot, cached, kind, chain, job, source, query, ran,
                   again, todo, cleared, met, lapped, budgetVars, spent>>

\* Or Dune answered 404.
PatchNotFound(r) ==
    /\ pc[r] = "patching" /\ query[r] \notin Live
    /\ query' = [query EXCEPT ![r] = None]
    /\ Goto(r, "dropping")
    /\ UNCHANGED <<slot, sql, cached, kind, chain, job, source, ran,
                   again, todo, cleared, met, lapped, budgetVars, spent>>

\* drop_query_slot, whatever it names by now.
DropSlot(r) ==
    /\ pc[r] = "dropping"
    /\ slot' = [slot EXCEPT ![Purpose(r)] = None]
    /\ Goto(r, "creating")
    /\ UNCHANGED <<sql, cached, kind, chain, job, source, query, ran,
                   again, todo, cleared, met, lapped, budgetVars, spent>>

\* Ids nobody remembers: Dune's are never used twice.
Unused == {q \in Queries \ Live : /\ \A p \in Purposes : slot[p] # q
                                  /\ \A r \in Runs : query[r] # q}

\* create_query returned an id.
Create(r) ==
    /\ pc[r] = "creating" /\ Cardinality(Live) < Cap
    /\ \E q \in Unused :
        /\ \A other \in Unused : other >= q
        /\ sql' = [sql EXCEPT ![q] = Wanted(r)]
        /\ query' = [query EXCEPT ![r] = q]
    /\ Goto(r, "storing")
    /\ UNCHANGED <<slot, cached, kind, chain, job, source, ran, again,
                   todo, cleared, met, lapped, budgetVars, spent>>

\* 402, "Max number of private queries reached".
CreateRefused(r) ==
    /\ pc[r] = "creating" /\ Cardinality(Live) = Cap
    /\ Reset(r)
    /\ UNCHANGED <<slot, sql, cached, lapped, budgetVars>>

\* set_query_slot
Stored(r, s) == [s EXCEPT ![Purpose(r)] = query[r]]

StoreSlot(r) ==
    /\ pc[r] = "storing"
    /\ slot' = Stored(r, slot)
    /\ Goto(r, "executing")
    /\ UNCHANGED <<sql, cached, kind, chain, job, source, query, ran,
                   again, todo, cleared, met, lapped, budgetVars, spent>>

\* execute_query: what the query says now is what will run.
Execute(r) ==
    /\ pc[r] = "executing" /\ query[r] \in Live
    /\ ran' = [ran EXCEPT ![r] = sql[query[r]]]
    /\ query' = [query EXCEPT ![r] = None]
    /\ spent' = [spent EXCEPT ![r] = @ + 1]
    /\ Goto(r, "waiting")
    /\ UNCHANGED <<slot, sql, cached, kind, chain, job, source, again,
                   todo, cleared, met, lapped, budgetVars>>

ExecuteNotFound(r) ==
    /\ pc[r] = "executing" /\ query[r] \notin Live
    /\ Reset(r)
    /\ UNCHANGED <<slot, sql, cached, lapped, budgetVars>>

-----------------------------------------------------------------------------
(* The answer. *)

\* Dune rotates its build schemas: the table may be gone since it was
\* resolved, and the execution fails with "... does not exist".
MayBeStale(r) == ReadsBalances(ran[r].what)

Retries(r) == job[r] = "own" /\ StartsOver(kind[r]) /\ ~again[r]

\* Both cached tables of the chain are dropped and the request starts over.
StartOver(r) ==
    /\ pc[r] = "waiting" /\ MayBeStale(r) /\ Retries(r)
    /\ cached' = [k \in Catalogues \X Chains |->
                    IF k[2] = chain[r] THEN None ELSE cached[k]]
    /\ again' = [again EXCEPT ![r] = TRUE]
    /\ source' = [source EXCEPT ![r] = None]
    /\ ran' = [ran EXCEPT ![r] = None]
    /\ job' = [job EXCEPT ![r] = FirstJob(kind[r])]
    /\ Goto(r, "resolving")
    /\ UNCHANGED <<slot, sql, kind, chain, query, todo, cleared, met,
                   lapped, budgetVars, spent>>

\* Or raises.
GiveUp(r) ==
    /\ pc[r] = "waiting" /\ MayBeStale(r) /\ ~Retries(r)
    /\ Reset(r)
    /\ UNCHANGED <<slot, sql, cached, lapped, budgetVars>>

\* resolve_source takes the best balance table of the rows, of any chain.
FindsBalances(r) == job[r] = "source" /\ ran[r].what = "source"

\* resolve_contract_source looks for the tables of its chain, and for the one
\* all chains share.
FindsContracts(r) == job[r] = "contracts" /\ ran[r].what = "contracts"

Table(r) == IF job[r] = "source" THEN ran[r].chain ELSE chain[r]

\* The catalogue's rows: the choice is cached.
CatalogueRead(r) ==
    /\ pc[r] = "waiting"
    /\ FindsBalances(r) \/ FindsContracts(r)
    /\ cached' = [cached EXCEPT ![Key(r)] = Table(r)]
    /\ ran' = [ran EXCEPT ![r] = None]
    /\ Resolved(r, Table(r))
    /\ UNCHANGED <<slot, sql, kind, chain, query, again, todo, cleared,
                   met, lapped, budgetVars, spent>>

\* SourceNotFound: the plan of the key does not include the table, or the rows
\* are those of another query.
NotFound(r) ==
    /\ pc[r] = "waiting" /\ job[r] \in Catalogues
    /\ Reset(r)
    /\ UNCHANGED <<slot, sql, cached, lapped, budgetVars>>

\* fetch_results: the request has its rows.
Answered(r) ==
    /\ pc[r] = "waiting" /\ job[r] = "own"
    /\ Reset(r)
    /\ UNCHANGED <<slot, sql, cached, lapped, budgetVars>>

\* No rows of balances: get_holders asks the transfers, under their purpose.
FallBack(r) ==
    /\ pc[r] = "waiting"
    /\ job[r] = "own" /\ kind[r] = "holders"
    /\ kind' = [kind EXCEPT ![r] = "plain"]
    /\ source' = [source EXCEPT ![r] = None]
    /\ ran' = [ran EXCEPT ![r] = None]
    /\ Goto(r, "reusing")
    /\ UNCHANGED <<slot, sql, cached, chain, job, query, again, todo,
                   cleared, met, lapped, budgetVars, spent>>

-----------------------------------------------------------------------------
(* POST /api/dune/archive-queries. *)

\* The queries are listed, page by page.
BeginArchive(r) ==
    /\ pc[r] = "idle"
    /\ requests < MaxRequests
    /\ requests' = requests + 1
    /\ todo' = [todo EXCEPT ![r] = Live]
    /\ Goto(r, "archiving")
    /\ lapped' = lapped \cup {p \in Purposes : Others(r, p) # {}}
    /\ UNCHANGED <<slot, sql, cached, kind, chain, job, source, query,
                   ran, again, cleared, met, mishaps, spent>>

\* One of them is archived; a query gone meanwhile is one more error.
Archive(r, q) ==
    /\ pc[r] = "archiving" /\ q \in todo[r]
    /\ todo' = [todo EXCEPT ![r] = @ \ {q}]
    /\ cleared' = [cleared EXCEPT ![r] = @ \/ q \in Live]
    /\ sql' = [sql EXCEPT ![q] = None]
    /\ UNCHANGED <<slot, cached, pc, kind, chain, job, source, query,
                   ran, again, met, lapped, budgetVars, spent>>

\* The call fails: the handler goes on with the next.
ArchiveFails(r, q) ==
    /\ pc[r] = "archiving" /\ q \in todo[r]
    /\ mishaps < MaxMishaps
    /\ mishaps' = mishaps + 1
    /\ todo' = [todo EXCEPT ![r] = @ \ {q}]
    /\ UNCHANGED <<slot, sql, cached, pc, kind, chain, job, source,
                   query, ran, again, cleared, met, lapped, requests, spent>>

\* drop_account_slots, if any query was archived.
ClearSlots(r) ==
    /\ pc[r] = "archiving" /\ todo[r] = {}
    /\ slot' = IF cleared[r] THEN [p \in Purposes |-> None] ELSE slot
    /\ Reset(r)
    /\ UNCHANGED <<sql, cached, lapped, budgetVars>>

-----------------------------------------------------------------------------
(* Failures and the environment. *)

\* A call raises, or the process dies.
Fail(r) ==
    /\ pc[r] # "idle"
    /\ mishaps < MaxMishaps
    /\ mishaps' = mishaps + 1
    /\ Reset(r)
    /\ UNCHANGED <<slot, sql, cached, lapped, requests>>

\* An entry expires, or GET /api/source?refresh drops it.
Expire(k) ==
    /\ cached[k] # None
    /\ mishaps < MaxMishaps
    /\ mishaps' = mishaps + 1
    /\ cached' = [cached EXCEPT ![k] = None]
    /\ UNCHANGED <<slot, sql, runVars, met, lapped, requests, spent>>

\* The user deletes a query on dune.com.
Vanish(q) ==
    /\ q \in Live
    /\ mishaps < MaxMishaps
    /\ mishaps' = mishaps + 1
    /\ sql' = [sql EXCEPT ![q] = None]
    /\ UNCHANGED <<slot, cached, runVars, met, lapped, requests, spent>>

\* A watchlist is deleted: drop_purpose_slots, the query stays.
DeleteWatchlist ==
    /\ slot["positions"] # None
    /\ mishaps < MaxMishaps
    /\ mishaps' = mishaps + 1
    /\ slot' = [slot EXCEPT !["positions"] = None]
    /\ UNCHANGED <<sql, cached, runVars, met, lapped, requests, spent>>

Step(r) ==
    \/ CacheHit(r) \/ CacheMiss(r)
    \/ ReadSlot(r) \/ Patch(r) \/ PatchNotFound(r) \/ DropSlot(r)
    \/ Create(r) \/ CreateRefused(r) \/ StoreSlot(r)
    \/ Execute(r) \/ ExecuteNotFound(r)
    \/ StartOver(r) \/ GiveUp(r) \/ CatalogueRead(r) \/ NotFound(r)
    \/ Answered(r) \/ FallBack(r)
    \/ ClearSlots(r) \/ \E q \in Queries : Archive(r, q)

Next ==
    \/ \E r \in Runs :
        \/ Step(r) \/ Fail(r) \/ BeginArchive(r)
        \/ \E request \in Requested : Begin(r, request[1], request[2])
        \/ \E q \in Queries : ArchiveFails(r, q)
    \/ DeleteWatchlist
    \/ \E k \in Catalogues \X Chains : Expire(k)
    \/ \E q \in Queries : Vanish(q)

Spec == Init /\ [][Next]_vars

\* Every call has a timeout, and so has the wait for an execution.
FairSpec == Spec /\ \A r \in Runs : WF_vars(Step(r))

-----------------------------------------------------------------------------
(* Properties. *)

\* A run executes the SQL it wrote, unless another run of the same purpose came
\* between its slot and its execution: what runs of other purposes, retries,
\* deletions and failures do never puts foreign SQL into its query.
OwnSqlRuns ==
    \A r \in Runs : pc[r] = "waiting" /\ ~met[r] => ran[r] = Wanted(r)

\* A chain's cached balance table is another chain's only after two runs met at
\* the diagnostic query all catalogues share.
ForeignTableNeedsOverlap ==
    \A c \in Chains :
        LET table == cached[<<"source", c>>] IN
        table \notin {None, c} => "diagnostic" \in lapped

\* "create only once": a query nobody remembers costs a failure, a watchlist
\* deleted, or two runs at one slot.
OrphansNeedOverlap ==
    lapped = {} =>
        Cardinality({q \in Live : /\ \A p \in Purposes : slot[p] # q
                                  /\ \A r \in Runs : query[r] # q})
            <= mishaps

\* Executions cost credits: however often tables are rebuilt under it, a
\* request pays for two rounds of two catalogues and a query, and the transfers.
CostIsBounded == \A r \in Runs : spent[r] <= 7

\* What a request gets is what it asked for: its own SQL, its own chain's table.
AnswersAreOwn == OwnSqlRuns /\ ForeignTableNeedsOverlap

\* The account's two quotas are spared: private queries and credits.
QuotasAreSpared == OrphansNeedOverlap /\ CostIsBounded
=============================================================================
