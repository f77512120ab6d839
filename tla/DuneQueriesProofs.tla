--------------------------- MODULE DuneQueriesProofs ---------------------------
(***************************************************************************)
(* Proofs about the saved queries of a Dune account, for any number of     *)
(* runs, chains and queries and any requests.                              *)
(***************************************************************************)
EXTENDS DuneQueries, FiniteSetTheorems, TLAPS

-----------------------------------------------------------------------------
(* The inductive invariant. *)

\* Between reading a slot and executing what it names.
InZone(r) == pc[r] \in {"patching", "dropping", "creating", "storing",
                        "executing"}

\* No request of its own.
Free(r) == pc[r] \in {"idle", "archiving"}

\* The executions a request can have paid for when it turns to its job.
Ceiling(r) ==
    (IF again[r] THEN 3 ELSE 0)
    + (IF job[r] = "source" THEN 0
       ELSE IF job[r] = "contracts" THEN 1
       ELSE IF ReadsBalances(kind[r]) THEN 2 ELSE 3)

Paid(r) ==
    IF Free(r) THEN spent[r] = 0 /\ ~again[r]
    ELSE spent[r] <= Ceiling(r) + (IF pc[r] = "waiting" THEN 1 ELSE 0)

\* What a run holds where.
Shape(r) ==
    /\ ~Free(r) => /\ kind[r] \in Kinds /\ chain[r] \in Chains
                   /\ job[r] \in Catalogues \cup {"own"}
    /\ Free(r) => kind[r] = None /\ job[r] = None
    /\ IF pc[r] \in {"patching", "storing", "executing"}
         THEN query[r] \in Queries ELSE query[r] = None
    /\ pc[r] = "waiting" => ran[r] \in Sql
    /\ pc[r] = "resolving" => job[r] \in Catalogues
    /\ job[r] \in Catalogues => ReadsBalances(kind[r])
    /\ job[r] = "contracts" => kind[r] = "holders"
    /\ job[r] \in {"contracts", "own"} /\ ReadsBalances(kind[r])
         => source[r] # None

Typed == TypeOK /\ \A r \in Runs : Shape(r)

AllPaid == \A r \in Runs : Paid(r)

\* A query serves one purpose.
OnePurpose ==
    /\ \A p, o \in Purposes : slot[p] = slot[o] /\ slot[p] # None => p = o
    /\ \A r \in Runs, p \in Purposes :
          query[r] # None /\ slot[p] = query[r] => Purpose(r) = p
    /\ \A r, o \in Runs :
          query[r] # None /\ query[o] = query[r] => Purpose(r) = Purpose(o)

\* Runs that use a purpose at the same time are noted.
OverlapsNoted ==
    /\ \A r, o \in Runs :
          /\ r # o /\ InZone(r) /\ InZone(o) /\ Purpose(r) = Purpose(o)
          => met[r]
    /\ \A r, o \in Runs, p \in Purposes :
          r # o /\ Using(r, p) /\ Using(o, p) => p \in lapped
    /\ \A r \in Runs :
          met[r] /\ (InZone(r) \/ pc[r] = "waiting") => Purpose(r) \in lapped

\* The query of a run that met nobody says what the run wrote.
OwnSql(r) ==
    ~met[r] =>
        /\ pc[r] \in {"storing", "executing"} /\ query[r] \in Live
             => sql[query[r]] = Wanted(r)
        /\ pc[r] = "waiting" => ran[r] = Wanted(r)

\* Without overlaps, a run overwrites no slot that still names a query.
Tidy(r) ==
    lapped = {} =>
        /\ pc[r] = "patching" => slot[Purpose(r)] \in {query[r], None}
        /\ pc[r] = "dropping" => slot[Purpose(r)] \notin Live
        /\ pc[r] \in {"creating", "storing"} => slot[Purpose(r)] = None

\* Queries no slot names and no run is about to store, and those the archive
\* handler passed over.
Strays ==
    {q \in Live :
        \/ /\ \A p \in Purposes : slot[p] # q
           /\ \A r \in Runs : pc[r] = "storing" => query[r] # q
        \/ \E r \in Runs : pc[r] = "archiving" /\ q \notin todo[r]}

StraysCounted == lapped = {} => Cardinality(Strays) <= mishaps

Traced ==
    /\ OnePurpose /\ OverlapsNoted
    /\ \A r \in Runs : OwnSql(r)
    /\ ForeignTableNeedsOverlap

Counted == (\A r \in Runs : Tidy(r)) /\ StraysCounted

IInv == Typed /\ AllPaid /\ Traced /\ Counted

-----------------------------------------------------------------------------
(* Types. *)

\* The steps of a run: those that end its request, and the others.
Ends(r) ==
    \/ CreateRefused(r) \/ ExecuteNotFound(r) \/ GiveUp(r) \/ NotFound(r)
    \/ Answered(r) \/ ClearSlots(r) \/ Fail(r)

\* Steps that touch the run alone.
Moves(r) ==
    \/ \E request \in Requested : Begin(r, request[1], request[2])
    \/ CacheHit(r) \/ CacheMiss(r) \/ Execute(r) \/ FallBack(r)
    \/ PatchNotFound(r)

RunStep(r) ==
    \/ Ends(r) \/ Moves(r) \/ ReadSlot(r) \/ Patch(r) \/ DropSlot(r)
    \/ Create(r) \/ StoreSlot(r) \/ StartOver(r) \/ CatalogueRead(r)
    \/ BeginArchive(r)
    \/ \E q \in Queries : Archive(r, q) \/ ArchiveFails(r, q)

Environment ==
    \/ DeleteWatchlist
    \/ \E k \in Catalogues \X Chains : Expire(k)
    \/ \E q \in Queries : Vanish(q)

LEMMA NextSteps ==
    ASSUME Next
    PROVE  (\E r \in Runs : RunStep(r)) \/ Environment
BY DEF Next, Step, RunStep, Ends, Moves, Environment

Places == {"idle", "resolving", "reusing", "patching", "dropping", "creating",
           "storing", "executing", "waiting", "archiving"}

\* The types of what a run has of its own.
Entry(r) ==
    /\ pc[r] \in Places
    /\ kind[r] \in Kinds \cup {None} /\ chain[r] \in Chains \cup {None}
    /\ job[r] \in Catalogues \cup {"own", None}
    /\ source[r] \in Chains \cup {None} /\ query[r] \in Queries \cup {None}
    /\ ran[r] \in Sql \cup {None} /\ again[r] \in BOOLEAN
    /\ todo[r] \in SUBSET Queries /\ cleared[r] \in BOOLEAN
    /\ spent[r] \in Nat

Sound(r) == Entry(r) /\ Shape(r) /\ Paid(r)

LEMMA Domains ==
    ASSUME TypeOK
    PROVE  /\ DOMAIN pc = Runs /\ DOMAIN kind = Runs /\ DOMAIN chain = Runs
           /\ DOMAIN job = Runs /\ DOMAIN source = Runs /\ DOMAIN query = Runs
           /\ DOMAIN ran = Runs /\ DOMAIN again = Runs /\ DOMAIN todo = Runs
           /\ DOMAIN cleared = Runs /\ DOMAIN spent = Runs /\ DOMAIN met = Runs
           /\ \A r \in Runs : Entry(r)
BY DEF TypeOK, Entry, Places

LEMMA EndsResets ==
    ASSUME NEW r \in Runs, Ends(r)
    PROVE  /\ Reset(r) /\ UNCHANGED <<sql, cached, lapped, requests>>
           /\ slot' = slot \/ ClearSlots(r)
           /\ mishaps' = mishaps \/ Fail(r)
BY DEF Ends, CreateRefused, ExecuteNotFound, GiveUp, NotFound, Answered,
       ClearSlots, Fail, budgetVars

\* What a run wants and uses.
LEMMA WantedTyped ==
    ASSUME Typed, NEW r \in Runs, ~Free(r)
    PROVE  /\ Purpose(r) \in Purposes /\ Wanted(r) \in Sql /\ Wanted(r) # None
           /\ (job[r] \in Catalogues => Key(r) \in Catalogues \X Chains)
<1>1. /\ kind[r] \in Kinds /\ chain[r] \in Chains
      /\ job[r] \in Catalogues \cup {"own"}
  BY DEF Typed, Shape
<1>2. Purpose(r) \in Purposes
  BY <1>1 DEF Purpose, Purposes, Kinds
<1>3. Wanted(r) \in Sql
  BY <1>1 DEF Wanted, Sql
<1> QED
  BY <1>1, <1>2, <1>3, NoneAssumption DEF Key

LEMMA ResetLeaves ==
    ASSUME TypeOK, NEW r \in Runs, Reset(r)
    PROVE  Sound(r)'
<1>1. /\ pc'[r] = "idle" /\ kind'[r] = None /\ chain'[r] = None
      /\ job'[r] = None /\ source'[r] = None /\ query'[r] = None
      /\ ran'[r] = None /\ ~again'[r] /\ todo'[r] = {} /\ spent'[r] = 0
      /\ again'[r] \in BOOLEAN /\ cleared'[r] \in BOOLEAN
  BY Domains DEF Reset, Goto
<1>2. Entry(r)'
  BY <1>1 DEF Entry, Places
<1>3. Shape(r)'
  BY <1>1, NoneAssumption DEF Shape, Free, ReadsBalances, Catalogues
<1>4. Paid(r)'
  BY <1>1 DEF Paid, Free
<1> QED
  BY <1>2, <1>3, <1>4 DEF Sound

\* A request is taken.
LEMMA BeginSound ==
    ASSUME Typed, NEW r \in Runs, Paid(r),
           NEW k \in Kinds, NEW c \in Chains, Begin(r, k, c)
    PROVE  Sound(r)'
<1>1. /\ pc[r] = "idle" /\ Entry(r) /\ Shape(r)
  BY Domains DEF Typed, Begin
<1>2. /\ kind'[r] = k /\ chain'[r] = c /\ job'[r] = FirstJob(k)
      /\ pc'[r] = IF ReadsBalances(k) THEN "resolving" ELSE "reusing"
      /\ UNCHANGED <<source, query, ran, again, todo, cleared, spent>>
  BY Domains DEF Typed, Begin, Goto
<1>3. /\ job'[r] = IF ReadsBalances(k) THEN "source" ELSE "own"
      /\ job'[r] \in Catalogues \cup {"own"}
  BY <1>2 DEF FirstJob, Catalogues
<1>4. Entry(r)'
  BY <1>1, <1>2, <1>3 DEF Entry, Places
<1>5. Shape(r)'
  BY <1>1, <1>2, <1>3 DEF Shape, Free, Catalogues
<1>6. Paid(r)'
  <2>1. spent[r] = 0 /\ ~again[r]
    BY <1>1 DEF Paid, Free
  <2> QED
    BY <1>2, <1>3, <2>1 DEF Paid, Free, Ceiling
<1> QED
  BY <1>4, <1>5, <1>6 DEF Sound

\* A table is resolved.
LEMMA ResolvedSound ==
    ASSUME Typed, NEW r \in Runs, NEW table \in Chains, job[r] \in Catalogues,
           pc[r] \in {"resolving", "waiting"}, Paid(r), Resolved(r, table),
           UNCHANGED <<kind, chain, query, again, todo, cleared, spent>>,
           ran'[r] \in Sql \cup {None}
    PROVE  Sound(r)'
<1>1. /\ Entry(r) /\ Shape(r) /\ ~Free(r)
      /\ DOMAIN source = Runs /\ DOMAIN job = Runs /\ DOMAIN pc = Runs
  BY Domains DEF Typed, Free
<1>2. /\ source'[r] = IF job[r] = "source" THEN table ELSE source[r]
      /\ job'[r] = Following(r)
      /\ pc'[r] = IF Following(r) = "own" THEN "reusing" ELSE "resolving"
  BY <1>1 DEF Resolved, Goto
<1>3. Following(r) = IF job[r] = "source" /\ kind[r] = "holders"
                       THEN "contracts" ELSE "own"
  BY DEF Following
<1>4. /\ job[r] \in {"source", "contracts"} /\ kind[r] \in Kinds
      /\ chain[r] \in Chains /\ query[r] = None
      /\ ReadsBalances(kind[r])
      /\ job[r] = "contracts" => source[r] # None
  BY <1>1 DEF Shape, Catalogues, Free
<1>5. source'[r] \in Chains /\ source'[r] # None
  BY <1>1, <1>2, <1>4, NoneAssumption DEF Entry
<1>6. Entry(r)'
  BY <1>1, <1>2, <1>3, <1>5 DEF Entry, Places, Catalogues
<1>7. Shape(r)'
  <2>1. kind[r] = "holders" => ReadsBalances(kind[r])
    BY DEF ReadsBalances
  <2> QED
    BY <1>2, <1>3, <1>4, <1>5, <2>1 DEF Shape, Free, Catalogues
<1>8. Paid(r)'
  <2>1. spent[r] <= Ceiling(r) + 1 /\ spent[r] \in Nat
    BY <1>1 DEF Paid, Entry, Ceiling
  <2>2. Ceiling(r) + 1 <= Ceiling(r)'
    BY <1>2, <1>3, <1>4 DEF Ceiling
  <2>3. Ceiling(r) \in Nat /\ Ceiling(r)' \in Nat
    BY DEF Ceiling
  <2>4. ~Free(r)' /\ pc'[r] # "waiting"
    BY <1>2 DEF Free
  <2> QED
    BY <2>1, <2>2, <2>3, <2>4 DEF Paid
<1> QED
  BY <1>6, <1>7, <1>8 DEF Sound

\* Steps on the way to an execution.
Walks(r) ==
    \/ CacheMiss(r) \/ ReadSlot(r) \/ Patch(r) \/ PatchNotFound(r)
    \/ DropSlot(r) \/ Create(r) \/ StoreSlot(r)

LEMMA WalkGoes ==
    ASSUME TypeOK, NEW r \in Runs, Walks(r)
    PROVE  /\ UNCHANGED <<kind, chain, job, source, ran, again, todo, cleared,
                          spent, cached, budgetVars>>
           /\ \/ CacheMiss(r) /\ pc[r] = "resolving" /\ pc'[r] = "reusing"
              \/ /\ ReadSlot(r) /\ pc[r] = "reusing"
                 /\ query'[r] = slot[Purpose(r)]
                 /\ pc'[r] = IF slot[Purpose(r)] = None THEN "creating"
                             ELSE "patching"
              \/ Patch(r) /\ pc[r] = "patching" /\ pc'[r] = "executing"
              \/ /\ PatchNotFound(r) /\ pc[r] = "patching"
                 /\ pc'[r] = "dropping" /\ query'[r] = None
              \/ DropSlot(r) /\ pc[r] = "dropping" /\ pc'[r] = "creating"
              \/ /\ Create(r) /\ pc[r] = "creating" /\ pc'[r] = "storing"
                 /\ query'[r] \in Unused /\ sql' = [sql EXCEPT ![query'[r]] = Wanted(r)]
              \/ StoreSlot(r) /\ pc[r] = "storing" /\ pc'[r] = "executing"
           /\ ReadSlot(r) \/ UNCHANGED <<met, lapped>>
           /\ \/ ReadSlot(r) \/ PatchNotFound(r) \/ Create(r)
              \/ query' = query
           /\ Patch(r) \/ Create(r) \/ sql' = sql
           /\ DropSlot(r) \/ StoreSlot(r) \/ slot' = slot
<1> USE DEF Walks
<1>1. DOMAIN pc = Runs /\ DOMAIN query = Runs
  BY Domains
<1>2. UNCHANGED <<kind, chain, job, source, ran, again, todo, cleared, spent,
                  cached, budgetVars>>
  BY DEF CacheMiss, ReadSlot, Patch, PatchNotFound, DropSlot, Create, StoreSlot
<1>3. /\ ReadSlot(r) \/ UNCHANGED <<met, lapped>>
      /\ ReadSlot(r) \/ PatchNotFound(r) \/ Create(r) \/ query' = query
      /\ Patch(r) \/ Create(r) \/ sql' = sql
      /\ DropSlot(r) \/ StoreSlot(r) \/ slot' = slot
  BY DEF CacheMiss, ReadSlot, Patch, PatchNotFound, DropSlot, Create, StoreSlot
<1>4. ASSUME Create(r)
      PROVE  /\ pc[r] = "creating" /\ pc'[r] = "storing"
             /\ query'[r] \in Unused
             /\ sql' = [sql EXCEPT ![query'[r]] = Wanted(r)]
  <2>1. PICK q \in Unused : /\ sql' = [sql EXCEPT ![q] = Wanted(r)]
                            /\ query' = [query EXCEPT ![r] = q]
    BY <1>4 DEF Create
  <2>2. query'[r] = q
    BY <1>1, <2>1
  <2> QED
    BY <1>1, <1>4, <2>1, <2>2 DEF Create, Goto
<1>5. ASSUME ReadSlot(r)
      PROVE  /\ pc[r] = "reusing" /\ query'[r] = slot[Purpose(r)]
             /\ pc'[r] = IF slot[Purpose(r)] = None THEN "creating"
                         ELSE "patching"
  BY <1>1, <1>5 DEF ReadSlot, Goto
<1>6. CASE ~Create(r) /\ ~ReadSlot(r)
  BY <1>1, <1>2, <1>3, <1>6
  DEF CacheMiss, Patch, PatchNotFound, DropSlot, StoreSlot, Goto
<1> QED
  BY <1>2, <1>3, <1>4, <1>5, <1>6

LEMMA WalkSound ==
    ASSUME Typed, NEW r \in Runs, Paid(r), Walks(r)
    PROVE  Sound(r)'
<1>1. /\ Entry(r) /\ Shape(r) /\ DOMAIN pc = Runs
      /\ slot \in [Purposes -> Queries \cup {None}]
  BY Domains DEF Typed, TypeOK
<1>2. /\ UNCHANGED <<kind, chain, job, source, ran, again, todo, cleared, spent>>
      /\ pc[r] \in {"resolving", "reusing", "patching", "dropping", "creating",
                    "storing"}
      /\ pc'[r] \in {"reusing", "patching", "dropping", "creating", "storing",
                     "executing"}
  BY WalkGoes DEF Typed
<1>3. ~Free(r) /\ ~Free(r)' /\ Purpose(r) \in Purposes
  BY <1>2, WantedTyped DEF Free
<1>4. /\ query'[r] \in Queries \cup {None}
      /\ IF pc'[r] \in {"patching", "storing", "executing"}
           THEN query'[r] \in Queries ELSE query'[r] = None
  <2>1. query[r] \in Queries \cup {None}
        /\ IF pc[r] \in {"patching", "storing", "executing"}
             THEN query[r] \in Queries ELSE query[r] = None
    BY <1>1 DEF Entry, Shape
  <2>2. Unused \subseteq Queries
    BY DEF Unused
  <2>3. slot[Purpose(r)] \in Queries \cup {None}
    BY <1>1, <1>3
  <2>4. \/ CacheMiss(r) /\ pc[r] = "resolving" /\ pc'[r] = "reusing"
        \/ /\ pc[r] = "reusing" /\ query'[r] = slot[Purpose(r)]
           /\ pc'[r] = IF slot[Purpose(r)] = None THEN "creating" ELSE "patching"
        \/ Patch(r) /\ pc[r] = "patching" /\ pc'[r] = "executing"
        \/ pc'[r] = "dropping" /\ query'[r] = None
        \/ DropSlot(r) /\ pc[r] = "dropping" /\ pc'[r] = "creating"
        \/ pc'[r] = "storing" /\ query'[r] \in Unused
        \/ StoreSlot(r) /\ pc[r] = "storing" /\ pc'[r] = "executing"
    BY WalkGoes DEF Typed
  <2>5. CacheMiss(r) \/ Patch(r) \/ DropSlot(r) \/ StoreSlot(r) => query' = query
    BY DEF CacheMiss, Patch, DropSlot, StoreSlot
  <2> QED
    BY <2>1, <2>2, <2>3, <2>4, <2>5
<1>5. Entry(r)'
  BY <1>1, <1>2, <1>4 DEF Entry, Places
<1>6. Shape(r)'
  BY <1>1, <1>2, <1>3, <1>4 DEF Shape
<1>7. Paid(r)'
  BY <1>2, <1>3 DEF Paid, Ceiling
<1> QED
  BY <1>5, <1>6, <1>7 DEF Sound

\* The execution is paid for.
LEMMA ExecuteSound ==
    ASSUME Typed, NEW r \in Runs, Paid(r), Execute(r)
    PROVE  /\ Sound(r)' /\ pc[r] = "executing" /\ pc'[r] = "waiting"
           /\ query[r] \in Live /\ ran'[r] = sql[query[r]]
<1>1. /\ Entry(r) /\ Shape(r) /\ sql \in [Queries -> Sql \cup {None}]
  BY Domains DEF Typed, TypeOK
<1>2. /\ pc[r] = "executing" /\ pc'[r] = "waiting" /\ query[r] \in Live
      /\ ran'[r] = sql[query[r]] /\ query'[r] = None
      /\ spent'[r] = spent[r] + 1
      /\ UNCHANGED <<kind, chain, job, source, again, todo, cleared>>
  BY Domains DEF Typed, Execute, Goto
<1>3. ran'[r] \in Sql
  BY <1>1, <1>2 DEF Live
<1>4. Entry(r)'
  BY <1>1, <1>2, <1>3 DEF Entry, Places
<1>5. Shape(r)'
  BY <1>1, <1>2, <1>3 DEF Shape, Free
<1>6. Paid(r)'
  <2>1. spent[r] <= Ceiling(r) /\ spent[r] \in Nat
    BY <1>1, <1>2 DEF Paid, Free, Entry, Ceiling
  <2>2. Ceiling(r)' = Ceiling(r) /\ Ceiling(r) \in Nat
    BY <1>2 DEF Ceiling
  <2> QED
    BY <1>2, <2>1, <2>2 DEF Paid, Free
<1> QED
  BY <1>2, <1>4, <1>5, <1>6 DEF Sound

\* The table was rebuilt away: the second round begins.
LEMMA StartOverSound ==
    ASSUME Typed, NEW r \in Runs, Paid(r), StartOver(r)
    PROVE  Sound(r)'
<1>1. /\ Entry(r) /\ Shape(r)
  BY Domains DEF Typed
<1>2. /\ pc[r] = "waiting" /\ job[r] = "own" /\ StartsOver(kind[r])
      /\ ~again[r] /\ pc'[r] = "resolving" /\ job'[r] = FirstJob(kind[r])
      /\ again'[r] /\ again'[r] \in BOOLEAN
      /\ source'[r] = None /\ ran'[r] = None
      /\ UNCHANGED <<kind, chain, query, todo, cleared, spent>>
  BY Domains DEF Typed, StartOver, Retries, Goto
<1>3. /\ ReadsBalances(kind[r]) /\ job'[r] = "source"
  BY <1>2 DEF StartsOver, ReadsBalances, FirstJob
<1>4. Entry(r)'
  BY <1>1, <1>2, <1>3 DEF Entry, Places, Catalogues
<1>5. Shape(r)'
  BY <1>1, <1>2, <1>3 DEF Shape, Free, Catalogues
<1>6. Paid(r)'
  <2>1. spent[r] <= 3 /\ spent[r] \in Nat
    BY <1>1, <1>2, <1>3 DEF Paid, Free, Entry, Ceiling
  <2>2. Ceiling(r)' = 3
    BY <1>2, <1>3 DEF Ceiling
  <2> QED
    BY <1>2, <2>1, <2>2 DEF Paid, Free
<1> QED
  BY <1>4, <1>5, <1>6 DEF Sound

\* No rows of balances: the transfers are asked.
LEMMA FallBackSound ==
    ASSUME Typed, NEW r \in Runs, Paid(r), FallBack(r)
    PROVE  Sound(r)'
<1>1. /\ Entry(r) /\ Shape(r)
  BY Domains DEF Typed
<1>2. /\ pc[r] = "waiting" /\ job[r] = "own" /\ kind[r] = "holders"
      /\ pc'[r] = "reusing" /\ kind'[r] = "plain"
      /\ source'[r] = None /\ ran'[r] = None
      /\ UNCHANGED <<chain, job, query, again, todo, cleared, spent>>
  BY Domains DEF Typed, FallBack, Goto
<1>3. ReadsBalances(kind[r]) /\ ~ReadsBalances(kind'[r])
  BY <1>2 DEF ReadsBalances
<1>4. Entry(r)'
  BY <1>1, <1>2 DEF Entry, Places, Kinds
<1>5. Shape(r)'
  BY <1>1, <1>2, <1>3 DEF Shape, Free, Catalogues, Kinds
<1>6. Paid(r)'
  <2>1. spent[r] <= (IF again[r] THEN 3 ELSE 0) + 3 /\ spent[r] \in Nat
    BY <1>1, <1>2, <1>3 DEF Paid, Free, Entry, Ceiling
  <2>2. Ceiling(r)' = (IF again[r] THEN 3 ELSE 0) + 3
    BY <1>2, <1>3 DEF Ceiling
  <2> QED
    BY <1>2, <2>1, <2>2 DEF Paid, Free
<1> QED
  BY <1>4, <1>5, <1>6 DEF Sound

\* A catalogue's answer, from the cache or from Dune.
LEMMA CatalogueSound ==
    ASSUME Typed, NEW r \in Runs, Paid(r), CacheHit(r) \/ CatalogueRead(r)
    PROVE  /\ Sound(r)'
           /\ CatalogueRead(r) =>
                 /\ pc[r] = "waiting" /\ Table(r) \in Chains
                 /\ job[r] \in Catalogues /\ Key(r) \in Catalogues \X Chains
<1>1. /\ Entry(r) /\ Shape(r) /\ DOMAIN ran = Runs
      /\ cached \in [Catalogues \X Chains -> Chains \cup {None}]
  BY Domains DEF Typed, TypeOK
<1>2. /\ job[r] \in Catalogues /\ pc[r] \in {"resolving", "waiting"}
      /\ CatalogueRead(r) => pc[r] = "waiting" /\ ran'[r] = None
      /\ CacheHit(r) => ran' = ran /\ cached[Key(r)] # None
      /\ UNCHANGED <<kind, chain, query, again, todo, cleared, spent>>
  BY <1>1 DEF CacheHit, CatalogueRead, FindsBalances, FindsContracts, Shape,
              Catalogues
<1>3. Key(r) \in Catalogues \X Chains /\ chain[r] \in Chains
  BY <1>1, <1>2, WantedTyped DEF Free, Shape
<1>4. CASE CacheHit(r)
  <2>1. PICK table \in Chains : Resolved(r, table)
    BY <1>1, <1>2, <1>3, <1>4 DEF CacheHit
  <2>2. ran'[r] \in Sql \cup {None}
    BY <1>1, <1>2, <1>4 DEF Entry
  <2>3. Sound(r)'
    BY <1>2, <2>1, <2>2, ResolvedSound
  <2> QED
    BY <1>4, <2>3 DEF CacheHit, CatalogueRead
<1>5. CASE CatalogueRead(r)
  <2>1. ran[r] \in Sql
    BY <1>1, <1>2, <1>5 DEF Shape
  <2>2. Table(r) \in Chains
    BY <1>3, <2>1 DEF Table, Sql
  <2>3. PICK table \in Chains : Resolved(r, table)
    BY <1>5, <2>2 DEF CatalogueRead
  <2>4. ran'[r] \in Sql \cup {None}
    BY <1>2, <1>5
  <2>5. Sound(r)'
    BY <1>2, <2>3, <2>4, ResolvedSound
  <2> QED
    BY <1>2, <1>3, <1>5, <2>2, <2>5
<1> QED
  BY <1>4, <1>5

\* The archive handler.
LEMMA ArchiveSound ==
    ASSUME Typed, NEW r \in Runs, Paid(r),
           BeginArchive(r) \/ \E q \in Queries : Archive(r, q) \/ ArchiveFails(r, q)
    PROVE  Sound(r)' /\ Free(r) /\ pc'[r] = "archiving"
<1>1. /\ Entry(r) /\ Shape(r)
  BY Domains DEF Typed
<1>2. /\ pc[r] \in {"idle", "archiving"} /\ pc'[r] = "archiving"
      /\ UNCHANGED <<kind, chain, job, source, query, ran, again, spent>>
  BY Domains DEF Typed, BeginArchive, Archive, ArchiveFails, Goto
<1>3. todo'[r] \subseteq Queries
  BY <1>1, Domains DEF Typed, BeginArchive, Archive, ArchiveFails, Live, Entry
<1>4. cleared'[r] \in BOOLEAN
  BY <1>1, Domains DEF Typed, BeginArchive, Archive, ArchiveFails, Entry
<1>5. Entry(r)'
  BY <1>1, <1>2, <1>3, <1>4 DEF Entry, Places
<1>6. Shape(r)'
  BY <1>1, <1>2 DEF Shape, Free
<1>7. Paid(r)'
  BY <1>1, <1>2 DEF Paid, Free
<1> QED
  BY <1>2, <1>5, <1>6, <1>7 DEF Sound, Free

LEMMA OwnSound ==
    ASSUME Typed, NEW r \in Runs, Paid(r), RunStep(r)
    PROVE  Sound(r)'
<1>1. CASE Ends(r)
  BY <1>1, EndsResets, ResetLeaves DEF Typed
<1>2. CASE Walks(r)
  BY <1>2, WalkSound
<1>3. CASE \E request \in Requested : Begin(r, request[1], request[2])
  <2>1. PICK k \in Kinds, c \in Chains : Begin(r, k, c)
    BY <1>3, RequestedAssumption
  <2> QED
    BY <2>1, BeginSound
<1>4. CASE Execute(r)
  BY <1>4, ExecuteSound
<1>5. CASE StartOver(r)
  BY <1>5, StartOverSound
<1>6. CASE FallBack(r)
  BY <1>6, FallBackSound
<1>7. CASE CacheHit(r) \/ CatalogueRead(r)
  BY <1>7, CatalogueSound
<1>8. CASE BeginArchive(r) \/ \E q \in Queries : Archive(r, q) \/ ArchiveFails(r, q)
  BY <1>8, ArchiveSound
<1> QED
  BY <1>1, <1>2, <1>3, <1>4, <1>5, <1>6, <1>7, <1>8 DEF RunStep, Moves, Walks

\* A step changes nothing of another run but whom it met.
LEMMA OneAtATime ==
    ASSUME TypeOK, NEW r \in Runs, RunStep(r)
    PROVE  /\ pc' = [pc EXCEPT ![r] = pc'[r]]
           /\ kind' = [kind EXCEPT ![r] = kind'[r]]
           /\ chain' = [chain EXCEPT ![r] = chain'[r]]
           /\ job' = [job EXCEPT ![r] = job'[r]]
           /\ source' = [source EXCEPT ![r] = source'[r]]
           /\ query' = [query EXCEPT ![r] = query'[r]]
           /\ ran' = [ran EXCEPT ![r] = ran'[r]]
           /\ again' = [again EXCEPT ![r] = again'[r]]
           /\ todo' = [todo EXCEPT ![r] = todo'[r]]
           /\ cleared' = [cleared EXCEPT ![r] = cleared'[r]]
           /\ spent' = [spent EXCEPT ![r] = spent'[r]]
<1> DEFINE Kept(v, w) == w = v \/ \E e : w = [v EXCEPT ![r] = e]
<1>1. /\ Kept(pc, pc') /\ Kept(kind, kind') /\ Kept(chain, chain')
      /\ Kept(job, job') /\ Kept(source, source') /\ Kept(query, query')
      /\ Kept(ran, ran') /\ Kept(again, again') /\ Kept(todo, todo')
      /\ Kept(cleared, cleared') /\ Kept(spent, spent')
  <2>1. CASE Ends(r)
    BY <2>1, EndsResets DEF Reset, Goto
  <2>2. CASE Moves(r)
    BY <2>2 DEF Moves, Begin, CacheHit, CacheMiss, Execute, FallBack,
                PatchNotFound, Resolved, Goto
  <2>3. CASE ReadSlot(r) \/ Patch(r) \/ DropSlot(r) \/ Create(r) \/ StoreSlot(r)
    BY <2>3 DEF ReadSlot, Patch, DropSlot, Create, StoreSlot, Goto
  <2>4. CASE StartOver(r) \/ CatalogueRead(r)
    BY <2>4 DEF StartOver, CatalogueRead, Resolved, Goto
  <2>5. CASE BeginArchive(r) \/ \E q \in Queries : Archive(r, q) \/ ArchiveFails(r, q)
    BY <2>5 DEF BeginArchive, Archive, ArchiveFails, Goto
  <2> QED
    BY <2>1, <2>2, <2>3, <2>4, <2>5 DEF RunStep
<1>2. \A v, w : v = [o \in Runs |-> v[o]] /\ Kept(v, w)
                  => w = [v EXCEPT ![r] = w[r]]
  <2> SUFFICES ASSUME NEW v, NEW w, v = [o \in Runs |-> v[o]], Kept(v, w)
               PROVE  w = [v EXCEPT ![r] = w[r]]
    OBVIOUS
  <2>1. CASE w = v
    BY <2>1
  <2>2. CASE \E e : w = [v EXCEPT ![r] = e]
    BY <2>2
  <2> QED
    BY <2>1, <2>2
<1>3. /\ pc = [o \in Runs |-> pc[o]] /\ kind = [o \in Runs |-> kind[o]]
      /\ chain = [o \in Runs |-> chain[o]] /\ job = [o \in Runs |-> job[o]]
      /\ source = [o \in Runs |-> source[o]] /\ query = [o \in Runs |-> query[o]]
      /\ ran = [o \in Runs |-> ran[o]] /\ again = [o \in Runs |-> again[o]]
      /\ todo = [o \in Runs |-> todo[o]] /\ cleared = [o \in Runs |-> cleared[o]]
      /\ spent = [o \in Runs |-> spent[o]]
  BY DEF TypeOK
<1> HIDE DEF Kept
<1> QED
  BY <1>1, <1>2, <1>3

LEMMA OthersKeep ==
    ASSUME TypeOK, NEW r \in Runs, RunStep(r), NEW o \in Runs \ {r}
    PROVE  /\ pc'[o] = pc[o] /\ kind'[o] = kind[o] /\ chain'[o] = chain[o]
           /\ job'[o] = job[o] /\ source'[o] = source[o]
           /\ query'[o] = query[o] /\ ran'[o] = ran[o]
           /\ again'[o] = again[o] /\ todo'[o] = todo[o]
           /\ spent'[o] = spent[o]
<1> HIDE DEF TypeOK, RunStep
<1> QED
  BY OneAtATime, Domains

\* Who met whom changes when a slot is read, when a run ends, and when the
\* archive handler begins.
LEMMA MetChanges ==
    ASSUME TypeOK, NEW r \in Runs, RunStep(r)
    PROVE  /\ \/ ReadSlot(r) /\ Meet(r, Purpose(r))
              \/ /\ ~ReadSlot(r)
                 /\ met' = met \/ met' = [met EXCEPT ![r] = FALSE]
                 /\ \/ lapped' = lapped
                    \/ /\ BeginArchive(r)
                       /\ lapped' = lapped \cup {p \in Purposes : Others(r, p) # {}}
<1>1. CASE Ends(r)
  <2>1. met' = [met EXCEPT ![r] = FALSE] /\ lapped' = lapped
    BY <1>1, EndsResets DEF Reset
  <2>2. pc'[r] = "idle"
    BY <1>1, EndsResets, Domains DEF Reset, Goto
  <2>3. ReadSlot(r) => pc'[r] # "idle"
    BY Domains DEF ReadSlot, Goto
  <2> QED
    BY <2>1, <2>2, <2>3
<1>2. CASE Moves(r)
  <2>1. UNCHANGED <<met, lapped>>
    BY <1>2 DEF Moves, Begin, CacheHit, CacheMiss, Execute, FallBack, PatchNotFound
  <2>2. ReadSlot(r) => Meet(r, Purpose(r))
    BY DEF ReadSlot
  <2> QED
    BY <2>1, <2>2
<1>3. CASE ReadSlot(r)
  BY <1>3 DEF ReadSlot
<1>4. CASE /\ ~ReadSlot(r)
           /\ \/ Patch(r) \/ DropSlot(r) \/ Create(r) \/ StoreSlot(r)
              \/ StartOver(r) \/ CatalogueRead(r)
  BY <1>4 DEF Patch, DropSlot, Create, StoreSlot, StartOver, CatalogueRead
<1>5. CASE /\ ~ReadSlot(r)
           /\ \/ BeginArchive(r)
              \/ \E q \in Queries : Archive(r, q) \/ ArchiveFails(r, q)
  BY <1>5 DEF BeginArchive, Archive, ArchiveFails
<1> QED
  BY <1>1, <1>2, <1>3, <1>4, <1>5 DEF RunStep

\* What is shared changes in few steps.
LEMMA SharedChanges ==
    ASSUME NEW r \in Runs, RunStep(r)
    PROVE  /\ slot' = slot \/ DropSlot(r) \/ StoreSlot(r) \/ ClearSlots(r)
           /\ \/ sql' = sql \/ Patch(r) \/ Create(r)
              \/ \E q \in Queries : Archive(r, q)
           /\ cached' = cached \/ StartOver(r) \/ CatalogueRead(r)
           /\ \/ requests' = requests
              \/ requests < MaxRequests /\ requests' = requests + 1
           /\ \/ mishaps' = mishaps
              \/ /\ Fail(r) \/ \E q \in Queries : ArchiveFails(r, q)
                 /\ mishaps < MaxMishaps /\ mishaps' = mishaps + 1
<1>1. slot' = slot \/ DropSlot(r) \/ StoreSlot(r) \/ ClearSlots(r)
  <2>1. CASE Ends(r)
    BY <2>1, EndsResets
  <2>2. CASE Moves(r)
    BY <2>2 DEF Moves, Begin, CacheHit, CacheMiss, Execute, FallBack, PatchNotFound
  <2> QED
    BY <2>1, <2>2 DEF RunStep, ReadSlot, Patch, Create, StartOver, CatalogueRead,
                      BeginArchive, Archive, ArchiveFails
<1>2. \/ sql' = sql \/ Patch(r) \/ Create(r)
      \/ \E q \in Queries : Archive(r, q)
  <2>1. CASE Ends(r)
    BY <2>1, EndsResets
  <2>2. CASE Moves(r)
    BY <2>2 DEF Moves, Begin, CacheHit, CacheMiss, Execute, FallBack, PatchNotFound
  <2> QED
    BY <2>1, <2>2 DEF RunStep, ReadSlot, DropSlot, StoreSlot, StartOver,
                      CatalogueRead, BeginArchive, ArchiveFails
<1>3. cached' = cached \/ StartOver(r) \/ CatalogueRead(r)
  <2>1. CASE Ends(r)
    BY <2>1, EndsResets
  <2>2. CASE Moves(r)
    BY <2>2 DEF Moves, Begin, CacheHit, CacheMiss, Execute, FallBack, PatchNotFound
  <2> QED
    BY <2>1, <2>2 DEF RunStep, ReadSlot, Patch, DropSlot, Create, StoreSlot,
                      BeginArchive, Archive, ArchiveFails
<1>4. \/ requests' = requests
      \/ requests < MaxRequests /\ requests' = requests + 1
  <2>1. CASE Ends(r)
    BY <2>1, EndsResets
  <2>2. CASE Moves(r)
    BY <2>2 DEF Moves, Begin, CacheHit, CacheMiss, Execute, FallBack,
                PatchNotFound, budgetVars
  <2> QED
    BY <2>1, <2>2 DEF RunStep, ReadSlot, Patch, DropSlot, Create, StoreSlot,
                      StartOver, CatalogueRead, BeginArchive, Archive,
                      ArchiveFails, budgetVars
<1>5. \/ mishaps' = mishaps
      \/ /\ Fail(r) \/ \E q \in Queries : ArchiveFails(r, q)
         /\ mishaps < MaxMishaps /\ mishaps' = mishaps + 1
  <2>1. CASE Ends(r)
    BY <2>1, EndsResets DEF Fail
  <2>2. CASE Moves(r)
    BY <2>2 DEF Moves, Begin, CacheHit, CacheMiss, Execute, FallBack,
                PatchNotFound, budgetVars
  <2>3. CASE \E q \in Queries : ArchiveFails(r, q)
    BY <2>3 DEF ArchiveFails
  <2> QED
    BY <2>1, <2>2, <2>3
    DEF RunStep, ReadSlot, Patch, DropSlot, Create, StoreSlot, StartOver,
        CatalogueRead, BeginArchive, Archive, budgetVars
<1> QED
  BY <1>1, <1>2, <1>3, <1>4, <1>5

\* A run at its slot.
LEMMA AtSlot ==
    ASSUME Typed, NEW r \in Runs, InZone(r)
    PROVE  /\ ~Free(r) /\ Purpose(r) \in Purposes
           /\ Wanted(r) \in Sql /\ Wanted(r) # None
           /\ IF pc[r] \in {"patching", "storing", "executing"}
                THEN query[r] \in Queries ELSE query[r] = None
BY WantedTyped DEF InZone, Free, Typed, Shape

LEMMA Zones ==
    ASSUME NEW r
    PROVE  /\ Patch(r) \/ PatchNotFound(r) \/ DropSlot(r) \/ Create(r)
                \/ StoreSlot(r) \/ Execute(r) => InZone(r)
           /\ Patch(r) \/ PatchNotFound(r) => pc[r] = "patching"
           /\ DropSlot(r) => pc[r] = "dropping"
           /\ Create(r) => pc[r] = "creating"
           /\ StoreSlot(r) => pc[r] = "storing"
           /\ ClearSlots(r) => pc[r] = "archiving"
BY DEF Patch, PatchNotFound, DropSlot, Create, StoreSlot, Execute, ClearSlots,
       InZone

\* What a step makes of the saved queries.
LEMMA SqlChanges ==
    ASSUME Typed, NEW r \in Runs, RunStep(r)
    PROVE  /\ sql' \in [Queries -> Sql \cup {None}]
           /\ \/ sql' = sql
              \/ /\ Patch(r) /\ query[r] \in Live
                 /\ sql' = [sql EXCEPT ![query[r]] = Wanted(r)]
              \/ /\ Create(r) /\ query'[r] \in Unused /\ query'[r] \in Queries
                 /\ Cardinality(Live) < Cap
                 /\ sql' = [sql EXCEPT ![query'[r]] = Wanted(r)]
              \/ \E q \in Queries : Archive(r, q) /\ sql' = [sql EXCEPT ![q] = None]
<1>1. sql \in [Queries -> Sql \cup {None}] /\ Unused \subseteq Queries
  BY DEF Typed, TypeOK, Unused
<1>2. CASE sql' = sql
  BY <1>1, <1>2
<1>3. CASE Patch(r)
  <2>1. query[r] \in Live /\ sql' = [sql EXCEPT ![query[r]] = Wanted(r)]
    BY <1>3 DEF Patch, Patched
  <2>2. Wanted(r) \in Sql
    BY <1>3, AtSlot, Zones
  <2> QED
    BY <1>1, <1>3, <2>1, <2>2
<1>4. CASE Create(r)
  <2>1. /\ query'[r] \in Unused
        /\ sql' = [sql EXCEPT ![query'[r]] = Wanted(r)]
    BY <1>4, WalkGoes, Zones DEF Typed, Walks
  <2>2. Wanted(r) \in Sql /\ Cardinality(Live) < Cap
    BY <1>4, AtSlot, Zones DEF Create
  <2> QED
    BY <1>1, <1>4, <2>1, <2>2
<1>5. CASE \E q \in Queries : Archive(r, q)
  <2>1. PICK q \in Queries : Archive(r, q)
    BY <1>5
  <2>2. sql' = [sql EXCEPT ![q] = None]
    BY <2>1 DEF Archive
  <2> QED
    BY <1>1, <2>1, <2>2
<1> QED
  BY <1>2, <1>3, <1>4, <1>5, SharedChanges

LEMMA LiveFinite ==
    ASSUME TypeOK
    PROVE  /\ IsFiniteSet(Live) /\ Cardinality(Live) \in Nat
           /\ Cardinality(Live) <= Cap
<1>1. Live \subseteq Queries
  BY DEF Live
<1>2. Cardinality(Live) <= Cap
  BY DEF TypeOK, Live
<1> QED
  BY <1>1, <1>2, QueriesAssumption, FS_Subset, FS_CardinalityType

\* A set that gains at most one element grows by at most one.
LEMMA GainsOne ==
    ASSUME NEW S, NEW T, NEW x, IsFiniteSet(S), T \subseteq S \cup {x}
    PROVE  /\ IsFiniteSet(T) /\ Cardinality(T) \in Nat
           /\ Cardinality(S) \in Nat
           /\ Cardinality(T) <= Cardinality(S) + 1
<1>1. /\ IsFiniteSet(S \cup {x}) /\ Cardinality(S) \in Nat
      /\ Cardinality(S \cup {x}) \in {Cardinality(S), Cardinality(S) + 1}
  BY FS_AddElement, FS_CardinalityType
<1>2. /\ IsFiniteSet(T) /\ Cardinality(T) <= Cardinality(S \cup {x})
  BY <1>1, FS_Subset
<1>3. Cardinality(T) \in Nat
  BY <1>2, FS_CardinalityType
<1> QED
  BY <1>1, <1>2, <1>3

LEMMA WithinCap ==
    ASSUME Typed, NEW r \in Runs, RunStep(r)
    PROVE  Cardinality(Live') <= Cap
<1>1. /\ IsFiniteSet(Live) /\ Cardinality(Live) \in Nat
      /\ Cardinality(Live) <= Cap /\ Cap \in Nat
      /\ sql \in [Queries -> Sql \cup {None}]
  BY LiveFinite, CapAssumption DEF Typed, TypeOK
<1>2. CASE Live' \subseteq Live
  <2>1. /\ IsFiniteSet(Live') /\ Cardinality(Live') <= Cardinality(Live)
    BY <1>1, <1>2, FS_Subset
  <2>2. Cardinality(Live') \in Nat
    BY <2>1, FS_CardinalityType
  <2> QED
    BY <1>1, <2>1, <2>2
<1>3. CASE Create(r)
  <2>1. PICK q \in Queries : /\ Cardinality(Live) < Cap
                             /\ sql' = [sql EXCEPT ![q] = Wanted(r)]
    BY <1>3, SqlChanges, Zones, WalkGoes DEF Typed, Walks, Unused, Create
  <2>2. Live' \subseteq Live \cup {q}
    BY <1>1, <2>1 DEF Live
  <2>3. /\ Cardinality(Live') \in Nat
        /\ Cardinality(Live') <= Cardinality(Live) + 1
    BY <1>1, <2>2, GainsOne
  <2> QED
    BY <1>1, <2>1, <2>3
<1>4. CASE ~Create(r)
  <2>1. Live' \subseteq Live
    <3>1. CASE sql' = sql
      BY <3>1 DEF Live
    <3>2. CASE query[r] \in Live /\ sql' = [sql EXCEPT ![query[r]] = Wanted(r)]
      BY <1>1, <3>2 DEF Live
    <3>3. CASE \E q \in Queries : sql' = [sql EXCEPT ![q] = None]
      BY <1>1, <3>3 DEF Live
    <3> QED
      BY <1>4, <3>1, <3>2, <3>3, SqlChanges
  <2> QED
    BY <1>2, <2>1
<1> QED
  BY <1>3, <1>4

\* What a step makes of the slots.
LEMMA SlotChanges ==
    ASSUME Typed, NEW r \in Runs, RunStep(r)
    PROVE  /\ slot' \in [Purposes -> Queries \cup {None}]
           /\ \/ slot' = slot
              \/ DropSlot(r) /\ slot' = [slot EXCEPT ![Purpose(r)] = None]
              \/ StoreSlot(r) /\ slot' = [slot EXCEPT ![Purpose(r)] = query[r]]
              \/ ClearSlots(r) /\ slot' = [p \in Purposes |-> None]
<1>1. slot \in [Purposes -> Queries \cup {None}]
  BY DEF Typed, TypeOK
<1>2. CASE DropSlot(r)
  BY <1>1, <1>2 DEF DropSlot
<1>3. CASE StoreSlot(r)
  <2>1. query[r] \in Queries
    BY <1>3, AtSlot, Zones
  <2>2. slot' = [slot EXCEPT ![Purpose(r)] = query[r]]
    BY <1>3 DEF StoreSlot, Stored
  <2> QED
    BY <1>1, <1>3, <2>1, <2>2
<1>4. CASE ClearSlots(r)
  BY <1>1, <1>4 DEF ClearSlots
<1> QED
  BY <1>1, <1>2, <1>3, <1>4, SharedChanges

LEMMA CacheTyped ==
    ASSUME Typed, AllPaid, NEW r \in Runs, RunStep(r)
    PROVE  cached' \in [Catalogues \X Chains -> Chains \cup {None}]
<1>1. cached \in [Catalogues \X Chains -> Chains \cup {None}]
  BY DEF Typed, TypeOK
<1>2. CASE StartOver(r)
  BY <1>1, <1>2 DEF StartOver
<1>3. CASE CatalogueRead(r)
  <2>1. Table(r) \in Chains
    BY <1>3, CatalogueSound DEF AllPaid
  <2> QED
    BY <1>1, <1>3, <2>1 DEF CatalogueRead
<1> QED
  BY <1>1, <1>2, <1>3, SharedChanges

LEMMA MetTyped ==
    ASSUME Typed, NEW r \in Runs, RunStep(r)
    PROVE  /\ met' \in [Runs -> BOOLEAN] /\ lapped' \subseteq Purposes
           /\ lapped \subseteq lapped'
<1>1. met \in [Runs -> BOOLEAN] /\ lapped \subseteq Purposes
  BY DEF Typed, TypeOK
<1>2. CASE ReadSlot(r)
  <2>1. Purpose(r) \in Purposes
    BY <1>2, WantedTyped DEF ReadSlot, Free
  <2>2. Meet(r, Purpose(r))
    BY <1>2 DEF ReadSlot
  <2>3. \A o \in Runs :
           (IF o = r THEN Others(r, Purpose(r)) # {}
            ELSE met[o] \/ o \in Others(r, Purpose(r))) \in BOOLEAN
    BY <1>1
  <2>4. met' \in [Runs -> BOOLEAN]
    BY <2>2, <2>3 DEF Meet
  <2>5. lapped' = lapped \/ lapped' = lapped \cup {Purpose(r)}
    BY <2>2 DEF Meet
  <2> QED
    BY <1>1, <2>1, <2>4, <2>5
<1>3. CASE ~ReadSlot(r)
  <2>1. /\ met' = met \/ met' = [met EXCEPT ![r] = FALSE]
        /\ \/ lapped' = lapped
           \/ lapped' = lapped \cup {p \in Purposes : Others(r, p) # {}}
    BY <1>3, MetChanges DEF Typed
  <2> QED
    BY <1>1, <2>1
<1> QED
  BY <1>2, <1>3

LEMMA BudgetTyped ==
    ASSUME Typed, NEW r \in Runs, RunStep(r)
    PROVE  requests' \in 0 .. MaxRequests /\ mishaps' \in 0 .. MaxMishaps
<1>1. requests \in 0 .. MaxRequests /\ mishaps \in 0 .. MaxMishaps
  BY DEF Typed, TypeOK
<1>2. MaxRequests \in Nat /\ MaxMishaps \in Nat
  BY CapAssumption
<1> QED
  BY <1>1, <1>2, SharedChanges

LEMMA StepTyped ==
    ASSUME Typed, AllPaid, NEW r \in Runs, RunStep(r)
    PROVE  Typed' /\ AllPaid'
<1>1. TypeOK /\ Sound(r)'
  BY OwnSound DEF Typed, AllPaid
<1>2. \A o \in Runs : o # r => Sound(o)'
  <2> SUFFICES ASSUME NEW o \in Runs, o # r PROVE Sound(o)'
    OBVIOUS
  <2>1. Entry(o) /\ Shape(o) /\ Paid(o)
    BY <1>1, Domains DEF Typed, AllPaid
  <2>2. /\ pc'[o] = pc[o] /\ kind'[o] = kind[o] /\ chain'[o] = chain[o]
        /\ job'[o] = job[o] /\ source'[o] = source[o]
        /\ query'[o] = query[o] /\ ran'[o] = ran[o]
        /\ again'[o] = again[o] /\ todo'[o] = todo[o]
        /\ spent'[o] = spent[o]
    BY <1>1, OthersKeep
  <2>3. cleared'[o] \in BOOLEAN
    BY <1>1, <2>1, OneAtATime, Domains DEF Entry
  <2>4. Entry(o)'
    BY <2>1, <2>2, <2>3 DEF Entry
  <2>5. Shape(o)'
    BY <2>1, <2>2 DEF Shape, Free
  <2>6. Paid(o)'
    BY <2>1, <2>2 DEF Paid, Free, Ceiling
  <2> QED
    BY <2>4, <2>5, <2>6 DEF Sound
<1>3. \A o \in Runs : Sound(o)'
  BY <1>1, <1>2
<1>4. \A o \in Runs : Entry(o)' /\ Shape(o)' /\ Paid(o)'
  BY <1>3 DEF Sound
<1>5. /\ pc' = [o \in Runs |-> pc'[o]] /\ kind' = [o \in Runs |-> kind'[o]]
      /\ chain' = [o \in Runs |-> chain'[o]] /\ job' = [o \in Runs |-> job'[o]]
      /\ source' = [o \in Runs |-> source'[o]]
      /\ query' = [o \in Runs |-> query'[o]]
      /\ ran' = [o \in Runs |-> ran'[o]] /\ again' = [o \in Runs |-> again'[o]]
      /\ todo' = [o \in Runs |-> todo'[o]]
      /\ cleared' = [o \in Runs |-> cleared'[o]]
      /\ spent' = [o \in Runs |-> spent'[o]]
  <2> HIDE DEF Typed, RunStep
  <2> QED
    BY <1>1, OneAtATime, Domains
<1>6. /\ pc' \in [Runs -> Places]
      /\ kind' \in [Runs -> Kinds \cup {None}]
      /\ chain' \in [Runs -> Chains \cup {None}]
      /\ job' \in [Runs -> Catalogues \cup {"own", None}]
      /\ source' \in [Runs -> Chains \cup {None}]
      /\ query' \in [Runs -> Queries \cup {None}]
  BY <1>4, <1>5 DEF Entry
<1>7. /\ ran' \in [Runs -> Sql \cup {None}]
      /\ again' \in [Runs -> BOOLEAN]
      /\ todo' \in [Runs -> SUBSET Queries]
      /\ cleared' \in [Runs -> BOOLEAN]
      /\ spent' \in [Runs -> Nat]
  BY <1>4, <1>5 DEF Entry
<1>8. \A o \in Runs : pc'[o] = "reusing" /\ job'[o] = "own"
                        /\ ReadsBalances(kind'[o]) => source'[o] # None
  BY <1>4 DEF Shape
<1>9. Cardinality({q \in Queries : sql'[q] # None}) <= Cap
  BY WithinCap DEF Live
<1>10. TypeOK'
  BY <1>6, <1>7, <1>8, <1>9, SlotChanges, SqlChanges, CacheTyped, MetTyped,
     BudgetTyped DEF TypeOK, Places
<1> QED
  BY <1>4, <1>10 DEF Typed, AllPaid

\* What happens around the runs touches none of them.
LEMMA EnvironmentChanges ==
    ASSUME TypeOK, Environment
    PROVE  /\ UNCHANGED <<runVars, met, lapped, requests, spent>>
           /\ mishaps < MaxMishaps /\ mishaps' = mishaps + 1
           /\ \/ /\ slot' = [slot EXCEPT !["positions"] = None]
                 /\ UNCHANGED <<sql, cached>>
              \/ /\ \E k \in Catalogues \X Chains :
                       cached' = [cached EXCEPT ![k] = None]
                 /\ UNCHANGED <<slot, sql>>
              \/ /\ \E q \in Queries : sql' = [sql EXCEPT ![q] = None]
                 /\ UNCHANGED <<slot, cached>>
BY DEF Environment, DeleteWatchlist, Expire, Vanish

LEMMA EnvironmentTyped ==
    ASSUME Typed, AllPaid, Environment
    PROVE  Typed' /\ AllPaid'
<1>1. /\ TypeOK /\ UNCHANGED <<runVars, met, lapped, requests, spent>>
      /\ mishaps < MaxMishaps /\ mishaps' = mishaps + 1
  BY EnvironmentChanges DEF Typed
<1>2. mishaps' \in 0 .. MaxMishaps
  <2>1. MaxMishaps \in Nat /\ mishaps \in 0 .. MaxMishaps
    BY CapAssumption DEF Typed, TypeOK
  <2> QED
    BY <1>1, <2>1
<1>3. /\ slot' \in [Purposes -> Queries \cup {None}]
      /\ cached' \in [Catalogues \X Chains -> Chains \cup {None}]
      /\ sql' \in [Queries -> Sql \cup {None}]
      /\ Live' \subseteq Live
  BY <1>1, EnvironmentChanges DEF TypeOK, Live
<1>4. Cardinality({q \in Queries : sql'[q] # None}) <= Cap
  <2>1. Cardinality(Live') <= Cardinality(Live) /\ IsFiniteSet(Live')
    BY <1>1, <1>3, LiveFinite, FS_Subset
  <2>2. Cardinality(Live') \in Nat
    BY <2>1, FS_CardinalityType
  <2>3. Cardinality(Live') <= Cap
    BY <1>1, <2>1, <2>2, LiveFinite, CapAssumption
  <2> QED
    BY <2>3 DEF Live
<1>5. TypeOK'
  BY <1>1, <1>2, <1>3, <1>4 DEF TypeOK, runVars
<1> QED
  BY <1>1, <1>5 DEF Typed, AllPaid, Shape, Paid, Free, Ceiling, runVars

LEMMA TypedNext ==
    ASSUME Typed, AllPaid, [Next]_vars
    PROVE  Typed' /\ AllPaid'
<1>1. CASE \E r \in Runs : RunStep(r)
  BY <1>1, StepTyped
<1>2. CASE Environment
  BY <1>2, EnvironmentTyped
<1>3. CASE UNCHANGED vars
  <2>1. UNCHANGED <<slot, sql, cached, runVars, met, lapped, spent, requests,
                    mishaps>>
    BY <1>3 DEF vars, budgetVars
  <2>2. TypeOK'
    BY <2>1 DEF Typed, TypeOK, runVars
  <2> QED
    BY <2>1, <2>2 DEF Typed, AllPaid, Shape, Paid, Free, Ceiling, runVars
<1> QED
  BY <1>1, <1>2, <1>3, NextSteps

LEMMA TypedInit == Init => Typed /\ AllPaid
<1> SUFFICES ASSUME Init PROVE Typed /\ AllPaid
  OBVIOUS
<1>1. \A r \in Runs : /\ pc[r] = "idle" /\ kind[r] = None /\ job[r] = None
                      /\ query[r] = None /\ spent[r] = 0 /\ ~again[r]
  BY DEF Init
<1>2. \A r \in Runs : Shape(r)
  BY <1>1, NoneAssumption DEF Shape, Free, ReadsBalances, Catalogues
<1>3. AllPaid
  BY <1>1 DEF AllPaid, Paid, Free
<1>4. Cardinality({q \in Queries : sql[q] # None}) <= Cap
  <2>1. {q \in Queries : sql[q] # None} = {}
    BY DEF Init
  <2> QED
    BY <2>1, FS_EmptySet, CapAssumption
<1>5. /\ 0 \in 0 .. MaxRequests /\ 0 \in 0 .. MaxMishaps
  BY CapAssumption
<1>6. TypeOK
  <2>1. /\ slot \in [Purposes -> Queries \cup {None}]
        /\ sql \in [Queries -> Sql \cup {None}]
        /\ cached \in [Catalogues \X Chains -> Chains \cup {None}]
        /\ requests \in 0 .. MaxRequests /\ mishaps \in 0 .. MaxMishaps
        /\ lapped \subseteq Purposes
    BY <1>5 DEF Init
  <2>2. /\ pc \in [Runs -> Places] /\ kind \in [Runs -> Kinds \cup {None}]
        /\ chain \in [Runs -> Chains \cup {None}]
        /\ job \in [Runs -> Catalogues \cup {"own", None}]
        /\ source \in [Runs -> Chains \cup {None}]
        /\ query \in [Runs -> Queries \cup {None}]
    BY DEF Init, Places
  <2>3. /\ ran \in [Runs -> Sql \cup {None}] /\ again \in [Runs -> BOOLEAN]
        /\ todo \in [Runs -> SUBSET Queries] /\ cleared \in [Runs -> BOOLEAN]
        /\ met \in [Runs -> BOOLEAN] /\ spent \in [Runs -> Nat]
    BY DEF Init
  <2> QED
    BY <1>1, <1>4, <2>1, <2>2, <2>3 DEF TypeOK, Places
<1> QED
  BY <1>2, <1>3, <1>6 DEF Typed

\* Every variable keeps its type, the account never owns more queries than its
\* plan allows, and a query over balances is built from a resolved table.
THEOREM TypeCorrect == Spec => []TypeOK
<1>1. Typed => TypeOK
  BY DEF Typed
<1> QED
  BY <1>1, TypedInit, TypedNext, PTL DEF Spec

\* However often tables are rebuilt under a request, it pays for at most seven
\* executions.
THEOREM CostBounded == Spec => []CostIsBounded
<1>1. Typed /\ AllPaid => CostIsBounded
  <2> SUFFICES ASSUME Typed, AllPaid, NEW r \in Runs
               PROVE  spent[r] <= 7
    BY DEF CostIsBounded
  <2>1. Paid(r) /\ spent[r] \in Nat
    BY DEF Typed, TypeOK, AllPaid
  <2> QED
    BY <2>1 DEF Paid, Ceiling
<1> QED
  BY <1>1, TypedInit, TypedNext, PTL DEF Spec

-----------------------------------------------------------------------------
(* A saved query serves one purpose. *)

LEMMA OthersUse ==
    ASSUME TypeOK, NEW r \in Runs, RunStep(r), NEW o \in Runs \ {r}
    PROVE  /\ Purpose(o)' = Purpose(o) /\ Wanted(o)' = Wanted(o)
           /\ InZone(o)' <=> InZone(o)
           /\ \A p : Using(o, p)' <=> Using(o, p)
<1>1. /\ pc'[o] = pc[o] /\ kind'[o] = kind[o] /\ chain'[o] = chain[o]
      /\ job'[o] = job[o]
  BY OthersKeep
<1> QED
  BY <1>1 DEF Purpose, Wanted, InZone, Using

\* Where a step of a run that ends outside the zone leaves it.
LEMMA LeavesZone ==
    ASSUME Typed, AllPaid, NEW r \in Runs, RunStep(r), ~Walks(r)
    PROVE  /\ ~InZone(r)'
           /\ pc'[r] = "waiting" => Execute(r)
           /\ pc'[r] = "archiving" => \/ BeginArchive(r) /\ pc[r] = "idle"
                                      \/ pc[r] = "archiving"
<1>1. DOMAIN pc = Runs /\ DOMAIN ran = Runs
  BY Domains DEF Typed
<1>2. CASE Ends(r)
  BY <1>1, <1>2, EndsResets DEF Reset, Goto, InZone
<1>3. CASE Moves(r) /\ ~Execute(r)
  BY <1>1, <1>3 DEF Moves, Begin, CacheHit, FallBack, Resolved, Goto, InZone,
                    Walks
<1>4. CASE Execute(r)
  BY <1>1, <1>4 DEF Execute, Goto, InZone
<1>5. CASE StartOver(r) \/ CatalogueRead(r)
  BY <1>1, <1>5 DEF StartOver, CatalogueRead, Resolved, Goto, InZone
<1>6. CASE BeginArchive(r) \/ \E q \in Queries : Archive(r, q) \/ ArchiveFails(r, q)
  BY <1>1, <1>6 DEF BeginArchive, Archive, ArchiveFails, Goto, InZone
<1> QED
  BY <1>2, <1>3, <1>4, <1>5, <1>6 DEF RunStep, Walks

\* What a run on the way to its execution keeps.
LEMMA WalkKeeps ==
    ASSUME Typed, NEW r \in Runs, Walks(r)
    PROVE  /\ Purpose(r)' = Purpose(r) /\ Wanted(r)' = Wanted(r)
           /\ ~Free(r) /\ Purpose(r) \in Purposes
           /\ InZone(r)' => ReadSlot(r) \/ InZone(r)
           /\ pc'[r] # "waiting" /\ pc'[r] # "archiving"
<1>1. /\ UNCHANGED <<kind, chain, job>>
      /\ ~Free(r)
      /\ pc'[r] # "waiting" /\ pc'[r] # "archiving"
      /\ InZone(r)' => ReadSlot(r) \/ InZone(r)
  BY WalkGoes DEF Typed, Free, InZone
<1>2. Purpose(r) \in Purposes
  BY <1>1, WantedTyped
<1> QED
  BY <1>1, <1>2 DEF Purpose, Wanted

\* Only a run at its slot holds a query.
LEMMA HoldsInZone ==
    ASSUME Typed, AllPaid, NEW r \in Runs, RunStep(r), query'[r] # None
    PROVE  /\ Walks(r) /\ query'[r] \in Queries
           /\ pc'[r] \in {"patching", "storing", "executing"}
           /\ \/ ReadSlot(r) /\ query'[r] = slot[Purpose(r)] /\ slot' = slot
              \/ Create(r) /\ query'[r] \in Unused /\ slot' = slot
              \/ Patch(r) /\ query' = query /\ slot' = slot
              \/ /\ StoreSlot(r) /\ query' = query
                 /\ slot' = [slot EXCEPT ![Purpose(r)] = query[r]]
<1>1. Shape(r)' /\ Shape(r)
  BY OwnSound DEF Sound, AllPaid, Typed
<1>2. /\ pc'[r] \in {"patching", "storing", "executing"}
      /\ query'[r] \in Queries
  BY <1>1 DEF Shape
<1>3. Walks(r)
  BY <1>2, LeavesZone DEF InZone
<1>4. \/ ReadSlot(r) /\ query'[r] = slot[Purpose(r)]
      \/ Create(r) /\ query'[r] \in Unused
      \/ Patch(r) \/ StoreSlot(r)
  BY <1>2, <1>3, WalkGoes DEF Typed
<1>5. /\ ReadSlot(r) \/ Create(r) \/ Patch(r) => slot' = slot
      /\ Patch(r) \/ StoreSlot(r) => query' = query
      /\ StoreSlot(r) => slot' = [slot EXCEPT ![Purpose(r)] = query[r]]
  BY DEF ReadSlot, Create, Patch, StoreSlot, Stored
<1> QED
  BY <1>2, <1>3, <1>4, <1>5

LEMMA OnePurposeStep ==
    ASSUME Typed, AllPaid, OnePurpose, NEW r \in Runs, RunStep(r)
    PROVE  OnePurpose'
<1>1. TypeOK /\ slot \in [Purposes -> Queries \cup {None}]
  BY DEF Typed, TypeOK
<1>2. ASSUME StoreSlot(r)
      PROVE  /\ query[r] \in Queries /\ query[r] # None
             /\ Purpose(r) \in Purposes
  BY <1>2, AtSlot, Zones, NoneAssumption
<1>3. ASSUME NEW p \in Purposes, slot'[p] # None
      PROVE  \/ slot'[p] = slot[p]
             \/ StoreSlot(r) /\ p = Purpose(r) /\ slot'[p] = query[r]
  BY <1>1, <1>3, SlotChanges
<1>4. ASSUME NEW p \in Purposes, NEW o \in Purposes,
             slot'[p] = slot'[o], slot'[p] # None
      PROVE  p = o
  BY <1>2, <1>3, <1>4 DEF OnePurpose
<1>5. ASSUME NEW s \in Runs, NEW p \in Purposes,
             query'[s] # None, slot'[p] = query'[s]
      PROVE  Purpose(s)' = p
  <2>1. CASE s # r
    <3>1. query'[s] = query[s] /\ Purpose(s)' = Purpose(s)
      BY <1>1, <2>1, OthersKeep, OthersUse
    <3> QED
      BY <1>2, <1>3, <1>5, <3>1 DEF OnePurpose
  <2>2. CASE s = r
    <3>1. Purpose(r)' = Purpose(r) /\ Purpose(r) \in Purposes
      BY <1>5, <2>2, HoldsInZone, WalkKeeps
    <3>2. \/ ReadSlot(r) /\ query'[r] = slot[Purpose(r)] /\ slot' = slot
          \/ Create(r) /\ query'[r] \in Unused /\ slot' = slot
          \/ Patch(r) /\ query' = query /\ slot' = slot
          \/ /\ StoreSlot(r) /\ query' = query
             /\ slot' = [slot EXCEPT ![Purpose(r)] = query[r]]
      BY <1>5, <2>2, HoldsInZone
    <3> QED
      BY <1>1, <1>5, <2>2, <3>1, <3>2 DEF OnePurpose, Unused
  <2> QED
    BY <2>1, <2>2
<1>6. ASSUME NEW o \in Runs \ {r}, query'[r] # None, query'[o] = query'[r]
      PROVE  Purpose(r)' = Purpose(o)'
  <2>1. query'[o] = query[o] /\ Purpose(o)' = Purpose(o)
    BY <1>1, OthersKeep, OthersUse
  <2>2. Purpose(r)' = Purpose(r) /\ Purpose(r) \in Purposes
    BY <1>6, HoldsInZone, WalkKeeps
  <2>3. \/ query'[r] = slot[Purpose(r)]
        \/ query'[r] \in Unused
        \/ query' = query
    BY <1>6, HoldsInZone
  <2> QED
    BY <1>1, <1>6, <2>1, <2>2, <2>3 DEF OnePurpose, Unused
<1>7. ASSUME NEW s \in Runs, NEW o \in Runs,
             query'[s] # None, query'[o] = query'[s]
      PROVE  Purpose(s)' = Purpose(o)'
  <2>1. CASE s = r \/ o = r
    BY <1>6, <1>7, <2>1
  <2>2. CASE s # r /\ o # r
    <3>1. /\ query'[s] = query[s] /\ Purpose(s)' = Purpose(s)
          /\ query'[o] = query[o] /\ Purpose(o)' = Purpose(o)
      BY <1>1, <2>2, OthersKeep, OthersUse
    <3> QED
      BY <1>7, <3>1 DEF OnePurpose
  <2> QED
    BY <2>1, <2>2
<1> QED
  BY <1>4, <1>5, <1>7 DEF OnePurpose

-----------------------------------------------------------------------------
(* Overlaps are noted. *)

LEMMA ExecuteKeeps ==
    ASSUME TypeOK, NEW r \in Runs, Execute(r)
    PROVE  /\ InZone(r) /\ UNCHANGED <<met, lapped, slot, sql, cached>>
           /\ Purpose(r)' = Purpose(r) /\ Wanted(r)' = Wanted(r)
BY DEF Execute, InZone, Purpose, Wanted

\* Reading a slot tells the run, and those it meets there.
LEMMA ReadSlotMeets ==
    ASSUME Typed, NEW r \in Runs, ReadSlot(r)
    PROVE  /\ Purpose(r) \in Purposes /\ Purpose(r)' = Purpose(r)
           /\ Others(r, Purpose(r)) # {} => met'[r] /\ Purpose(r) \in lapped'
           /\ met'[r] => Others(r, Purpose(r)) # {}
           /\ \A o \in Runs \ {r} :
                 /\ met[o] => met'[o]
                 /\ Using(o, Purpose(r)) => met'[o] /\ Purpose(r) \in lapped'
                 /\ met'[o] => met[o] \/ Using(o, Purpose(r))
<1>1. Purpose(r) \in Purposes /\ Purpose(r)' = Purpose(r)
  BY WalkKeeps DEF Walks
<1>2. Meet(r, Purpose(r)) /\ met \in [Runs -> BOOLEAN]
  BY DEF ReadSlot, Typed, TypeOK
<1>3. \A o \in Runs \ {r} :
         o \in Others(r, Purpose(r)) <=> Using(o, Purpose(r))
  BY DEF Others
<1>4. Others(r, Purpose(r)) # {} => Purpose(r) \in lapped'
  BY <1>2 DEF Meet
<1>5. \A o \in Runs : met'[o] <=> IF o = r THEN Others(r, Purpose(r)) # {}
                                  ELSE met[o] \/ o \in Others(r, Purpose(r))
  BY <1>2 DEF Meet
<1> HIDE DEF Typed, ReadSlot
<1> QED
  BY <1>1, <1>3, <1>4, <1>5

LEMMA OverlapsStep ==
    ASSUME Typed, AllPaid, OverlapsNoted, NEW r \in Runs, RunStep(r)
    PROVE  OverlapsNoted'
<1>1. /\ TypeOK /\ met \in [Runs -> BOOLEAN] /\ lapped \subseteq lapped'
  BY MetTyped DEF Typed, TypeOK
<1>2. ASSUME InZone(r)', ~ReadSlot(r)
      PROVE  /\ InZone(r) /\ UNCHANGED <<met, lapped>>
             /\ Purpose(r)' = Purpose(r)
  <2>1. Walks(r)
    BY <1>2, LeavesZone
  <2> QED
    BY <1>1, <1>2, <2>1, WalkGoes, WalkKeeps
<1>3. ASSUME NEW o \in Runs \ {r}
      PROVE  /\ Purpose(o)' = Purpose(o) /\ (InZone(o)' <=> InZone(o))
             /\ met[o] => met'[o]
             /\ met'[o] => \/ met[o]
                           \/ ReadSlot(r) /\ Using(o, Purpose(r))
             /\ \A p : Using(o, p)' <=> Using(o, p)
             /\ pc'[o] = pc[o]
  <2>1. (met[o] => met'[o])
        /\ (met'[o] => met[o] \/ (ReadSlot(r) /\ Using(o, Purpose(r))))
    <3>1. CASE ReadSlot(r)
      BY <3>1, ReadSlotMeets
    <3>2. CASE ~ReadSlot(r)
      <4>1. met' = met \/ met' = [met EXCEPT ![r] = FALSE]
        BY <1>1, <3>2, MetChanges
      <4> QED
        BY <1>1, <4>1
    <3> QED
      BY <3>1, <3>2
  <2> QED
    BY <1>1, <2>1, OthersUse, OthersKeep
<1>4. ASSUME NEW s \in Runs, NEW o \in Runs, s # o,
             InZone(s)', InZone(o)', Purpose(s)' = Purpose(o)'
      PROVE  met'[s]
  <2>1. CASE ReadSlot(r)
    <3>1. \A x \in Runs \ {r} :
             InZone(x) /\ Purpose(x) = Purpose(r) => Using(x, Purpose(r))
      BY DEF InZone, Using
    <3>2. Purpose(r)' = Purpose(r)
      BY <2>1, ReadSlotMeets
    <3>3. CASE s = r
      <4>1. o \in Others(r, Purpose(r))
        BY <1>3, <1>4, <3>1, <3>2, <3>3 DEF Others
      <4> QED
        BY <2>1, <3>3, <4>1, ReadSlotMeets
    <3>4. CASE s # r /\ o = r
      <4>1. Using(s, Purpose(r))
        BY <1>3, <1>4, <3>1, <3>2, <3>4
      <4> QED
        BY <2>1, <3>4, <4>1, ReadSlotMeets
    <3>5. CASE s # r /\ o # r
      BY <1>3, <1>4, <3>5 DEF OverlapsNoted
    <3> QED
      BY <3>3, <3>4, <3>5
  <2>2. CASE ~ReadSlot(r)
    <3>1. \A x \in Runs : InZone(x)' => InZone(x) /\ Purpose(x)' = Purpose(x)
      BY <1>2, <1>3, <2>2
    <3>2. met[s]
      BY <1>4, <3>1 DEF OverlapsNoted
    <3> QED
      BY <1>2, <1>3, <1>4, <2>2, <3>2
  <2> QED
    BY <2>1, <2>2
<1>5. ASSUME NEW o \in Runs \ {r}, NEW p \in Purposes,
             Using(r, p)', Using(o, p)'
      PROVE  p \in lapped'
  <2>1. Using(o, p)
    BY <1>3, <1>5
  <2>2. CASE Using(r, p)
    BY <1>1, <2>1, <2>2 DEF OverlapsNoted
  <2>3. CASE ~Using(r, p) /\ pc'[r] = "archiving"
    <3>1. ~Walks(r)
      BY <2>3, WalkKeeps
    <3>2. BeginArchive(r)
      BY <2>3, <3>1, LeavesZone DEF Using
    <3>3. o \in Others(r, p)
      BY <2>1 DEF Others
    <3> QED
      BY <3>2, <3>3 DEF BeginArchive
  <2>4. CASE ~Using(r, p) /\ pc'[r] # "archiving"
    <3>1. InZone(r)' /\ Purpose(r)' = p
      BY <1>5, <2>4 DEF Using, InZone
    <3>2. ReadSlot(r)
      BY <1>2, <2>4, <3>1 DEF Using, InZone
    <3>3. p = Purpose(r)
      BY <3>1, <3>2, ReadSlotMeets
    <3> QED
      BY <2>1, <3>2, <3>3, ReadSlotMeets
  <2> QED
    BY <2>2, <2>3, <2>4
<1>6. ASSUME NEW s \in Runs, NEW o \in Runs, NEW p \in Purposes, s # o,
             Using(s, p)', Using(o, p)'
      PROVE  p \in lapped'
  <2>1. CASE s = r \/ o = r
    BY <1>5, <1>6, <2>1
  <2>2. CASE s # r /\ o # r
    <3>1. Using(s, p) /\ Using(o, p)
      BY <1>3, <1>6, <2>2
    <3> QED
      BY <1>1, <1>6, <3>1 DEF OverlapsNoted
  <2> QED
    BY <2>1, <2>2
<1>7. ASSUME NEW s \in Runs, met'[s], InZone(s)' \/ pc'[s] = "waiting"
      PROVE  Purpose(s)' \in lapped'
  <2>1. CASE s # r
    <3>1. /\ Purpose(s)' = Purpose(s)
          /\ InZone(s) \/ pc[s] = "waiting"
          /\ met[s] \/ (ReadSlot(r) /\ Using(s, Purpose(r)))
      BY <1>3, <1>7, <2>1
    <3>2. CASE met[s]
      BY <1>1, <3>1, <3>2 DEF OverlapsNoted
    <3>3. CASE ReadSlot(r) /\ Using(s, Purpose(r))
      <4>1. Purpose(s) = Purpose(r)
        BY <3>1, <3>3 DEF Using, InZone
      <4> QED
        BY <2>1, <3>1, <3>3, <4>1, ReadSlotMeets
    <3> QED
      BY <3>1, <3>2, <3>3
  <2>2. CASE s = r /\ ReadSlot(r)
    BY <1>7, <2>2, ReadSlotMeets
  <2>3. CASE s = r /\ ~ReadSlot(r) /\ InZone(r)'
    <3>1. /\ InZone(r) /\ met[r] /\ Purpose(r)' = Purpose(r)
      BY <1>2, <1>7, <2>3
    <3> QED
      BY <1>1, <2>3, <3>1 DEF OverlapsNoted
  <2>4. CASE s = r /\ ~ReadSlot(r) /\ pc'[r] = "waiting"
    <3>1. Execute(r)
      BY <2>4, LeavesZone, WalkKeeps
    <3>2. InZone(r) /\ met[r] /\ Purpose(r)' = Purpose(r)
      BY <1>1, <1>7, <2>4, <3>1, ExecuteKeeps
    <3> QED
      BY <1>1, <2>4, <3>2 DEF OverlapsNoted
  <2> QED
    BY <1>7, <2>1, <2>2, <2>3, <2>4
<1> QED
  BY <1>4, <1>6, <1>7 DEF OverlapsNoted

-----------------------------------------------------------------------------
(* Answers. *)

LEMMA OwnSqlOther ==
    ASSUME Typed, AllPaid, OnePurpose, OverlapsNoted,
           NEW r \in Runs, RunStep(r), NEW s \in Runs \ {r}, OwnSql(s)
    PROVE  OwnSql(s)'
<1>1. /\ TypeOK /\ sql \in [Queries -> Sql \cup {None}]
  BY DEF Typed, TypeOK
<1>2. /\ pc'[s] = pc[s] /\ query'[s] = query[s] /\ ran'[s] = ran[s]
      /\ Wanted(s)' = Wanted(s)
  BY <1>1, OthersKeep, OthersUse
<1>3. ~met'[s] => ~met[s]
  <2>1. CASE ReadSlot(r)
    BY <2>1, ReadSlotMeets
  <2>2. CASE ~ReadSlot(r)
    BY <1>1, <2>2, MetChanges DEF TypeOK
  <2> QED
    BY <2>1, <2>2
<1>4. ASSUME ~met[s], pc[s] \in {"storing", "executing"}, query[s] \in Live'
      PROVE  sql'[query[s]] = sql[query[s]] /\ query[s] \in Live
  <2>1. InZone(s) /\ query[s] \in Queries /\ query[s] # None
    BY <1>4, AtSlot, NoneAssumption DEF InZone
  <2>2. sql'[query[s]] # None
    BY <1>4 DEF Live
  <2>3. CASE Patch(r) /\ sql' = [sql EXCEPT ![query[r]] = Wanted(r)]
    <3>1. InZone(r)
      BY <2>3, Zones
    <3>2. query[r] # query[s]
      BY <1>4, <2>1, <3>1 DEF OnePurpose, OverlapsNoted
    <3> QED
      BY <1>1, <2>1, <2>2, <2>3, <3>2 DEF Live
  <2>4. CASE query'[r] \in Unused /\ sql' = [sql EXCEPT ![query'[r]] = Wanted(r)]
    <3>1. query'[r] # query[s]
      BY <2>4 DEF Unused
    <3> QED
      BY <1>1, <2>1, <2>2, <2>4, <3>1 DEF Live
  <2>5. CASE \E q \in Queries : sql' = [sql EXCEPT ![q] = None]
    BY <1>1, <2>1, <2>2, <2>5 DEF Live
  <2>6. CASE sql' = sql
    BY <2>1, <2>2, <2>6 DEF Live
  <2> QED
    BY <2>3, <2>4, <2>5, <2>6, SqlChanges
<1> QED
  BY <1>2, <1>3, <1>4 DEF OwnSql

LEMMA OwnSqlStep ==
    ASSUME Typed, AllPaid, NEW r \in Runs, RunStep(r), OwnSql(r)
    PROVE  OwnSql(r)'
<1>1. /\ TypeOK /\ sql \in [Queries -> Sql \cup {None}]
      /\ Unused \subseteq Queries
  BY DEF Typed, TypeOK, Unused
<1>2. ASSUME ~met'[r], pc'[r] \in {"storing", "executing"}, query'[r] \in Live'
      PROVE  sql'[query'[r]] = Wanted(r)'
  <2>1. Walks(r) /\ Wanted(r)' = Wanted(r)
    BY <1>2, LeavesZone, WalkKeeps DEF InZone
  <2>2. CASE Create(r)
    <3>1. query'[r] \in Unused /\ sql' = [sql EXCEPT ![query'[r]] = Wanted(r)]
      BY <1>1, <2>1, <2>2, WalkGoes, Zones
    <3> QED
      BY <1>1, <2>1, <3>1
  <2>3. CASE Patch(r)
    <3>1. /\ query' = query /\ sql' = [sql EXCEPT ![query[r]] = Wanted(r)]
          /\ query[r] \in Queries
      BY <2>3 DEF Patch, Patched, Live
    <3> QED
      BY <1>1, <2>1, <3>1
  <2>4. CASE StoreSlot(r)
    <3>1. UNCHANGED <<query, sql, met>> /\ pc[r] = "storing"
      BY <2>4 DEF StoreSlot
    <3>2. query[r] \in Live
      BY <1>2, <3>1 DEF Live
    <3> QED
      BY <1>2, <2>1, <3>1, <3>2 DEF OwnSql
  <2>5. Create(r) \/ Patch(r) \/ StoreSlot(r)
    BY <1>1, <1>2, <2>1, WalkGoes
  <2> QED
    BY <2>2, <2>3, <2>4, <2>5
<1>3. ASSUME ~met'[r], pc'[r] = "waiting"
      PROVE  ran'[r] = Wanted(r)'
  <2>1. Execute(r)
    BY <1>3, LeavesZone, WalkKeeps
  <2>2. /\ UNCHANGED met /\ Wanted(r)' = Wanted(r)
        /\ pc[r] = "executing" /\ query[r] \in Live /\ ran'[r] = sql[query[r]]
    BY <1>1, <2>1, ExecuteKeeps, ExecuteSound DEF AllPaid
  <2> QED
    BY <1>3, <2>2 DEF OwnSql
<1> QED
  BY <1>2, <1>3 DEF OwnSql

\* A table is cached for its own chain unless two runs met at the catalogues'
\* query.
LEMMA TablesStep ==
    ASSUME Typed, AllPaid, OverlapsNoted, ForeignTableNeedsOverlap,
           NEW r \in Runs, RunStep(r), OwnSql(r)
    PROVE  ForeignTableNeedsOverlap'
<1> SUFFICES ASSUME NEW c \in Chains,
                    cached'[<<"source", c>>] \notin {None, c},
                    "diagnostic" \notin lapped'
             PROVE  FALSE
  BY DEF ForeignTableNeedsOverlap
<1>1. /\ cached \in [Catalogues \X Chains -> Chains \cup {None}]
      /\ lapped \subseteq lapped' /\ <<"source", c>> \in Catalogues \X Chains
  BY MetTyped DEF Typed, TypeOK, Catalogues
<1>2. cached[<<"source", c>>] \in {None, c}
  BY <1>1 DEF ForeignTableNeedsOverlap
<1>3. cached' # cached
  BY <1>2
<1>4. CASE StartOver(r)
  <2>1. cached'[<<"source", c>>] \in {None, cached[<<"source", c>>]}
    BY <1>1, <1>4 DEF StartOver
  <2> QED
    BY <1>2, <2>1
<1>5. CASE CatalogueRead(r)
  <2>1. /\ cached' = [cached EXCEPT ![Key(r)] = Table(r)]
        /\ pc[r] = "waiting"
    BY <1>5 DEF CatalogueRead
  <2>2. Key(r) = <<"source", c>>
    BY <1>1, <1>2, <2>1
  <2>3. job[r] = "source" /\ chain[r] = c
    BY <2>2 DEF Key
  <2>4. Table(r) = ran[r].chain
    BY <2>3 DEF Table
  <2>5. Purpose(r) = "diagnostic"
    BY <2>3 DEF Purpose, Catalogues
  <2>6. ~met[r]
    BY <1>1, <2>1, <2>5 DEF OverlapsNoted
  <2>7. ran[r] = Wanted(r)
    BY <2>1, <2>6 DEF OwnSql
  <2>8. ran[r].chain = c
    BY <2>3, <2>7 DEF Wanted
  <2> QED
    BY <1>1, <2>1, <2>2, <2>4, <2>8
<1> QED
  BY <1>3, <1>4, <1>5, SharedChanges

LEMMA TracedNext ==
    ASSUME Typed, AllPaid, Traced, [Next]_vars
    PROVE  Traced'
<1>1. CASE \E r \in Runs : RunStep(r)
  <2>1. PICK r \in Runs : RunStep(r)
    BY <1>1
  <2>2. /\ OnePurpose /\ OverlapsNoted /\ ForeignTableNeedsOverlap
        /\ \A s \in Runs : OwnSql(s)
    BY DEF Traced
  <2>3. OnePurpose' /\ OverlapsNoted' /\ ForeignTableNeedsOverlap'
    BY <2>1, <2>2, OnePurposeStep, OverlapsStep, TablesStep
  <2>4. \A s \in Runs : OwnSql(s)'
    <3> SUFFICES ASSUME NEW s \in Runs PROVE OwnSql(s)'
      OBVIOUS
    <3>1. CASE s = r
      BY <2>1, <2>2, <3>1, OwnSqlStep
    <3>2. CASE s # r
      BY <2>1, <2>2, <3>2, OwnSqlOther
    <3> QED
      BY <3>1, <3>2
  <2> QED
    BY <2>3, <2>4 DEF Traced
<1>2. CASE Environment
  <2>1. /\ TypeOK /\ UNCHANGED <<runVars, met, lapped>>
        /\ sql \in [Queries -> Sql \cup {None}]
        /\ slot \in [Purposes -> Queries \cup {None}]
        /\ cached \in [Catalogues \X Chains -> Chains \cup {None}]
    BY <1>2, EnvironmentChanges DEF Typed, TypeOK
  <2>2. /\ \A p \in Purposes : slot'[p] \in {slot[p], None}
        /\ \A k \in Catalogues \X Chains : cached'[k] \in {cached[k], None}
        /\ \A q \in Queries : sql'[q] \in {sql[q], None}
    BY <1>2, <2>1, EnvironmentChanges
  <2>3. OnePurpose'
    BY <2>1, <2>2 DEF Traced, OnePurpose, Purpose, runVars
  <2>4. OverlapsNoted'
    BY <2>1 DEF Traced, OverlapsNoted, InZone, Using, Purpose, runVars
  <2>5. \A s \in Runs : OwnSql(s)'
    <3> SUFFICES ASSUME NEW s \in Runs PROVE OwnSql(s)'
      OBVIOUS
    <3>1. OwnSql(s)
      BY DEF Traced
    <3>2. query[s] \in Live' => sql'[query[s]] = sql[query[s]] /\ query[s] \in Live
      BY <2>2 DEF Live
    <3>3. /\ Wanted(s)' = Wanted(s) /\ pc'[s] = pc[s] /\ query'[s] = query[s]
          /\ ran'[s] = ran[s] /\ met' = met
      BY <2>1 DEF Wanted, runVars
    <3> QED
      BY <3>1, <3>2, <3>3 DEF OwnSql
  <2>6. ForeignTableNeedsOverlap'
    <3>1. \A c \in Chains : <<"source", c>> \in Catalogues \X Chains
      BY DEF Catalogues
    <3>2. \A c \in Chains :
             cached'[<<"source", c>>] \in {cached[<<"source", c>>], None}
      BY <2>2, <3>1
    <3> QED
      BY <2>1, <3>2 DEF Traced, ForeignTableNeedsOverlap
  <2> QED
    BY <2>3, <2>4, <2>5, <2>6 DEF Traced
<1>3. CASE UNCHANGED vars
  BY <1>3 DEF vars, runVars, budgetVars, Traced, OnePurpose, OverlapsNoted,
              OwnSql, ForeignTableNeedsOverlap, InZone, Using, Purpose, Wanted,
              Live
<1> QED
  BY <1>1, <1>2, <1>3, NextSteps

LEMMA TracedInit == Init => Traced
<1> SUFFICES ASSUME Init PROVE Traced
  OBVIOUS
<1>1. \A r \in Runs : pc[r] = "idle" /\ query[r] = None
  BY DEF Init
<1>2. \A p \in Purposes : slot[p] = None
  BY DEF Init
<1>3. \A c \in Chains : cached[<<"source", c>>] = None
  <2>1. \A c \in Chains : <<"source", c>> \in Catalogues \X Chains
    BY DEF Catalogues
  <2> QED
    BY <2>1 DEF Init
<1>4. OnePurpose
  BY <1>1, <1>2 DEF OnePurpose
<1>5. OverlapsNoted
  BY <1>1 DEF OverlapsNoted, InZone, Using
<1>6. \A r \in Runs : OwnSql(r)
  BY <1>1 DEF OwnSql
<1>7. ForeignTableNeedsOverlap
  BY <1>3 DEF ForeignTableNeedsOverlap
<1> QED
  BY <1>4, <1>5, <1>6, <1>7 DEF Traced

\* A request that met no other run of its purpose executes the SQL it built,
\* and a chain's cached balance table is another chain's only after two runs
\* met at the query all catalogues share.
THEOREM AnswersOwn == Spec => []AnswersAreOwn
<1>1. Init => Typed /\ AllPaid /\ Traced
  BY TypedInit, TracedInit
<1>2. Typed /\ AllPaid /\ Traced /\ [Next]_vars => Typed' /\ AllPaid' /\ Traced'
  BY TypedNext, TracedNext
<1>3. Traced => AnswersAreOwn
  BY DEF Traced, OwnSql, AnswersAreOwn, OwnSqlRuns
<1> QED
  BY <1>1, <1>2, <1>3, PTL DEF Spec

-----------------------------------------------------------------------------
(* Queries left behind. *)

\* As long as no purpose was used twice at once, whoever uses one is alone.
LEMMA AloneAtSlot ==
    ASSUME OverlapsNoted, lapped = {}, NEW r \in Runs, NEW o \in Runs \ {r},
           NEW p \in Purposes, Using(r, p)
    PROVE  ~Using(o, p)
BY DEF OverlapsNoted

LEMMA ZoneUses ==
    ASSUME Typed, NEW r \in Runs, InZone(r)
    PROVE  Using(r, Purpose(r)) /\ Purpose(r) \in Purposes
BY AtSlot DEF InZone, Using

\* A query comes to life only when it is created.
LEMMA NewlyLive ==
    ASSUME Typed, NEW r \in Runs, RunStep(r), NEW q \in Live', q \notin Live
    PROVE  Create(r) /\ q = query'[r] /\ q \in Unused
<1>1. sql \in [Queries -> Sql \cup {None}] /\ q \in Queries /\ sql'[q] # None
      /\ sql[q] = None
  BY DEF Typed, TypeOK, Live
<1>2. CASE query[r] \in Live /\ sql' = [sql EXCEPT ![query[r]] = Wanted(r)]
  BY <1>1, <1>2
<1>3. CASE \E x \in Queries : sql' = [sql EXCEPT ![x] = None]
  BY <1>1, <1>3
<1>4. CASE /\ Create(r) /\ query'[r] \in Unused
           /\ sql' = [sql EXCEPT ![query'[r]] = Wanted(r)]
  BY <1>1, <1>4
<1> QED
  BY <1>1, <1>2, <1>3, <1>4, SqlChanges

LEMMA TidyOther ==
    ASSUME Typed, AllPaid, OverlapsNoted, NEW r \in Runs, RunStep(r),
           NEW s \in Runs \ {r}, Tidy(s)
    PROVE  Tidy(s)'
<1> SUFFICES ASSUME lapped' = {}, InZone(s)
             PROVE  Tidy(s)'
  <2>1. pc'[s] = pc[s]
    BY OthersKeep DEF Typed
  <2> QED
    BY <2>1 DEF Tidy, InZone
<1>1. lapped = {} /\ TypeOK
  BY MetTyped DEF Typed
<1>2. /\ pc'[s] = pc[s] /\ query'[s] = query[s] /\ Purpose(s)' = Purpose(s)
  BY <1>1, OthersKeep, OthersUse
<1>3. Purpose(s) \in Purposes /\ Using(s, Purpose(s))
  BY ZoneUses
<1>4. ~Using(r, Purpose(s))
  BY <1>1, <1>3, AloneAtSlot
<1>5. slot'[Purpose(s)] = slot[Purpose(s)]
  <2>1. slot \in [Purposes -> Queries \cup {None}]
    BY <1>1 DEF TypeOK
  <2>2. CASE \/ DropSlot(r) /\ slot' = [slot EXCEPT ![Purpose(r)] = None]
             \/ StoreSlot(r) /\ slot' = [slot EXCEPT ![Purpose(r)] = query[r]]
    <3>1. Using(r, Purpose(r))
      BY <2>2, Zones, ZoneUses
    <3>2. Purpose(r) # Purpose(s)
      BY <1>4, <3>1
    <3> QED
      BY <1>3, <2>1, <2>2, <3>2
  <2>3. ~ClearSlots(r)
    BY <1>4, Zones DEF Using
  <2> QED
    BY <2>2, <2>3, SlotChanges
<1>6. slot[Purpose(s)] \notin Live => slot[Purpose(s)] \notin Live'
  BY <1>3, NewlyLive DEF Unused
<1> QED
  BY <1>1, <1>2, <1>5, <1>6 DEF Tidy

LEMMA TidyOwn ==
    ASSUME Typed, AllPaid, NEW r \in Runs, RunStep(r), Tidy(r)
    PROVE  Tidy(r)'
<1> SUFFICES ASSUME lapped' = {}, InZone(r)'
             PROVE  Tidy(r)'
  BY DEF Tidy, InZone
<1>1. /\ lapped = {} /\ TypeOK /\ slot \in [Purposes -> Queries \cup {None}]
      /\ None \notin Live
  BY MetTyped, NoneAssumption DEF Typed, TypeOK, Live
<1>2. Walks(r)
  BY LeavesZone
<1>3. Purpose(r)' = Purpose(r) /\ Purpose(r) \in Purposes
  BY <1>2, WalkKeeps
<1>4. CASE ReadSlot(r)
  <2>1. /\ query'[r] = slot[Purpose(r)] /\ slot' = slot
        /\ pc'[r] = IF slot[Purpose(r)] = None THEN "creating" ELSE "patching"
    BY <1>1, <1>4, Domains DEF ReadSlot, Goto
  <2> QED
    BY <1>3, <2>1 DEF Tidy
<1>5. CASE PatchNotFound(r)
  <2>1. /\ pc[r] = "patching" /\ query[r] \notin Live /\ pc'[r] = "dropping"
        /\ UNCHANGED <<slot, sql>>
    BY <1>1, <1>5, Domains DEF PatchNotFound, Goto
  <2>2. slot[Purpose(r)] \notin Live
    BY <1>1, <2>1 DEF Tidy
  <2>3. Live' = Live
    BY <2>1 DEF Live
  <2> QED
    BY <1>3, <2>1, <2>2, <2>3 DEF Tidy
<1>6. CASE DropSlot(r)
  <2>1. /\ pc'[r] = "creating" /\ slot' = [slot EXCEPT ![Purpose(r)] = None]
    BY <1>1, <1>6, Domains DEF DropSlot, Goto
  <2> QED
    BY <1>1, <1>3, <2>1 DEF Tidy
<1>7. CASE Create(r)
  <2>1. /\ pc[r] = "creating" /\ pc'[r] = "storing" /\ slot' = slot
    BY <1>1, <1>7, Domains DEF Create, Goto
  <2> QED
    BY <1>1, <1>3, <2>1 DEF Tidy
<1>8. CASE Patch(r) \/ StoreSlot(r) \/ CacheMiss(r)
  <2>1. pc'[r] \in {"executing", "reusing"}
    BY <1>1, <1>8, Domains DEF Patch, StoreSlot, CacheMiss, Goto
  <2> QED
    BY <2>1 DEF Tidy
<1> QED
  BY <1>2, <1>4, <1>5, <1>6, <1>7, <1>8 DEF Walks

LEMMA StraysFinite ==
    /\ IsFiniteSet(Strays) /\ Cardinality(Strays) \in Nat
    /\ IsFiniteSet(Strays') /\ Cardinality(Strays') \in Nat
<1>1. Strays \subseteq Queries /\ Strays' \subseteq Queries
  BY DEF Strays, Live
<1> QED
  BY <1>1, QueriesAssumption, FS_Subset, FS_CardinalityType

\* A run about to store its query does so, or fails; an archive handler passes
\* over queries only by failing.
LEMMA Narrow ==
    ASSUME TypeOK, NEW r \in Runs, RunStep(r)
    PROVE  /\ pc[r] = "storing" => StoreSlot(r) \/ Fail(r)
           /\ pc'[r] = "archiving" =>
                 BeginArchive(r) \/ \E q \in Queries : Archive(r, q) \/ ArchiveFails(r, q)
<1>1. DOMAIN pc = Runs
  BY Domains
<1>2. ASSUME pc[r] = "storing"
      PROVE  StoreSlot(r) \/ Fail(r)
  BY <1>2 DEF RunStep, Ends, Moves, CreateRefused, ExecuteNotFound, GiveUp,
     NotFound, Answered, ClearSlots, Begin, CacheHit, CacheMiss, Execute,
     FallBack, PatchNotFound, ReadSlot, Patch, DropSlot, Create, StartOver,
     CatalogueRead, BeginArchive, Archive, ArchiveFails
<1>3. ASSUME pc'[r] = "archiving"
      PROVE  BeginArchive(r)
               \/ \E q \in Queries : Archive(r, q) \/ ArchiveFails(r, q)
  <2>1. ~Ends(r)
    BY <1>1, <1>3, EndsResets DEF Reset, Goto
  <2>2. ~Walks(r)
    <3>1. Walks(r) => pc'[r] \in {"reusing", "creating", "patching", "executing",
                                  "dropping", "storing"}
      BY WalkGoes
    <3> QED
      BY <1>3, <3>1
  <2>3. ~(\E request \in Requested : Begin(r, request[1], request[2]))
    BY <1>1, <1>3 DEF Begin, Goto
  <2>4. ~CacheHit(r) /\ ~Execute(r) /\ ~FallBack(r) /\ ~StartOver(r)
        /\ ~CatalogueRead(r)
    BY <1>1, <1>3 DEF CacheHit, Execute, FallBack, StartOver, CatalogueRead,
                      Resolved, Goto
  <2> QED
    BY <2>1, <2>2, <2>3, <2>4 DEF RunStep, Moves, Walks
<1> QED
  BY <1>2, <1>3

\* Without overlaps a query is left behind by a failure: the one that was about
\* to be stored, or the one that could not be archived.
LEMMA NewStray ==
    ASSUME Typed, AllPaid, Traced, \A o \in Runs : Tidy(o), lapped' = {},
           NEW r \in Runs, RunStep(r), NEW q \in Strays', q \notin Strays
    PROVE  \/ Fail(r) /\ q = query[r]
           \/ ArchiveFails(r, q)
<1>1. /\ TypeOK /\ lapped = {} /\ OverlapsNoted /\ DOMAIN todo = Runs
      /\ slot \in [Purposes -> Queries \cup {None}] /\ Live \subseteq Queries
      /\ DOMAIN pc = Runs
  BY MetTyped, Domains DEF Typed, TypeOK, Traced, Live
<1>2. q \in Live'
  BY DEF Strays
<1>3. q \in Live
  <2> SUFFICES ASSUME q \notin Live PROVE FALSE
    OBVIOUS
  <2>1. Create(r) /\ q = query'[r]
    BY <1>2, NewlyLive
  <2>2. pc'[r] = "storing"
    BY <1>1, <2>1, Domains DEF Create, Goto
  <2>3. PICK o \in Runs : pc'[o] = "archiving"
    BY <2>1, <2>2 DEF Strays
  <2>4. o # r /\ pc[o] = "archiving"
    BY <1>1, <2>2, <2>3, OthersKeep
  <2>5. Using(r, Purpose(r)) /\ Purpose(r) \in Purposes
    BY <2>1, Zones, ZoneUses
  <2>6. Using(o, Purpose(r))
    BY <2>4 DEF Using
  <2> QED
    BY <1>1, <2>4, <2>5, <2>6, AloneAtSlot
<1>4. /\ \/ \E p \in Purposes : slot[p] = q
         \/ \E s \in Runs : pc[s] = "storing" /\ query[s] = q
      /\ \A o \in Runs : pc[o] = "archiving" => q \in todo[o]
  BY <1>3 DEF Strays
<1>5. CASE \E o \in Runs : pc'[o] = "archiving" /\ q \notin todo'[o]
  <2>1. PICK o \in Runs : pc'[o] = "archiving" /\ q \notin todo'[o]
    BY <1>5
  <2>2. o = r
    BY <1>1, <1>4, <2>1, OthersKeep
  <2>3. CASE BeginArchive(r)
    <3>1. todo'[r] = Live
      BY <1>1, <2>3 DEF BeginArchive
    <3> QED
      BY <1>3, <2>1, <2>2, <3>1
  <2>4. CASE \E x \in Queries : Archive(r, x)
    <3>1. PICK x \in Queries : Archive(r, x)
      BY <2>4
    <3>2. /\ pc[r] = "archiving" /\ todo'[r] = todo[r] \ {x}
          /\ sql' = [sql EXCEPT ![x] = None]
      BY <1>1, <3>1 DEF Archive
    <3>3. q = x
      BY <1>4, <2>1, <2>2, <3>2
    <3>4. sql'[x] = None
      BY <3>2 DEF Typed, TypeOK
    <3> QED
      BY <1>2, <3>3, <3>4 DEF Live
  <2>5. CASE \E x \in Queries : ArchiveFails(r, x)
    <3>1. PICK x \in Queries : ArchiveFails(r, x)
      BY <2>5
    <3>2. pc[r] = "archiving" /\ todo'[r] = todo[r] \ {x}
      BY <1>1, <3>1 DEF ArchiveFails
    <3>3. q = x
      BY <1>4, <2>1, <2>2, <3>2
    <3> QED
      BY <3>1, <3>3
  <2> QED
    BY <1>1, <2>1, <2>2, <2>3, <2>4, <2>5, Narrow
<1>6. CASE /\ \A p \in Purposes : slot'[p] # q
           /\ \A s \in Runs : pc'[s] = "storing" => query'[s] # q
  <2>1. CASE \E p \in Purposes : slot[p] = q
    <3>1. PICK p \in Purposes : slot[p] = q
      BY <2>1
    <3>2. slot'[p] # slot[p]
      BY <1>6, <3>1
    <3>3. CASE DropSlot(r) /\ slot' = [slot EXCEPT ![Purpose(r)] = None]
      <4>1. p = Purpose(r)
        BY <1>1, <3>2, <3>3
      <4>2. pc[r] = "dropping"
        BY <3>3, Zones
      <4> QED
        BY <1>1, <1>3, <3>1, <4>1, <4>2 DEF Tidy
    <3>4. CASE StoreSlot(r) /\ slot' = [slot EXCEPT ![Purpose(r)] = query[r]]
      <4>1. p = Purpose(r)
        BY <1>1, <3>2, <3>4
      <4>2. pc[r] = "storing"
        BY <3>4, Zones
      <4>3. slot[p] = None
        BY <1>1, <4>1, <4>2 DEF Tidy
      <4> QED
        BY <1>1, <1>3, <3>1, <4>3, NoneAssumption
    <3>5. CASE ClearSlots(r)
      BY <1>4, <3>5 DEF ClearSlots
    <3> QED
      BY <3>2, <3>3, <3>4, <3>5, SlotChanges
  <2>2. CASE \E s \in Runs : pc[s] = "storing" /\ query[s] = q
    <3>1. PICK s \in Runs : pc[s] = "storing" /\ query[s] = q
      BY <2>2
    <3>2. s = r
      BY <1>1, <1>6, <3>1, OthersKeep
    <3>3. CASE StoreSlot(r)
      <4>1. slot' = [slot EXCEPT ![Purpose(r)] = query[r]]
        BY <3>3 DEF StoreSlot, Stored
      <4>2. Purpose(r) \in Purposes
        BY <3>3, Zones, ZoneUses
      <4> QED
        BY <1>1, <1>6, <3>1, <3>2, <4>1, <4>2
    <3> QED
      BY <1>1, <3>1, <3>2, <3>3, Narrow
  <2> QED
    BY <1>4, <2>1, <2>2
<1> QED
  BY <1>5, <1>6 DEF Strays

LEMMA StraysStep ==
    ASSUME Typed, AllPaid, Traced, Counted, NEW r \in Runs, RunStep(r)
    PROVE  StraysCounted'
<1> SUFFICES ASSUME lapped' = {}
             PROVE  Cardinality(Strays') <= mishaps'
  BY DEF StraysCounted
<1>1. /\ lapped = {} /\ \A o \in Runs : Tidy(o)
      /\ mishaps \in Nat
  BY MetTyped, CapAssumption DEF Counted, Typed, TypeOK
<1>2. /\ Cardinality(Strays) <= mishaps /\ IsFiniteSet(Strays)
      /\ Cardinality(Strays) \in Nat /\ Cardinality(Strays') \in Nat
  BY <1>1, StraysFinite DEF Counted, StraysCounted
<1>3. \/ mishaps' = mishaps
      \/ mishaps' = mishaps + 1
  BY SharedChanges
<1>4. CASE Strays' \subseteq Strays
  <2>1. Cardinality(Strays') <= Cardinality(Strays)
    BY <1>2, <1>4, FS_Subset
  <2> QED
    BY <1>1, <1>2, <1>3, <2>1
<1>5. CASE ~(Strays' \subseteq Strays)
  <2>1. PICK q \in Strays' : q \notin Strays
    BY <1>5
  <2>2. mishaps' = mishaps + 1
    BY <1>1, <2>1, NewStray DEF Fail, ArchiveFails
  <2>3. \E x : Strays' \subseteq Strays \cup {x}
    <3>1. CASE Fail(r)
      <4>1. pc'[r] = "idle"
        BY <3>1, Domains DEF Fail, Reset, Goto, Typed
      <4>2. \A x \in Queries : ~ArchiveFails(r, x)
        <5> SUFFICES ASSUME NEW x \in Queries, ArchiveFails(r, x) PROVE FALSE
          OBVIOUS
        <5>1. pc'[r] = pc[r] /\ pc[r] = "archiving"
          BY DEF ArchiveFails
        <5> QED
          BY <4>1, <5>1
      <4>3. \A x \in Strays' : x \in Queries
        BY DEF Strays, Live
      <4>4. Strays' \subseteq Strays \cup {query[r]}
        BY <1>1, <4>2, <4>3, NewStray
      <4> QED
        BY <4>4
    <3>2. CASE ArchiveFails(r, q)
      <4>1. /\ ~Fail(r) /\ pc[r] = "archiving" /\ q \in todo[r]
            /\ todo' = [todo EXCEPT ![r] = todo[r] \ {q}]
        <5>1. pc'[r] = pc[r] /\ pc[r] = "archiving"
          BY <3>2 DEF ArchiveFails
        <5>2. Fail(r) => pc'[r] = "idle"
          BY Domains DEF Fail, Reset, Goto, Typed
        <5> QED
          BY <3>2, <5>1, <5>2 DEF ArchiveFails
      <4>2. \A x \in Strays' \ Strays : x = q
        <5> SUFFICES ASSUME NEW x \in Strays', x \notin Strays PROVE x = q
          OBVIOUS
        <5>1. ArchiveFails(r, x)
          BY <1>1, <4>1, NewStray
        <5>2. x \in todo[r] /\ todo' = [todo EXCEPT ![r] = todo[r] \ {x}]
          BY <5>1 DEF ArchiveFails
        <5> QED
          BY <4>1, <5>2, Domains DEF Typed
      <4> QED
        BY <4>2
    <3> QED
      BY <1>1, <2>1, <3>1, <3>2, NewStray
  <2>4. PICK x : Strays' \subseteq Strays \cup {x}
    BY <2>3
  <2>5. Cardinality(Strays') <= Cardinality(Strays) + 1
    BY <1>2, <2>4, GainsOne
  <2> QED
    BY <1>1, <1>2, <2>2, <2>5
<1> QED
  BY <1>4, <1>5

LEMMA CountedEnvironment ==
    ASSUME Typed, Counted, Environment
    PROVE  Counted'
<1>1. /\ TypeOK /\ UNCHANGED <<runVars, met, lapped>>
      /\ slot \in [Purposes -> Queries \cup {None}]
      /\ sql \in [Queries -> Sql \cup {None}]
      /\ mishaps \in Nat /\ mishaps' = mishaps + 1 /\ None \notin Live
  BY EnvironmentChanges, CapAssumption, NoneAssumption DEF Typed, TypeOK, Live
<1>2. /\ \A p \in Purposes : slot'[p] \in {slot[p], None}
      /\ \A p \in Purposes \ {"positions"} : slot'[p] = slot[p]
      /\ Live' \subseteq Live
  BY <1>1, EnvironmentChanges DEF Live
<1>3. \A r \in Runs : Tidy(r)'
  <2> SUFFICES ASSUME NEW r \in Runs, lapped = {}, InZone(r)
               PROVE  Tidy(r)'
    BY <1>1 DEF Tidy, InZone, runVars
  <2>1. Tidy(r) /\ Purpose(r) \in Purposes
    BY ZoneUses DEF Counted
  <2>2. Purpose(r)' = Purpose(r) /\ pc' = pc /\ query' = query
    BY <1>1 DEF Purpose, runVars
  <2> QED
    BY <1>1, <1>2, <2>1, <2>2 DEF Tidy
<1>4. Strays' \subseteq Strays \cup {slot["positions"]}
  <2> SUFFICES ASSUME NEW q \in Strays', q # slot["positions"]
               PROVE  q \in Strays
    OBVIOUS
  <2>1. q \in Live /\ UNCHANGED <<pc, query, todo>>
    BY <1>1, <1>2 DEF Strays, runVars
  <2>2. (\A p \in Purposes : slot'[p] # q) => \A p \in Purposes : slot[p] # q
    BY <1>2
  <2> QED
    BY <2>1, <2>2 DEF Strays
<1>5. StraysCounted'
  <2>1. /\ IsFiniteSet(Strays) /\ Cardinality(Strays) \in Nat
        /\ Cardinality(Strays') \in Nat
    BY StraysFinite
  <2>2. Cardinality(Strays') <= Cardinality(Strays) + 1
    BY <1>4, <2>1, GainsOne
  <2>3. lapped = {} => Cardinality(Strays) <= mishaps
    BY DEF Counted, StraysCounted
  <2> QED
    BY <1>1, <2>1, <2>2, <2>3 DEF StraysCounted
<1> QED
  BY <1>3, <1>5 DEF Counted

LEMMA CountedNext ==
    ASSUME IInv, [Next]_vars
    PROVE  Counted'
<1>1. Typed /\ AllPaid /\ Traced /\ Counted
  BY DEF IInv
<1>2. CASE \E r \in Runs : RunStep(r)
  <2>1. PICK r \in Runs : RunStep(r)
    BY <1>2
  <2>2. \A s \in Runs : Tidy(s)'
    <3> SUFFICES ASSUME NEW s \in Runs PROVE Tidy(s)'
      OBVIOUS
    <3>1. Tidy(s) /\ OverlapsNoted
      BY <1>1 DEF Counted, Traced
    <3>2. CASE s = r
      BY <1>1, <2>1, <3>1, <3>2, TidyOwn
    <3>3. CASE s # r
      BY <1>1, <2>1, <3>1, <3>3, TidyOther
    <3> QED
      BY <3>2, <3>3
  <2> QED
    BY <1>1, <2>1, <2>2, StraysStep DEF Counted
<1>3. CASE Environment
  BY <1>1, <1>3, CountedEnvironment
<1>4. CASE UNCHANGED vars
  BY <1>1, <1>4 DEF vars, runVars, budgetVars, Counted, Tidy, StraysCounted,
                    Strays, Live, Purpose
<1> QED
  BY <1>2, <1>3, <1>4, NextSteps

LEMMA CountedInit == Init => Counted
<1> SUFFICES ASSUME Init PROVE Counted
  OBVIOUS
<1>1. /\ Strays = {} /\ mishaps = 0 /\ \A r \in Runs : pc[r] = "idle"
  BY DEF Init, Strays, Live
<1> QED
  BY <1>1, FS_EmptySet DEF Counted, Tidy, StraysCounted

\* As long as no purpose was used by two runs at once, every query that nobody
\* remembers was paid for by a failure, a deleted watchlist or a query deleted
\* at Dune; and a request never costs more than seven executions.
THEOREM QuotasSpared == Spec => []QuotasAreSpared
<1>1. Init => IInv
  BY TypedInit, TracedInit, CountedInit DEF IInv
<1>2. IInv /\ [Next]_vars => IInv'
  BY TypedNext, TracedNext, CountedNext DEF IInv
<1>3. IInv => OrphansNeedOverlap
  <2> SUFFICES ASSUME IInv, lapped = {}
               PROVE  Cardinality({q \in Live : /\ \A p \in Purposes : slot[p] # q
                                                /\ \A r \in Runs : query[r] # q})
                        <= mishaps
    BY DEF OrphansNeedOverlap
  <2> DEFINE orphans == {q \in Live : /\ \A p \in Purposes : slot[p] # q
                                      /\ \A r \in Runs : query[r] # q}
  <2>1. Cardinality(Strays) <= mishaps /\ mishaps \in Nat
    BY CapAssumption DEF IInv, Counted, StraysCounted, Typed, TypeOK
  <2>2. orphans \subseteq Strays
    BY DEF Strays
  <2>3. /\ IsFiniteSet(Strays) /\ Cardinality(Strays) \in Nat
    BY StraysFinite
  <2>4. IsFiniteSet(orphans) /\ Cardinality(orphans) <= Cardinality(Strays)
    BY <2>2, <2>3, FS_Subset
  <2>5. Cardinality(orphans) \in Nat
    BY <2>4, FS_CardinalityType
  <2> QED
    BY <2>1, <2>3, <2>4, <2>5
<1>4. Spec => []OrphansNeedOverlap
  BY <1>1, <1>2, <1>3, PTL DEF Spec
<1> QED
  BY <1>4, CostBounded, PTL DEF QuotasAreSpared
=============================================================================
