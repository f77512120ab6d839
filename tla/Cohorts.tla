------------------------------- MODULE Cohorts -------------------------------
(***************************************************************************)
(* The wallets of the watchlists of one chain, and the derived watchlist   *)
(* of repeat wallets: those in several of the others.  Creating or         *)
(* deleting a watchlist, and POST /api/cohorts/derive, rebuild it:         *)
(* repeat_wallets, find_derived and the write are transactions of their    *)
(* own, and so are the cap check, the additions and the removals of a      *)
(* PATCH.  Handlers of both workers interleave between them.               *)
(***************************************************************************)
EXTENDS Integers, FiniteSets, FiniteSetsExt

CONSTANTS
    Handlers,    \* the handlers that may be running at the same time
    Wallets,
    MinCohorts,  \* derived_min_cohorts
    WalletCap,   \* DICE_MONITOR_MAX_WALLETS
    MaxId,       \* bound: watchlists ever created
    MaxRequests, \* bound: requests
    MaxFaults,   \* bound: crashes and failed database calls
    None

CohortsAssumption ==
    /\ MinCohorts \in Nat /\ MinCohorts >= 2
    /\ WalletCap \in Nat \ {0} /\ MaxId \in Nat
    /\ MaxRequests \in Nat /\ MaxFaults \in Nat
    /\ IsFiniteSet(Wallets)
    /\ None \notin Int /\ None \notin [derived : BOOLEAN, wallets : SUBSET Wallets]

VARIABLES
    rows,      \* watchlists with their wallets: a row, or None
    nextId,    \* the id of the next INSERT
    pc,        \* where a handler is
    target,    \* the watchlist it works on
    wallets,   \* what it is going to write
    removals,  \* what a PATCH is going to remove
    alone,     \* auxiliary: nobody wrote since it read
    lapped,    \* auxiliary: two rebuilds were under way together
    crossed,   \* auxiliary: two PATCHes were
    requests, faults

locals == <<pc, target, wallets, removals>>
notes  == <<lapped, crossed>>
vars   == <<rows, nextId, locals, alone, notes, requests, faults>>

-----------------------------------------------------------------------------
Ids == 1 .. MaxId
Row == [derived : BOOLEAN, wallets : SUBSET Wallets]

TypeOK ==
    /\ rows \in [Ids -> Row \cup {None}]
    /\ nextId \in 1 .. MaxId + 1
    /\ \A id \in Ids : id >= nextId => rows[id] = None
    /\ pc \in [Handlers -> {"idle", "adding", "removing", "reading", "finding",
                            "creating", "replacing"}]
    /\ target \in [Handlers -> Ids \cup {None}]
    /\ wallets \in [Handlers -> SUBSET Wallets]
    /\ removals \in [Handlers -> SUBSET Wallets]
    /\ alone \in [Handlers -> BOOLEAN]
    /\ lapped \in BOOLEAN /\ crossed \in BOOLEAN
    /\ requests \in 0 .. MaxRequests
    /\ faults \in 0 .. MaxFaults

Exists(id) == rows[id] # None
Derived    == {id \in Ids : Exists(id) /\ rows[id].derived}
Real       == {id \in Ids : Exists(id) /\ ~rows[id].derived}

Rebuilding(h) == pc[h] \in {"reading", "finding", "creating", "replacing"}
Patching(h)   == pc[h] \in {"adding", "removing"}

Goto(h, where) == pc' = [pc EXCEPT ![h] = where]

Init ==
    /\ rows = [id \in Ids |-> None] /\ nextId = 1
    /\ pc = [h \in Handlers |-> "idle"]
    /\ target = [h \in Handlers |-> None]
    /\ wallets = [h \in Handlers |-> {}]
    /\ removals = [h \in Handlers |-> {}]
    /\ alone = [h \in Handlers |-> FALSE]
    /\ lapped = FALSE /\ crossed = FALSE
    /\ requests = 0 /\ faults = 0

\* The rows change under the handlers that have read them.
Wrote(h) == alone' = [o \in Handlers |-> o = h /\ alone[o]]

\* The handler has answered.
Done(h) ==
    /\ Goto(h, "idle")
    /\ target' = [target EXCEPT ![h] = None]
    /\ wallets' = [wallets EXCEPT ![h] = {}]
    /\ removals' = [removals EXCEPT ![h] = {}]

\* A request comes in.
Request(h) ==
    /\ pc[h] = "idle"
    /\ requests < MaxRequests
    /\ requests' = requests + 1

\* The rebuild of the derived watchlist is next.
Rebuild(h) ==
    /\ Goto(h, "reading")
    /\ lapped' = (lapped \/ \E o \in Handlers \ {h} : Rebuilding(o))
    /\ UNCHANGED <<target, wallets, removals, crossed>>

-----------------------------------------------------------------------------
(* The handlers of the watchlists. *)

\* Mutants: the cap of the additions alone; a derived watchlist that counts
\* towards itself; another one for every rebuild.
CapOfAdditions(id, add, remove) == Cardinality(add \ remove) <= WalletCap
RepeatsOfAll ==
    {w \in Wallets :
        Cardinality({id \in Real \cup Derived : w \in rows[id].wallets}) >= MinCohorts}
CreatesAlways(h) == wallets[h] # {}

Insert(derived, new) ==
    [rows EXCEPT ![nextId] = [derived |-> derived, wallets |-> new]]

\* AUTOINCREMENT
Following == nextId + 1

\* POST /api/watchlists, from a job's result too: _enforce_wallet_cap, INSERT.
CreateWatchlist(h, new) ==
    /\ Request(h)
    /\ Cardinality(new) <= WalletCap
    /\ nextId \in Ids
    /\ rows' = Insert(FALSE, new)
    /\ nextId' = Following
    /\ Rebuild(h) /\ Wrote(h)
    /\ UNCHANGED faults

\* DELETE /api/watchlists/{id}
DeleteWatchlist(h, id) ==
    /\ Request(h)
    /\ Exists(id)
    /\ rows' = [rows EXCEPT ![id] = None]
    /\ Rebuild(h) /\ Wrote(h)
    /\ UNCHANGED <<nextId, faults>>

\* POST /api/cohorts/derive
Derive(h) ==
    /\ Request(h)
    /\ Rebuild(h)
    /\ UNCHANGED <<rows, nextId, alone, faults>>

WithinCap(id, add, remove) ==
    Cardinality((rows[id].wallets \cup add) \ remove) <= WalletCap

\* PATCH with add_wallets: the cap is checked against the wallets as read.
ReadForPatch(h, id, add, remove) ==
    /\ Request(h)
    /\ Exists(id)
    /\ add # {} => WithinCap(id, add, remove)
    /\ add \cup remove # {}
    /\ target' = [target EXCEPT ![h] = id]
    /\ wallets' = [wallets EXCEPT ![h] = add]
    /\ removals' = [removals EXCEPT ![h] = remove]
    /\ Goto(h, IF add = {} THEN "removing" ELSE "adding")
    /\ crossed' = (crossed \/ \E o \in Handlers \ {h} : Patching(o))
    /\ UNCHANGED <<rows, nextId, alone, lapped, faults>>

\* add_wallets; a watchlist deleted meanwhile is a foreign key that fails.
AddWallets(h) ==
    /\ pc[h] = "adding"
    /\ \/ /\ Exists(target[h])
          /\ rows' = [rows EXCEPT ![target[h]].wallets = @ \cup wallets[h]]
          /\ \/ removals[h] # {} /\ Goto(h, "removing")
                                 /\ UNCHANGED <<target, wallets, removals>>
             \/ removals[h] = {} /\ Done(h)
       \/ ~Exists(target[h]) /\ Done(h) /\ UNCHANGED rows
    /\ Wrote(h)
    /\ UNCHANGED <<nextId, notes, requests, faults>>

\* remove_wallets
RemoveWallets(h) ==
    /\ pc[h] = "removing"
    /\ \/ /\ Exists(target[h])
          /\ rows' = [rows EXCEPT ![target[h]].wallets = @ \ removals[h]]
       \/ ~Exists(target[h]) /\ UNCHANGED rows
    /\ Done(h) /\ Wrote(h)
    /\ UNCHANGED <<nextId, notes, requests, faults>>

-----------------------------------------------------------------------------
(* refresh_derived. *)

\* repeat_wallets: derived watchlists are left out of the count.
RepeatWallets ==
    {w \in Wallets :
        Cardinality({id \in Real : w \in rows[id].wallets}) >= MinCohorts}

ReadRepeats(h) ==
    /\ pc[h] = "reading"
    /\ wallets' = [wallets EXCEPT ![h] = RepeatWallets]
    /\ alone' = [alone EXCEPT ![h] = TRUE]
    /\ Goto(h, "finding")
    /\ UNCHANGED <<rows, nextId, target, removals, notes, requests, faults>>

\* The derived watchlist of the lowest id.
FoundDerived == IF Derived = {} THEN None ELSE Min(Derived)

Creates(h) == FoundDerived = None /\ wallets[h] # {}

FindDerived(h) ==
    /\ pc[h] = "finding"
    /\ \/ /\ Creates(h)
          /\ Goto(h, "creating")
          /\ UNCHANGED <<target, wallets, removals>>
       \/ /\ ~Creates(h) /\ FoundDerived # None
          /\ target' = [target EXCEPT ![h] = FoundDerived]
          /\ Goto(h, "replacing")
          /\ UNCHANGED <<wallets, removals>>
       \/ /\ FoundDerived = None /\ wallets[h] = {}
          /\ Done(h)
    /\ UNCHANGED <<rows, nextId, alone, notes, requests, faults>>

\* create_watchlist, without a cap.
CreateDerived(h) ==
    /\ pc[h] = "creating"
    /\ nextId \in Ids
    /\ rows' = Insert(TRUE, wallets[h])
    /\ nextId' = Following
    /\ Done(h) /\ Wrote(h)
    /\ UNCHANGED <<notes, requests, faults>>

\* replace_wallets: deletes and inserts in one transaction.  A watchlist gone
\* meanwhile fails the insert, and the failure is swallowed.
ReplaceWallets(h) ==
    /\ pc[h] = "replacing"
    /\ \/ /\ Exists(target[h])
          /\ rows' = [rows EXCEPT ![target[h]].wallets = wallets[h]]
       \/ ~Exists(target[h]) /\ UNCHANGED rows
    /\ Done(h) /\ Wrote(h)
    /\ UNCHANGED <<nextId, notes, requests, faults>>

\* A database call fails, or the process dies.
Fail(h) ==
    /\ pc[h] # "idle"
    /\ faults < MaxFaults
    /\ faults' = faults + 1
    /\ Done(h)
    /\ UNCHANGED <<rows, nextId, alone, notes, requests>>

Next ==
    \E h \in Handlers :
        \/ \E new \in SUBSET Wallets \ {{}} : CreateWatchlist(h, new)
        \/ \E id \in Ids : DeleteWatchlist(h, id)
        \/ \E id \in Ids, add, remove \in SUBSET Wallets :
              ReadForPatch(h, id, add, remove)
        \/ Derive(h)
        \/ AddWallets(h) \/ RemoveWallets(h)
        \/ ReadRepeats(h) \/ FindDerived(h) \/ CreateDerived(h) \/ ReplaceWallets(h)
        \/ Fail(h)

Spec == Init /\ [][Next]_vars

-----------------------------------------------------------------------------
(* Properties. *)

\* The wallets that belong into the derived watchlist.
Belong == {w \in Wallets : \E S \in SUBSET Real :
             Cardinality(S) = MinCohorts /\ \A id \in S : w \in rows[id].wallets}

Current ==
    IF Derived = {} THEN Belong = {}
    ELSE \E id \in Derived : rows[id].wallets = Belong

\* refresh_derived: a rebuild during which nobody else wrote leaves a derived
\* watchlist with exactly the repeat wallets of the others, whatever it held
\* before and however it came about.
RebuildIsExact ==
    \A h \in Handlers :
        pc[h] \in {"finding", "creating", "replacing"} /\ pc'[h] = "idle"
                /\ alone'[h] /\ faults' = faults
            => Current'
SoloRebuildIsExact == [][RebuildIsExact]_vars

\* find_derived and create_watchlist are two transactions: a chain has a second
\* derived watchlist only after two rebuilds overlapped.
OneDerivedUnlessLapped == ~lapped => Cardinality(Derived) <= 1

\* _enforce_wallet_cap: a watchlist of the user's exceeds the cap only while a
\* PATCH is between its additions and its removals, or after two overlapped or
\* one failed in between.
CapHolds ==
    /\ ~crossed /\ faults = 0
    /\ \A h \in Handlers : ~Patching(h)
    => \A id \in Real : Cardinality(rows[id].wallets) <= WalletCap

\* _refresh_derived_quietly: the repeat wallets are current after any change to
\* the inputs.
DerivedIsCurrent ==
    /\ ~lapped /\ faults = 0
    /\ \A h \in Handlers : pc[h] = "idle"
    => Current
=============================================================================
