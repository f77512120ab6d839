----------------------------- MODULE ProviderSync -----------------------------
(***************************************************************************)
(* Registering the watched wallets of one chain with the provider that     *)
(* delivers its activity: sync_realtime_chain with Alchemy's incremental   *)
(* address list, sync_solana with Helius's wholesale one.  A sync reads    *)
(* the wallets and the webhook row once, then awaits the provider and      *)
(* writes the row in turns; the syncs of a PATCH, of the Sync button and   *)
(* of the watchdog overlap.                                                *)
(***************************************************************************)
EXTENDS Integers, Sequences, FiniteSets

CONSTANTS
    Syncers,       \* the processes that may be syncing at the same time
    Wallets,       \* integers, in the order addresses sort
    Batch,         \* ADDRESS_BATCH
    MaxSyncs,      \* bound: syncs begun
    MaxChanges,    \* bound: changes of the watched wallets
    MaxVanished,   \* bound: webhooks removed on the provider's dashboard
    MaxFaults,     \* bound: crashes, failed calls and lists cut short
    None           \* no row, no webhook in hand

ASSUME WalletsAssumption == Wallets \subseteq Int /\ IsFiniteSet(Wallets)
ASSUME BatchAssumption == Batch \in Nat \ {0}
ASSUME BudgetAssumption ==
    /\ MaxSyncs \in Nat /\ MaxChanges \in Nat
    /\ MaxVanished \in Nat /\ MaxFaults \in Nat
ASSUME NoneAssumption == None \notin Int

VARIABLES
    provider,   \* "alchemy" or "helius", as the chain has it
    watched,    \* realtime_wallets(chain)
    row,        \* webhook_id of the chain's alchemy_webhooks row
    hooks,      \* the provider's webhooks, by id
    pc, want, known,    \* a sync: where it is, the wallets and the webhook id
                        \* it read
    again,              \* whether it has already recreated the webhook
    add, remove,        \* what is left to send
    short,      \* auxiliary: the list of addresses it got was cut short
    alone,      \* auxiliary: nothing else happened since the sync began
    lapped,     \* auxiliary: two syncs have overlapped
    syncs, changes, vanished, faults, cuts

syncVars   == <<pc, want, known, again, add, remove, short>>
budgetVars == <<syncs, changes, vanished, faults, cuts>>
vars       == <<provider, watched, row, hooks, syncVars, alone, lapped, budgetVars>>

-----------------------------------------------------------------------------
Ids  == 1 .. Len(hooks)
Hook == [live : BOOLEAN, addresses : SUBSET Wallets]

\* The types, and that what is about to be saved is a webhook's id.
TypeOK ==
    /\ provider \in {"alchemy", "helius"}
    /\ watched \subseteq Wallets
    /\ row \in Ids \cup {None}
    /\ hooks \in Seq(Hook)
    /\ pc \in [Syncers -> {"idle", "looking", "deleting", "forgetting",
                           "creating", "saving", "rereading", "listing",
                           "updating", "replacing", "synced"}]
    /\ want \in [Syncers -> SUBSET Wallets]
    /\ known \in [Syncers -> Ids \cup {None}]
    /\ \A h \in Syncers : pc[h] = "saving" => known[h] # None
    /\ again \in [Syncers -> BOOLEAN]
    /\ add \in [Syncers -> SUBSET Wallets] /\ remove \in [Syncers -> SUBSET Wallets]
    /\ short \in [Syncers -> BOOLEAN]
    /\ alone \in [Syncers -> BOOLEAN] /\ lapped \in BOOLEAN
    /\ syncs \in 0 .. MaxSyncs /\ changes \in 0 .. MaxChanges
    /\ vanished \in 0 .. MaxVanished /\ faults \in 0 .. MaxFaults
    /\ cuts \in 0 .. MaxFaults

\* The first batch of a sorted list of addresses.
FirstOf(S) == {w \in S : Cardinality({v \in S : v < w}) < Batch}

Goto(h, where) == pc' = [pc EXCEPT ![h] = where]

\* The sync is over: it returned, or it raised.
Return(h) ==
    /\ Goto(h, "idle")
    /\ want' = [want EXCEPT ![h] = {}]
    /\ known' = [known EXCEPT ![h] = None]
    /\ again' = [again EXCEPT ![h] = FALSE]
    /\ add' = [add EXCEPT ![h] = {}]
    /\ remove' = [remove EXCEPT ![h] = {}]
    /\ short' = [short EXCEPT ![h] = FALSE]

Init ==
    /\ provider \in {"alchemy", "helius"}
    /\ watched \in SUBSET Wallets
    /\ row = None
    /\ hooks = <<>>
    /\ pc = [h \in Syncers |-> "idle"]
    /\ want = [h \in Syncers |-> {}]
    /\ known = [h \in Syncers |-> None]
    /\ again = [h \in Syncers |-> FALSE]
    /\ add = [h \in Syncers |-> {}] /\ remove = [h \in Syncers |-> {}]
    /\ short = [h \in Syncers |-> FALSE]
    /\ alone = [h \in Syncers |-> FALSE] /\ lapped = FALSE
    /\ syncs = 0 /\ changes = 0 /\ vanished = 0 /\ faults = 0 /\ cuts = 0

-----------------------------------------------------------------------------
(* What both syncs do. *)

\* realtime_wallets, the first thing read.
Begin(h) ==
    LET others == \E k \in Syncers \ {h} : pc[k] # "idle" IN
    /\ pc[h] = "idle"
    /\ syncs < MaxSyncs
    /\ syncs' = syncs + 1
    /\ want' = [want EXCEPT ![h] = watched]
    /\ Goto(h, "looking")
    /\ alone' = [k \in Syncers |-> k = h /\ ~others]
    /\ lapped' = (lapped \/ others)
    /\ UNCHANGED <<provider, watched, row, hooks, known, again, add, remove,
                   short, changes, vanished, faults, cuts>>

\* get_webhook, and what follows from the two.
Look(h) ==
    /\ pc[h] = "looking"
    /\ known' = [known EXCEPT ![h] = row]
    /\ Goto(h, CASE want[h] = {} /\ row = None -> "synced"
                 [] want[h] = {} /\ row # None -> "deleting"
                 [] want[h] # {} /\ row = None -> "creating"
                 [] want[h] # {} /\ row # None ->
                       IF provider = "alchemy" THEN "listing" ELSE "replacing")
    /\ UNCHANGED <<provider, watched, row, hooks, want, again, add, remove,
                   short, alone, lapped, budgetVars>>

\* Mutant: the row is forgotten, the webhook stays.
Kept(i) == hooks

\* A webhook that is gone: its id answers 404, and its list is no more.
Gone == [live |-> FALSE, addresses |-> {}]

Deleted(i) == [hooks EXCEPT ![i] = Gone]

\* Nothing to watch: delete_webhook at the provider returned, or found nothing
\* (404), which ends the sync with an error.
DeleteHook(h) ==
    /\ pc[h] = "deleting"
    /\ \/ /\ hooks[known[h]].live
          /\ hooks' = Deleted(known[h])
          /\ Goto(h, "forgetting")
          /\ UNCHANGED <<want, known, again, add, remove, short>>
       \/ /\ ~hooks[known[h]].live
          /\ Return(h)
          /\ UNCHANGED hooks
    /\ UNCHANGED <<provider, watched, row, alone, lapped, budgetVars>>

\* db.delete_webhook: whatever the chain's row holds by now.
ForgetRow(h) ==
    /\ pc[h] = "forgetting"
    /\ row' = None
    /\ Goto(h, "synced")
    /\ UNCHANGED <<provider, watched, hooks, want, known, again, add, remove,
                   short, alone, lapped, budgetVars>>

\* Alchemy takes the first batch only when it creates a webhook.
Seed(h) == IF provider = "alchemy" THEN FirstOf(want[h]) ELSE want[h]

\* Mutant: an answer without an id is as good as any.
AcceptsAny(id) == TRUE

\* Both clients refuse a created webhook that comes without an id.
Accepts(id) == id # None

\* The create call returned: with an id, or, as a fault, without one.
CreateHook(h) ==
    /\ pc[h] = "creating"
    /\ hooks' = Append(hooks, [live |-> TRUE, addresses |-> Seed(h)])
    /\ \E id \in {Len(hooks) + 1, None} :
          /\ \/ id # None /\ UNCHANGED faults
             \/ id = None /\ faults + cuts < MaxFaults /\ faults' = faults + 1
          /\ \/ /\ Accepts(id)
                /\ known' = [known EXCEPT ![h] = id]
                /\ Goto(h, "saving")
                /\ UNCHANGED <<want, again, add, remove, short>>
             \/ ~Accepts(id) /\ Return(h)
    /\ UNCHANGED <<provider, watched, row, alone, lapped, syncs, changes, vanished,
                   cuts>>

\* save_webhook: INSERT, or UPDATE of the chain's row.
SaveRow(h) ==
    /\ pc[h] = "saving"
    /\ row' = known[h]
    /\ Goto(h, IF provider = "alchemy" THEN "rereading" ELSE "synced")
    /\ UNCHANGED <<provider, watched, hooks, want, known, again, add, remove,
                   short, alone, lapped, budgetVars>>

\* The answer, after mark_webhook_synced where Alchemy's list was reconciled.
Finish(h) ==
    /\ pc[h] = "synced"
    /\ Return(h)
    /\ UNCHANGED <<provider, watched, row, hooks, alone, lapped, budgetVars>>

-----------------------------------------------------------------------------
(* sync_realtime_chain *)

\* get_webhook after a save; the row may be gone again, and None has no id.
Reread(h) ==
    /\ pc[h] = "rereading"
    /\ \/ /\ row # None
          /\ known' = [known EXCEPT ![h] = row]
          /\ Goto(h, "listing")
          /\ UNCHANGED <<want, again, add, remove, short>>
       \/ row = None /\ Return(h)
    /\ UNCHANGED <<provider, watched, row, hooks, alone, lapped, budgetVars>>

\* list_addresses answers with the whole list, or with what came before a cursor
\* that stalled or an answer that was no JSON, which end it without an error.
Listed(hook) == SUBSET hook.addresses

\* It returned: what is there to send.  On a 404 the row is deleted and a webhook
\* created, but only once.
ListAddresses(h) ==
    LET hook == hooks[known[h]] IN
    /\ pc[h] = "listing"
    /\ \/ /\ hook.live
          /\ \E registered \in Listed(hook) :
                LET cut     == registered # hook.addresses
                    missing == want[h] \ registered
                    surplus == registered \ want[h] IN
                /\ \/ cut /\ faults + cuts < MaxFaults /\ cuts' = cuts + 1
                   \/ ~cut /\ UNCHANGED cuts
                /\ add' = [add EXCEPT ![h] = missing]
                /\ remove' = [remove EXCEPT ![h] = surplus]
                /\ short' = [short EXCEPT ![h] = cut]
                /\ Goto(h, IF missing \cup surplus = {} THEN "synced"
                                                        ELSE "updating")
          /\ UNCHANGED <<row, want, known, again>>
       \/ /\ ~hook.live /\ ~again[h]
          /\ row' = None
          /\ again' = [again EXCEPT ![h] = TRUE]
          /\ known' = [known EXCEPT ![h] = None]
          /\ Goto(h, "creating")
          /\ UNCHANGED <<want, add, remove, short, cuts>>
       \/ /\ ~hook.live /\ again[h]
          /\ Return(h)
          /\ UNCHANGED <<row, cuts>>
    /\ UNCHANGED <<provider, watched, hooks, alone, lapped, syncs, changes,
                   vanished, faults>>

\* Mutant: one batch is all.
OneBatch(S) == {}

\* The batches after the first of S.
Later(S) == S \ FirstOf(S)

\* One update-webhook-addresses call returned; the removals ride with the
\* first.  A webhook that is gone ends the sync with an error.
Update(h) ==
    LET i == known[h] IN
    /\ pc[h] = "updating"
    /\ \/ /\ hooks[i].live
          /\ hooks' = [hooks EXCEPT ![i].addresses =
                         (@ \cup FirstOf(add[h])) \ remove[h]]
          /\ add' = [add EXCEPT ![h] = Later(@)]
          /\ remove' = [remove EXCEPT ![h] = {}]
          /\ Goto(h, IF Later(add[h]) = {} THEN "synced" ELSE "updating")
          /\ UNCHANGED <<want, known, again, short>>
       \/ ~hooks[i].live /\ Return(h) /\ UNCHANGED hooks
    /\ UNCHANGED <<provider, watched, row, alone, lapped, budgetVars>>

-----------------------------------------------------------------------------
(* sync_solana *)

\* set_addresses returned: the whole list is replaced.
Replace(h) ==
    LET i == known[h] IN
    /\ pc[h] = "replacing"
    /\ \/ /\ hooks[i].live
          /\ hooks' = [hooks EXCEPT ![i].addresses = want[h]]
          /\ Goto(h, "saving")
          /\ UNCHANGED <<want, known, again, add, remove, short>>
       \/ ~hooks[i].live /\ Return(h) /\ UNCHANGED hooks
    /\ UNCHANGED <<provider, watched, row, alone, lapped, budgetVars>>

-----------------------------------------------------------------------------
(* Failures and the environment. *)

\* A call fails, or its answer is lost, or the process dies.
Abort(h) ==
    /\ pc[h] # "idle"
    /\ faults + cuts < MaxFaults
    /\ faults' = faults + 1
    /\ Return(h)
    /\ UNCHANGED <<provider, watched, row, hooks, alone, lapped, syncs, changes,
                   vanished, cuts>>

\* A watchlist is switched live or off, or a live one gains or loses wallets.
Change ==
    /\ changes < MaxChanges
    /\ changes' = changes + 1
    /\ watched' \in SUBSET Wallets \ {watched}
    /\ alone' = [h \in Syncers |-> FALSE]
    /\ UNCHANGED <<provider, row, hooks, syncVars, lapped, syncs, vanished,
                   faults, cuts>>

\* Somebody deletes a webhook on the provider's dashboard.
Vanish(i) ==
    /\ vanished < MaxVanished /\ hooks[i].live
    /\ vanished' = vanished + 1
    /\ hooks' = [hooks EXCEPT ![i] = Gone]
    /\ alone' = [h \in Syncers |-> FALSE]
    /\ UNCHANGED <<provider, watched, row, syncVars, lapped, syncs, changes,
                   faults, cuts>>

Next ==
    \/ \E h \in Syncers :
          \/ Begin(h) \/ Look(h) \/ DeleteHook(h) \/ ForgetRow(h)
          \/ CreateHook(h) \/ SaveRow(h) \/ Finish(h)
          \/ Reread(h) \/ ListAddresses(h) \/ Update(h) \/ Replace(h)
          \/ Abort(h)
    \/ Change \/ \E i \in Ids : Vanish(i)

Spec == Init /\ [][Next]_vars

-----------------------------------------------------------------------------
(* Properties. *)

\* The provider watches every wallet of a live watchlist, under the webhook the
\* table knows, and has none when there are no wallets.
Covered ==
    IF watched = {} THEN row = None
    ELSE row # None /\ hooks[row].live /\ watched \subseteq hooks[row].addresses

\* It watches nothing else.
Exact == Covered /\ (watched # {} => hooks[row].addresses \subseteq watched)

\* A sync that succeeds and that nothing interfered with leaves no wallet
\* unwatched, whatever half-finished, failed or overlapping syncs and vanished
\* webhooks it started from; and it leaves the provider exact, unless the list
\* of addresses it compared with was cut short.
SoloSyncExact ==
    \A h \in Syncers :
       pc[h] = "synced" /\ alone[h] => Covered /\ (~short[h] => Exact)

\* A live webhook that neither the table nor a sync under way knows.
Orphans == {i \in Ids : /\ hooks[i].live /\ row # i
                        /\ \A h \in Syncers : known[h] # i}

\* One webhook per network: as long as syncs do not overlap, a webhook is left
\* behind at the provider only by a failure, one for each.
OrphansNeedFault == ~lapped => Cardinality(Orphans) <= faults
=============================================================================
