-------------------------- MODULE ProviderSyncProofs --------------------------
(***************************************************************************)
(* Proofs about registering the watched wallets with a provider, for any   *)
(* number of syncs, wallets and webhooks and any batch size.               *)
(***************************************************************************)
EXTENDS ProviderSync, SequenceTheorems, FiniteSetTheorems, TLAPS

-----------------------------------------------------------------------------
(* The inductive invariant. *)

Busy(h) == pc[h] # "idle"

\* Where a sync works on the webhook it knows.
AtHook == {"deleting", "forgetting", "rereading", "listing", "updating",
           "replacing"}

\* Types, and which syncs know a webhook.
Typed ==
    /\ TypeOK
    /\ \A h \in Syncers :
          /\ pc[h] \in AtHook \cup {"saving"} => known[h] \in Ids
          /\ pc[h] = "idle" => known[h] = None

\* No other sync is under way.
Sole(h) == \A k \in Syncers \ {h} : pc[k] = "idle"

\* The row and the webhook in a sync's hands belong together.
Linked(h) ==
    /\ pc[h] \in {"looking", "creating"} => known[h] = None
    /\ pc[h] \in AtHook => known[h] = row
    /\ pc[h] = "forgetting" => ~hooks[known[h]].live
    /\ pc[h] = "creating" => row = None
    /\ pc[h] = "saving" => row \in {None, known[h]}
    /\ pc[h] = "synced" => \/ known[h] \in {None, row}
                           \/ ~hooks[known[h]].live

\* How far an undisturbed sync has brought the provider.
Healing(h) ==
    /\ want[h] = watched
    /\ pc[h] \in {"deleting", "forgetting"} => want[h] = {}
    /\ pc[h] \in {"creating", "saving", "rereading", "listing", "updating",
                  "replacing"} => want[h] # {}
    /\ pc[h] = "saving" =>
          /\ hooks[known[h]].live
          /\ provider # "alchemy" => hooks[known[h]].addresses = want[h]
    /\ pc[h] = "updating" =>
          /\ hooks[known[h]].live
          /\ add[h] \cap remove[h] = {}
          /\ want[h] \subseteq (hooks[known[h]].addresses \ remove[h]) \cup add[h]
          /\ ~short[h] => (hooks[known[h]].addresses \ remove[h]) \cup add[h]
                            \subseteq want[h]
    /\ pc[h] = "synced" => Covered /\ (~short[h] => Exact)

Undisturbed(h) ==
    /\ Busy(h) /\ (~lapped \/ alone[h]) => Sole(h) /\ Linked(h)
    /\ Busy(h) /\ alone[h] => Healing(h)

AllUndisturbed == \A h \in Syncers : Undisturbed(h)

IInv ==
    /\ Typed
    /\ AllUndisturbed
    /\ OrphansNeedFault

Step(h) ==
    \/ Begin(h) \/ Look(h) \/ DeleteHook(h) \/ ForgetRow(h)
    \/ CreateHook(h) \/ SaveRow(h) \/ Finish(h)
    \/ Reread(h) \/ ListAddresses(h) \/ Update(h) \/ Replace(h)
    \/ Abort(h)

-----------------------------------------------------------------------------
(* Types. *)

LEMMA HooksTyped ==
    ASSUME Typed
    PROVE  /\ hooks \in Seq(Hook) /\ Len(hooks) \in Nat
           /\ DOMAIN hooks = Ids /\ None \notin Ids
           /\ \A i \in Ids : /\ hooks[i] \in Hook /\ i \in Int
                             /\ hooks[i].live \in BOOLEAN
                             /\ hooks[i].addresses \subseteq Wallets
<1>1. hooks \in Seq(Hook)
  BY DEF Typed, TypeOK
<1>2. Len(hooks) \in Nat /\ DOMAIN hooks = 1 .. Len(hooks)
  BY <1>1, LenProperties
<1>3. \A i \in Ids : hooks[i] \in Hook /\ i \in Int
  BY <1>1, <1>2, ElementOfSeq DEF Ids
<1>4. \A i \in Ids : /\ hooks[i].live \in BOOLEAN
                     /\ hooks[i].addresses \subseteq Wallets
  BY <1>3 DEF Hook
<1>5. None \notin Ids
  BY <1>2, NoneAssumption DEF Ids
<1> QED
  BY <1>1, <1>2, <1>3, <1>4, <1>5 DEF Ids

\* Steps change a webhook or append one; none is ever removed.
LEMMA HookChanged ==
    ASSUME Typed, NEW i \in Ids, NEW hook \in Hook,
           hooks' = [hooks EXCEPT ![i] = hook]
    PROVE  /\ hooks' \in Seq(Hook) /\ Ids' = Ids
           /\ \A j \in Ids : hooks'[j] = IF j = i THEN hook ELSE hooks[j]
<1>1. hooks \in Seq(Hook) /\ i \in 1 .. Len(hooks)
  BY HooksTyped DEF Ids
<1>2. hooks' \in Seq(Hook) /\ Len(hooks') = Len(hooks)
  BY <1>1, ExceptSeq
<1> QED
  BY <1>1, <1>2 DEF Ids

LEMMA HookAppended ==
    ASSUME Typed, NEW hook \in Hook, hooks' = Append(hooks, hook)
    PROVE  /\ hooks' \in Seq(Hook) /\ Ids' = Ids \cup {Len(hooks) + 1}
           /\ Len(hooks) + 1 \notin Ids
           /\ hooks'[Len(hooks) + 1] = hook
           /\ \A j \in Ids : hooks'[j] = hooks[j]
<1>1. hooks \in Seq(Hook)
  BY HooksTyped
<1> QED
  BY <1>1 DEF Ids

\* What a step does to the table, the provider and the local variables.
LEMMA StepChanges ==
    ASSUME Typed, NEW h \in Syncers, Step(h)
    PROVE  /\ provider' = provider /\ watched' = watched
           /\ UNCHANGED <<changes, vanished>>
           /\ \E where : Goto(h, where)
           /\ row' \in {row, None, known[h]}
           /\ \/ Begin(h) \/ UNCHANGED <<alone, lapped, syncs>>
           /\ \/ want' = want
              \/ \E w \in SUBSET Wallets : want' = [want EXCEPT ![h] = w]
           /\ \/ again' = again
              \/ \E b \in BOOLEAN : again' = [again EXCEPT ![h] = b]
<1>1. /\ provider' = provider /\ watched' = watched
      /\ UNCHANGED <<changes, vanished>>
  BY DEF Step, Begin, Look, DeleteHook, ForgetRow, CreateHook, SaveRow, Finish,
         Reread, ListAddresses, Listed, Update, Replace, Abort, budgetVars
<1>2. \E where : Goto(h, where)
  BY DEF Step, Begin, Look, DeleteHook, ForgetRow, CreateHook, SaveRow, Finish,
         Reread, ListAddresses, Listed, Update, Replace, Abort, Return
<1>3. row' \in {row, None, known[h]}
  BY DEF Step, Begin, Look, DeleteHook, ForgetRow, CreateHook, SaveRow, Finish,
         Reread, ListAddresses, Listed, Update, Replace, Abort
<1>4. Begin(h) \/ UNCHANGED <<alone, lapped, syncs>>
  BY DEF Step, Look, DeleteHook, ForgetRow, CreateHook, SaveRow, Finish,
         Reread, ListAddresses, Listed, Update, Replace, Abort, budgetVars
<1>5. \/ want' = want
      \/ \E w \in SUBSET Wallets : want' = [want EXCEPT ![h] = w]
  <2>1. \/ want' = want \/ want' = [want EXCEPT ![h] = {}]
        \/ want' = [want EXCEPT ![h] = watched]
    BY DEF Step, Begin, Look, DeleteHook, ForgetRow, CreateHook, SaveRow,
           Finish, Reread, ListAddresses, Listed, Update, Replace, Abort, Return
  <2>2. watched \subseteq Wallets
    BY DEF Typed, TypeOK
  <2> QED
    BY <2>1, <2>2
<1>6. \/ again' = again
      \/ \E b \in BOOLEAN : again' = [again EXCEPT ![h] = b]
  BY DEF Step, Begin, Look, DeleteHook, ForgetRow, CreateHook, SaveRow,
         Finish, Reread, ListAddresses, Listed, Update, Replace, Abort, Return
<1> QED
  BY <1>1, <1>2, <1>3, <1>4, <1>5, <1>6

LEMMA FirstWithin == ASSUME NEW S PROVE FirstOf(S) \subseteq S
BY DEF FirstOf

\* A created webhook is the newest.
LEMMA CreateAppends ==
    ASSUME Typed, NEW h \in Syncers, CreateHook(h)
    PROVE  /\ [live |-> TRUE, addresses |-> Seed(h)] \in Hook
           /\ hooks' = Append(hooks, [live |-> TRUE, addresses |-> Seed(h)])
<1>1. hooks' = Append(hooks, [live |-> TRUE, addresses |-> Seed(h)])
  BY DEF CreateHook
<1>2. want[h] \subseteq Wallets
  BY DEF Typed, TypeOK
<1>3. Seed(h) \subseteq Wallets
  BY <1>2, FirstWithin DEF Seed
<1> QED
  BY <1>1, <1>3 DEF Hook

\* What a step does to the provider's webhooks.
LEMMA StepHooks ==
    ASSUME Typed, NEW h \in Syncers, Step(h)
    PROVE  \/ hooks' = hooks
           \/ CreateHook(h) /\ \E hook \in Hook : hooks' = Append(hooks, hook)
           \/ /\ known[h] \in Ids
              /\ \E hook \in Hook :
                    /\ hooks' = [hooks EXCEPT ![known[h]] = hook]
                    /\ hook.live => hooks[known[h]].live
<1>1. /\ want[h] \subseteq Wallets /\ add[h] \subseteq Wallets
      /\ remove[h] \subseteq Wallets
      /\ pc[h] \in AtHook \cup {"saving"} => known[h] \in Ids
  BY DEF Typed, TypeOK
<1>2. CASE CreateHook(h)
  BY <1>2, CreateAppends
<1>3. CASE DeleteHook(h)
  <2>1. known[h] \in Ids
    BY <1>1, <1>3 DEF DeleteHook, AtHook
  <2>2. hooks' = hooks \/ hooks' = [hooks EXCEPT ![known[h]] = Gone]
    BY <1>3 DEF DeleteHook, Deleted
  <2>3. Gone \in Hook /\ ~Gone.live
    BY DEF Hook, Gone
  <2> QED
    BY <2>1, <2>2, <2>3
<1>4. CASE Update(h)
  <2>1. known[h] \in Ids
    BY <1>1, <1>4 DEF Update, AtHook
  <2>2. hooks[known[h]] \in Hook
    BY <2>1, HooksTyped
  <2> DEFINE list == (hooks[known[h]].addresses \cup FirstOf(add[h])) \ remove[h]
  <2>3. hooks' = hooks \/ hooks' = [hooks EXCEPT ![known[h]] =
                                      [hooks[known[h]] EXCEPT !.addresses = list]]
    BY <1>4 DEF Update
  <2>4. list \subseteq Wallets
    BY <1>1, <2>2, FirstWithin DEF Hook
  <2> HIDE DEF list
  <2>5. [hooks[known[h]] EXCEPT !.addresses = list] \in Hook
        /\ [hooks[known[h]] EXCEPT !.addresses = list].live = hooks[known[h]].live
    BY <2>2, <2>4 DEF Hook
  <2> QED
    BY <2>1, <2>3, <2>5
<1>5. CASE Replace(h)
  <2>1. known[h] \in Ids
    BY <1>1, <1>5 DEF Replace, AtHook
  <2>2. hooks[known[h]] \in Hook
    BY <2>1, HooksTyped
  <2>3. hooks' = hooks \/ hooks' = [hooks EXCEPT ![known[h]] =
                                      [hooks[known[h]] EXCEPT !.addresses = want[h]]]
    BY <1>5 DEF Replace
  <2>4. [hooks[known[h]] EXCEPT !.addresses = want[h]] \in Hook
        /\ [hooks[known[h]] EXCEPT !.addresses = want[h]].live = hooks[known[h]].live
    BY <1>1, <2>2 DEF Hook
  <2> QED
    BY <2>1, <2>3, <2>4
<1>6. CASE Begin(h) \/ Look(h) \/ ForgetRow(h) \/ SaveRow(h) \/ Finish(h)
           \/ Reread(h) \/ ListAddresses(h) \/ Abort(h)
  BY <1>6 DEF Begin, Look, ForgetRow, SaveRow, Finish, Reread, ListAddresses, Listed,
              Abort
<1> QED
  BY <1>2, <1>3, <1>4, <1>5, <1>6 DEF Step

\* Webhooks are never removed, and none comes back to life.
LEMMA HooksGrow ==
    ASSUME Typed, NEW h \in Syncers, Step(h)
    PROVE  /\ hooks' \in Seq(Hook) /\ Ids \subseteq Ids'
           /\ ~CreateHook(h) => Ids' = Ids
           /\ \A i \in Ids : hooks'[i].live => hooks[i].live
           /\ \A i \in Ids : i # known[h] => hooks'[i] = hooks[i]
<1>1. CASE hooks' = hooks
  <2>1. Ids' = Ids
    BY <1>1 DEF Ids
  <2> QED
    BY <1>1, <2>1, HooksTyped
<1>2. CASE CreateHook(h) /\ \E hook \in Hook : hooks' = Append(hooks, hook)
  BY <1>2, HookAppended
<1>3. CASE /\ known[h] \in Ids
           /\ \E hook \in Hook : /\ hooks' = [hooks EXCEPT ![known[h]] = hook]
                                 /\ hook.live => hooks[known[h]].live
  <2>1. PICK hook \in Hook : /\ hooks' = [hooks EXCEPT ![known[h]] = hook]
                             /\ hook.live => hooks[known[h]].live
    BY <1>3
  <2>2. /\ hooks' \in Seq(Hook) /\ Ids' = Ids
        /\ \A j \in Ids : hooks'[j] = IF j = known[h] THEN hook ELSE hooks[j]
    BY <1>3, <2>1, HookChanged
  <2> QED
    BY <2>1, <2>2
<1> QED
  BY <1>1, <1>2, <1>3, StepHooks

\* What a step makes of what is left to send.
LEMMA StepLists ==
    ASSUME Typed, NEW h \in Syncers, Step(h)
    PROVE  /\ add' \in [Syncers -> SUBSET Wallets]
           /\ remove' \in [Syncers -> SUBSET Wallets]
           /\ short' \in [Syncers -> BOOLEAN]
<1>1. /\ want[h] \subseteq Wallets
      /\ add \in [Syncers -> SUBSET Wallets]
      /\ remove \in [Syncers -> SUBSET Wallets]
      /\ pc[h] \in AtHook \cup {"saving"} => known[h] \in Ids
  BY DEF Typed, TypeOK
<1>2. ASSUME ListAddresses(h)
      PROVE  /\ add' \in [Syncers -> SUBSET Wallets]
             /\ remove' \in [Syncers -> SUBSET Wallets]
  <2>1. hooks[known[h]].addresses \subseteq Wallets
    BY <1>1, <1>2, HooksTyped DEF ListAddresses, Listed, AtHook
  <2>2. \/ add' = add \/ add' = [add EXCEPT ![h] = {}]
        \/ \E list \in SUBSET hooks[known[h]].addresses :
              add' = [add EXCEPT ![h] = want[h] \ list]
    BY <1>2 DEF ListAddresses, Listed, Return
  <2>3. \/ remove' = remove \/ remove' = [remove EXCEPT ![h] = {}]
        \/ \E list \in SUBSET hooks[known[h]].addresses :
              remove' = [remove EXCEPT ![h] = list \ want[h]]
    BY <1>2 DEF ListAddresses, Listed, Return
  <2> QED
    BY <1>1, <2>1, <2>2, <2>3
<1>3. ASSUME ~ListAddresses(h)
      PROVE  /\ add' \in [Syncers -> SUBSET Wallets]
             /\ remove' \in [Syncers -> SUBSET Wallets]
  <2>1. \/ add' = add \/ add' = [add EXCEPT ![h] = {}]
        \/ add' = [add EXCEPT ![h] = Later(add[h])]
    BY <1>3 DEF Step, Begin, Look, DeleteHook, ForgetRow, CreateHook, SaveRow,
                Finish, Reread, Update, Replace, Abort, Return
  <2>2. remove' = remove \/ remove' = [remove EXCEPT ![h] = {}]
    BY <1>3 DEF Step, Begin, Look, DeleteHook, ForgetRow, CreateHook, SaveRow,
                Finish, Reread, Update, Replace, Abort, Return
  <2>3. Later(add[h]) \subseteq Wallets
    BY <1>1 DEF Later
  <2> QED
    BY <1>1, <2>1, <2>2, <2>3
<1>4. /\ add' \in [Syncers -> SUBSET Wallets]
      /\ remove' \in [Syncers -> SUBSET Wallets]
  BY <1>2, <1>3
<1>5. \/ short' = short
      \/ \E b \in BOOLEAN : short' = [short EXCEPT ![h] = b]
  BY DEF Step, Begin, Look, DeleteHook, ForgetRow, CreateHook, SaveRow,
         Finish, Reread, ListAddresses, Listed, Update, Replace, Abort, Return
<1>6. short \in [Syncers -> BOOLEAN]
  BY DEF Typed, TypeOK
<1> QED
  BY <1>4, <1>5, <1>6

\* Where a step leaves its sync, and which webhook the sync then knows.
LEMMA StepKnows ==
    ASSUME Typed, NEW h \in Syncers, Step(h)
    PROVE  /\ pc'[h] \in {"idle", "looking", "deleting", "forgetting",
                          "creating", "saving", "rereading", "listing",
                          "updating", "replacing", "synced"}
           /\ \/ known' = known
              \/ \E id \in Ids' \cup {None} : known' = [known EXCEPT ![h] = id]
           /\ pc'[h] \in AtHook \cup {"saving"} => known'[h] \in Ids'
           /\ pc'[h] = "idle" => known'[h] = None
<1>1. /\ known \in [Syncers -> Ids \cup {None}] /\ row \in Ids \cup {None}
      /\ pc[h] \in AtHook \cup {"saving"} => known[h] \in Ids
      /\ h \in DOMAIN pc /\ Ids \subseteq Ids'
  BY HooksGrow DEF Typed, TypeOK
<1>2. CASE CreateHook(h)
  <2>1. Len(hooks) + 1 \in Ids'
    BY <1>2, CreateAppends, HookAppended
  <2>2. \/ pc'[h] = "idle" /\ known' = [known EXCEPT ![h] = None]
        \/ /\ pc'[h] = "saving"
           /\ known' = [known EXCEPT ![h] = Len(hooks) + 1]
    BY <1>1, <1>2 DEF CreateHook, Return, Goto, Accepts
  <2> QED
    BY <1>1, <2>1, <2>2 DEF AtHook
<1>3. CASE Begin(h) \/ Finish(h) \/ Abort(h) \/ SaveRow(h) \/ ForgetRow(h)
  <2>1. \/ pc'[h] = "idle" /\ known' = [known EXCEPT ![h] = None]
        \/ pc'[h] \in {"looking", "synced"} /\ known' = known
        \/ pc[h] = "saving" /\ pc'[h] = "rereading" /\ known' = known
    BY <1>1, <1>3 DEF Begin, Finish, Abort, SaveRow, ForgetRow, Return, Goto
  <2> QED
    BY <1>1, <2>1 DEF AtHook
<1>4. CASE Look(h)
  <2>1. /\ known' = [known EXCEPT ![h] = row]
        /\ \/ pc'[h] \in {"synced", "creating"}
           \/ pc'[h] \in {"deleting", "listing", "replacing"} /\ row # None
    <3> DEFINE where == CASE want[h] = {} /\ row = None -> "synced"
                 [] want[h] = {} /\ row # None -> "deleting"
                 [] want[h] # {} /\ row = None -> "creating"
                 [] want[h] # {} /\ row # None ->
                       IF provider = "alchemy" THEN "listing" ELSE "replacing"
    <3>1. pc'[h] = where
      BY <1>1, <1>4 DEF Look, Goto
    <3>2. \/ where \in {"synced", "creating"}
          \/ where \in {"deleting", "listing", "replacing"} /\ row # None
      OBVIOUS
    <3> QED
      BY <1>4, <3>1, <3>2 DEF Look
  <2> QED
    BY <1>1, <2>1 DEF AtHook
<1>5. CASE Reread(h)
  <2>1. \/ pc'[h] = "idle" /\ known' = [known EXCEPT ![h] = None]
        \/ pc'[h] = "listing" /\ known' = [known EXCEPT ![h] = row] /\ row # None
    BY <1>1, <1>5 DEF Reread, Return, Goto
  <2> QED
    BY <1>1, <2>1 DEF AtHook
<1>6. CASE DeleteHook(h) \/ ListAddresses(h) \/ Update(h) \/ Replace(h)
  <2>1. known[h] \in Ids
    BY <1>1, <1>6 DEF DeleteHook, ListAddresses, Listed, Update, Replace, AtHook
  <2>2. \/ pc'[h] \in {"idle", "creating"} /\ known' = [known EXCEPT ![h] = None]
        \/ pc'[h] \in {"forgetting", "synced", "updating", "saving"}
             /\ known' = known
    BY <1>1, <1>6 DEF DeleteHook, ListAddresses, Listed, Update, Replace, Return, Goto
  <2> QED
    BY <1>1, <2>1, <2>2 DEF AtHook
<1> QED
  BY <1>2, <1>3, <1>4, <1>5, <1>6 DEF Step

\* What is counted stays within its bound.
LEMMA StepBudget ==
    ASSUME Typed, NEW h \in Syncers, Step(h)
    PROVE  /\ syncs' \in 0 .. MaxSyncs /\ faults' \in 0 .. MaxFaults
           /\ changes' \in 0 .. MaxChanges /\ vanished' \in 0 .. MaxVanished
           /\ cuts' \in 0 .. MaxFaults
           /\ alone' \in [Syncers -> BOOLEAN] /\ lapped' \in BOOLEAN
           /\ faults' = faults \/ faults' = faults + 1
<1>1. /\ syncs \in 0 .. MaxSyncs /\ faults \in 0 .. MaxFaults
      /\ cuts \in 0 .. MaxFaults
      /\ changes \in 0 .. MaxChanges /\ vanished \in 0 .. MaxVanished
  BY DEF Typed, TypeOK
<1>2. \/ faults' = faults
      \/ faults + cuts < MaxFaults /\ faults' = faults + 1
  BY DEF Step, Begin, Look, DeleteHook, ForgetRow, CreateHook, SaveRow, Finish,
         Reread, ListAddresses, Listed, Update, Replace, Abort, budgetVars
<1>7. \/ cuts' = cuts
      \/ faults + cuts < MaxFaults /\ cuts' = cuts + 1
  BY DEF Step, Begin, Look, DeleteHook, ForgetRow, CreateHook, SaveRow, Finish,
         Reread, ListAddresses, Listed, Update, Replace, Abort, budgetVars
<1>3. faults' \in 0 .. MaxFaults /\ cuts' \in 0 .. MaxFaults
  BY <1>1, <1>2, <1>7, BudgetAssumption
<1>4. changes' = changes /\ vanished' = vanished
  BY StepChanges
<1>5. CASE Begin(h)
  <2>1. syncs' \in 0 .. MaxSyncs
    BY <1>1, <1>5, BudgetAssumption DEF Begin
  <2>2. alone' \in [Syncers -> BOOLEAN]
    <3>1. \A k \in Syncers :
             (k = h /\ ~ \E j \in Syncers \ {h} : pc[j] # "idle") \in BOOLEAN
      OBVIOUS
    <3> QED
      BY <1>5, <3>1 DEF Begin
  <2>3. lapped' \in BOOLEAN
    BY <1>5 DEF Begin
  <2> QED
    BY <1>1, <1>2, <1>3, <1>4, <2>1, <2>2, <2>3
<1>6. CASE ~Begin(h)
  <2>1. UNCHANGED <<alone, lapped, syncs>>
    BY <1>6, StepChanges
  <2>2. alone \in [Syncers -> BOOLEAN] /\ lapped \in BOOLEAN
    BY DEF Typed, TypeOK
  <2> QED
    BY <1>1, <1>2, <1>3, <1>4, <2>1, <2>2
<1> QED
  BY <1>5, <1>6

LEMMA TypedStep ==
    ASSUME Typed, NEW h \in Syncers, Step(h)
    PROVE  Typed'
<1>1. /\ hooks' \in Seq(Hook) /\ Ids \subseteq Ids'
  BY HooksGrow
<1>2. provider' \in {"alchemy", "helius"} /\ watched' \subseteq Wallets
  BY StepChanges DEF Typed, TypeOK
<1>3. /\ row' \in Ids' \cup {None}
      /\ known' \in [Syncers -> Ids' \cup {None}]
  <2>1. /\ row \in Ids \cup {None}
        /\ known \in [Syncers -> Ids \cup {None}]
    BY DEF Typed, TypeOK
  <2>2. row' \in {row, None, known[h]}
    BY StepChanges
  <2>3. \/ known' = known
        \/ \E id \in Ids' \cup {None} : known' = [known EXCEPT ![h] = id]
    BY StepKnows
  <2>4. known \in [Syncers -> Ids' \cup {None}]
    BY <1>1, <2>1
  <2> HIDE DEF Typed
  <2> QED
    BY <1>1, <2>1, <2>2, <2>3, <2>4
<1>4. \A k \in Syncers : k # h => pc'[k] = pc[k] /\ known'[k] = known[k]
  <2>1. \E where : pc' = [pc EXCEPT ![h] = where]
    BY StepChanges DEF Goto
  <2>2. \/ known' = known
        \/ \E id \in Ids' \cup {None} : known' = [known EXCEPT ![h] = id]
    BY StepKnows
  <2>3. /\ DOMAIN pc = Syncers /\ DOMAIN known = Syncers
    BY DEF Typed, TypeOK
  <2> QED
    BY <2>1, <2>2, <2>3
<1>5. pc' \in [Syncers -> {"idle", "looking", "deleting", "forgetting",
                           "creating", "saving", "rereading", "listing",
                           "updating", "replacing", "synced"}]
  <2>1. pc \in [Syncers -> {"idle", "looking", "deleting", "forgetting",
                            "creating", "saving", "rereading", "listing",
                            "updating", "replacing", "synced"}]
    BY DEF Typed, TypeOK
  <2>2. PICK where : pc' = [pc EXCEPT ![h] = where]
    BY StepChanges DEF Goto
  <2>3. where \in {"idle", "looking", "deleting", "forgetting", "creating",
                   "saving", "rereading", "listing", "updating", "replacing",
                   "synced"}
    BY <2>1, <2>2, StepKnows
  <2> QED
    BY <2>1, <2>2, <2>3
<1>6. /\ want' \in [Syncers -> SUBSET Wallets]
      /\ again' \in [Syncers -> BOOLEAN]
  BY StepChanges DEF Typed, TypeOK
<1>7. \A k \in Syncers :
         /\ pc'[k] \in AtHook \cup {"saving"} => known'[k] \in Ids'
         /\ pc'[k] = "idle" => known'[k] = None
  <2> SUFFICES ASSUME NEW k \in Syncers
               PROVE  /\ pc'[k] \in AtHook \cup {"saving"} => known'[k] \in Ids'
                      /\ pc'[k] = "idle" => known'[k] = None
    OBVIOUS
  <2>1. CASE k = h
    BY <2>1, StepKnows
  <2>2. CASE k # h
    BY <2>2, <1>1, <1>4 DEF Typed
  <2> QED
    BY <2>1, <2>2
<1>8. \A k \in Syncers : pc'[k] = "saving" => known'[k] # None
  <2>1. None \notin Ids'
    <3>1. Len(hooks') \in Nat
      BY <1>1, LenProperties
    <3> QED
      BY <3>1, NoneAssumption DEF Ids
  <2> QED
    BY <1>7, <2>1
<1>9. TypeOK'
  BY <1>1, <1>2, <1>3, <1>5, <1>6, <1>8, StepLists, StepBudget DEF TypeOK
<1> QED
  BY <1>7, <1>9 DEF Typed

LEMMA TypedInit == Init => Typed
<1> SUFFICES ASSUME Init PROVE Typed
  OBVIOUS
<1>1. hooks \in Seq(Hook) /\ row \in Ids \cup {None}
  BY EmptySeq DEF Init
<1>2. known \in [Syncers -> Ids \cup {None}]
  BY DEF Init
<1>3. TypeOK
  <2>1. /\ 0 \in 0 .. MaxSyncs /\ 0 \in 0 .. MaxChanges
        /\ 0 \in 0 .. MaxVanished /\ 0 \in 0 .. MaxFaults
    BY BudgetAssumption
  <2>2. /\ syncs \in 0 .. MaxSyncs /\ changes \in 0 .. MaxChanges
        /\ vanished \in 0 .. MaxVanished /\ faults \in 0 .. MaxFaults
        /\ cuts \in 0 .. MaxFaults
    BY <2>1 DEF Init
  <2>3. /\ pc = [h \in Syncers |-> "idle"] /\ want = [h \in Syncers |-> {}]
        /\ again = [h \in Syncers |-> FALSE]
        /\ alone = [h \in Syncers |-> FALSE] /\ lapped = FALSE
        /\ add = [h \in Syncers |-> {}] /\ remove = [h \in Syncers |-> {}]
        /\ short = [h \in Syncers |-> FALSE]
        /\ provider \in {"alchemy", "helius"} /\ watched \subseteq Wallets
    BY DEF Init
  <2> QED
    BY <1>1, <1>2, <2>2, <2>3 DEF TypeOK
<1>4. \A h \in Syncers : pc[h] = "idle" /\ known[h] = None
  BY DEF Init
<1> QED
  BY <1>3, <1>4 DEF Typed, AtHook

LEMMA ChangeTyped ==
    ASSUME Typed, Change
    PROVE  Typed'
<1>1. Ids' = Ids
  BY DEF Change, Ids
<1>2. changes' \in 0 .. MaxChanges
  BY BudgetAssumption DEF Change, Typed, TypeOK
<1> QED
  BY <1>1, <1>2 DEF Change, Typed, TypeOK, AtHook, syncVars

\* A webhook removed at the provider.
LEMMA VanishHooks ==
    ASSUME Typed, NEW i \in Ids, Vanish(i)
    PROVE  /\ hooks' \in Seq(Hook) /\ Ids' = Ids
           /\ ~hooks'[i].live
           /\ \A j \in Ids : j # i => hooks'[j] = hooks[j]
<1>1. Gone \in Hook /\ ~Gone.live
  BY DEF Hook, Gone
<1>2. hooks' = [hooks EXCEPT ![i] = Gone]
  BY DEF Vanish
<1>3. /\ hooks' \in Seq(Hook) /\ Ids' = Ids
      /\ \A j \in Ids : hooks'[j] = IF j = i THEN Gone ELSE hooks[j]
  BY <1>1, <1>2, HookChanged
<1> QED
  BY <1>1, <1>3

LEMMA VanishTyped ==
    ASSUME Typed, NEW i \in Ids, Vanish(i)
    PROVE  Typed'
<1>1. /\ hooks' \in Seq(Hook) /\ Ids' = Ids
  BY VanishHooks
<1>2. vanished' \in 0 .. MaxVanished
  BY BudgetAssumption DEF Vanish, Typed, TypeOK
<1>3. /\ UNCHANGED <<provider, watched, row, pc, want, known, again, add,
                     remove, short, lapped, syncs, changes, faults, cuts>>
      /\ alone' \in [Syncers -> BOOLEAN]
  BY DEF Vanish, syncVars
<1> QED
  BY <1>1, <1>2, <1>3 DEF Typed, TypeOK, AtHook

LEMMA TypedQuiet ==
    ASSUME Typed, UNCHANGED vars
    PROVE  Typed'
<1>1. Ids' = Ids
  BY DEF vars, Ids
<1> QED
  BY <1>1 DEF vars, Typed, TypeOK, AtHook, syncVars, budgetVars

LEMMA TypedNext ==
    ASSUME Typed, [Next]_vars
    PROVE  Typed'
<1>1. CASE \E h \in Syncers : Step(h)
  BY <1>1, TypedStep
<1>2. CASE Change
  BY <1>2, ChangeTyped
<1>3. CASE \E i \in Ids : Vanish(i)
  BY <1>3, VanishTyped
<1>4. CASE UNCHANGED vars
  BY <1>4, TypedQuiet
<1> QED
  BY <1>1, <1>2, <1>3, <1>4 DEF Next, Step

\* Every variable keeps its type, a sync works only on webhooks that exist, and
\* what save_webhook is about to write is a webhook's id.
THEOREM TypeCorrect == Spec => []TypeOK
<1>1. Typed => TypeOK
  BY DEF Typed
<1> QED
  BY <1>1, TypedInit, TypedNext, PTL DEF Spec

-----------------------------------------------------------------------------
(* A sync that no other overlaps. *)

\* What a step does to the webhook its sync knows.
LEMMA KnownHook ==
    ASSUME Typed, NEW h \in Syncers, pc[h] \in AtHook \cup {"saving"}
    PROVE  /\ known[h] \in Ids /\ known[h] # None
           /\ hooks[known[h]] \in Hook
           /\ DeleteHook(h) => ~hooks'[known[h]].live
           /\ Update(h) /\ pc'[h] # "idle" =>
                 /\ hooks[known[h]].live
                 /\ hooks'[known[h]].live
                 /\ hooks'[known[h]].addresses =
                       (hooks[known[h]].addresses \cup FirstOf(add[h]))
                         \ remove[h]
           /\ Replace(h) /\ pc'[h] # "idle" =>
                 /\ hooks'[known[h]].live
                 /\ hooks'[known[h]].addresses = want[h]
<1>1. known[h] \in Ids /\ known[h] # None /\ hooks[known[h]] \in Hook
      /\ known[h] \in DOMAIN hooks
  BY HooksTyped DEF Typed
<1>2. h \in DOMAIN pc
  BY DEF Typed, TypeOK
<1>3. ASSUME DeleteHook(h)
      PROVE  ~hooks'[known[h]].live
  <2>1. \/ hooks' = [hooks EXCEPT ![known[h]] = Gone]
        \/ hooks' = hooks /\ ~hooks[known[h]].live
    BY <1>3 DEF DeleteHook, Deleted
  <2>2. ~Gone.live
    BY DEF Gone
  <2> QED
    BY <1>1, <2>1, <2>2
<1>4. ASSUME Update(h), pc'[h] # "idle"
      PROVE  /\ hooks[known[h]].live
             /\ hooks'[known[h]].live
             /\ hooks'[known[h]].addresses =
                   (hooks[known[h]].addresses \cup FirstOf(add[h])) \ remove[h]
  <2> DEFINE list == (hooks[known[h]].addresses \cup FirstOf(add[h])) \ remove[h]
  <2>1. /\ hooks[known[h]].live
        /\ hooks' = [hooks EXCEPT ![known[h]] =
                       [hooks[known[h]] EXCEPT !.addresses = list]]
    BY <1>2, <1>4 DEF Update, Return, Goto
  <2> HIDE DEF list
  <2>2. /\ [hooks[known[h]] EXCEPT !.addresses = list].live
             = hooks[known[h]].live
        /\ [hooks[known[h]] EXCEPT !.addresses = list].addresses = list
    BY <1>1 DEF Hook
  <2>3. /\ hooks'[known[h]].live /\ hooks'[known[h]].addresses = list
    BY <1>1, <2>1, <2>2
  <2> QED
    BY <2>1, <2>3 DEF list
<1>5. ASSUME Replace(h), pc'[h] # "idle"
      PROVE  /\ hooks'[known[h]].live
             /\ hooks'[known[h]].addresses = want[h]
  <2>1. /\ hooks[known[h]].live
        /\ hooks' = [hooks EXCEPT ![known[h]] =
                       [hooks[known[h]] EXCEPT !.addresses = want[h]]]
    BY <1>2, <1>5 DEF Replace, Return, Goto
  <2>2. /\ [hooks[known[h]] EXCEPT !.addresses = want[h]].live
             = hooks[known[h]].live
        /\ [hooks[known[h]] EXCEPT !.addresses = want[h]].addresses = want[h]
    BY <1>1 DEF Hook
  <2> QED
    BY <1>1, <2>1, <2>2
<1> QED
  BY <1>1, <1>3, <1>4, <1>5

\* Where Look leaves a sync.
LEMMA LookGoes ==
    ASSUME Typed, NEW h \in Syncers, Look(h)
    PROVE  /\ known'[h] = row /\ row' = row
           /\ \/ pc'[h] = "synced" /\ want[h] = {} /\ row = None
              \/ pc'[h] = "deleting" /\ want[h] = {} /\ row # None
              \/ pc'[h] = "creating" /\ want[h] # {} /\ row = None
              \/ pc'[h] \in {"listing", "replacing"} /\ want[h] # {} /\ row # None
<1>1. h \in DOMAIN pc /\ h \in DOMAIN known
  BY DEF Typed, TypeOK
<1> DEFINE where == CASE want[h] = {} /\ row = None -> "synced"
             [] want[h] = {} /\ row # None -> "deleting"
             [] want[h] # {} /\ row = None -> "creating"
             [] want[h] # {} /\ row # None ->
                   IF provider = "alchemy" THEN "listing" ELSE "replacing"
<1>2. pc'[h] = where
  BY <1>1 DEF Look, Goto
<1>3. \/ where = "synced" /\ want[h] = {} /\ row = None
      \/ where = "deleting" /\ want[h] = {} /\ row # None
      \/ where = "creating" /\ want[h] # {} /\ row = None
      \/ where \in {"listing", "replacing"} /\ want[h] # {} /\ row # None
  OBVIOUS
<1> HIDE DEF where
<1> QED
  BY <1>1, <1>2, <1>3 DEF Look

\* A created webhook is in its sync's hands, unless the answer had no id.
LEMMA CreateGoes ==
    ASSUME Typed, NEW h \in Syncers, CreateHook(h), pc'[h] # "idle"
    PROVE  /\ pc'[h] = "saving" /\ row' = row
           /\ known'[h] = Len(hooks) + 1
           /\ hooks'[known'[h]] = [live |-> TRUE, addresses |-> Seed(h)]
<1>1. h \in DOMAIN pc /\ h \in DOMAIN known
  BY DEF Typed, TypeOK
<1>2. pc'[h] = "saving" /\ row' = row /\ known'[h] = Len(hooks) + 1
  BY <1>1 DEF CreateHook, Return, Goto, Accepts
<1>3. hooks'[Len(hooks) + 1] = [live |-> TRUE, addresses |-> Seed(h)]
  <2>1. PICK hook \in Hook : /\ hook = [live |-> TRUE, addresses |-> Seed(h)]
                             /\ hooks' = Append(hooks, hook)
    BY CreateAppends
  <2> QED
    BY <2>1, HookAppended
<1> QED
  BY <1>2, <1>3

\* Alone, a sync keeps the row and the webhook in its hands together.
LEMMA LinkedStep ==
    ASSUME Typed, NEW h \in Syncers, Step(h), Busy(h), Linked(h),
           pc'[h] # "idle"
    PROVE  Linked(h)'
<1>1. /\ h \in DOMAIN pc /\ h \in DOMAIN known
      /\ pc[h] # "idle" /\ ~Begin(h)
  BY DEF Typed, TypeOK, Busy, Begin
<1>2. CASE Look(h)
  BY <1>2, LookGoes DEF Linked, AtHook
<1>3. CASE DeleteHook(h)
  <2>1. /\ pc'[h] = "forgetting" /\ known'[h] = known[h] /\ row' = row
        /\ pc[h] = "deleting"
    BY <1>1, <1>3 DEF DeleteHook, Return, Goto
  <2>2. ~hooks'[known[h]].live
    BY <1>3, <2>1, KnownHook DEF AtHook
  <2> QED
    BY <2>1, <2>2 DEF Linked, AtHook
<1>4. CASE ForgetRow(h)
  <2>1. /\ pc'[h] = "synced" /\ known'[h] = known[h] /\ hooks' = hooks
        /\ pc[h] = "forgetting"
    BY <1>1, <1>4 DEF ForgetRow, Goto
  <2> QED
    BY <2>1 DEF Linked, AtHook
<1>5. CASE CreateHook(h)
  <2>1. pc[h] = "creating"
    BY <1>5 DEF CreateHook
  <2> QED
    BY <1>5, <2>1, CreateGoes DEF Linked, AtHook
<1>6. CASE SaveRow(h)
  <2>1. /\ pc'[h] \in {"rereading", "synced"} /\ known'[h] = known[h]
        /\ row' = known[h]
    BY <1>1, <1>6 DEF SaveRow, Goto
  <2> QED
    BY <2>1 DEF Linked, AtHook
<1>7. CASE Reread(h)
  <2>1. pc'[h] = "listing" /\ known'[h] = row /\ row' = row
    BY <1>1, <1>7 DEF Reread, Return, Goto
  <2> QED
    BY <2>1 DEF Linked, AtHook
<1>8. CASE ListAddresses(h)
  <2>1. /\ pc[h] = "listing"
        /\ \/ pc'[h] = "creating" /\ row' = None /\ known'[h] = None
           \/ /\ pc'[h] \in {"synced", "updating"}
              /\ row' = row /\ known'[h] = known[h]
    BY <1>1, <1>8 DEF ListAddresses, Listed, Return, Goto
  <2> QED
    BY <2>1 DEF Linked, AtHook
<1>9. CASE Update(h) \/ Replace(h)
  <2>1. /\ pc[h] \in {"updating", "replacing"}
        /\ pc'[h] \in {"synced", "updating", "saving"}
        /\ row' = row /\ known'[h] = known[h]
    BY <1>1, <1>9 DEF Update, Replace, Return, Goto
  <2> QED
    BY <2>1 DEF Linked, AtHook
<1>10. CASE Finish(h) \/ Abort(h)
  BY <1>1, <1>10 DEF Finish, Abort, Return, Goto
<1> QED
  BY <1>1, <1>2, <1>3, <1>4, <1>5, <1>6, <1>7, <1>8, <1>9, <1>10 DEF Step

\* Alone, a sync brings the provider ever closer to the wallets it read.
LEMMA HealingStep ==
    ASSUME Typed, NEW h \in Syncers, Step(h), Busy(h), Linked(h), Healing(h),
           pc'[h] # "idle"
    PROVE  Healing(h)'
<1>1. /\ h \in DOMAIN pc /\ h \in DOMAIN known /\ h \in DOMAIN want
      /\ h \in DOMAIN add /\ h \in DOMAIN remove /\ h \in DOMAIN short
      /\ pc[h] # "idle" /\ ~Begin(h)
  BY DEF Typed, TypeOK, Busy, Begin
<1>2. watched' = watched /\ provider' = provider
  BY StepChanges
<1>3. want'[h] = want[h]
  BY <1>1 DEF Step, Look, DeleteHook, ForgetRow, CreateHook, SaveRow, Finish,
              Reread, ListAddresses, Listed, Update, Replace, Abort, Return, Goto
<1>4. want'[h] = watched'
  BY <1>2, <1>3 DEF Healing
<1>5. CASE Look(h)
  <2>1. pc'[h] = "synced" => Covered' /\ Exact'
    BY <1>2, <1>3, <1>4, <1>5, LookGoes DEF Exact, Covered
  <2> QED
    BY <1>2, <1>3, <1>4, <1>5, <2>1, LookGoes DEF Healing
<1>6. CASE DeleteHook(h)
  <2>1. pc'[h] = "forgetting" /\ pc[h] = "deleting"
    BY <1>1, <1>6 DEF DeleteHook, Return, Goto
  <2> QED
    BY <1>3, <1>4, <2>1 DEF Healing
<1>7. CASE ForgetRow(h)
  <2>1. /\ pc'[h] = "synced" /\ pc[h] = "forgetting" /\ row' = None
    BY <1>1, <1>7 DEF ForgetRow, Goto
  <2>2. Covered' /\ Exact'
    BY <1>3, <1>4, <2>1 DEF Healing, Exact, Covered
  <2> QED
    BY <1>4, <2>1, <2>2 DEF Healing
<1>8. CASE CreateHook(h)
  <2>1. pc[h] = "creating"
    BY <1>8 DEF CreateHook
  <2>2. /\ pc'[h] = "saving" /\ hooks'[known'[h]].live
        /\ hooks'[known'[h]].addresses = Seed(h)
    <3>1. /\ pc'[h] = "saving"
          /\ hooks'[known'[h]] = [live |-> TRUE, addresses |-> Seed(h)]
      BY <1>8, CreateGoes
    <3> QED
      BY <3>1
  <2> QED
    BY <1>2, <1>3, <1>4, <2>1, <2>2 DEF Healing, Seed
<1>9. CASE SaveRow(h)
  <2>1. /\ pc'[h] = IF provider = "alchemy" THEN "rereading" ELSE "synced"
        /\ pc[h] = "saving" /\ row' = known[h] /\ hooks' = hooks
    BY <1>1, <1>9 DEF SaveRow, Goto
  <2>2. known[h] # None
    BY <2>1, KnownHook
  <2>3. provider # "alchemy" => Covered' /\ Exact'
    BY <1>3, <1>4, <2>1, <2>2 DEF Healing, Exact, Covered
  <2> QED
    BY <1>3, <1>4, <2>1, <2>3 DEF Healing
<1>10. CASE Reread(h)
  <2>1. pc'[h] = "listing" /\ pc[h] = "rereading"
    BY <1>1, <1>10 DEF Reread, Return, Goto
  <2> QED
    BY <1>3, <1>4, <2>1 DEF Healing
<1>11. CASE ListAddresses(h)
  <2>1. pc[h] = "listing"
    BY <1>11 DEF ListAddresses, Listed
  <2>2. known[h] = row /\ known[h] # None
    BY <2>1, KnownHook DEF Linked, AtHook
  <2>3. CASE pc'[h] = "creating"
    BY <1>3, <1>4, <2>1, <2>3 DEF Healing
  <2>4. CASE pc'[h] # "creating"
    <3>1. /\ hooks[known[h]].live /\ hooks' = hooks /\ row' = row
          /\ known'[h] = known[h]
      BY <1>1, <1>11, <2>4 DEF ListAddresses, Listed, Return, Goto
    <3>2. PICK list \in SUBSET hooks[known[h]].addresses :
             /\ add'[h] = want[h] \ list /\ remove'[h] = list \ want[h]
             /\ short'[h] = (list # hooks[known[h]].addresses)
             /\ pc'[h] = IF (want[h] \ list) \cup (list \ want[h]) = {}
                           THEN "synced" ELSE "updating"
      BY <1>1, <1>11, <2>4 DEF ListAddresses, Listed, Return, Goto
    <3>3. CASE list = want[h]
      <4>1. pc'[h] = "synced" /\ want[h] \subseteq hooks[known[h]].addresses
        BY <3>2, <3>3
      <4>2. ~short'[h] => hooks[known[h]].addresses = want[h]
        BY <3>2, <3>3
      <4>3. want[h] # {}
        BY <2>1 DEF Healing
      <4>4. Covered' /\ (~short'[h] => Exact')
        BY <1>3, <1>4, <2>2, <3>1, <4>1, <4>2, <4>3 DEF Exact, Covered
      <4> QED
        BY <1>4, <4>1, <4>4 DEF Healing
    <3>4. CASE list # want[h]
      <4>1. pc'[h] = "updating"
        BY <3>2, <3>4
      <4>2. /\ add'[h] \cap remove'[h] = {}
            /\ want[h] \subseteq
                  (hooks[known[h]].addresses \ remove'[h]) \cup add'[h]
            /\ ~short'[h] =>
                  (hooks[known[h]].addresses \ remove'[h]) \cup add'[h]
                    \subseteq want[h]
        BY <3>2
      <4> QED
        BY <1>3, <1>4, <2>1, <3>1, <4>1, <4>2 DEF Healing
    <3> QED
      BY <3>3, <3>4
  <2> QED
    BY <2>3, <2>4
<1>12. CASE Update(h)
  <2>1. /\ pc[h] = "updating"
        /\ row' = row /\ known'[h] = known[h] /\ short'[h] = short[h]
        /\ add'[h] = Later(add[h]) /\ remove'[h] = {}
        /\ pc'[h] = IF Later(add[h]) = {} THEN "synced" ELSE "updating"
    BY <1>1, <1>12 DEF Update, Return, Goto
  <2>2. known[h] = row /\ known[h] # None
    BY <2>1, KnownHook DEF Linked, AtHook
  <2>3. /\ hooks'[known[h]].live
        /\ hooks'[known[h]].addresses =
              (hooks[known[h]].addresses \cup FirstOf(add[h])) \ remove[h]
    BY <1>12, <2>1, KnownHook DEF AtHook
  <2>4. /\ add[h] \cap remove[h] = {}
        /\ want[h] \subseteq (hooks[known[h]].addresses \ remove[h]) \cup add[h]
        /\ ~short[h] => (hooks[known[h]].addresses \ remove[h]) \cup add[h]
                          \subseteq want[h]
        /\ want[h] # {}
    BY <2>1 DEF Healing
  <2>5. FirstOf(add[h]) \subseteq add[h]
    BY FirstWithin
  <2>6. /\ want[h] \subseteq
              (hooks'[known[h]].addresses \ {}) \cup Later(add[h])
        /\ ~short[h] => (hooks'[known[h]].addresses \ {}) \cup Later(add[h])
                          \subseteq want[h]
    BY <2>3, <2>4, <2>5 DEF Later
  <2>7. CASE Later(add[h]) = {}
    <3>1. /\ want[h] \subseteq hooks'[known[h]].addresses
          /\ ~short[h] => hooks'[known[h]].addresses \subseteq want[h]
      BY <2>6, <2>7
    <3>2. Covered' /\ (~short'[h] => Exact')
      BY <1>3, <1>4, <2>1, <2>2, <2>3, <2>4, <3>1 DEF Exact, Covered
    <3> QED
      BY <1>4, <2>1, <2>7, <3>2 DEF Healing
  <2>8. CASE Later(add[h]) # {}
    BY <1>3, <1>4, <2>1, <2>3, <2>4, <2>6, <2>8 DEF Healing
  <2> QED
    BY <2>7, <2>8
<1>13. CASE Replace(h)
  <2>1. /\ pc[h] = "replacing" /\ pc'[h] = "saving" /\ known'[h] = known[h]
    BY <1>1, <1>13 DEF Replace, Return, Goto
  <2>2. /\ hooks'[known[h]].live /\ hooks'[known[h]].addresses = want[h]
    BY <1>13, <2>1, KnownHook DEF AtHook
  <2> QED
    BY <1>3, <1>4, <2>1, <2>2 DEF Healing
<1>14. CASE Finish(h) \/ Abort(h)
  BY <1>1, <1>14 DEF Finish, Abort, Return, Goto
<1> QED
  BY <1>1, <1>5, <1>6, <1>7, <1>8, <1>9, <1>10, <1>11, <1>12, <1>13, <1>14
  DEF Step

\* A step of one sync leaves the others where they were.
LEMMA OthersStay ==
    ASSUME Typed, NEW h \in Syncers, Step(h)
    PROVE  \A k \in Syncers \ {h} : pc'[k] = pc[k]
<1>1. PICK where : pc' = [pc EXCEPT ![h] = where]
  BY StepChanges DEF Goto
<1> QED
  BY <1>1 DEF Typed, TypeOK

\* A sync's own step.
LEMMA OwnUndisturbed ==
    ASSUME Typed, NEW h \in Syncers, Undisturbed(h), Step(h)
    PROVE  Undisturbed(h)'
<1>1. CASE Begin(h)
  <2> DEFINE others == \E k \in Syncers \ {h} : pc[k] # "idle"
  <2>1. /\ pc[h] = "idle" /\ known' = known /\ watched' = watched
        /\ lapped' = (lapped \/ others)
        /\ alone' = [k \in Syncers |-> k = h /\ ~others]
        /\ want' = [want EXCEPT ![h] = watched]
        /\ pc' = [pc EXCEPT ![h] = "looking"]
    BY <1>1 DEF Begin, Goto
  <2>2. alone'[h] = ~others
    BY <2>1
  <2>3. pc'[h] = "looking" /\ want'[h] = watched' /\ known'[h] = None
    BY <2>1 DEF Typed, TypeOK
  <2>4. ~lapped' \/ alone'[h] => Sole(h)'
    BY <1>1, <2>1, <2>2, OthersStay DEF Sole, Step
  <2>5. Linked(h)' /\ Healing(h)'
    BY <2>3 DEF Linked, Healing, AtHook
  <2> HIDE DEF others
  <2> QED
    BY <2>4, <2>5 DEF Undisturbed
<1>2. CASE ~Begin(h)
  <2>1. UNCHANGED <<alone, lapped>> /\ Busy(h)
    <3>1. Busy(h)
      BY <1>2 DEF Step, Busy, Look, DeleteHook, ForgetRow, CreateHook, SaveRow,
                  Finish, Reread, ListAddresses, Listed, Update, Replace, Abort
    <3> QED
      BY <1>2, <3>1, StepChanges
  <2>2. Sole(h) => Sole(h)'
    BY OthersStay DEF Sole
  <2>3. pc'[h] # "idle" /\ Linked(h) => Linked(h)'
    BY <2>1, LinkedStep
  <2>4. pc'[h] # "idle" /\ Linked(h) /\ Healing(h) => Healing(h)'
    BY <2>1, HealingStep
  <2>5. Busy(h)' <=> pc'[h] # "idle"
    BY DEF Busy
  <2> QED
    BY <2>1, <2>2, <2>3, <2>4, <2>5 DEF Undisturbed
<1> QED
  BY <1>1, <1>2

\* A step of another sync, which ends being alone.
LEMMA OtherUndisturbed ==
    ASSUME Typed, NEW h \in Syncers, NEW k \in Syncers \ {h}, Undisturbed(k),
           Step(h)
    PROVE  Undisturbed(k)'
<1>1. pc'[k] = pc[k]
  BY OthersStay
<1>2. Busy(k)' <=> Busy(k)
  BY <1>1 DEF Busy
<1>3. CASE Begin(h)
  <2>1. Busy(k) => lapped' = TRUE /\ alone'[k] = FALSE
    BY <1>3 DEF Begin, Busy
  <2> QED
    BY <1>2, <2>1 DEF Undisturbed
<1>4. CASE ~Begin(h)
  <2>1. UNCHANGED <<alone, lapped>>
    BY <1>4, StepChanges
  <2>2. pc[h] # "idle"
    BY <1>4 DEF Step, Look, DeleteHook, ForgetRow, CreateHook, SaveRow,
                Finish, Reread, ListAddresses, Listed, Update, Replace, Abort
  <2>3. ~Sole(k)
    BY <2>2 DEF Sole
  <2>4. ~(Busy(k) /\ (~lapped \/ alone[k]))
    BY <2>3 DEF Undisturbed
  <2> QED
    BY <1>2, <2>1, <2>4 DEF Undisturbed
<1> QED
  BY <1>3, <1>4

LEMMA UndisturbedNext ==
    ASSUME Typed, \A k \in Syncers : Undisturbed(k), [Next]_vars
    PROVE  \A k \in Syncers : Undisturbed(k)'
<1> SUFFICES ASSUME NEW k \in Syncers
             PROVE  Undisturbed(k)'
  OBVIOUS
<1>1. CASE \E h \in Syncers : Step(h)
  <2>1. PICK h \in Syncers : Step(h)
    BY <1>1
  <2>2. CASE h = k
    BY <2>1, <2>2, OwnUndisturbed
  <2>3. CASE h # k
    BY <2>1, <2>3, OtherUndisturbed
  <2> QED
    BY <2>2, <2>3
<1>2. CASE Change
  <2>1. alone'[k] = FALSE
    BY <1>2 DEF Change
  <2>2. UNCHANGED <<pc, lapped, known, row, hooks>>
    BY <1>2 DEF Change, syncVars
  <2>3. (Sole(k) => Sole(k)') /\ (Busy(k)' <=> Busy(k))
    BY <2>2 DEF Sole, Busy
  <2>4. Linked(k) => Linked(k)'
    BY <2>2 DEF Linked
  <2> QED
    BY <2>1, <2>2, <2>3, <2>4 DEF Undisturbed
<1>3. CASE \E i \in Ids : Vanish(i)
  <2>1. PICK i \in Ids : Vanish(i)
    BY <1>3
  <2>2. alone'[k] = FALSE
    BY <2>1 DEF Vanish
  <2>3. UNCHANGED <<pc, lapped, known, row>>
    BY <2>1 DEF Vanish, syncVars
  <2>4. (Sole(k) => Sole(k)') /\ (Busy(k)' <=> Busy(k))
    BY <2>3 DEF Sole, Busy
  <2>5. ~hooks[known[k]].live /\ known[k] \in Ids => ~hooks'[known[k]].live
    BY <2>1, VanishHooks
  <2>6. /\ pc[k] = "forgetting" => known[k] \in Ids
        /\ known[k] \in Ids \cup {None}
    BY DEF Typed, TypeOK, AtHook
  <2>7. Linked(k) => Linked(k)'
    BY <2>3, <2>5, <2>6 DEF Linked
  <2> QED
    BY <2>2, <2>3, <2>4, <2>7 DEF Undisturbed
<1>4. CASE UNCHANGED vars
  BY <1>4 DEF vars, syncVars, Undisturbed, Busy, Sole, Linked, Healing, Exact,
              Covered
<1> QED
  BY <1>1, <1>2, <1>3, <1>4 DEF Next, Step

LEMMA UndisturbedInit == Init => \A k \in Syncers : Undisturbed(k)
BY DEF Init, Undisturbed, Busy

\* A sync that ends well, with nothing beside it since it began, leaves every
\* live wallet watched under the webhook the table knows, and none but those
\* unless the list it compared with was cut short, whatever faults, overlaps and
\* removed webhooks came before.
THEOREM SoloExact == Spec => []SoloSyncExact
<1>1. Typed /\ AllUndisturbed /\ [Next]_vars => Typed' /\ AllUndisturbed'
  BY TypedNext, UndisturbedNext DEF AllUndisturbed
<1>2. AllUndisturbed => SoloSyncExact
  BY DEF AllUndisturbed, Undisturbed, Busy, Healing, SoloSyncExact
<1>3. Init => Typed /\ AllUndisturbed
  BY TypedInit, UndisturbedInit DEF AllUndisturbed
<1> QED
  BY <1>1, <1>2, <1>3, PTL DEF Spec

-----------------------------------------------------------------------------
(* Webhooks left behind. *)

LEMMA OrphansFinite ==
    ASSUME Typed
    PROVE  /\ IsFiniteSet(Orphans) /\ Cardinality(Orphans) \in Nat
           /\ faults \in Nat
<1>1. IsFiniteSet(Ids)
  BY HooksTyped, FS_Interval DEF Ids
<1>2. Orphans \subseteq Ids
  BY DEF Orphans
<1>3. faults \in 0 .. MaxFaults
  BY DEF Typed, TypeOK
<1> QED
  BY <1>1, <1>2, <1>3, FS_Subset, FS_CardinalityType, BudgetAssumption

\* A set that gains at most one element grows by at most one.
LEMMA GainsOne ==
    ASSUME NEW S, NEW T, NEW x, IsFiniteSet(S), T \subseteq S \cup {x}
    PROVE  IsFiniteSet(T) /\ Cardinality(T) <= Cardinality(S) + 1
<1>1. /\ IsFiniteSet(S \cup {x}) /\ Cardinality(S) \in Nat
      /\ Cardinality(S \cup {x}) \in {Cardinality(S), Cardinality(S) + 1}
  BY FS_AddElement, FS_CardinalityType
<1>2. /\ IsFiniteSet(T) /\ Cardinality(T) <= Cardinality(S \cup {x})
  BY <1>1, FS_Subset
<1>3. Cardinality(T) \in Nat
  BY <1>2, FS_CardinalityType
<1> QED
  BY <1>1, <1>2, <1>3

\* Alone, a sync leaves no webhook behind but for a failure: the one that a
\* lost answer created, or the one in the hands of the sync that died.
LEMMA NewOrphan ==
    ASSUME Typed, NEW h \in Syncers, Step(h), Busy(h), Sole(h), Linked(h),
           NEW i \in Ids', i \in Orphans', i \notin Orphans
    PROVE  /\ faults' = faults + 1
           /\ i = IF CreateHook(h) THEN Len(hooks) + 1 ELSE known[h]
<1>1. /\ h \in DOMAIN pc /\ h \in DOMAIN known
      /\ pc[h] # "idle" /\ ~Begin(h) /\ None \notin Ids
  BY HooksTyped DEF Typed, TypeOK, Busy, Begin
<1>2. /\ hooks'[i].live /\ row' # i /\ known'[h] # i
  BY DEF Orphans
<1>3. ASSUME i \in Ids
      PROVE  /\ hooks[i].live
             /\ i = row \/ i = known[h]
  <2>1. hooks[i].live
    BY <1>2, <1>3, HooksGrow
  <2>2. \A k \in Syncers \ {h} : known[k] # i
    BY <1>1, <1>3 DEF Sole, Typed
  <2> QED
    BY <1>3, <2>1, <2>2 DEF Orphans
<1>4. CASE CreateHook(h)
  <2>1. pc[h] = "creating" /\ row = None /\ known[h] = None
    BY <1>4 DEF CreateHook, Linked
  <2>2. i \notin Ids
    BY <1>1, <1>3, <2>1
  <2>3. i = Len(hooks) + 1
    BY <1>4, <2>2, CreateAppends, HookAppended
  <2>4. faults' = faults + 1
    BY <1>1, <1>2, <1>4, <2>3 DEF CreateHook, Accepts
  <2> QED
    BY <1>4, <2>3, <2>4
<1>5. CASE ~CreateHook(h)
  <2>1. i \in Ids
    BY <1>5, HooksGrow
  <2>2. hooks[i].live /\ (i = row \/ i = known[h]) /\ i # None
    BY <1>1, <1>3, <2>1
  <2>3. CASE Look(h)
    <3>1. known[h] = None /\ known'[h] = row
      BY <1>1, <2>3 DEF Look, Linked
    <3> QED
      BY <1>2, <2>2, <3>1
  <2>4. CASE DeleteHook(h) \/ Reread(h) \/ Update(h) \/ Replace(h)
    <3>1. known[h] = row /\ row' = row
      BY <2>4 DEF DeleteHook, Reread, Update, Replace, Linked, AtHook
    <3> QED
      BY <1>2, <2>2, <3>1
  <2>5. CASE ForgetRow(h)
    <3>1. known[h] = row /\ ~hooks[known[h]].live
      BY <2>5 DEF ForgetRow, Linked, AtHook
    <3> QED
      BY <2>2, <3>1
  <2>6. CASE SaveRow(h)
    <3>1. row \in {None, known[h]} /\ row' = known[h]
      BY <2>6 DEF SaveRow, Linked
    <3> QED
      BY <1>2, <2>2, <3>1
  <2>7. CASE ListAddresses(h)
    <3>1. known[h] = row /\ (row' = row \/ ~hooks[known[h]].live)
      BY <2>7 DEF ListAddresses, Listed, Linked, AtHook
    <3> QED
      BY <1>2, <2>2, <3>1
  <2>8. CASE Finish(h)
    <3>1. /\ row' = row
          /\ known[h] \in {None, row} \/ ~hooks[known[h]].live
      BY <2>8 DEF Finish, Linked
    <3> QED
      BY <1>2, <2>2, <3>1
  <2>9. CASE Abort(h)
    <3>1. row' = row /\ faults' = faults + 1
      BY <2>9 DEF Abort
    <3> QED
      BY <1>2, <1>5, <2>2, <3>1
  <2> QED
    BY <1>1, <1>5, <2>3, <2>4, <2>5, <2>6, <2>7, <2>8, <2>9 DEF Step
<1> QED
  BY <1>4, <1>5

LEMMA OrphansNext ==
    ASSUME IInv, [Next]_vars
    PROVE  OrphansNeedFault'
<1> SUFFICES ASSUME ~lapped'
             PROVE  Cardinality(Orphans') <= faults'
  BY DEF OrphansNeedFault
<1>1. /\ Typed /\ AllUndisturbed /\ OrphansNeedFault
      /\ IsFiniteSet(Orphans) /\ Cardinality(Orphans) \in Nat /\ faults \in Nat
  BY OrphansFinite DEF IInv
<1>2. /\ IsFiniteSet(Orphans') /\ Cardinality(Orphans') \in Nat
      /\ faults' \in Nat
  <2>1. hooks' \in Seq(Hook) /\ faults' \in 0 .. MaxFaults
    BY <1>1, TypedNext DEF Typed, TypeOK
  <2>2. Len(hooks') \in Nat
    BY <2>1, LenProperties
  <2>3. IsFiniteSet(Ids') /\ Orphans' \subseteq Ids'
    BY <2>2, FS_Interval DEF Ids, Orphans
  <2> QED
    BY <2>1, <2>3, FS_Subset, FS_CardinalityType, BudgetAssumption
<1>3. ~lapped => Cardinality(Orphans) <= faults
  BY <1>1 DEF OrphansNeedFault
<1>4. ASSUME ~lapped, Orphans' \subseteq Orphans, faults' \in {faults, faults + 1}
      PROVE  Cardinality(Orphans') <= faults'
  <2>1. Cardinality(Orphans') <= Cardinality(Orphans)
    BY <1>1, <1>4, FS_Subset
  <2> QED
    BY <1>1, <1>2, <1>3, <1>4, <2>1
<1>5. CASE \E h \in Syncers : Step(h)
  <2>1. PICK h \in Syncers : Step(h)
    BY <1>5
  <2>2. faults' \in {faults, faults + 1}
    BY <1>1, <2>1, StepBudget
  <2>3. CASE Begin(h)
    <3>1. /\ UNCHANGED <<hooks, row, known, faults>> /\ ~lapped
      BY <2>3 DEF Begin
    <3>2. Orphans' = Orphans
      BY <3>1 DEF Orphans, Ids
    <3> QED
      BY <1>4, <3>1, <3>2
  <2>4. CASE ~Begin(h)
    <3>1. ~lapped /\ Busy(h)
      <4>1. lapped' = lapped
        BY <1>1, <2>1, <2>4, StepChanges
      <4> QED
        BY <2>1, <2>4, <4>1 DEF Step, Busy, Look, DeleteHook, ForgetRow,
           CreateHook, SaveRow, Finish, Reread, ListAddresses, Listed, Update, Replace,
           Abort
    <3>2. Sole(h) /\ Linked(h)
      BY <1>1, <3>1 DEF AllUndisturbed, Undisturbed
    <3>3. CASE Orphans' \subseteq Orphans
      BY <1>4, <2>2, <3>1, <3>3
    <3>4. CASE ~(Orphans' \subseteq Orphans)
      <4>1. PICK x : x = IF CreateHook(h) THEN Len(hooks) + 1 ELSE known[h]
        OBVIOUS
      <4>2. Orphans' \subseteq Ids'
        BY DEF Orphans
      <4>3. \A i \in Orphans' \ Orphans : faults' = faults + 1 /\ i = x
        BY <1>1, <2>1, <3>1, <3>2, <4>1, <4>2, NewOrphan
      <4>4. faults' = faults + 1 /\ Orphans' \subseteq Orphans \cup {x}
        BY <3>4, <4>3
      <4>5. Cardinality(Orphans') <= Cardinality(Orphans) + 1
        BY <1>1, <4>4, GainsOne
      <4> QED
        BY <1>1, <1>2, <1>3, <3>1, <4>4, <4>5
    <3> QED
      BY <3>3, <3>4
  <2> QED
    BY <2>3, <2>4
<1>6. CASE Change \/ UNCHANGED vars
  <2>1. UNCHANGED <<hooks, row, known, faults, lapped>>
    BY <1>6 DEF Change, vars, syncVars, budgetVars
  <2>2. Orphans' = Orphans
    BY <2>1 DEF Orphans, Ids
  <2> QED
    BY <1>4, <2>1, <2>2
<1>7. CASE \E i \in Ids : Vanish(i)
  <2>1. PICK i \in Ids : Vanish(i)
    BY <1>7
  <2>2. UNCHANGED <<row, known, faults, lapped>>
    BY <2>1 DEF Vanish, syncVars
  <2>3. /\ Ids' = Ids /\ \A j \in Ids : hooks'[j].live => hooks[j].live
    BY <1>1, <2>1, VanishHooks
  <2>4. Orphans' \subseteq Orphans
    BY <2>2, <2>3 DEF Orphans
  <2> QED
    BY <1>4, <2>2, <2>4
<1> QED
  BY <1>5, <1>6, <1>7 DEF Next, Step

\* As long as no two syncs have overlapped, the live webhooks that neither the
\* table nor a sync knows are at most as many as the failures so far.
THEOREM OrphansCounted == Spec => []OrphansNeedFault
<1>1. Init => IInv
  <2> SUFFICES ASSUME Init PROVE IInv
    OBVIOUS
  <2>1. Orphans = {} /\ faults = 0
    BY DEF Init, Orphans, Ids
  <2>2. OrphansNeedFault
    BY <2>1, FS_EmptySet DEF OrphansNeedFault
  <2> QED
    BY <2>2, TypedInit, UndisturbedInit DEF IInv, AllUndisturbed
<1>2. IInv /\ [Next]_vars => IInv'
  BY TypedNext, UndisturbedNext, OrphansNext DEF IInv, AllUndisturbed
<1>3. IInv => OrphansNeedFault
  BY DEF IInv
<1> QED
  BY <1>1, <1>2, <1>3, PTL DEF Spec
=============================================================================
