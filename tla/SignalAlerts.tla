----------------------------- MODULE SignalAlerts -----------------------------
(***************************************************************************)
(* The live sweep (realtime.sweep): every worker counts the watched        *)
(* wallets per token, screens the tokens over the threshold with an        *)
(* external API, writes a signal row for each that passes, stamps a new    *)
(* one's outcome, and in the end sends a Telegram message for every new or *)
(* strengthened signal.  Sweeps of different workers overlap, and each     *)
(* database call is a transaction of its own; users dismiss and restore    *)
(* signals meanwhile.                                                      *)
(***************************************************************************)
EXTENDS Integers, FiniteSets

CONSTANTS
    Sweepers,     \* the processes that may be sweeping at the same time
    Tokens,
    SolanaTokens, \* those whose address has capitals: Solana mints
    Required,     \* pool_threshold: the wallets a token needs
    MaxWallets,   \* bound: the wallets that may be counted
    MaxChanges,   \* bound: changes of a count or of a screening verdict
    MaxMutes,     \* bound: dismissals and restores
    MaxFaults,    \* bound: crashes and failed database calls
    None          \* no row, and "nothing" in a local variable

ASSUME ThresholdAssumption ==
    /\ Required \in Nat \ {0} /\ MaxWallets \in Nat
    /\ Required <= MaxWallets
ASSUME BudgetAssumption ==
    /\ MaxChanges \in Nat /\ MaxMutes \in Nat /\ MaxFaults \in Nat
ASSUME TokensAssumption == SolanaTokens \subseteq Tokens /\ None \notin Tokens
ASSUME SweepersAssumption == IsFiniteSet(Sweepers)

VARIABLES
    count,      \* distinct watched wallets in the window (wallet_events)
    passes,     \* whether the token deserves a signal: it has a pool that is
                \* deep and young, and no blocker, and nobody ignores it
    signals,    \* the pooled signals row of a token, or None
    stamped,    \* whether signal_outcomes has a row for its signal
    pc, todo,   \* a sweep: where it is, and the candidates still to check
    tok, n, had,        \* the token it checks, its count as read, and
                        \* wallet_count as upsert_pool_signal's SELECT saw it
    fresh,      \* upsert_pool_signal's `created`
    fired,      \* what it is going to announce
    news,       \* auxiliary: "new" messages sent about a token
    told,       \* auxiliary: the highest count a message reported
    late,       \* auxiliary: messages sent since the token was dismissed
    masked,     \* auxiliary: a sweep that strengthened the signal read back
                \* a count below the one it had written
    changes, mutes, faults

sweepVars  == <<pc, todo, tok, n, had, fresh, fired>>
tellVars   == <<news, told, late, masked>>
budgetVars == <<changes, mutes, faults>>
vars       == <<count, passes, signals, stamped, sweepVars, tellVars, budgetVars>>

-----------------------------------------------------------------------------
Counts == 0 .. MaxWallets
Signal == [wallets : Counts, active : BOOLEAN]
News   == [token : Tokens, new : BOOLEAN, wallets : Counts]

ASSUME NoneAssumption == None \notin Int /\ None \notin Signal

TypeOK ==
    /\ count \in [Tokens -> Counts]
    /\ passes \in [Tokens -> BOOLEAN]
    /\ signals \in [Tokens -> Signal \cup {None}]
    /\ stamped \in [Tokens -> BOOLEAN]
    /\ pc \in [Sweepers -> {"idle", "screening", "evaluating", "selecting",
                            "writing", "stamping", "reading", "announcing"}]
    /\ todo \in [Sweepers -> SUBSET Tokens]
    /\ tok \in [Sweepers -> Tokens \cup {None}]
    /\ n \in [Sweepers -> Counts]
    /\ had \in [Sweepers -> Counts \cup {None}]
    /\ fresh \in [Sweepers -> BOOLEAN]
    /\ \A s \in Sweepers : fired[s] \subseteq News
    /\ news \in [Tokens -> 0 .. 2]
    /\ told \in [Tokens -> Counts]
    /\ late \in [Tokens -> 0 .. Cardinality(Sweepers) + 1]
    /\ masked \in [Tokens -> BOOLEAN]
    /\ changes \in 0 .. MaxChanges
    /\ mutes \in 0 .. MaxMutes
    /\ faults \in 0 .. MaxFaults

Exists(t) == signals[t] # None
Dismissed(t) == Exists(t) /\ ~signals[t].active

Lesser(a, b)  == IF a < b THEN a ELSE b
Greater(a, b) == IF a > b THEN a ELSE b

Goto(s, where) == pc' = [pc EXCEPT ![s] = where]

\* Forget the token just checked.
Clear(s) ==
    /\ tok' = [tok EXCEPT ![s] = None]
    /\ n' = [n EXCEPT ![s] = 0]
    /\ had' = [had EXCEPT ![s] = None]
    /\ fresh' = [fresh EXCEPT ![s] = FALSE]

Init ==
    /\ count \in [Tokens -> Counts]
    /\ passes = [t \in Tokens |-> TRUE]
    /\ signals = [t \in Tokens |-> None]
    /\ stamped = [t \in Tokens |-> FALSE]
    /\ pc = [s \in Sweepers |-> "idle"]
    /\ todo = [s \in Sweepers |-> {}]
    /\ tok = [s \in Sweepers |-> None]
    /\ n = [s \in Sweepers |-> 0]
    /\ had = [s \in Sweepers |-> None]
    /\ fresh = [s \in Sweepers |-> FALSE]
    /\ fired = [s \in Sweepers |-> {}]
    /\ news = [t \in Tokens |-> 0]
    /\ told = [t \in Tokens |-> 0]
    /\ late = [t \in Tokens |-> 0]
    /\ masked = [t \in Tokens |-> FALSE]
    /\ changes = 0 /\ mutes = 0 /\ faults = 0

-----------------------------------------------------------------------------
(* A sweep. *)

\* token_activity: the tokens at or over the threshold.
Count(s) ==
    LET candidates == {t \in Tokens : count[t] >= Required} IN
    /\ pc[s] = "idle" /\ candidates # {}
    /\ todo' = [todo EXCEPT ![s] = candidates]
    /\ Goto(s, "screening")
    /\ UNCHANGED <<count, passes, signals, stamped, tok, n, had, fresh, fired,
                   tellVars, budgetVars>>

\* market_data answers by lower-cased address, and the sweep looks its answer
\* up by the address the event has: a mint is never found.
Answered(t) == passes[t] /\ t \notin SolanaTokens

\* tradeable returned: the candidates it left out are dropped.
Screened(s) ==
    /\ pc[s] = "screening"
    /\ todo' = [todo EXCEPT ![s] = {t \in @ : Answered(t)}]
    /\ Goto(s, "evaluating")
    /\ UNCHANGED <<count, passes, signals, stamped, tok, n, had, fresh, fired,
                   tellVars, budgetVars>>

\* events_in_window counts the wallets again, after the await.
Evaluate(s, t) ==
    /\ pc[s] = "evaluating" /\ t \in todo[s]
    /\ todo' = [todo EXCEPT ![s] = @ \ {t}]
    /\ \/ /\ count[t] >= Required
          /\ tok' = [tok EXCEPT ![s] = t]
          /\ n' = [n EXCEPT ![s] = count[t]]
          /\ Goto(s, "selecting")
       \/ /\ count[t] < Required
          /\ UNCHANGED <<tok, n, pc>>
    /\ UNCHANGED <<count, passes, signals, stamped, had, fresh, fired,
                   tellVars, budgetVars>>

\* upsert_pool_signal's SELECT.
SelectSignal(s) ==
    /\ pc[s] = "selecting"
    /\ had' = [had EXCEPT ![s] =
                 IF Exists(tok[s]) THEN signals[tok[s]].wallets ELSE None]
    /\ Goto(s, "writing")
    /\ UNCHANGED <<count, passes, signals, stamped, todo, tok, n, fresh, fired,
                   tellVars, budgetVars>>

\* Mutants: no unique index on (chain, token_address); an UPDATE that writes
\* the status too, that adds the counts up, or that keeps the higher one.
AnyInsert(t) == TRUE
Reactivated(t, wallets) == [wallets |-> wallets, active |-> TRUE]
Added(t, wallets) == [signals[t] EXCEPT !.wallets = @ + wallets]
Highest(t, wallets) == [signals[t] EXCEPT !.wallets = Greater(@, wallets)]

\* idx_signals_pooled
MayInsert(t) == ~Exists(t)

\* The UPDATE refreshes the numbers and keeps the status.
Refreshed(t, wallets) == [signals[t] EXCEPT !.wallets = wallets]

\* Its INSERT; an IntegrityError ends the check of this token.
InsertSignal(s) ==
    /\ pc[s] = "writing" /\ had[s] = None
    /\ \/ /\ MayInsert(tok[s])
          /\ signals' = [signals EXCEPT ![tok[s]] =
                           [wallets |-> n[s], active |-> TRUE]]
          /\ fresh' = [fresh EXCEPT ![s] = TRUE]
          /\ Goto(s, "stamping")
          /\ UNCHANGED <<tok, n, had>>
       \/ /\ ~MayInsert(tok[s])
          /\ Clear(s)
          /\ Goto(s, "evaluating")
          /\ UNCHANGED signals
    /\ UNCHANGED <<count, passes, stamped, todo, fired, tellVars, budgetVars>>

\* Or its UPDATE.
UpdateSignal(s) ==
    /\ pc[s] = "writing" /\ had[s] # None
    /\ signals' = [signals EXCEPT ![tok[s]] = Refreshed(tok[s], n[s])]
    /\ Goto(s, "reading")
    /\ UNCHANGED <<count, passes, stamped, todo, tok, n, had, fresh, fired,
                   tellVars, budgetVars>>

\* Mutant: the stamp is left to whoever strengthens the signal.
StampsRefreshed(s) == ~fresh[s]

\* record_outcome follows a created signal only.
Stamps(s) == fresh[s]

\* record_outcome: INSERT OR IGNORE.
Stamp(s) ==
    /\ pc[s] = "stamping"
    /\ stamped' = [stamped EXCEPT ![tok[s]] = @ \/ Stamps(s)]
    /\ Goto(s, "reading")
    /\ UNCHANGED <<count, passes, signals, todo, tok, n, had, fresh, fired,
                   tellVars, budgetVars>>

\* Mutant: the count is compared with the one just written.
GrewSinceWrite(s) == signals[tok[s]].active /\ signals[tok[s]].wallets > n[s]

\* check_pool_token on the row get_signal read back: another sweep may have
\* written it since.
Grew(s) == signals[tok[s]].active /\ signals[tok[s]].wallets > had[s]

\* This sweep created the signal, or wrote a higher count than the row had.
Strengthened(s) == fresh[s] \/ (had[s] # None /\ n[s] > had[s])

ReadBack(s) ==
    LET wallets == signals[tok[s]].wallets
        message == [token |-> tok[s], new |-> fresh[s], wallets |-> wallets] IN
    /\ pc[s] = "reading"
    /\ fired' = [fired EXCEPT ![s] =
                   IF fresh[s] \/ (had[s] # None /\ Grew(s))
                   THEN @ \cup {message} ELSE @]
    /\ masked' = [masked EXCEPT ![tok[s]] =
                    @ \/ (Strengthened(s) /\ wallets < n[s])]
    /\ Clear(s)
    /\ Goto(s, "evaluating")
    /\ UNCHANGED <<count, passes, signals, stamped, todo, news, told, late,
                   budgetVars>>

\* Every candidate has been checked.
Checked(s) ==
    /\ pc[s] = "evaluating" /\ todo[s] = {}
    /\ Goto(s, IF fired[s] = {} THEN "idle" ELSE "announcing")
    /\ UNCHANGED <<count, passes, signals, stamped, todo, tok, n, had, fresh,
                   fired, tellVars, budgetVars>>

\* send_signal_notification returned for one of them.
Announce(s, m) ==
    /\ pc[s] = "announcing" /\ m \in fired[s]
    /\ fired' = [fired EXCEPT ![s] = @ \ {m}]
    /\ news' = [news EXCEPT ![m.token] = IF m.new THEN Lesser(2, @ + 1) ELSE @]
    /\ told' = [told EXCEPT ![m.token] = Greater(@, m.wallets)]
    /\ late' = [late EXCEPT ![m.token] =
                  IF Dismissed(m.token)
                  THEN Lesser(Cardinality(Sweepers) + 1, @ + 1) ELSE @]
    /\ Goto(s, IF fired[s] = {m} THEN "idle" ELSE "announcing")
    /\ UNCHANGED <<count, passes, signals, stamped, todo, tok, n, had, fresh,
                   masked, budgetVars>>

-----------------------------------------------------------------------------
(* Failures. *)

\* The process dies: what it had fired is lost.
Crash(s) ==
    /\ pc[s] # "idle"
    /\ faults < MaxFaults
    /\ faults' = faults + 1
    /\ Goto(s, "idle")
    /\ todo' = [todo EXCEPT ![s] = {}]
    /\ fired' = [fired EXCEPT ![s] = {}]
    /\ Clear(s)
    /\ UNCHANGED <<count, passes, signals, stamped, tellVars, changes, mutes>>

\* A database call of evaluate_pool raises: check_pool_token logs it, and the
\* sweep goes on with the next token.
DatabaseFails(s) ==
    /\ pc[s] \in {"selecting", "writing", "stamping", "reading"}
    /\ faults < MaxFaults
    /\ faults' = faults + 1
    /\ Clear(s)
    /\ Goto(s, "evaluating")
    /\ UNCHANGED <<count, passes, signals, stamped, todo, fired, tellVars,
                   changes, mutes>>

-----------------------------------------------------------------------------
(* The environment. *)

\* Deliveries arrive, events leave the window, wallets join or leave the pool,
\* the threshold moves: what matters is the count against it.
Recount(t) ==
    /\ changes < MaxChanges
    /\ changes' = changes + 1
    /\ count' \in {[count EXCEPT ![t] = c] : c \in Counts \ {count[t]}}
    /\ UNCHANGED <<passes, signals, stamped, sweepVars, tellVars, mutes, faults>>

\* The pool dries up or ages, the API fails or answers again, an ignore list
\* changes.
Rescreen(t) ==
    /\ changes < MaxChanges
    /\ changes' = changes + 1
    /\ passes' = [passes EXCEPT ![t] = ~@]
    /\ UNCHANGED <<count, signals, stamped, sweepVars, tellVars, mutes, faults>>

\* POST /api/signals/{id}/dismiss and /restore: set_signal_status.
Mute(t) ==
    /\ Exists(t)
    /\ mutes < MaxMutes
    /\ mutes' = mutes + 1
    /\ signals' = [signals EXCEPT ![t].active = ~@]
    /\ late' = [late EXCEPT ![t] = 0]
    /\ UNCHANGED <<count, passes, stamped, sweepVars, news, told, masked,
                   changes, faults>>

Sweep(s) ==
    \/ Screened(s) \/ SelectSignal(s) \/ InsertSignal(s) \/ UpdateSignal(s)
    \/ Stamp(s) \/ ReadBack(s) \/ Checked(s)
    \/ \E t \in Tokens : Evaluate(s, t)
    \/ \E m \in fired[s] : Announce(s, m)

Next ==
    \/ \E s \in Sweepers : Count(s) \/ Sweep(s) \/ Crash(s) \/ DatabaseFails(s)
    \/ \E t \in Tokens : Recount(t) \/ Rescreen(t) \/ Mute(t)

Spec == Init /\ [][Next]_vars

\* A sweep that has begun goes on (its awaits have timeouts), and every worker
\* sweeps again and again.
FairSpec ==
    /\ Spec
    /\ \A s \in Sweepers : WF_vars(Sweep(s)) /\ WF_vars(Count(s))

-----------------------------------------------------------------------------
(* Properties. *)

\* However sweeps overlap and whatever fails, a token is announced as a new
\* signal at most once.
NewToldOnce == \A t \in Tokens : news[t] <= 1

\* A signal has its outcome stamped, is about to be by the sweep that created
\* it, or lost the stamp to a failure between the two transactions: only one
\* signal for each failure.
FiresAreStamped ==
    Cardinality({t \in Tokens :
        /\ Exists(t) /\ ~stamped[t]
        /\ \A s \in Sweepers : ~(pc[s] = "stamping" /\ tok[s] = t)}) <= faults

\* A dismissed signal stays quiet: after the dismissal every worker sends at
\* most the one message it was already carrying, whatever re-triggers.
DismissedStaysQuiet ==
    \A t \in Tokens : Dismissed(t) => late[t] <= Cardinality(Sweepers)

\* A dismissal stands until the user restores the signal: no sweep undoes it.
OnlyUsersRestore ==
    [][\A t \in Tokens :
        Dismissed(t) /\ signals'[t] # None /\ signals'[t].active
            => mutes' = mutes + 1]_vars

\* A dismissal stands: the user's alone to undo, and quiet at once, but for what
\* is on its way.
DismissalStands == []DismissedStaysQuiet /\ OnlyUsersRestore

\* Overlapping sweeps may write a count read long before over a newer one;
\* once the count of a token that passes stops changing, its signal shows it
\* for good.
SignalSettles ==
    \A t \in Tokens : \A c \in Required .. MaxWallets :
        <>[](count[t] = c /\ passes[t])
            => <>[](Exists(t) /\ signals[t].wallets = c)

\* README: the pooled threshold and the liquidity gate work on Solana without
\* knowing Solana exists.  A token that stays over the threshold and deserves a
\* signal gets one, whatever its chain.
ThresholdFires ==
    \A t \in Tokens :
        <>[](count[t] >= Required /\ passes[t]) => <>Exists(t)

\* Nothing failed, nobody muted a signal, and no sweep is under way.
Quiet == mutes = 0 /\ faults = 0 /\ \A s \in Sweepers : pc[s] = "idle"


\* What the code keeps of that, however many sweeps overlap: only a signal that
\* a sweep strengthened and then read back lower, because another had put a
\* stale count over it, can end with a count nobody was told.
StrengthIsTold ==
    \A t \in Tokens :
        Exists(t) /\ Quiet /\ ~masked[t] => told[t] >= signals[t].wallets
=============================================================================
