---------------------------- MODULE SignalFollowUps ----------------------------
(***************************************************************************)
(* What every worker does for the signals already fired, after each sweep  *)
(* (realtime.sweep_loop): look up the price of those whose horizon is due, *)
(* research those without a brief and send what was found, and warn once   *)
(* about those whose buyers have sold.  Each stage lists its signals in    *)
(* one transaction, then awaits other services between further ones, and   *)
(* the stages of different workers overlap.  The handlers that run one     *)
(* stage on request (refresh, exits/check) run the same code.              *)
(***************************************************************************)
EXTENDS Integers, FiniteSets

CONSTANTS
    Sweepers,        \* the processes that may be in these stages at once
    Signals,         \* signal ids, in the order they fired
    Buyers,          \* the wallets named on a signal
    ExitMin,         \* exit_min_wallets
    ExitPct,         \* exit_pct
    BriefLimit,      \* how many signals a sweep researches at most
    ExitLimit,       \* how many signals a sweep checks for exits at most
    Unresearchable,  \* the signals the model never gives an answer about
    MaxChanges,      \* bound: changes of the world that are not progress
    MaxFaults,       \* bound: crashes and failed calls
    None             \* SQL NULL

ASSUME SignalsAssumption == Signals \subseteq Int /\ IsFiniteSet(Signals)
ASSUME LimitsAssumption ==
    /\ Buyers \in Nat \ {0} /\ ExitMin \in 1 .. Buyers /\ ExitPct \in 0 .. 100
    /\ BriefLimit \in Nat \ {0} /\ ExitLimit \in Nat \ {0}
ASSUME BudgetAssumption == MaxChanges \in Nat /\ MaxFaults \in Nat

VARIABLES
    active,     \* signals.status = 'active'
    recent,     \* fired within exit_window_days
    due,        \* fired long enough ago for the horizon
    pool,       \* the token still has a liquidity pool
    api,        \* DexScreener answers
    sellers,    \* how many of the buyers have sold since it fired
    price,      \* the horizon column: NULL, a price, or zero
    briefs,     \* whether signal_briefs has a row
    exits,      \* whether signal_exits has a row
    pc, batch,  \* a sweep: its stage, and the signals left in it
    warned,     \* auxiliary: exit messages sent about a signal
    changes, faults

worldVars  == <<active, recent, due, pool, api, sellers>>
tableVars  == <<price, briefs, exits>>
vars       == <<worldVars, tableVars, pc, batch, warned, changes, faults>>

-----------------------------------------------------------------------------
TypeOK ==
    /\ active \in [Signals -> BOOLEAN] /\ recent \in [Signals -> BOOLEAN]
    /\ due \in [Signals -> BOOLEAN] /\ pool \in [Signals -> BOOLEAN]
    /\ api \in BOOLEAN
    /\ sellers \in [Signals -> 0 .. Buyers]
    /\ price \in [Signals -> {None, "price", "zero"}]
    /\ briefs \in [Signals -> BOOLEAN] /\ exits \in [Signals -> BOOLEAN]
    /\ pc \in [Sweepers -> {"prices", "pricing", "briefs", "researching",
                            "telling", "exits", "measuring", "warning"}]
    /\ batch \in [Sweepers -> SUBSET Signals]
    /\ \A s \in Sweepers :   \* nothing to do, no stage to be in
          batch[s] = {} => pc[s] \in {"prices", "briefs", "exits"}
    /\ warned \in [Signals -> 0 .. 2]
    /\ changes \in 0 .. MaxChanges /\ faults \in 0 .. MaxFaults

Lesser(a, b) == IF a < b THEN a ELSE b

\* Mutant: one short of the limit.
FewerOf(S, limit) == {i \in S : Cardinality({j \in S : j > i}) < limit - 1}

\* ORDER BY first_seen_at DESC LIMIT limit
NewestOf(S, limit) == {i \in S : Cardinality({j \in S : j > i}) < limit}

\* The one a batch of S handles next: the newest first.
First(S) == CHOOSE i \in S : \A j \in S : j <= i

\* is_news: both bars.  The share is rounded to a tenth of a percent before it
\* is compared.
IsNews(i) ==
    /\ sellers[i] >= ExitMin
    /\ 2000 * sellers[i] >= (20 * ExitPct - 1) * Buyers

Init ==
    /\ active = [i \in Signals |-> TRUE] /\ recent = [i \in Signals |-> TRUE]
    /\ due = [i \in Signals |-> FALSE] /\ pool = [i \in Signals |-> TRUE]
    /\ api = TRUE
    /\ sellers = [i \in Signals |-> 0]
    /\ price = [i \in Signals |-> None]
    /\ briefs = [i \in Signals |-> FALSE] /\ exits = [i \in Signals |-> FALSE]
    /\ pc = [s \in Sweepers |-> "prices"]
    /\ batch = [s \in Sweepers |-> {}]
    /\ warned = [i \in Signals |-> 0]
    /\ changes = 0 /\ faults = 0

\* Mutant: a stage is entered with nothing to do in it.
Enter(s, listed, stage, otherwise) ==
    /\ batch' = [batch EXCEPT ![s] = listed]
    /\ pc' = [pc EXCEPT ![s] = stage]

\* Enter a stage with the signals it lists, or pass to the next one.
List(s, listed, stage, otherwise) ==
    /\ batch' = [batch EXCEPT ![s] = listed]
    /\ pc' = [pc EXCEPT ![s] = IF listed = {} THEN otherwise ELSE stage]

\* Done with signal i: the rest of the batch, or the next stage.
Proceed(s, i, stage, otherwise) == List(s, batch[s] \ {i}, stage, otherwise)

-----------------------------------------------------------------------------
(* performance.fill_horizons *)

\* outcomes_due
Pending(i) == due[i] /\ price[i] = None

ListDue(s) ==
    /\ pc[s] = "prices"
    /\ List(s, {i \in Signals : Pending(i)}, "pricing", "briefs")
    /\ UNCHANGED <<worldVars, tableVars, warned, changes, faults>>

\* What is written after a lookup.  A batch that fails, like a token without
\* a pool, yields a market without a price, and that is written as zero.
Measured(i) == IF api /\ pool[i] THEN "price" ELSE "zero"

\* market_data returned: set_outcome_price for every signal of the batch,
\* whatever another sweep has written there meanwhile.
FillHorizons(s) ==
    /\ pc[s] = "pricing"
    /\ price' = [i \in Signals |->
                   IF i \in batch[s] THEN Measured(i) ELSE price[i]]
    /\ List(s, {}, "pricing", "briefs")
    /\ UNCHANGED <<worldVars, briefs, exits, warned, changes, faults>>

-----------------------------------------------------------------------------
(* realtime.backfill_briefs *)

\* signals_without_briefs
Unbriefed(i) == ~briefs[i] /\ active[i]

ListBriefs(s) ==
    /\ pc[s] = "briefs"
    /\ List(s, NewestOf({i \in Signals : Unbriefed(i)}, BriefLimit),
            "researching", "exits")
    /\ UNCHANGED <<worldVars, tableVars, warned, changes, faults>>

\* enrich returned: a brief, saved unless one is there, or nothing.
Research(s) ==
    LET i == First(batch[s]) IN
    /\ pc[s] = "researching"
    /\ \/ /\ i \notin Unresearchable
          /\ briefs' = [briefs EXCEPT ![i] = TRUE]
          /\ pc' = [pc EXCEPT ![s] = "telling"]
          /\ UNCHANGED batch
       \/ /\ i \in Unresearchable
          /\ Proceed(s, i, "researching", "exits")
          /\ UNCHANGED briefs
    /\ UNCHANGED <<worldVars, price, exits, warned, changes, faults>>

\* send_brief_notification returned.
TellBrief(s) ==
    LET i == First(batch[s]) IN
    /\ pc[s] = "telling"
    /\ Proceed(s, i, "researching", "exits")
    /\ UNCHANGED <<worldVars, tableVars, warned, changes, faults>>

-----------------------------------------------------------------------------
(* exits.check *)

\* signals_to_watch_for_exits
Watched(i) == ~exits[i] /\ active[i] /\ recent[i]

ListExits(s) ==
    /\ pc[s] = "exits"
    /\ List(s, NewestOf({i \in Signals : Watched(i)}, ExitLimit),
            "measuring", "prices")
    /\ UNCHANGED <<worldVars, tableVars, warned, changes, faults>>

\* Mutant: an INSERT OR REPLACE, which always writes a row.
ClaimsAlways(i) == TRUE

\* record_exit: INSERT OR IGNORE wrote a row.
Claims(i) == ~exits[i]

\* record_exit follows the two bars.
Records(i) == IsNews(i)

\* measure, is_news and record_exit.  One step: the buyers are those of the
\* row listed, and their sales only add up, so what was news when it was
\* counted is news when it is claimed.
Measure(s) ==
    LET i == First(batch[s]) IN
    /\ pc[s] = "measuring"
    /\ exits' = [exits EXCEPT ![i] = @ \/ Records(i)]
    /\ \/ /\ IsNews(i) /\ Claims(i)
          /\ pc' = [pc EXCEPT ![s] = "warning"]
          /\ UNCHANGED batch
       \/ ~(IsNews(i) /\ Claims(i)) /\ Proceed(s, i, "measuring", "prices")
    /\ UNCHANGED <<worldVars, price, briefs, warned, changes, faults>>

\* send_exit_notification returned.
Warn(s) ==
    LET i == First(batch[s]) IN
    /\ pc[s] = "warning"
    /\ warned' = [warned EXCEPT ![i] = Lesser(2, @ + 1)]
    /\ Proceed(s, i, "measuring", "prices")
    /\ UNCHANGED <<worldVars, tableVars, changes, faults>>

-----------------------------------------------------------------------------
(* Failures and the environment. *)

\* The process dies between two steps; what it claimed stays claimed.
Crash(s) ==
    /\ batch[s] # {}
    /\ faults < MaxFaults
    /\ faults' = faults + 1
    /\ batch' = [batch EXCEPT ![s] = {}]
    /\ pc' = [pc EXCEPT ![s] = "prices"]
    /\ UNCHANGED <<worldVars, tableVars, warned, changes>>

\* A model call times out or a database call raises: the sweep goes on with the
\* next signal.  A price lookup that raises ends its stage, and the horizons
\* stay pending; a failure while a brief is being sent ends that stage.
Fail(s) ==
    /\ faults < MaxFaults
    /\ faults' = faults + 1
    /\ \/ pc[s] = "pricing" /\ List(s, {}, "pricing", "briefs")
       \/ /\ pc[s] = "researching"
          /\ Proceed(s, First(batch[s]), "researching", "exits")
       \/ pc[s] = "telling" /\ List(s, {}, "researching", "exits")
       \/ /\ pc[s] \in {"measuring", "warning"}
          /\ Proceed(s, First(batch[s]), "measuring", "prices")
    /\ UNCHANGED <<worldVars, tableVars, warned, changes>>

\* Time makes a horizon due; buyers sell.
Age(i) ==
    /\ ~due[i]
    /\ due' = [due EXCEPT ![i] = TRUE]
    /\ UNCHANGED <<active, recent, pool, api, sellers, tableVars, pc, batch,
                   warned, changes, faults>>

Sell(i) ==
    /\ sellers[i] < Buyers
    /\ sellers' = [sellers EXCEPT ![i] = @ + 1]
    /\ UNCHANGED <<active, recent, due, pool, api, tableVars, pc, batch,
                   warned, changes, faults>>

\* A user dismisses or restores a signal or has it researched at once; it
\* leaves the exit window; its pool dries up for good; DexScreener fails or
\* answers again.
Change(i) ==
    /\ changes < MaxChanges
    /\ changes' = changes + 1
    /\ \/ /\ active' = [active EXCEPT ![i] = ~@]
          /\ UNCHANGED <<recent, pool, api, briefs>>
       \/ /\ recent' = [recent EXCEPT ![i] = FALSE]
          /\ UNCHANGED <<active, pool, api, briefs>>
       \/ /\ pool' = [pool EXCEPT ![i] = FALSE]
          /\ UNCHANGED <<active, recent, api, briefs>>
       \/ /\ api' = ~api
          /\ UNCHANGED <<active, recent, pool, briefs>>
       \/ /\ i \notin Unresearchable
          /\ briefs' = [briefs EXCEPT ![i] = TRUE]
          /\ UNCHANGED <<active, recent, pool, api>>
    /\ UNCHANGED <<due, sellers, price, exits, pc, batch, warned, faults>>

Stages(s) ==
    \/ ListDue(s) \/ FillHorizons(s)
    \/ ListBriefs(s) \/ Research(s) \/ TellBrief(s)
    \/ ListExits(s) \/ Measure(s) \/ Warn(s)

Next ==
    \/ \E s \in Sweepers : Stages(s) \/ Crash(s) \/ Fail(s)
    \/ \E i \in Signals : Age(i) \/ Sell(i) \/ Change(i)

Spec == Init /\ [][Next]_vars

\* Every await of a stage ends, and the loop comes round again.
FairSpec == Spec /\ \A s \in Sweepers : WF_vars(Stages(s))

-----------------------------------------------------------------------------
(* Properties. *)

\* However sweeps overlap, a signal's buyers leaving is told at most once.
ExitToldOnce == \A i \in Signals : warned[i] <= 1

Warning(s, i) == pc[s] = "warning" /\ First(batch[s]) = i

\* Claiming before sending loses a warning only to a failure, one for each:
\* what is claimed is sent, or a sweep is about to send it.
ExitsAreSent ==
    Cardinality({i \in Signals :
        /\ exits[i] /\ warned[i] = 0
        /\ \A s \in Sweepers : ~Warning(s, i)}) <= faults

\* An exit is told exactly once, however sweeps overlap: never twice, and not at
\* all only for a failure.
ExitIsToldOnce == ExitToldOnce /\ ExitsAreSent

\* A horizon that has come due does not stay pending.
HorizonsFilled == \A i \in Signals : []<>(due[i] => price[i] # None)

\* A signal whose buyers have left is warned about while it stays active and
\* recent, unless a failure took the warning, as long as fewer signals fired
\* after it are still watched than a sweep checks: those are measured again
\* before it each time, and ExitLimit of them keep it from its turn.
ExitsAreTold ==
    \A i \in Signals :
        <>[](/\ active[i] /\ recent[i] /\ IsNews(i)
             /\ Cardinality({j \in Signals : j > i /\ Watched(j)}) < ExitLimit)
            => <>[](warned[i] > 0 \/ faults > 0)

\* A signal that stays active is researched in the end, failures and signals
\* the model never answers about notwithstanding, as long as fewer of those
\* fired after it than a sweep researches: the newest are tried again and
\* again, and BriefLimit of them keep every older signal from its turn.
BriefsArrive ==
    \A i \in Signals \ Unresearchable :
        Cardinality({j \in Unresearchable : j > i}) < BriefLimit
            => (<>[](active[i]) => <>[](briefs[i]))

\* What follows a signal arrives: its price at the horizon or the zero stored
\* for want of one, the warning of its buyers' exit and its brief, the last two
\* as far as the limits on one sweep let an older signal have its turn.
FollowUpsArrive == HorizonsFilled /\ ExitsAreTold /\ BriefsArrive
=============================================================================
