-------------------------------- MODULE Holders --------------------------------
(***************************************************************************)
(* The holders request (main.get_holders, holders.py): the balances of the *)
(* days asked for, and of the day before, are fetched from Dune and turned *)
(* into snapshots, buyers, holders and summaries.  The query takes minutes *)
(* and the end of the range is clamped to today whenever it is looked at:  *)
(* in the SQL before the query, in the analysis after it.                  *)
(*                                                                         *)
(* Days are counted from the baseline day, 0; the range begins on day 1.   *)
(***************************************************************************)
EXTENDS Integers, FiniteSets, FiniteSetsExt

CONSTANTS
    Wallets,
    MaxBalance,  \* bound: balances told apart
    LastDay,     \* bound: how far the range and the clock reach
    None

HoldersAssumption == {MaxBalance, LastDay} \subseteq Nat \ {0}

Days == 0 .. LastDay
Modes == {"daily", "any_time", "continuous"}
Filters == {"all", "buyers", "holders"}

VARIABLES
    truth,      \* the wallets' end-of-day balances
    today,      \* utc_today()
    req,        \* the HoldersRequest
    stage,      \* "asked", "querying", "answered"
    upto,       \* auxiliary: the last day the SQL asked for
    rows        \* what Dune returned

vars == <<truth, today, req, stage, upto, rows>>

-----------------------------------------------------------------------------
EarlierOf(a, b) == IF a < b THEN a ELSE b

\* effective_end_date, days
EffectiveEnd == EarlierOf(req.end, today)
DaysCovered == 1 .. EffectiveEnd

Snapshot == [wallet : Wallets, day : Days, balance : 1 .. MaxBalance]

\* The balance query: balances above the minimum, the baseline day included.
Source(last) ==
    {s \in Snapshot : /\ s.day <= last /\ s.balance = truth[s.wallet][s.day]
                      /\ s.balance > req.min}

-----------------------------------------------------------------------------
(* The analysis. *)

\* parse_rows
Parsed ==
    {s \in rows : s.balance > req.min /\ s.day \in 0 .. EffectiveEnd}

\* The largest row of a wallet's day; a missing day is the floor.
Balance(w, d) ==
    Max({0} \cup {s.balance : s \in {s \in Parsed : s.wallet = w /\ s.day = d}})

\* Mutant: the first day has nothing before it.
RisesInRange(w) ==
    {d \in DaysCovered \ {1} : Balance(w, d) > Balance(w, d - 1)}

Rises(w) == {d \in DaysCovered : Balance(w, d) > Balance(w, d - 1)}

\* classify_wallets
BoughtAmount(w) ==
    MapThenSumSet(LAMBDA d : Balance(w, d) - Balance(w, d - 1), Rises(w))
WalletType(w) == IF BoughtAmount(w) > 0 THEN "buyer" ELSE "holder"

\* Mutant: the baseline day stays.
WithBaseline == Parsed

\* classify_wallets strips the baseline day.
InRange == {s \in Parsed : s.day >= 1}

\* apply_wallet_filter
Filtered ==
    {s \in InRange :
        CASE req.filter = "all"     -> TRUE
          [] req.filter = "buyers"  -> WalletType(s.wallet) = "buyer"
          [] req.filter = "holders" -> WalletType(s.wallet) = "holder"}

DaysOf(w) == {s.day : s \in {s \in Filtered : s.wallet = w}}

Continuous(w) == DaysCovered \subseteq DaysOf(w)

\* apply_holder_mode
Snapshots ==
    IF req.mode # "continuous" THEN Filtered
    ELSE IF DaysCovered = {} THEN {}
    ELSE {s \in Filtered : Continuous(s.wallet)}

Shown == {s.wallet : s \in Snapshots}

\* build_summary
Summary(w) ==
    LET own == {s \in Snapshots : s.wallet = w} IN
    [first_date    |-> Min({s.day : s \in own}),
     last_date     |-> Max({s.day : s \in own}),
     days_held     |-> Cardinality({s.day : s \in own}),
     min_balance   |-> Min({s.balance : s \in own}),
     max_balance   |-> Max({s.balance : s \in own}),
     wallet_type   |-> WalletType(w),
     opening       |-> Balance(w, 0),
     bought_amount |-> BoughtAmount(w)]

-----------------------------------------------------------------------------
TypeOK ==
    /\ truth \in [Wallets -> [Days -> 0 .. MaxBalance]]
    /\ today \in Days
    /\ req \in [min : 0 .. MaxBalance, mode : Modes, filter : Filters, end : Days]
    /\ stage \in {"asked", "querying", "answered"}
    /\ upto \in Days \cup {None}
    /\ rows \subseteq Snapshot
    /\ stage = "answered" =>
          \A w \in Shown :
             LET s == Summary(w) IN
             /\ 1 <= s.first_date /\ s.first_date <= s.last_date
             /\ s.last_date <= EffectiveEnd
             /\ s.days_held \in 1 .. s.last_date - s.first_date + 1
             /\ req.min < s.min_balance /\ s.min_balance <= s.max_balance
             /\ s.opening + s.bought_amount \in Nat

Init ==
    /\ truth \in [Wallets -> [Days -> 0 .. MaxBalance]]
    /\ today \in Days \ {0}   \* the validator: the range does not begin later
    /\ req \in [min : {0, 1}, mode : Modes, filter : Filters, end : Days \ {0}]
    /\ stage = "asked"
    /\ upto = None
    /\ rows = {}

\* build_holders_sql
Ask ==
    /\ stage = "asked"
    /\ stage' = "querying"
    /\ upto' = EffectiveEnd
    /\ UNCHANGED <<truth, today, req, rows>>

\* The result, which may hold a second, smaller row of a wallet's day.
Answer ==
    /\ stage = "querying"
    /\ stage' = "answered"
    /\ \/ rows' = Source(upto)
       \/ \E s \in Source(upto) : \E b \in 1 .. s.balance - 1 :
             rows' = Source(upto) \cup {[s EXCEPT !.balance = b]}
    /\ UNCHANGED <<truth, today, req, upto>>

\* Midnight; the analysis follows the answer at once.
Midnight ==
    /\ stage # "answered" /\ today < LastDay
    /\ today' = today + 1
    /\ UNCHANGED <<truth, req, stage, upto, rows>>

Next == Ask \/ Answer \/ Midnight

Spec == Init /\ [][Next]_vars

-----------------------------------------------------------------------------
(* Properties. *)

\* What counts as held: a balance at or below the minimum is nothing.
Held(w, d) == IF truth[w][d] > req.min THEN truth[w][d] ELSE 0

Rose(w) == \E d \in 1 .. upto : Held(w, d) > Held(w, d - 1)

\* Every wallet that held in the range is shown exactly when the filter wants
\* its kind, a buyer being one whose balance rose on some day of the range, the
\* first day against the baseline; and what a buyer bought covers any rise from
\* one day to a later one.
BuyersRose ==
    stage = "answered" /\ req.mode # "continuous" =>
        /\ Shown = {w \in Wallets :
                      /\ \E d \in 1 .. upto : Held(w, d) > 0
                      /\ (req.filter = "buyers") => Rose(w)
                      /\ (req.filter = "holders") => ~Rose(w)}
        /\ \A w \in Shown : \A d, e \in 0 .. upto :
              d < e => BoughtAmount(w) >= Held(w, e) - Held(w, d)

\* In continuous mode the wallets shown are those that held on every day the
\* query covered, unless midnight moved the end of the range while it ran: then
\* nobody can have held on the day that was never asked for.
ContinuousMeansEveryDay ==
    stage = "answered" /\ req.mode = "continuous" =>
        Shown = {w \in Wallets :
                   /\ EffectiveEnd = upto /\ upto > 0
                   /\ \A d \in 1 .. upto : Held(w, d) > 0
                   /\ (req.filter = "buyers") => Rose(w)
                   /\ (req.filter = "holders") => ~Rose(w)}
=============================================================================
