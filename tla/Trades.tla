-------------------------------- MODULE Trades --------------------------------
(***************************************************************************)
(* What a monitor run makes of the rows of its queries: trades and new     *)
(* balances become buy records, one per wallet and token, and the tokens   *)
(* enough wallets bought become candidates.  The rows arrive one by one.   *)
(*                                                                         *)
(* An address stands for all its spellings: both parsers lower-case those  *)
(* of an EVM chain, and the watchlist is stored in the same form.          *)
(***************************************************************************)
EXTENDS Integers, Sequences, SequencesExt, FiniteSets, FiniteSetsExt

CONSTANTS
    Watched,    \* the watchlist
    Strangers,  \* other wallets
    Tokens,
    Ignored,    \* ignored_tokens
    Amounts,    \* what amount_usd may be, if it is known
    Floors,     \* what min_buy_usd may be
    Shares,     \* what min_wallets_pct may be
    MinWallets, \* min_wallets
    MaxRows,    \* bound
    None        \* unknown

TradesAssumption ==
    /\ Watched \cap Strangers = {} /\ Ignored \subseteq Tokens
    /\ IsFiniteSet(Watched) /\ IsFiniteSet(Tokens)
    /\ Amounts \subseteq Nat /\ Floors \subseteq Nat /\ Shares \subseteq 0 .. 100
    /\ MinWallets \in Nat \ {0, 1} /\ MaxRows \in Nat
    /\ None \notin Int

VARIABLES
    trades,     \* the rows of dex.trades, grouped by wallet and token
    positions,  \* the rows of the balance table, likewise
    min_buy_usd, min_wallets_pct

settings == <<min_buy_usd, min_wallets_pct>>
vars == <<trades, positions, settings>>

-----------------------------------------------------------------------------
Traders == Watched \cup Strangers

Relevant(r) == r.wallet \in Watched /\ r.token \notin Ignored

Buy(r, usd, via) ==
    [wallet |-> r.wallet, token |-> r.token, amount_usd |-> usd, via |-> via]

\* parse_trade_rows
DexBuys == {Buy(r, r.amount_usd, "dex") : r \in {r \in trades : Relevant(r)}}

\* parse_position_rows: a position has no amount.
PositionBuys == {Buy(r, None, "balance") : r \in {r \in positions : Relevant(r)}}

SamePair(a, b) == a.wallet = b.wallet /\ a.token = b.token

\* Mutant: the position wins.
PositionsWin == PositionBuys \cup
    {d \in DexBuys : ~ \E p \in PositionBuys : SamePair(d, p)}

\* merge_buys: the trade wins over the position of the same wallet and token.
Merged == DexBuys \cup
    {p \in PositionBuys : ~ \E d \in DexBuys : SamePair(d, p)}

CeilDiv(a, b) == (a + b - 1) \div b

\* effective_min_wallets.  The code multiplies doubles, which is exact for
\* lists as short as an instance's.
Required ==
    Max({2, MinWallets, CeilDiv(min_wallets_pct * Cardinality(Watched), 100)})

\* Not known to be below the floor.
Passes(b) == b.amount_usd = None \/ b.amount_usd >= min_buy_usd

Buyers(t) == {b \in Merged : b.token = t /\ Passes(b)}
WalletsOf(buys) == {b.wallet : b \in buys}
Known(buys) == {b \in buys : b.amount_usd # None}

Candidate(t) ==
    [token_address |-> t,
     wallet_count |-> Cardinality(WalletsOf(Buyers(t))),
     dex_wallet_count |->
        Cardinality(WalletsOf({b \in Buyers(t) : b.via = "dex"})),
     total_usd |-> IF Known(Buyers(t)) = {} THEN None
                   ELSE MapThenSumSet(LAMBDA b : b.amount_usd, Known(Buyers(t)))]

Found == {t \in Tokens : Cardinality(WalletsOf(Buyers(t))) >= Required}

OrZero(usd) == IF usd = None THEN 0 ELSE usd

\* Most wallets first, then most money.
Ahead(c, d) ==
    \/ c.wallet_count > d.wallet_count
    \/ /\ c.wallet_count = d.wallet_count
       /\ OrZero(c.total_usd) > OrZero(d.total_usd)

\* aggregate_candidates: ties in any order.
Candidates ==
    CHOOSE s \in SetToSeqs({Candidate(t) : t \in Found}) :
        \A i, j \in DOMAIN s : i < j => ~Ahead(s[j], s[i])

-----------------------------------------------------------------------------
Row == [wallet : Traders, token : Tokens]
Trade == [wallet : Traders, token : Tokens, amount_usd : Amounts \cup {None}]

TypeOK ==
    /\ trades \subseteq Trade /\ positions \subseteq Row
    /\ min_buy_usd \in Floors /\ min_wallets_pct \in Shares
    /\ \A i \in DOMAIN Candidates :
          LET c == Candidates[i] IN
          /\ c.wallet_count \in Required .. Cardinality(Watched)
          /\ c.dex_wallet_count \in 0 .. c.wallet_count
          /\ (c.total_usd = None) => c.dex_wallet_count < c.wallet_count
                                     \/ \E r \in trades : r.amount_usd = None

Init ==
    /\ trades = {} /\ positions = {}
    /\ min_buy_usd \in Floors /\ min_wallets_pct \in Shares

Room == Cardinality(trades) + Cardinality(positions) < MaxRows

AddTrade(r) ==
    /\ Room
    /\ ~ \E q \in trades : SamePair(q, r)
    /\ trades' = trades \cup {r}
    /\ UNCHANGED <<positions, settings>>

AddPosition(r) ==
    /\ Room
    /\ r \notin positions
    /\ positions' = positions \cup {r}
    /\ UNCHANGED <<trades, settings>>

Next ==
    \/ \E r \in Trade : AddTrade(r)
    \/ \E r \in Row : AddPosition(r)

Spec == Init /\ [][Next]_vars

-----------------------------------------------------------------------------
(* Properties. *)

\* A watched wallet bought t, as far as the rows of one kind or the other say,
\* and is not known to have spent less than the floor.
Bought(w, t) ==
    \/ \E r \in trades : /\ r.wallet = w /\ r.token = t
                         /\ r.amount_usd = None \/ r.amount_usd >= min_buy_usd
    \/ /\ [wallet |-> w, token |-> t] \in positions
       /\ ~ \E r \in trades : r.wallet = w /\ r.token = t

\* The candidates are the tokens bought by two wallets at least, min_wallets at
\* least, and min_wallets_pct percent of the watchlist at least, each wallet
\* counted once whatever it was detected by.
CandidatesAreExact ==
    {Candidates[i].token_address : i \in DOMAIN Candidates} =
        {t \in Tokens \ Ignored :
            LET n == Cardinality({w \in Watched : Bought(w, t)}) IN
            /\ n >= 2 /\ n >= MinWallets
            /\ 100 * n >= min_wallets_pct * Cardinality(Watched)}
=============================================================================
