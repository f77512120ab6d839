------------------------------ MODULE LiveEvents ------------------------------
(***************************************************************************)
(* The live event store: Alchemy and Helius deliver transactions that      *)
(* touch a watched wallet, at least once and in any order; the handler     *)
(* reads the watched wallets, parses the delivery, upserts wallet_events   *)
(* and prunes it, each in a transaction of its own; the sweep then counts  *)
(* a token's wallets inside the window.                                    *)
(*                                                                         *)
(* A transaction is the set of its transfers.  seen_at is kept as an age   *)
(* in ticks, not told apart beyond Horizon.                                *)
(***************************************************************************)
EXTENDS Integers, FiniteSets

CONSTANTS
    Handlers,       \* webhook handlers that may run at the same time
    Txs,            \* transaction hashes
    Contents,       \* the sets of transfers a transaction may consist of
    Wallets,        \* the wallets that may be watched
    Tokens,         \* token contracts; other assets are the native coin
    Window,         \* pool_window_hours
    Retention,      \* EVENT_RETENTION_DAYS
    Horizon,        \* bound: ages told apart
    MaxDeliveries,  \* bound: deliveries, repeated ones included
    MaxRewatches,   \* bound: changes of the watched set
    None            \* no row, or no delivery in hand

VARIABLES
    content,    \* what each transaction did
    watched,    \* realtime_wallets
    airdrops,   \* signal_airdrops
    events,     \* wallet_events by its primary key, or None
    inhand,     \* a handler's parsed delivery; without events once written
    stored,     \* auxiliary: the age an event has, were it never pruned
    deliveries, rewatches

vars == <<content, watched, airdrops, events, inhand, stored,
          deliveries, rewatches>>

-----------------------------------------------------------------------------
Keys   == Txs \X Wallets \X Tokens
Event  == [age : 0 .. Horizon, buy : BOOLEAN, sell : BOOLEAN]
Parsed == [wallet : Wallets, token : Tokens, buy : BOOLEAN, sell : BOOLEAN]

\* buy_window_hours is at most 14 days, and the retention 15.
LiveEventsAssumption ==
    /\ {Window, Retention, Horizon, MaxDeliveries, MaxRewatches} \subseteq Nat
    /\ Window < Retention /\ Retention < Horizon
    /\ None \notin Int /\ None \notin Event

TypeOK ==
    /\ content \in [Txs -> Contents]
    /\ watched \subseteq Wallets
    /\ airdrops \in BOOLEAN
    /\ events \in [Keys -> Event \cup {None}]
    /\ \A h \in Handlers :
          inhand[h] # None =>
              inhand[h].tx \in Txs /\ inhand[h].events \subseteq Parsed
    /\ stored \in [Keys -> 0 .. Horizon \cup {None}]
    /\ deliveries \in 0 .. MaxDeliveries
    /\ rewatches \in 0 .. MaxRewatches

-----------------------------------------------------------------------------
(* Parsing (realtime.parse_activity, helius.parse_activity). *)

\* Mutant: anything sent in the transaction pays for everybody's arrivals.
AnyonePaid(C, w) == \E x \in C : x.from \in watched

\* Whether w sent anything out, of any category.
Paid(C, w) == \E x \in C : x.from = w

\* Whether w received something other than the token itself.
GotBack(C, w, token) == \E x \in C : x.to = w /\ x.asset # token

\* Mutant: native transfers make events too.
AnyCategory(x) == TRUE

\* TOKEN_CATEGORIES
IsToken(x) == x.asset \in Tokens

\* One event for each token transfer with one watched end.
Parse(C) ==
    LET inbound  == {x \in C : IsToken(x) /\ x.to \in watched
                                /\ x.from \notin watched}
        outbound == {x \in C : IsToken(x) /\ x.from \in watched
                                /\ x.to \notin watched}
    IN {[wallet |-> x.to, token |-> x.asset,
         buy |-> Paid(C, x.to), sell |-> FALSE] : x \in inbound}
       \cup
       {[wallet |-> x.from, token |-> x.asset,
         buy |-> FALSE, sell |-> GotBack(C, x.from, x.asset)] : x \in outbound}

\* The events of a delivery for one key.
OfKey(E, w, token) == {e \in E : e.wallet = w /\ e.token = token}

\* Mutant: the upsert rewrites the whole row.
Overwritten(old, E) ==
    [age |-> 0, buy |-> \E e \in E : e.buy, sell |-> \E e \in E : e.sell]

\* Mutant: INSERT OR IGNORE, one row for each event.
FirstKept(old, E) ==
    IF old # None THEN old
    ELSE LET e == CHOOSE e \in E : TRUE
         IN [age |-> 0, buy |-> e.buy, sell |-> e.sell]

\* INSERT ... ON CONFLICT DO UPDATE: the first seen_at stays, flags are OR-ed.
Upserted(old, E) ==
    LET buy  == \E e \in E : e.buy
        sell == \E e \in E : e.sell
    IN IF old = None THEN [age |-> 0, buy |-> buy, sell |-> sell]
       ELSE [old EXCEPT !.buy = @ \/ buy, !.sell = @ \/ sell]

\* prune_events: older than the retention.
Stale(age) == age > Retention

Lesser(a, b) == IF a < b THEN a ELSE b
Older(age) == Lesser(Horizon, age + 1)

-----------------------------------------------------------------------------
Init ==
    /\ content \in [Txs -> Contents]
    /\ watched \in SUBSET Wallets
    /\ airdrops \in BOOLEAN
    /\ events = [k \in Keys |-> None]
    /\ inhand = [h \in Handlers |-> None]
    /\ stored = [k \in Keys |-> None]
    /\ deliveries = 0 /\ rewatches = 0

\* A delivery of transaction t, a repeated or late one too, up to the write.
\* Without a watched wallet, or without an event, the handler is done.
Receive(h, t) ==
    /\ inhand[h] = None
    /\ deliveries < MaxDeliveries
    /\ deliveries' = deliveries + 1
    /\ Parse(content[t]) # {}
    /\ inhand' = [inhand EXCEPT ![h] = [tx |-> t, events |-> Parse(content[t])]]
    /\ UNCHANGED <<content, watched, airdrops, events, stored, rewatches>>

\* record_events, and the age each new row has from now on.
Store(h) ==
    LET t == inhand[h].tx
        Of(k) == OfKey(inhand[h].events, k[2], k[3])
        touched == {k \in Keys : k[1] = t /\ Of(k) # {}}
    IN
    /\ inhand[h] # None /\ inhand[h].events # {}
    /\ events' = [k \in Keys |->
                    IF k \in touched THEN Upserted(events[k], Of(k)) ELSE events[k]]
    /\ stored' = [k \in Keys |->
                    IF k \in touched /\ events[k] = None THEN 0 ELSE stored[k]]
    /\ inhand' = [inhand EXCEPT ![h].events = {}]
    /\ UNCHANGED <<content, watched, airdrops, deliveries, rewatches>>

\* prune_events, after the write.
Prune(h) ==
    /\ inhand[h] # None /\ inhand[h].events = {}
    /\ events' = [k \in Keys |->
                    IF events[k] # None /\ Stale(events[k].age) THEN None
                    ELSE events[k]]
    /\ inhand' = [inhand EXCEPT ![h] = None]
    /\ UNCHANGED <<content, watched, airdrops, stored, deliveries,
                   rewatches>>

\* The handler dies or a database call raises; the provider, not answered or
\* answered with an error, delivers again.
Abort(h) ==
    /\ inhand[h] # None
    /\ inhand' = [inhand EXCEPT ![h] = None]
    /\ UNCHANGED <<content, watched, airdrops, events, stored,
                   deliveries, rewatches>>

\* A wallet joins or leaves a live watchlist.
Rewatch(w) ==
    /\ rewatches < MaxRewatches
    /\ rewatches' = rewatches + 1
    /\ watched' = IF w \in watched THEN watched \ {w} ELSE watched \cup {w}
    /\ UNCHANGED <<content, airdrops, events, inhand, stored, deliveries>>

\* A handler parses and writes within a tick.
Tick ==
    /\ \A h \in Handlers : inhand[h] = None
    /\ events' = [k \in Keys |->
                    IF events[k] = None THEN None
                    ELSE [events[k] EXCEPT !.age = Older(@)]]
    /\ stored' = [k \in Keys |->
                    IF stored[k] = None THEN None ELSE Older(stored[k])]
    /\ UNCHANGED <<content, watched, airdrops, inhand, deliveries,
                   rewatches>>

Next ==
    \/ \E h \in Handlers : \/ Store(h) \/ Prune(h) \/ Abort(h)
                           \/ \E t \in Txs : Receive(h, t)
    \/ \E w \in Wallets : Rewatch(w)
    \/ Tick

Spec == Init /\ [][Next]_vars

-----------------------------------------------------------------------------
(* What the sweep and the exit check read. *)

InWindow(t, w, token) ==
    /\ events[<<t, w, token>>] # None
    /\ events[<<t, w, token>>].age <= Window

\* events_in_window: the wallets that count towards the threshold.
Counted(token) ==
    {w \in watched : \E t \in Txs :
        InWindow(t, w, token) /\ (airdrops \/ events[<<t, w, token>>].buy)}

\* What a transaction really did.
Arrived(t, w, token) == \E x \in content[t] : x.to = w /\ x.asset = token
Left(t, w, token)    == \E x \in content[t] : x.from = w /\ x.asset = token

\* A trade with somebody who is never watched: a transfer between two watched
\* wallets makes no event.
Bought(t, w, token) ==
    /\ \E x \in content[t] : x.to = w /\ x.asset = token /\ x.from \notin Wallets
    /\ Paid(content[t], w)
Sold(t, w, token) ==
    /\ \E x \in content[t] : x.from = w /\ x.asset = token /\ x.to \notin Wallets
    /\ GotBack(content[t], w, token)

-----------------------------------------------------------------------------
(* Properties. *)

\* With airdrops off, every wallet that counts towards a signal gave something
\* for the token in one transaction, in whatever order, how often and under
\* whatever watched sets the deliveries were parsed.
CountedPaid ==
    ~airdrops => \A token \in Tokens : \A w \in Counted(token) :
        \E t \in Txs :
            /\ InWindow(t, w, token) /\ Arrived(t, w, token)
            /\ \E x \in content[t] : x.from = w

\* A wallet counted as a seller gave the token away and got something else.
SellersSold ==
    \A t \in Txs, w \in Wallets, token \in Tokens :
        events[<<t, w, token>>] # None /\ events[<<t, w, token>>].sell =>
            /\ Left(t, w, token)
            /\ \E x \in content[t] : x.to = w /\ x.asset # token

\* With airdrops on, every wallet that counts moved the token all the same: an
\* arrival nobody paid for counts, and so does a departure.
CountedMoved ==
    \A token \in Tokens : \A w \in Counted(token) : \E t \in Txs :
        InWindow(t, w, token) /\ (Arrived(t, w, token) \/ Left(t, w, token))

\* Nothing seen within the window is lost: not its row to the pruning, and with
\* the row neither half of a trade, however the delivery, a repeated one or one
\* under another watched set, was parsed and merged.  A wallet watched now that
\* bought the token then is counted, and one that sold it counts as a seller.
WindowKept ==
    \A t \in Txs, w \in Wallets, token \in Tokens :
        LET age == stored[<<t, w, token>>]
            row == events[<<t, w, token>>]
        IN age # None /\ age <= Window =>
              /\ row # None
              /\ w \in watched /\ (airdrops \/ Bought(t, w, token))
                    => w \in Counted(token)
              /\ Sold(t, w, token) => row.sell

\* The counts are right in both directions.
CountsAreExact == CountedPaid /\ CountedMoved /\ SellersSold /\ WindowKept

\* A redelivery is free: while a row is stored, nothing makes it younger or
\* takes a flag from it, so no repeated delivery keeps a token in the window.
RowsAge ==
    \A k \in Keys : events[k] # None /\ events'[k] # None =>
        /\ events'[k].age >= events[k].age
        /\ events[k].buy => events'[k].buy
        /\ events[k].sell => events'[k].sell
NeverRejuvenated == [][RowsAge]_vars

=============================================================================
