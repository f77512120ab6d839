-------------------------------- MODULE Parts --------------------------------
(***************************************************************************)
(* Six parts of the program that share no state with each other: the live  *)
(* event store, cohorts, shared files, contract screening, the analysis of *)
(* a monitor run and the holders request.  A behaviour is about one of     *)
(* them, part; the variables of the others are None throughout.  Each      *)
(* property is that of its part.                                           *)
(***************************************************************************)
EXTENDS Integers

CONSTANTS
    Covered,  \* the parts an instance is about
    Txs, Contents, Addresses, Contracts, Window, Retention, Horizon,
    MaxDeliveries, MaxRewatches,
    Handlers, Wallets, MinCohorts, WalletCap, MaxId, MaxRequests,
    Jobs, Updates, Entry, Workers, MaxEntries, MaxCrashes,
    Screens, VerdictTTL, UncheckedTTL, MaxElapsed,
    Watched, Strangers, Tokens, Ignored, Amounts, Floors, Shares,
    MinWallets, MaxRows,
    Owners, MaxBalance, LastDay,
    MaxFaults, None

VARIABLES
    part,
    transfers, watched, airdrops, events, inhand, stored, deliveries, rewatches,
    rows, nextId, pc, target, wallets, removals, alone, lapped, crossed,
    requests, faults,
    partial, path, content, clock, written, expired, at, inode, listed,
    dropped, raced, crashes,
    honeypot, since, failed, row, screen_pc, elapsed, cached, result,
    overtaken, screen_faults,
    trades, positions, min_buy_usd, min_wallets_pct,
    truth, today, req, stage, upto, balances

L == INSTANCE LiveEvents WITH content <- transfers, Wallets <- Addresses,
                              Tokens <- Contracts
C == INSTANCE Cohorts
F == INSTANCE Files
S == INSTANCE Screening WITH pc <- screen_pc, faults <- screen_faults
T == INSTANCE Trades
H == INSTANCE Holders WITH Wallets <- Owners, rows <- balances

LVars == <<transfers, watched, airdrops, events, inhand, stored, deliveries,
           rewatches>>
CVars == <<rows, nextId, pc, target, wallets, removals, alone, lapped,
           crossed, requests, faults>>
FVars == <<partial, path, content, clock, written, expired, at, inode,
           listed, dropped, raced, crashes>>
SVars == <<honeypot, since, failed, row, screen_pc, elapsed, cached,
           result, overtaken, screen_faults>>
TVars == <<trades, positions, min_buy_usd, min_wallets_pct>>
HVars == <<truth, today, req, stage, upto, balances>>
vars == <<part, LVars, CVars, FVars, SVars, TVars, HVars>>

ASSUME PartsAssumption ==
    /\ L!LiveEventsAssumption /\ C!CohortsAssumption /\ F!FilesAssumption
    /\ S!ScreeningAssumption /\ T!TradesAssumption /\ H!HoldersAssumption

-----------------------------------------------------------------------------
LOff ==
    /\ transfers = None /\ watched = None /\ airdrops = None /\ events = None
    /\ inhand = None /\ stored = None /\ deliveries = None /\ rewatches = None

COff ==
    /\ rows = None /\ nextId = None /\ pc = None /\ target = None
    /\ wallets = None /\ removals = None /\ alone = None /\ lapped = None
    /\ crossed = None /\ requests = None /\ faults = None

FOff ==
    /\ partial = None /\ path = None /\ content = None /\ clock = None
    /\ written = None /\ expired = None /\ at = None /\ inode = None
    /\ listed = None /\ dropped = None /\ raced = None /\ crashes = None

SOff ==
    /\ honeypot = None /\ since = None /\ failed = None /\ row = None
    /\ screen_pc = None /\ elapsed = None /\ cached = None /\ result = None
    /\ overtaken = None /\ screen_faults = None

TOff ==
    /\ trades = None /\ positions = None /\ min_buy_usd = None
    /\ min_wallets_pct = None

HOff ==
    /\ truth = None /\ today = None /\ req = None /\ stage = None
    /\ upto = None /\ balances = None

Init ==
    /\ part \in Covered
    /\ \/ part = "events"    /\ L!Init /\ COff /\ FOff /\ SOff /\ TOff /\ HOff
       \/ part = "cohorts"   /\ LOff /\ C!Init /\ FOff /\ SOff /\ TOff /\ HOff
       \/ part = "files"     /\ LOff /\ COff /\ F!Init /\ SOff /\ TOff /\ HOff
       \/ part = "screening" /\ LOff /\ COff /\ FOff /\ S!Init /\ TOff /\ HOff
       \/ part = "trades"    /\ LOff /\ COff /\ FOff /\ SOff /\ T!Init /\ HOff
       \/ part = "holders"   /\ LOff /\ COff /\ FOff /\ SOff /\ TOff /\ H!Init

Next ==
    \/ /\ part = "events" /\ L!Next
       /\ UNCHANGED <<part, CVars, FVars, SVars, TVars, HVars>>
    \/ /\ part = "cohorts" /\ C!Next
       /\ UNCHANGED <<part, LVars, FVars, SVars, TVars, HVars>>
    \/ /\ part = "files" /\ F!Next
       /\ UNCHANGED <<part, LVars, CVars, SVars, TVars, HVars>>
    \/ /\ part = "screening" /\ S!Next
       /\ UNCHANGED <<part, LVars, CVars, FVars, TVars, HVars>>
    \/ /\ part = "trades" /\ T!Next
       /\ UNCHANGED <<part, LVars, CVars, FVars, SVars, HVars>>
    \/ /\ part = "holders" /\ H!Next
       /\ UNCHANGED <<part, LVars, CVars, FVars, SVars, TVars>>

Spec == Init /\ [][Next]_vars

-----------------------------------------------------------------------------
(* The properties of the parts. *)

\* Every part's state has its type, and so has what it returns.
TypeOK ==
    /\ part = "events"    => L!TypeOK
    /\ part = "cohorts"   => C!TypeOK
    /\ part = "files"     => F!TypeOK
    /\ part = "screening" => S!TypeOK
    /\ part = "trades"    => T!TypeOK
    /\ part = "holders"   => H!TypeOK

\* Who is counted traded, and who was seen to trade within the window is
\* counted.
CountsAreExact ==
    part = "events" => L!CountsAreExact

\* A redelivery makes no stored row younger and takes no flag from it.
NeverRejuvenated ==
    [][part = "events" => L!RowsAge]_vars

\* A chain gets a second derived watchlist only from overlapping rebuilds.
OneDerivedUnlessLapped ==
    part = "cohorts" => C!OneDerivedUnlessLapped

\* Outside a PATCH a watchlist is within the wallet cap.
CapHolds ==
    part = "cohorts" => C!CapHolds

\* A stored result is always the whole of what was put, and a cache entry too
\* unless two puts shared a .partial file.
FilesAreWhole ==
    part = "files" => F!ResultsAreWhole /\ F!EntryIsWhole

\* Pruning leaves exactly the newest: it caps the directory and deletes no fresh
\* result that is among them.
NewestAreKept ==
    part = "files" => F!NewestAreKept /\ F!CapIsKept

\* A failed lookup does not let a honeypot pass for longer than it may, and
\* blocks no token.
VerdictsAreCurrent ==
    part = "screening" => S!TrapsAreCaught /\ S!AlarmsAreCurrent

\* The candidates are the tokens enough watched wallets bought.
CandidatesAreExact ==
    part = "trades" => T!CandidatesAreExact

\* The wallets shown are those asked for: buyers those whose balance rose,
\* continuous holders those that held on every day.
ShownAsAsked ==
    part = "holders" => H!BuyersRose /\ H!ContinuousMeansEveryDay

\* A rebuild nobody wrote under leaves exactly the repeat wallets.
SoloRebuildIsExact ==
    [][part = "cohorts" => C!RebuildIsExact]_vars

\* The derived watchlist is current after any change to the inputs.
DerivedIsCurrent ==
    part = "cohorts" => C!DerivedIsCurrent
=============================================================================
