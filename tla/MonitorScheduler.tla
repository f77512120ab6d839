-------------------------- MODULE MonitorScheduler --------------------------
(***************************************************************************)
(* The scheduled monitor: every uvicorn worker runs its own scheduler_loop *)
(* over one SQLite file, and the claimed_until column of a watchlist is    *)
(* the lease by which one of them takes a due watchlist.  HTTP handlers    *)
(* (manual runs, PATCH, DELETE) write the same rows meanwhile.             *)
(*                                                                         *)
(* Instants are kept relative to now: next_run_at and claimed_until count  *)
(* the ticks left until them, last_run_at the ticks since it.  What lies   *)
(* beyond Horizon (or, for a lease, in the past) is not told apart, so the *)
(* clock runs forever in a finite state space.                             *)
(***************************************************************************)
EXTENDS Integers, FiniteSets

CONSTANTS
    Workers,      \* the uvicorn worker processes, one scheduler_loop each
    Clients,      \* the HTTP handlers that may be in flight at once
    Watchlists,   \* watchlist ids (AUTOINCREMENT: a deleted id never returns)
    Intervals,    \* the values monitor_interval_hours may take, in ticks
    Lease,        \* claim_minutes, in ticks
    Horizon,      \* bound: how far from now an instant is still told apart
    Keep,         \* RUN_HISTORY_LIMIT
    MaxRows,      \* bound: monitor_runs rows of a watchlist told apart
    MaxRequests,  \* bound: user requests (create, patch, delete, manual run)
    MaxFaults,    \* bound: crashes, shutdowns and failed database calls
    None          \* SQL NULL, and "nothing" in a local variable

Procs == Workers \cup Clients

ASSUME HorizonAssumption ==
    /\ Horizon \in Nat
    /\ Intervals \subseteq 1 .. Horizon
    /\ Lease \in Nat
ASSUME RowsAssumption == Keep \in Nat /\ MaxRows \in Nat /\ Keep < MaxRows
ASSUME BudgetAssumption == MaxRequests \in Nat /\ MaxFaults \in Nat
ASSUME NamesAssumption ==
    /\ None \notin Int
    /\ None \notin Watchlists
    /\ None \notin [by : Workers, left : Int]
    /\ Workers \cap Clients = {}

VARIABLES
    stored,         \* whether the watchlists row exists
    auto_monitor, interval, next_run_at, last_run_at, claimed_until,
    rows,           \* how many monitor_runs rows the watchlist has
    pc, wid,        \* where a process is, and the watchlist it handles
    ival,           \* monitor_interval_hours as the run read it
    fields,         \* what a PATCH handler is about to write
    lease,          \* the ticks left of the lease a worker took (local)
    robbed,         \* auxiliary: another process cleared this worker's claim
    requests, faults

tableVars == <<stored, auto_monitor, interval, next_run_at, last_run_at,
               claimed_until, rows>>
procVars  == <<pc, wid, ival, fields, lease, robbed>>
vars      == <<tableVars, procVars, requests, faults>>

-----------------------------------------------------------------------------
(* Types and state formulae. *)

Offset == (-Horizon) .. Horizon
Fields == [interval : Intervals \cup {None},
           auto     : BOOLEAN \cup {None},
           next     : Offset \cup {None}]
NoFields == [interval |-> None, auto |-> None, next |-> None]

TypeOK ==
    /\ stored \in [Watchlists -> {"absent", "live", "deleted"}]
    /\ auto_monitor \in [Watchlists -> BOOLEAN]
    /\ interval \in [Watchlists -> Intervals]
    /\ next_run_at \in [Watchlists -> Offset]
    /\ last_run_at \in [Watchlists -> 0 .. Horizon \cup {None}]
    /\ claimed_until \in [Watchlists -> -1 .. Lease \cup {None}]
    /\ rows \in [Watchlists -> 0 .. MaxRows]
    /\ pc \in [Procs -> {"idle", "selected", "claimed", "querying",
                         "notifying", "finishing", "patching", "down"}]
    /\ wid \in [Procs -> Watchlists \cup {None}]
    /\ ival \in [Procs -> Intervals \cup {None}]
    /\ fields \in [Procs -> Fields]
    /\ lease \in [Procs -> -1 .. Lease]
    /\ robbed \in [Procs -> BOOLEAN]
    /\ requests \in 0 .. MaxRequests
    /\ faults \in 0 .. MaxFaults

Live(w) == stored[w] = "live"

\* Mutant: a lease never expires.
NeverClaimed(w) == claimed_until[w] = None

\* Mutant: a lease is over in its last tick already.
ClaimOver(w) == claimed_until[w] # None => claimed_until[w] <= 0

\* claimed_until IS NULL OR claimed_until < now
Unclaimed(w) == claimed_until[w] # None => claimed_until[w] < 0

\* The WHERE clause of claim_next_due's UPDATE: the claim again, and neither
\* next_run_at nor auto_monitor.
Claimable(w) == Live(w) /\ Unclaimed(w)

\* The WHERE clause of claim_next_due's SELECT.
Due(w) == Live(w) /\ auto_monitor[w] /\ next_run_at[w] <= 0 /\ Unclaimed(w)

\* A worker inside the run it claimed w for, before it released w itself.
Working(k, w) == pc[k] \in {"claimed", "querying"} /\ wid[k] = w

\* It works, its lease has not run out, and nobody cleared its claim.
HoldsLease(k, w) == Working(k, w) /\ lease[k] >= 0 /\ ~robbed[k]

Lesser(a, b)  == IF a < b THEN a ELSE b
Greater(a, b) == IF a > b THEN a ELSE b
Clip(t)       == Greater(-Horizon, Lesser(Horizon, t))

-----------------------------------------------------------------------------
Init ==
    /\ stored = [w \in Watchlists |-> "absent"]
    /\ auto_monitor = [w \in Watchlists |-> FALSE]
    /\ interval \in [Watchlists -> Intervals]
    /\ next_run_at = [w \in Watchlists |-> 0]
    /\ last_run_at = [w \in Watchlists |-> None]
    /\ claimed_until = [w \in Watchlists |-> None]
    /\ rows = [w \in Watchlists |-> 0]
    /\ pc = [p \in Procs |-> "idle"]
    /\ wid = [p \in Procs |-> None]
    /\ ival = [p \in Procs |-> None]
    /\ fields = [p \in Procs |-> NoFields]
    /\ lease = [p \in Procs |-> -1]
    /\ robbed = [p \in Procs |-> FALSE]
    /\ requests = 0
    /\ faults = 0

\* Drop what a process was doing and leave it at `where`.
Leave(p, where) ==
    /\ pc' = [pc EXCEPT ![p] = where]
    /\ wid' = [wid EXCEPT ![p] = None]
    /\ ival' = [ival EXCEPT ![p] = None]
    /\ fields' = [fields EXCEPT ![p] = NoFields]
    /\ lease' = [lease EXCEPT ![p] = -1]

-----------------------------------------------------------------------------
(* What a run writes. *)

\* create_run
CreateRun(w) == rows' = [rows EXCEPT ![w] = Lesser(MaxRows, @ + 1)]

\* prune_runs, reached by successful runs only
PruneRuns(w) == rows' = [rows EXCEPT ![w] = Lesser(Keep, @)]

\* finish_schedule: stamp the run, reschedule, and clear the claim, whoever
\* wrote it.  An UPDATE of a deleted row changes nothing.
FinishSchedule(p) ==
    LET w == wid[p] IN
    IF Live(w)
    THEN /\ last_run_at' = [last_run_at EXCEPT ![w] = 0]
         /\ next_run_at' = [next_run_at EXCEPT ![w] = ival[p]]
         /\ claimed_until' = [claimed_until EXCEPT ![w] = None]
         /\ robbed' = [k \in Procs |->
                         k # p /\ (robbed[k] \/ Working(k, w))]
    ELSE UNCHANGED <<last_run_at, next_run_at, claimed_until, robbed>>

-----------------------------------------------------------------------------
(* scheduler_loop: claim, run, release. *)

\* claim_next_due's SELECT: an overdue, unclaimed watchlist, the longest
\* overdue first.
SelectDue(k, w) ==
    /\ pc[k] = "idle"
    /\ Due(w)
    /\ \A v \in Watchlists : Due(v) => next_run_at[w] <= next_run_at[v]
    /\ pc' = [pc EXCEPT ![k] = "selected"]
    /\ wid' = [wid EXCEPT ![k] = w]
    /\ UNCHANGED <<tableVars, ival, fields, lease, robbed, requests, faults>>

\* claim_next_due's UPDATE, a transaction of its own.
TakeClaim(k) ==
    LET w == wid[k] IN
    /\ pc[k] = "selected"
    /\ Claimable(w)
    /\ claimed_until' = [claimed_until EXCEPT ![w] = Lease]
    /\ lease' = [lease EXCEPT ![k] = Lease]
    /\ robbed' = [robbed EXCEPT ![k] = FALSE]
    /\ pc' = [pc EXCEPT ![k] = "claimed"]
    /\ UNCHANGED <<stored, auto_monitor, interval, next_run_at, last_run_at,
                   rows, wid, ival, fields, requests, faults>>

\* rowcount = 0: another worker was first; SELECT again.
LoseClaim(k) ==
    /\ pc[k] = "selected"
    /\ ~Claimable(wid[k])
    /\ Leave(k, "idle")
    /\ UNCHANGED <<tableVars, robbed, requests, faults>>

\* Mutant: the run renews its claim as it starts, whatever became of it.
RenewAndStart(k) ==
    /\ pc[k] = "claimed" /\ Live(wid[k])
    /\ pc' = [pc EXCEPT ![k] = "querying"]
    /\ ival' = [ival EXCEPT ![k] = interval[wid[k]]]
    /\ CreateRun(wid[k])
    /\ claimed_until' = [claimed_until EXCEPT ![wid[k]] = Lease]
    /\ lease' = [lease EXCEPT ![k] = Lease]
    /\ UNCHANGED <<stored, auto_monitor, interval, next_run_at, last_run_at,
                   wid, fields, robbed, requests, faults>>

\* run_monitor up to its first await.  The row may be gone (LookupError), or
\* its wallets (ValueError): then the run ends before it has a row.
StartRun(k) ==
    /\ pc[k] = "claimed"
    /\ ival' = [ival EXCEPT ![k] = interval[wid[k]]]
    /\ \/ /\ Live(wid[k])
          /\ CreateRun(wid[k])
          /\ pc' = [pc EXCEPT ![k] = "querying"]
       \/ /\ pc' = [pc EXCEPT ![k] = "finishing"]
          /\ UNCHANGED rows
    /\ UNCHANGED <<stored, auto_monitor, interval, next_run_at, last_run_at,
                   claimed_until, wid, fields, lease, robbed, requests, faults>>

\* A handler's run_monitor up to its first await: no claim is taken.
StartManualRun(c, w) ==
    /\ pc[c] = "idle" /\ Live(w)
    /\ requests < MaxRequests
    /\ requests' = requests + 1
    /\ CreateRun(w)
    /\ pc' = [pc EXCEPT ![c] = "querying"]
    /\ wid' = [wid EXCEPT ![c] = w]
    /\ ival' = [ival EXCEPT ![c] = interval[w]]
    /\ UNCHANGED <<stored, auto_monitor, interval, next_run_at, last_run_at,
                   claimed_until, fields, lease, robbed, faults>>

\* Mutant: no finally clause after the run.
NoFinally(p) == Leave(p, "idle")

\* Where a process goes once run_monitor has returned or raised: the
\* scheduler's finally clause, or the end of the request.
AfterRun(p) ==
    IF p \in Workers
    THEN pc' = [pc EXCEPT ![p] = "finishing"] /\ UNCHANGED <<wid, ival, fields, lease>>
    ELSE Leave(p, "idle")

\* Dune answered: the signals are stored, the run is closed, the history
\* pruned and the watchlist rescheduled; then either Telegram is awaited or
\* the run is over.
RunSucceeds(p) ==
    /\ pc[p] = "querying" /\ Live(wid[p])
    /\ PruneRuns(wid[p])
    /\ FinishSchedule(p)
    /\ \/ /\ pc' = [pc EXCEPT ![p] = "notifying"]
          /\ UNCHANGED <<wid, ival, fields, lease>>
       \/ AfterRun(p)
    /\ UNCHANGED <<stored, auto_monitor, interval, requests, faults>>

\* Dune failed or timed out, or the watchlist went away under the run.
RunFails(p) ==
    /\ pc[p] = "querying"
    /\ AfterRun(p)
    /\ UNCHANGED <<tableVars, robbed, requests, faults>>

\* send_signal_notification returned.
Notified(p) ==
    /\ pc[p] = "notifying"
    /\ AfterRun(p)
    /\ UNCHANGED <<tableVars, robbed, requests, faults>>

\* The finally clause: reschedule and release, after a success (again) or
\* after an error.
Finish(k) ==
    /\ pc[k] = "finishing"
    /\ FinishSchedule(k)
    /\ Leave(k, "idle")
    /\ UNCHANGED <<stored, auto_monitor, interval, rows, requests, faults>>

-----------------------------------------------------------------------------
(* Failures. *)

\* A worker dies: its claim and its "running" row stay in the file.
Crash(k) ==
    /\ pc[k] # "down"
    /\ faults < MaxFaults
    /\ faults' = faults + 1
    /\ Leave(k, "down")
    /\ UNCHANGED <<tableVars, robbed, requests>>

\* The loop is cancelled at an await of the run: the finally clause runs.
Cancel(k) ==
    /\ pc[k] \in {"querying", "notifying"}
    /\ faults < MaxFaults
    /\ faults' = faults + 1
    /\ FinishSchedule(k)
    /\ Leave(k, "down")
    /\ UNCHANGED <<stored, auto_monitor, interval, rows, requests>>

\* A database call outside run_monitor raises (the file stayed locked for
\* busy_timeout): the tick ends, and the claim stays.
DatabaseFails(k) ==
    /\ pc[k] \in {"claimed", "finishing"}
    /\ faults < MaxFaults
    /\ faults' = faults + 1
    /\ Leave(k, "idle")
    /\ UNCHANGED <<tableVars, robbed, requests>>

Restart(k) ==
    /\ pc[k] = "down"
    /\ pc' = [pc EXCEPT ![k] = "idle"]
    /\ UNCHANGED <<tableVars, wid, ival, fields, lease, robbed, requests, faults>>

-----------------------------------------------------------------------------
(* The other handlers that write a watchlists row. *)

Create(c, w) ==
    /\ pc[c] = "idle"
    /\ stored[w] = "absent"
    /\ requests < MaxRequests
    /\ requests' = requests + 1
    /\ stored' = [stored EXCEPT ![w] = "live"]
    /\ \E a \in BOOLEAN : auto_monitor' = [auto_monitor EXCEPT ![w] = a]
    /\ next_run_at' = [next_run_at EXCEPT ![w] = interval[w]]
    /\ UNCHANGED <<interval, last_run_at, claimed_until, rows, procVars, faults>>

\* PATCH reads the row and works out the fields to write: a new interval, or
\* switching auto_monitor on, counts again from the last run.
ReadForPatch(c, w) ==
    /\ pc[c] = "idle" /\ Live(w)
    /\ requests < MaxRequests
    /\ requests' = requests + 1
    /\ \E i \in Intervals \cup {None}, a \in BOOLEAN \cup {None} :
        LET hours == IF i = None THEN interval[w] ELSE i
            since == IF last_run_at[w] = None THEN 0 ELSE last_run_at[w]
            reshaped == i # None \/ a = TRUE
        IN fields' = [fields EXCEPT ![c] =
               [interval |-> i, auto |-> a,
                next |-> IF reshaped THEN hours - since ELSE None]]
    /\ pc' = [pc EXCEPT ![c] = "patching"]
    /\ wid' = [wid EXCEPT ![c] = w]
    /\ UNCHANGED <<tableVars, ival, lease, robbed, faults>>

\* Mutant: a field the request leaves out is written as NULL.
WrittenAlways(column, w, value) ==
    IF Live(w) THEN [column EXCEPT ![w] = value] ELSE column

Written(column, w, value) ==
    IF Live(w) /\ value # None THEN [column EXCEPT ![w] = value] ELSE column

\* update_watchlist_fields: the fields that are set, in one UPDATE.
WritePatch(c) ==
    LET w == wid[c]
        f == fields[c] IN
    /\ pc[c] = "patching"
    /\ interval' = Written(interval, w, f.interval)
    /\ auto_monitor' = Written(auto_monitor, w, f.auto)
    /\ next_run_at' = Written(next_run_at, w, f.next)
    /\ Leave(c, "idle")
    /\ UNCHANGED <<stored, last_run_at, claimed_until, rows, robbed, requests,
                   faults>>

\* DELETE: the runs go with the row.
Delete(c, w) ==
    /\ pc[c] = "idle" /\ Live(w)
    /\ requests < MaxRequests
    /\ requests' = requests + 1
    /\ stored' = [stored EXCEPT ![w] = "deleted"]
    /\ rows' = [rows EXCEPT ![w] = 0]
    /\ UNCHANGED <<auto_monitor, interval, next_run_at, last_run_at,
                   claimed_until, procVars, faults>>

-----------------------------------------------------------------------------
\* Time passes.  A tick is far longer than the few statements between a
\* SELECT and its UPDATE, so an instant read for one is still now at the other.
Tick ==
    /\ \A p \in Procs : pc[p] \notin {"selected", "patching"}
    /\ next_run_at' = [w \in Watchlists |-> Clip(next_run_at[w] - 1)]
    /\ last_run_at' = [w \in Watchlists |->
           IF last_run_at[w] = None THEN None ELSE Clip(last_run_at[w] + 1)]
    /\ claimed_until' = [w \in Watchlists |->
           IF claimed_until[w] = None THEN None
                                      ELSE Greater(-1, claimed_until[w] - 1)]
    /\ lease' = [p \in Procs |-> Greater(-1, lease[p] - 1)]
    /\ UNCHANGED <<stored, auto_monitor, interval, rows, pc, wid, ival, fields,
                   robbed, requests, faults>>

RunStep(p) == RunSucceeds(p) \/ RunFails(p) \/ Notified(p)

SchedulerStep(k) ==
    \/ \E w \in Watchlists : SelectDue(k, w)
    \/ TakeClaim(k) \/ LoseClaim(k) \/ StartRun(k)
    \/ Finish(k) \/ Restart(k)

Fault(k) == Crash(k) \/ Cancel(k) \/ DatabaseFails(k)

Request(c, w) ==
    Create(c, w) \/ ReadForPatch(c, w) \/ Delete(c, w) \/ StartManualRun(c, w)

Next ==
    \/ \E k \in Workers : SchedulerStep(k) \/ Fault(k)
    \/ \E p \in Procs : RunStep(p)
    \/ \E c \in Clients : WritePatch(c) \/ \E w \in Watchlists : Request(c, w)
    \/ Tick

Spec == Init /\ [][Next]_vars

\* The event loop runs what is ready, every await of a run ends (Dune and
\* Telegram calls have timeouts), a dead worker is restarted, time passes.
\* ORDER BY next_run_at serves the longest overdue first; instants further
\* back than Horizon look equal here, and strong fairness stands for the
\* order the code still sees between them.
Fairness ==
    /\ \A w \in Watchlists : SF_vars(\E k \in Workers : SelectDue(k, w))
    /\ \A k \in Workers : WF_vars(SchedulerStep(k))
    /\ \A p \in Procs : WF_vars(RunStep(p))
    /\ \A c \in Clients : WF_vars(WritePatch(c))
    /\ WF_vars(Tick)

FairSpec == Spec /\ Fairness

-----------------------------------------------------------------------------
(* Safety. *)

\* At most one worker runs a watchlist under a lease that is still good: the
\* claim of claim_next_due excludes the other workers for as long as the lease
\* lasts and no other run's finish_schedule has cleared it.
LeaseExcludes ==
    \A w \in Watchlists : \A k, j \in Workers :
        HoldsLease(k, w) /\ HoldsLease(j, w) => k = j

Handling(k, w) ==
    /\ wid[k] = w
    /\ pc[k] \in {"claimed", "querying", "notifying", "finishing"}

\* The claims no worker will clear: they stay until they expire.
Unhandled ==
    {w \in Watchlists : /\ Live(w) /\ claimed_until[w] # None
                       /\ \A k \in Workers : ~Handling(k, w)}

\* A claim is left in the table without a worker that will clear it only by a
\* crash, a shutdown or a failed database call, one claim for each: no
\* sequence of successes, errors, takeovers, deletes and manual runs leaks one.
ClaimsAreHandled == Cardinality(Unhandled) <= faults

\* The claim as its callers see it: w is locked for as long as some worker
\* holds a good lease on it.
LockOf(w) ==
    LET holders == {k \in Workers : HoldsLease(k, w)}
        holder  == CHOOSE k \in holders : \A j \in holders : lease[k] <= lease[j]
    IN  IF holders = {} THEN None ELSE [by |-> holder, left |-> lease[holder]]

Claims == INSTANCE ClaimLease
            WITH lock <- [w \in Watchlists |-> LockOf(w)]

\* The two transactions of claim_next_due, the takeovers, the clearing of each
\* other's claims and the crashes implement a lock that expires: it is granted
\* only while it is free and for the whole lease, and no step hands it from one
\* worker to another or prolongs it.
ClaimIsALock == Claims!Spec

-----------------------------------------------------------------------------
(* Liveness. *)

\* A watchlist with auto_monitor on is always run again sooner or later,
\* whatever crashes on the way: a lease that outlived its worker does not park
\* it, and a watchlist that keeps failing does not keep the others waiting.
EventuallyServed ==
    \A w \in Watchlists :
        []<>(Live(w) /\ auto_monitor[w] => \E k \in Workers : Working(k, w))
=============================================================================
