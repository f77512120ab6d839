----------------------- MODULE MonitorSchedulerProofs -----------------------
(***************************************************************************)
(* For every set of workers, handlers and watchlists, every lease and      *)
(* every bound: the scheduler keeps its types, and two workers never run   *)
(* one watchlist under two good leases.                                    *)
(***************************************************************************)
EXTENDS MonitorScheduler, FiniteSetTheorems, TLAPS

\* What a process at a given pc carries in its locals.
LocalsOK ==
    \A p \in Procs :
        /\ pc[p] \in {"selected", "claimed", "querying", "notifying",
                      "finishing", "patching"} => wid[p] \in Watchlists
        /\ pc[p] \in {"querying", "notifying", "finishing"}
                => ival[p] \in Intervals

Typed == TypeOK /\ LocalsOK

\* A worker's good lease is the claim the table holds.
LeaseIsClaim ==
    \A k \in Workers, w \in Watchlists :
        HoldsLease(k, w) => claimed_until[w] = lease[k]

IInv == Typed /\ LeaseIsClaim /\ LeaseExcludes

\* No worker gains a good lease in this step, and the leases that stay good
\* stay tied to their claims as they were.
LeasesOnlyShrink ==
    \A k \in Workers, w \in Watchlists :
        HoldsLease(k, w)' => /\ HoldsLease(k, w)
                             /\ claimed_until'[w] = claimed_until[w]
                             /\ lease'[k] = lease[k]

-----------------------------------------------------------------------------
(* Types. *)

\* The initial state is well typed.
LEMMA InitTyped == Init => Typed
BY HorizonAssumption, RowsAssumption, BudgetAssumption
   DEF Init, Typed, TypeOK, LocalsOK, NoFields, Fields, Offset, Procs

\* An interval, and an interval counted from some past run, is an offset.
LEMMA IntervalIsOffset ==
    ASSUME NEW i \in Intervals, NEW since \in 0 .. Horizon
    PROVE  i \in Offset /\ i - since \in Offset
<1>1. i \in 1 .. Horizon /\ Horizon \in Nat
  BY HorizonAssumption
<1>2. i \in Int /\ since \in Int /\ 1 <= i /\ i <= Horizon /\ 0 <= since
      /\ since <= Horizon
  BY <1>1
<1> QED BY <1>1, <1>2 DEF Offset

\* A process that leaves keeps everyone's locals well typed.
LEMMA LeaveTyped ==
    ASSUME Typed, NEW p \in Procs, NEW s \in {"idle", "down"}, Leave(p, s)
    PROVE  /\ pc' \in [Procs -> {"idle", "selected", "claimed", "querying",
                         "notifying", "finishing", "patching", "down"}]
           /\ wid' \in [Procs -> Watchlists \cup {None}]
           /\ ival' \in [Procs -> Intervals \cup {None}]
           /\ fields' \in [Procs -> Fields]
           /\ lease' \in [Procs -> -1 .. Lease]
           /\ LocalsOK'
BY HorizonAssumption DEF Typed, TypeOK, LocalsOK, Leave, NoFields, Fields

\* So does a process whose run_monitor has ended.
LEMMA AfterRunTyped ==
    ASSUME Typed, NEW p \in Procs, pc[p] \in {"querying", "notifying"},
           AfterRun(p)
    PROVE  /\ pc' \in [Procs -> {"idle", "selected", "claimed", "querying",
                         "notifying", "finishing", "patching", "down"}]
           /\ wid' \in [Procs -> Watchlists \cup {None}]
           /\ ival' \in [Procs -> Intervals \cup {None}]
           /\ fields' \in [Procs -> Fields]
           /\ lease' \in [Procs -> -1 .. Lease]
           /\ LocalsOK'
<1>1. CASE p \in Workers
  BY <1>1 DEF Typed, TypeOK, LocalsOK, AfterRun
<1>2. CASE p \notin Workers
  BY <1>2, LeaveTyped DEF AfterRun
<1> QED BY <1>1, <1>2

\* finish_schedule keeps the columns it writes well typed.
LEMMA FinishScheduleTyped ==
    ASSUME Typed, NEW p \in Procs,
           pc[p] \in {"querying", "notifying", "finishing"}, FinishSchedule(p)
    PROVE  /\ last_run_at' \in [Watchlists -> 0 .. Horizon \cup {None}]
           /\ next_run_at' \in [Watchlists -> Offset]
           /\ claimed_until' \in [Watchlists -> -1 .. Lease \cup {None}]
           /\ robbed' \in [Procs -> BOOLEAN]
<1>0. 0 \in 0 .. Horizon
  BY HorizonAssumption
<1>1. ival[p] \in Offset
  <2>1. ival[p] \in Intervals
    BY DEF Typed, LocalsOK
  <2> QED BY <1>0, <2>1, IntervalIsOffset
<1>2. CASE Live(wid[p])
  <2>1. /\ last_run_at' \in [Watchlists -> 0 .. Horizon \cup {None}]
        /\ next_run_at' \in [Watchlists -> Offset]
        /\ claimed_until' \in [Watchlists -> -1 .. Lease \cup {None}]
    BY <1>0, <1>1, <1>2 DEF Typed, TypeOK, FinishSchedule
  <2>2. robbed' \in [Procs -> BOOLEAN]
    BY <1>2 DEF FinishSchedule, Working
  <2> QED BY <2>1, <2>2
<1>3. CASE ~Live(wid[p])
  BY <1>3 DEF Typed, TypeOK, FinishSchedule
<1> QED BY <1>2, <1>3

\* Every step keeps the types.
LEMMA NextTyped == Typed /\ [Next]_vars => Typed'
<1> SUFFICES ASSUME Typed, [Next]_vars PROVE Typed'
  OBVIOUS
<1> USE DEF Typed, TypeOK
<1>0. \A k \in Workers : k \in Procs
  BY DEF Procs
<1>1. CASE UNCHANGED vars
  BY <1>1 DEF vars, tableVars, procVars, LocalsOK
<1>2. ASSUME NEW k \in Workers, NEW w \in Watchlists, SelectDue(k, w)
      PROVE  Typed'
  BY <1>0, <1>2 DEF SelectDue, tableVars, LocalsOK
<1>3. ASSUME NEW k \in Workers, TakeClaim(k)  PROVE Typed'
  <2>1. wid[k] \in Watchlists
    BY <1>0, <1>3 DEF TakeClaim, LocalsOK
  <2>2. Lease \in -1 .. Lease
    BY HorizonAssumption
  <2> QED BY <1>0, <1>3, <2>1, <2>2 DEF TakeClaim, LocalsOK
<1>4. ASSUME NEW k \in Workers, LoseClaim(k)  PROVE Typed'
  BY <1>0, <1>4, LeaveTyped DEF LoseClaim, tableVars
<1>5. ASSUME NEW k \in Workers, StartRun(k)  PROVE Typed'
  <2>1. interval[wid[k]] \in Intervals /\ wid[k] \in Watchlists
    BY <1>0, <1>5 DEF StartRun, LocalsOK
  <2>2. rows' \in [Watchlists -> 0 .. MaxRows]
    BY <1>5, RowsAssumption DEF StartRun, CreateRun, Lesser
  <2> QED BY <1>0, <1>5, <2>1, <2>2 DEF StartRun, LocalsOK
<1>6. ASSUME NEW k \in Workers, Finish(k)  PROVE Typed'
  BY <1>0, <1>6, LeaveTyped, FinishScheduleTyped DEF Finish
<1>7. ASSUME NEW k \in Workers, Restart(k)  PROVE Typed'
  BY <1>0, <1>7 DEF Restart, tableVars, LocalsOK
<1>8. ASSUME NEW k \in Workers, Fault(k)  PROVE Typed'
  <2>1. faults < MaxFaults /\ faults' = faults + 1 => faults' \in 0 .. MaxFaults
    BY BudgetAssumption
  <2>2. CASE Crash(k)
    BY <1>0, <2>1, <2>2, LeaveTyped DEF Crash, tableVars
  <2>3. CASE Cancel(k)
    BY <1>0, <2>1, <2>3, LeaveTyped, FinishScheduleTyped DEF Cancel
  <2>4. CASE DatabaseFails(k)
    BY <1>0, <2>1, <2>4, LeaveTyped DEF DatabaseFails, tableVars
  <2> QED BY <1>8, <2>2, <2>3, <2>4 DEF Fault
<1>9. ASSUME NEW p \in Procs, RunStep(p)  PROVE Typed'
  <2>1. CASE RunSucceeds(p)
    <3>0. wid[p] \in Watchlists
      BY <2>1 DEF RunSucceeds, LocalsOK
    <3>1. rows' \in [Watchlists -> 0 .. MaxRows]
      BY <2>1, <3>0, RowsAssumption DEF RunSucceeds, PruneRuns, Lesser
    <3>2. CASE pc' = [pc EXCEPT ![p] = "notifying"]
               /\ UNCHANGED <<wid, ival, fields, lease>>
      BY <2>1, <3>1, <3>2, FinishScheduleTyped DEF RunSucceeds, LocalsOK
    <3>3. CASE AfterRun(p)
      BY <2>1, <3>1, <3>3, FinishScheduleTyped, AfterRunTyped DEF RunSucceeds
    <3> QED BY <2>1, <3>2, <3>3 DEF RunSucceeds
  <2>2. CASE RunFails(p)
    BY <2>2, AfterRunTyped DEF RunFails, tableVars
  <2>3. CASE Notified(p)
    BY <2>3, AfterRunTyped DEF Notified, tableVars
  <2> QED BY <1>9, <2>1, <2>2, <2>3 DEF RunStep
<1>10. ASSUME NEW c \in Clients, WritePatch(c)  PROVE Typed'
  <2>1. c \in Procs /\ fields[c] \in Fields /\ wid[c] \in Watchlists
    BY <1>10 DEF Procs, WritePatch, LocalsOK
  <2>2. /\ interval' \in [Watchlists -> Intervals]
        /\ auto_monitor' \in [Watchlists -> BOOLEAN]
        /\ next_run_at' \in [Watchlists -> Offset]
    BY <1>10, <2>1 DEF WritePatch, Written, Fields
  <2> QED BY <1>10, <2>1, <2>2, LeaveTyped DEF WritePatch
<1>11. ASSUME NEW c \in Clients, NEW w \in Watchlists, Request(c, w)
       PROVE  Typed'
  <2>0. c \in Procs
    BY DEF Procs
  <2>1. requests < MaxRequests /\ requests' = requests + 1
           => requests' \in 0 .. MaxRequests
    BY BudgetAssumption
  <2>2. CASE Create(c, w)
    <3>0. 0 \in 0 .. Horizon
      BY HorizonAssumption
    <3>1. interval[w] \in Offset
      BY <3>0, IntervalIsOffset
    <3> QED BY <2>1, <2>2, <3>1 DEF Create, procVars, LocalsOK
  <2>3. CASE ReadForPatch(c, w)
    <3>1. fields' \in [Procs -> Fields]
      <4>1. PICK i \in Intervals \cup {None}, a \in BOOLEAN \cup {None} :
              LET hours == IF i = None THEN interval[w] ELSE i
                  since == IF last_run_at[w] = None THEN 0 ELSE last_run_at[w]
                  reshaped == i # None \/ a = TRUE
              IN fields' = [fields EXCEPT ![c] =
                     [interval |-> i, auto |-> a,
                      next |-> IF reshaped THEN hours - since ELSE None]]
        BY <2>3 DEF ReadForPatch
      <4> DEFINE hours == IF i = None THEN interval[w] ELSE i
                 since == IF last_run_at[w] = None THEN 0 ELSE last_run_at[w]
      <4>2. hours \in Intervals /\ since \in 0 .. Horizon
        BY HorizonAssumption
      <4>3. hours - since \in Offset
        BY <4>2, IntervalIsOffset
      <4> QED BY <4>1, <4>3 DEF Fields
    <3> QED BY <2>0, <2>1, <2>3, <3>1 DEF ReadForPatch, tableVars, LocalsOK
  <2>4. CASE Delete(c, w)
    BY <2>1, <2>4, RowsAssumption DEF Delete, procVars, LocalsOK
  <2>5. CASE StartManualRun(c, w)
    <3>1. rows' \in [Watchlists -> 0 .. MaxRows]
      BY <2>5, RowsAssumption DEF StartManualRun, CreateRun, Lesser
    <3> QED BY <2>0, <2>1, <2>5, <3>1 DEF StartManualRun, LocalsOK
  <2> QED BY <1>11, <2>2, <2>3, <2>4, <2>5 DEF Request
<1>12. CASE Tick
  <2>1. next_run_at' \in [Watchlists -> Offset]
    BY <1>12, HorizonAssumption DEF Tick, Clip, Lesser, Greater, Offset
  <2>2. last_run_at' \in [Watchlists -> 0 .. Horizon \cup {None}]
    BY <1>12, HorizonAssumption DEF Tick, Clip, Lesser, Greater
  <2>3. claimed_until' \in [Watchlists -> -1 .. Lease \cup {None}]
    BY <1>12, HorizonAssumption DEF Tick, Greater
  <2>4. lease' \in [Procs -> -1 .. Lease]
    BY <1>12, HorizonAssumption DEF Tick, Greater
  <2> QED BY <1>12, <2>1, <2>2, <2>3, <2>4 DEF Tick, LocalsOK
<1> QED
  BY <1>1, <1>2, <1>3, <1>4, <1>5, <1>6, <1>7, <1>8, <1>9, <1>10, <1>11, <1>12
     DEF Next, SchedulerStep

\* The type invariant the runs check holds of every instance.
THEOREM TypeCorrect == Spec => []TypeOK
<1>1. Typed => TypeOK
  BY DEF Typed
<1> QED BY <1>1, InitTyped, NextTyped, PTL DEF Spec

-----------------------------------------------------------------------------
(* Leases. *)

\* finish_schedule, by any process: every other worker on that watchlist
\* learns (in `robbed`) that its claim is gone; leases are left alone.
LEMMA FinishScheduleShrinks ==
    ASSUME Typed, NEW p \in Procs, FinishSchedule(p),
           NEW k \in Workers, k # p, NEW w \in Watchlists,
           pc'[k] = pc[k], wid'[k] = wid[k], lease'[k] = lease[k],
           HoldsLease(k, w)'
    PROVE  HoldsLease(k, w) /\ claimed_until'[w] = claimed_until[w]
<1>0. k \in Procs
  BY DEF Procs
<1>1. Working(k, w)
  BY DEF HoldsLease, Working
<1>2. CASE Live(wid[p])
  <2>1. robbed'[k] = (robbed[k] \/ Working(k, wid[p]))
    BY <1>0, <1>2 DEF FinishSchedule
  <2>2. ~robbed[k] /\ ~Working(k, wid[p])
    BY <2>1 DEF HoldsLease
  <2>3. w # wid[p]
    BY <1>1, <2>2
  <2> QED BY <1>1, <1>2, <2>2, <2>3 DEF Typed, TypeOK, FinishSchedule, HoldsLease
<1>3. CASE ~Live(wid[p])
  BY <1>1, <1>3 DEF FinishSchedule, HoldsLease
<1> QED BY <1>2, <1>3

\* A process that leaves holds nothing, and the others are not touched.
LEMMA LeaveLocal ==
    ASSUME Typed, NEW p \in Procs, NEW s \in {"idle", "down"}, Leave(p, s)
    PROVE  /\ \A w \in Watchlists : ~Working(p, w)'
           /\ \A k \in Procs \ {p} : /\ pc'[k] = pc[k]
                                     /\ wid'[k] = wid[k]
                                     /\ lease'[k] = lease[k]
BY DEF Typed, TypeOK, Leave, Working

\* A process whose run_monitor ended is no longer working either.
LEMMA AfterRunLocal ==
    ASSUME Typed, NEW p \in Procs, AfterRun(p)
    PROVE  /\ \A w \in Watchlists : ~Working(p, w)'
           /\ \A k \in Procs \ {p} : /\ pc'[k] = pc[k]
                                     /\ wid'[k] = wid[k]
                                     /\ lease'[k] = lease[k]
<1>1. CASE p \in Workers
  BY <1>1 DEF Typed, TypeOK, AfterRun, Working
<1>2. CASE p \notin Workers
  BY <1>2, LeaveLocal DEF AfterRun
<1> QED BY <1>1, <1>2

\* Every step but a successful claim and the clock only shrinks the leases.
LEMMA StepShrinks ==
    ASSUME Typed, [Next]_vars, \A k \in Workers : ~TakeClaim(k), ~Tick
    PROVE  LeasesOnlyShrink
<1> USE DEF Typed, TypeOK
<1>0. \A k \in Workers : k \in Procs
  BY DEF Procs
<1> SUFFICES ASSUME NEW k \in Workers, NEW w \in Watchlists, HoldsLease(k, w)'
             PROVE  /\ HoldsLease(k, w)
                    /\ claimed_until'[w] = claimed_until[w]
                    /\ lease'[k] = lease[k]
  BY DEF LeasesOnlyShrink
<1>1. CASE UNCHANGED vars
  BY <1>1 DEF vars, tableVars, procVars, HoldsLease, Working
<1>2. ASSUME NEW j \in Workers, NEW v \in Watchlists, SelectDue(j, v)
      PROVE  /\ HoldsLease(k, w) /\ claimed_until'[w] = claimed_until[w]
             /\ lease'[k] = lease[k]
  BY <1>0, <1>2 DEF SelectDue, tableVars, HoldsLease, Working
<1>3. ASSUME NEW j \in Workers, LoseClaim(j) \/ Crash(j) \/ DatabaseFails(j)
      PROVE  /\ HoldsLease(k, w) /\ claimed_until'[w] = claimed_until[w]
             /\ lease'[k] = lease[k]
  <2>1. claimed_until' = claimed_until /\ robbed' = robbed
    BY <1>3 DEF LoseClaim, Crash, DatabaseFails, tableVars
  <2>2. Leave(j, "idle") \/ Leave(j, "down")
    BY <1>3 DEF LoseClaim, Crash, DatabaseFails
  <2> QED BY <1>0, <2>1, <2>2, LeaveLocal DEF HoldsLease, Working
<1>4. ASSUME NEW j \in Workers, StartRun(j)
      PROVE  /\ HoldsLease(k, w) /\ claimed_until'[w] = claimed_until[w]
             /\ lease'[k] = lease[k]
  BY <1>0, <1>4 DEF StartRun, HoldsLease, Working
<1>5. ASSUME NEW j \in Workers, Finish(j) \/ Cancel(j)
      PROVE  /\ HoldsLease(k, w) /\ claimed_until'[w] = claimed_until[w]
             /\ lease'[k] = lease[k]
  <2>1. FinishSchedule(j) /\ (Leave(j, "idle") \/ Leave(j, "down"))
    BY <1>5 DEF Finish, Cancel
  <2>2. k # j /\ pc'[k] = pc[k] /\ wid'[k] = wid[k] /\ lease'[k] = lease[k]
    BY <1>0, <2>1, LeaveLocal DEF HoldsLease
  <2> QED BY <1>0, <2>1, <2>2, FinishScheduleShrinks
<1>6. ASSUME NEW j \in Workers, Restart(j)
      PROVE  /\ HoldsLease(k, w) /\ claimed_until'[w] = claimed_until[w]
             /\ lease'[k] = lease[k]
  BY <1>0, <1>6 DEF Restart, tableVars, HoldsLease, Working
<1>7. ASSUME NEW p \in Procs, RunFails(p) \/ Notified(p)
      PROVE  /\ HoldsLease(k, w) /\ claimed_until'[w] = claimed_until[w]
             /\ lease'[k] = lease[k]
  <2>1. AfterRun(p) /\ claimed_until' = claimed_until /\ robbed' = robbed
    BY <1>7 DEF RunFails, Notified, tableVars
  <2> QED BY <1>0, <2>1, AfterRunLocal DEF HoldsLease, Working
<1>8. ASSUME NEW p \in Procs, RunSucceeds(p)
      PROVE  /\ HoldsLease(k, w) /\ claimed_until'[w] = claimed_until[w]
             /\ lease'[k] = lease[k]
  <2>1. /\ \A v \in Watchlists : ~Working(p, v)'
        /\ \A j \in Procs \ {p} : /\ pc'[j] = pc[j]
                                  /\ wid'[j] = wid[j]
                                  /\ lease'[j] = lease[j]
    <3>1. CASE AfterRun(p)
      BY <3>1, AfterRunLocal
    <3>2. CASE pc' = [pc EXCEPT ![p] = "notifying"]
               /\ UNCHANGED <<wid, ival, fields, lease>>
      BY <3>2 DEF Working
    <3> QED BY <1>8, <3>1, <3>2 DEF RunSucceeds
  <2>2. k # p /\ pc'[k] = pc[k] /\ wid'[k] = wid[k] /\ lease'[k] = lease[k]
    BY <1>0, <2>1 DEF HoldsLease
  <2> QED BY <1>8, <2>2, FinishScheduleShrinks DEF RunSucceeds
<1>9. ASSUME NEW c \in Clients, NEW v \in Watchlists,
             WritePatch(c) \/ Request(c, v)
      PROVE  /\ HoldsLease(k, w) /\ claimed_until'[w] = claimed_until[w]
             /\ lease'[k] = lease[k]
  <2>0. c \in Procs /\ c # k
    BY NamesAssumption DEF Procs
  <2>1. CASE WritePatch(c)
    BY <1>0, <2>0, <2>1, LeaveLocal DEF WritePatch, HoldsLease, Working
  <2>2. CASE Request(c, v)
    BY <1>0, <2>0, <2>2 DEF Request, Create, ReadForPatch, Delete,
       StartManualRun, procVars, tableVars, HoldsLease, Working
  <2> QED BY <1>9, <2>1, <2>2
<1>10. ASSUME NEW c \in Clients, WritePatch(c)
       PROVE  /\ HoldsLease(k, w) /\ claimed_until'[w] = claimed_until[w]
              /\ lease'[k] = lease[k]
  BY <1>9, <1>10
<1> QED
  BY <1>1, <1>2, <1>3, <1>4, <1>5, <1>6, <1>7, <1>8, <1>9, <1>10
     DEF Next, SchedulerStep, Fault, RunStep

\* Every step keeps the lease invariant: a claim is taken only where none is
\* good, so no worker whose good lease is that claim is there yet.
LEMMA NextInv == IInv /\ [Next]_vars => IInv'
<1> SUFFICES ASSUME IInv, [Next]_vars PROVE LeaseIsClaim' /\ LeaseExcludes'
  BY NextTyped DEF IInv
<1>0. Typed /\ \A k \in Workers : k \in Procs
  BY DEF IInv, Procs
<1>1. CASE (\A k \in Workers : ~TakeClaim(k)) /\ ~Tick
  <2>1. LeasesOnlyShrink
    BY <1>0, <1>1, StepShrinks
  <2> QED BY <2>1 DEF LeasesOnlyShrink, IInv, LeaseIsClaim, LeaseExcludes
<1>2. ASSUME NEW j \in Workers, TakeClaim(j)
      PROVE  LeaseIsClaim' /\ LeaseExcludes'
  <2> DEFINE v == wid[j]
  <2>1. /\ v \in Watchlists
        /\ claimed_until'[v] = Lease /\ lease'[j] = Lease
        /\ \A w \in Watchlists \ {v} : claimed_until'[w] = claimed_until[w]
    BY <1>0, <1>2 DEF TakeClaim, Typed, TypeOK, LocalsOK
  <2>2. \A w \in Watchlists : HoldsLease(j, w)' => w = v
    BY <1>0, <1>2 DEF TakeClaim, HoldsLease, Working, Typed, TypeOK
  <2>3. ASSUME NEW k \in Workers \ {j}, NEW w \in Watchlists, HoldsLease(k, w)'
        PROVE  HoldsLease(k, w) /\ lease'[k] = lease[k] /\ w # v
    <3>1. HoldsLease(k, w) /\ lease'[k] = lease[k]
      BY <1>0, <1>2, <2>3 DEF TakeClaim, HoldsLease, Working, Typed, TypeOK
    <3>2. claimed_until[w] = lease[k] /\ lease[k] >= 0 /\ lease[k] \in Int
      BY <1>0, <3>1 DEF IInv, LeaseIsClaim, HoldsLease, Typed, TypeOK
    <3>3. claimed_until[v] # None => claimed_until[v] < 0
      BY <1>2 DEF TakeClaim, Claimable, Unclaimed
    <3>4. w # v
      BY <3>2, <3>3, NamesAssumption
    <3> QED BY <3>1, <3>4
  <2>4. LeaseIsClaim'
    <3> SUFFICES ASSUME NEW k \in Workers, NEW w \in Watchlists,
                        HoldsLease(k, w)'
                 PROVE  claimed_until'[w] = lease'[k]
      BY DEF LeaseIsClaim
    <3>1. CASE k = j
      BY <2>1, <2>2, <3>1
    <3>2. CASE k # j
      BY <2>1, <2>3, <3>2 DEF IInv, LeaseIsClaim
    <3> QED BY <3>1, <3>2
  <2>5. LeaseExcludes'
    BY <2>2, <2>3 DEF IInv, LeaseExcludes
  <2> QED BY <2>4, <2>5
<1>3. CASE Tick
  <2>1. ASSUME NEW k \in Workers, NEW w \in Watchlists, HoldsLease(k, w)'
        PROVE  HoldsLease(k, w) /\ claimed_until'[w] = lease'[k]
    <3>1. lease[k] \in Int /\ lease'[k] = Greater(-1, lease[k] - 1)
          /\ lease'[k] >= 0 /\ Working(k, w) /\ ~robbed[k]
      BY <1>0, <1>3, <2>1 DEF Tick, HoldsLease, Working, Typed, TypeOK
    <3>2. lease[k] >= 0
      BY <3>1 DEF Greater
    <3>3. HoldsLease(k, w)
      BY <3>1, <3>2 DEF HoldsLease
    <3>4. claimed_until[w] = lease[k] /\ claimed_until[w] # None
      BY <3>1, <3>3, NamesAssumption DEF IInv, LeaseIsClaim
    <3> QED BY <1>3, <3>1, <3>3, <3>4 DEF Tick
  <2> QED BY <2>1 DEF IInv, LeaseIsClaim, LeaseExcludes
<1> QED BY <1>1, <1>2, <1>3

\* Nobody holds a lease at the start.
LEMMA InitInv == Init => IInv
<1> SUFFICES ASSUME Init PROVE IInv
  OBVIOUS
<1>1. \A k \in Workers, w \in Watchlists : ~HoldsLease(k, w)
  BY DEF Init, HoldsLease, Working, Procs
<1> QED BY <1>1, InitTyped DEF IInv, LeaseIsClaim, LeaseExcludes

\* Two workers never run one watchlist under two good leases.
THEOREM LeaseExclusion == Spec => []LeaseExcludes
<1>1. IInv => LeaseExcludes
  BY DEF IInv
<1> QED BY <1>1, InitInv, NextInv, PTL DEF Spec
-----------------------------------------------------------------------------
(* The lock that claim_next_due implements. *)

\* A watchlist is locked by the one worker that holds a good lease on it.
LEMMA LockIsHolders ==
    ASSUME Typed, LeaseExcludes, NEW k \in Workers, NEW w \in Watchlists,
           HoldsLease(k, w)
    PROVE  LockOf(w) = [by |-> k, left |-> lease[k]]
<1> DEFINE holders == {j \in Workers : HoldsLease(j, w)}
           holder  == CHOOSE i \in holders : \A j \in holders : lease[i] <= lease[j]
<1>1. holders = {k}
  BY DEF LeaseExcludes
<1>2. lease[k] <= lease[k]
  BY DEF Typed, TypeOK, Procs
<1>3. holder = k
  <2>1. k \in holders /\ \A j \in holders : lease[k] <= lease[j]
    BY <1>1, <1>2
  <2>2. holder \in holders
    BY <2>1
  <2> QED BY <1>1, <2>2
<1>4. LockOf(w) = IF holders = {} THEN None
                                  ELSE [by |-> holder, left |-> lease[holder]]
  BY DEF LockOf
<1> HIDE DEF holders, holder
<1> QED BY <1>1, <1>3, <1>4

\* And it is free if there is none.
LEMMA NoLockNoHolder ==
    ASSUME NEW w \in Watchlists, \A k \in Workers : ~HoldsLease(k, w)
    PROVE  LockOf(w) = None
BY DEF LockOf
\* What the lock shows of each watchlist.
LockShown ==
    \A w \in Watchlists :
        /\ (\A k \in Workers : ~HoldsLease(k, w)) => LockOf(w) = None
        /\ \A k \in Workers : HoldsLease(k, w) =>
               LockOf(w) = [by |-> k, left |-> lease[k]]

LEMMA LockShape == IInv => LockShown
BY LockIsHolders, NoLockNoHolder DEF IInv, LockShown

\* The lock is free at the start.
LEMMA InitRefines == Init => Claims!Init
<1> SUFFICES ASSUME Init PROVE Claims!Init
  OBVIOUS
<1>1. \A k \in Workers, w \in Watchlists : ~HoldsLease(k, w)
  BY DEF Init, HoldsLease, Working, Procs
<1> QED BY <1>1, NoLockNoHolder DEF Claims!Init

\* What a step does to the lock of one watchlist is what the lock allows: a
\* grant by TakeClaim, a tick of the lease by Tick, and a release by whatever
\* else ends a good lease.
LEMMA LockStep ==
    ASSUME IInv, [Next]_vars, LockShown, LockShown', LeaseExcludes',
           NEW w \in Watchlists
    PROVE  \/ LockOf(w)' = LockOf(w)
           \/ Claims!Granted(LockOf(w), LockOf(w)')
           \/ Claims!Ticked(LockOf(w), LockOf(w)')
           \/ Claims!Released(LockOf(w), LockOf(w)')
<1> DEFINE Goal == \/ LockOf(w)' = LockOf(w)
                   \/ Claims!Granted(LockOf(w), LockOf(w)')
                   \/ Claims!Ticked(LockOf(w), LockOf(w)')
                   \/ Claims!Released(LockOf(w), LockOf(w)')
<1>0. Typed /\ \A k \in Workers : k \in Procs
  BY DEF IInv, Procs
<1>1. CASE \A k \in Workers : ~HoldsLease(k, w)'
  <2>1. LockOf(w)' = None
    BY <1>1 DEF LockShown
  <2> QED BY <2>1 DEF Claims!Released
<1>2. ASSUME NEW k \in Workers, HoldsLease(k, w)'
      PROVE  Goal
  <2>1. LockOf(w)' = [by |-> k, left |-> lease'[k]]
    BY <1>2 DEF LockShown
  <2>2. HoldsLease(k, w) => LockOf(w) = [by |-> k, left |-> lease[k]]
    BY DEF LockShown
  <2>3. CASE (\A j \in Workers : ~TakeClaim(j)) /\ ~Tick
    <3>1. LeasesOnlyShrink
      BY <1>0, <2>3, StepShrinks
    <3>2. HoldsLease(k, w) /\ lease'[k] = lease[k]
      BY <1>2, <3>1 DEF LeasesOnlyShrink
    <3> QED BY <2>1, <2>2, <3>2
  <2>4. ASSUME NEW j \in Workers, TakeClaim(j)
        PROVE  Goal
    <3>1. CASE k = j
      <4>1. wid[j] = w /\ lease'[j] = Lease /\ Claimable(w)
        BY <1>0, <1>2, <2>4, <3>1
           DEF TakeClaim, HoldsLease, Working, Typed, TypeOK
      <4>2. ASSUME NEW i \in Workers, HoldsLease(i, w)
            PROVE  FALSE
        <5>1. claimed_until[w] = lease[i] /\ lease[i] >= 0 /\ lease[i] \in Int
          BY <1>0, <4>2 DEF IInv, LeaseIsClaim, HoldsLease, Typed, TypeOK
        <5> QED BY <4>1, <5>1, NamesAssumption DEF Claimable, Unclaimed
      <4>3. LockOf(w) = None
        BY <4>2 DEF LockShown
      <4>4. LockOf(w)' \in [by : Workers, left : {Lease}]
        BY <2>1, <3>1, <4>1
      <4> QED BY <4>3, <4>4 DEF Claims!Granted
    <3>2. CASE k # j
      <4>1. HoldsLease(k, w) /\ lease'[k] = lease[k]
        BY <1>0, <1>2, <2>4, <3>2
           DEF TakeClaim, HoldsLease, Working, Typed, TypeOK
      <4> QED BY <2>1, <2>2, <4>1
    <3> QED BY <3>1, <3>2
  <2>5. CASE Tick
    <3>1. lease[k] \in Int /\ lease'[k] = Greater(-1, lease[k] - 1)
          /\ lease'[k] >= 0 /\ Working(k, w) /\ ~robbed[k]
      BY <1>0, <1>2, <2>5 DEF Tick, HoldsLease, Working, Typed, TypeOK
    <3>2. lease[k] > 0 /\ lease'[k] = lease[k] - 1
      BY <3>1 DEF Greater
    <3>3. LockOf(w) = [by |-> k, left |-> lease[k]]
      BY <2>2, <3>1, <3>2 DEF HoldsLease
    <3>4. LockOf(w) # None /\ LockOf(w)' # None
      <4>1. lease[k] \in Int /\ lease'[k] \in Int
        BY <3>1, <3>2
      <4>2. LockOf(w) \in [by : Workers, left : Int]
            /\ LockOf(w)' \in [by : Workers, left : Int]
        BY <2>1, <3>3, <4>1
      <4> QED BY <4>2, NamesAssumption
    <3>5. LockOf(w)' = [LockOf(w) EXCEPT !.left = @ - 1]
      BY <2>1, <3>2, <3>3
    <3> QED BY <3>2, <3>3, <3>4, <3>5 DEF Claims!Ticked
  <2> QED BY <2>3, <2>4, <2>5
<1> QED BY <1>1, <1>2

\* Every step of the scheduler is a step of the lock, or leaves it alone.
LEMMA NextRefines ==
    ASSUME IInv, [Next]_vars, LockShown, LockShown', LeaseExcludes'
    PROVE  [Claims!Next]_([w \in Watchlists |-> LockOf(w)])
BY LockStep DEF Claims!Next, Claims!Granted, Claims!Ticked, Claims!Released

\* claim_next_due implements the lock that expires, for every instance.
THEOREM ClaimRefinesLock == Spec => ClaimIsALock
<1>1. IInv => LeaseExcludes
  BY DEF IInv
<1>2. IInv /\ [Next]_vars /\ LockShown /\ LockShown' /\ LeaseExcludes'
         => [Claims!Next]_([w \in Watchlists |-> LockOf(w)])
  BY NextRefines
<1> QED
  BY <1>1, <1>2, InitInv, NextInv, InitRefines, LockShape, PTL
     DEF Spec, ClaimIsALock, Claims!Spec

-----------------------------------------------------------------------------
(* Claims nobody will clear. *)

\* A row that was never created carries no claim.
AbsentUnclaimed ==
    \A w \in Watchlists : stored[w] = "absent" => claimed_until[w] = None

UnhandledBound == IsFiniteSet(Unhandled) /\ ClaimsAreHandled

HandledInv == Typed /\ AbsentUnclaimed /\ UnhandledBound

\* Claims are written on live rows only, and no row becomes absent.
LEMMA AbsentStaysUnclaimed ==
    ASSUME Typed, AbsentUnclaimed, [Next]_vars PROVE AbsentUnclaimed'
<1> SUFFICES ASSUME NEW w \in Watchlists, stored'[w] = "absent",
                    claimed_until'[w] # None
             PROVE  FALSE
  BY DEF AbsentUnclaimed
<1> USE DEF Typed, TypeOK, AbsentUnclaimed
<1>1. CASE UNCHANGED vars
  BY <1>1 DEF vars, tableVars
<1>2. ASSUME NEW k \in Workers, SchedulerStep(k)  PROVE FALSE
  BY <1>2 DEF SchedulerStep, SelectDue, TakeClaim, Claimable, Live, LoseClaim,
     StartRun, Finish, FinishSchedule, Restart, tableVars
<1>3. ASSUME NEW k \in Workers, Fault(k)  PROVE FALSE
  BY <1>3 DEF Fault, Crash, Cancel, FinishSchedule, DatabaseFails, tableVars
<1>4. ASSUME NEW p \in Procs, RunStep(p)  PROVE FALSE
  BY <1>4 DEF RunStep, RunSucceeds, RunFails, Notified, FinishSchedule, tableVars
<1>5. ASSUME NEW c \in Clients, WritePatch(c)  PROVE FALSE
  BY <1>5 DEF WritePatch
<1>6. ASSUME NEW c \in Clients, NEW v \in Watchlists, Request(c, v)  PROVE FALSE
  BY <1>6 DEF Request, Create, ReadForPatch, Delete, StartManualRun, tableVars
<1>7. CASE Tick
  BY <1>7 DEF Tick
<1> QED BY <1>1, <1>2, <1>3, <1>4, <1>5, <1>6, <1>7 DEF Next

\* A step leaves no further claim unhandled, except for a fault, which leaves
\* that of the process it hits.
LEMMA StepUnhandled ==
    ASSUME Typed, AbsentUnclaimed, [Next]_vars
    PROVE  \/ Unhandled' \subseteq Unhandled /\ faults' >= faults
           \/ \E w : Unhandled' \subseteq Unhandled \cup {w} /\ faults' = faults + 1
<1> USE DEF Typed, TypeOK
<1> DEFINE Kept == Unhandled' \subseteq Unhandled /\ faults' >= faults
<1>0. /\ \A k \in Workers : k \in Procs
      /\ faults \in Int
  BY BudgetAssumption DEF Procs
<1>1. CASE UNCHANGED vars
  BY <1>0, <1>1 DEF vars, tableVars, procVars, Unhandled, Live, Handling
<1>2. ASSUME NEW k \in Workers, NEW v \in Watchlists, SelectDue(k, v)
      PROVE  Kept
  BY <1>0, <1>2 DEF SelectDue, tableVars, Unhandled, Live, Handling
<1>3. ASSUME NEW k \in Workers, TakeClaim(k)  PROVE Kept
  BY <1>0, <1>3 DEF TakeClaim, Unhandled, Live, Handling
<1>4. ASSUME NEW k \in Workers, LoseClaim(k)  PROVE Kept
  BY <1>0, <1>4 DEF LoseClaim, Leave, tableVars, Unhandled, Live, Handling
<1>5. ASSUME NEW k \in Workers, StartRun(k)  PROVE Kept
  BY <1>0, <1>5 DEF StartRun, Unhandled, Live, Handling
<1>6. ASSUME NEW k \in Workers, Finish(k)  PROVE Kept
  BY <1>0, <1>6 DEF Finish, FinishSchedule, Leave, Unhandled, Live, Handling
<1>7. ASSUME NEW k \in Workers, Restart(k)  PROVE Kept
  BY <1>0, <1>7 DEF Restart, tableVars, Unhandled, Live, Handling
<1>8. ASSUME NEW k \in Workers, Fault(k)
      PROVE  \E w : Unhandled' \subseteq Unhandled \cup {w} /\ faults' = faults + 1
  <2>1. CASE Cancel(k)
    <3>1. Unhandled' \subseteq Unhandled
      BY <1>0, <2>1 DEF Cancel, FinishSchedule, Leave, Unhandled, Live, Handling
    <3> QED BY <2>1, <3>1 DEF Cancel
  <2>2. CASE Crash(k) \/ DatabaseFails(k)
    <3>1. /\ stored' = stored /\ claimed_until' = claimed_until
          /\ faults' = faults + 1
          /\ \A j \in Workers \ {k} : pc'[j] = pc[j] /\ wid'[j] = wid[j]
      BY <1>0, <2>2 DEF Crash, DatabaseFails, Leave, tableVars
    <3>2. Unhandled' \subseteq Unhandled \cup {wid[k]}
      BY <3>1 DEF Unhandled, Live, Handling
    <3> QED BY <3>1, <3>2
  <2> QED BY <1>8, <2>1, <2>2 DEF Fault
<1>9. ASSUME NEW p \in Procs, RunStep(p)  PROVE Kept
  <2>1. \/ UNCHANGED claimed_until
        \/ /\ Live(wid[p])
           /\ claimed_until' = [claimed_until EXCEPT ![wid[p]] = None]
    BY <1>9 DEF RunStep, RunSucceeds, RunFails, Notified, FinishSchedule, tableVars
  <2>2. UNCHANGED <<stored, faults>>
    BY <1>9 DEF RunStep, RunSucceeds, RunFails, Notified, tableVars
  <2>3. ASSUME NEW k \in Workers, NEW w \in Watchlists, Handling(k, w)
        PROVE  Handling(k, w)'
    BY <1>0, <1>9, <2>3 DEF RunStep, RunSucceeds, RunFails, Notified, AfterRun,
       Leave, Handling
  <2> QED BY <1>0, <2>1, <2>2, <2>3 DEF Unhandled, Live
<1>10. ASSUME NEW c \in Clients,
              \/ WritePatch(c)
              \/ \E w \in Watchlists : Request(c, w)
       PROVE  Kept
  <2>1. c \in Procs /\ c \notin Workers
    BY NamesAssumption DEF Procs
  <2>2. ASSUME NEW k \in Workers, NEW w \in Watchlists, Handling(k, w)
        PROVE  Handling(k, w)'
    BY <1>0, <1>10, <2>1, <2>2 DEF WritePatch, Leave, Request, Create,
       ReadForPatch, Delete, StartManualRun, procVars, Handling
  <2>3. UNCHANGED <<claimed_until, faults>>
    BY <1>10 DEF WritePatch, Request, Create, ReadForPatch, Delete,
       StartManualRun, tableVars
  <2>4. ASSUME NEW w \in Watchlists, Live(w)', claimed_until[w] # None
        PROVE  Live(w)
    BY <1>10, <2>4 DEF WritePatch, Request, Create, ReadForPatch, Delete,
       StartManualRun, tableVars, Live, AbsentUnclaimed
  <2> QED BY <1>0, <2>2, <2>3, <2>4 DEF Unhandled
<1>11. CASE Tick
  BY <1>0, <1>11 DEF Tick, Unhandled, Live, Handling
<1> QED
  BY <1>1, <1>2, <1>3, <1>4, <1>5, <1>6, <1>7, <1>8, <1>9, <1>10, <1>11
     DEF Next, SchedulerStep

\* So their number grows no faster than the faults.
LEMMA NextHandled == HandledInv /\ [Next]_vars => HandledInv'
<1> SUFFICES ASSUME HandledInv, [Next]_vars PROVE UnhandledBound'
  BY NextTyped, AbsentStaysUnclaimed DEF HandledInv
<1>0. /\ Typed /\ faults \in Int /\ faults' \in Int
      /\ IsFiniteSet(Unhandled) /\ Cardinality(Unhandled) <= faults
      /\ Cardinality(Unhandled) \in Nat
  BY NextTyped, BudgetAssumption, FS_CardinalityType
     DEF HandledInv, UnhandledBound, ClaimsAreHandled, Typed, TypeOK
<1>1. CASE Unhandled' \subseteq Unhandled /\ faults' >= faults
  <2>1. IsFiniteSet(Unhandled') /\ Cardinality(Unhandled') <= Cardinality(Unhandled)
    BY <1>0, <1>1, FS_Subset
  <2>2. Cardinality(Unhandled') \in Nat
    BY <2>1, FS_CardinalityType
  <2> QED BY <1>0, <1>1, <2>1, <2>2 DEF UnhandledBound, ClaimsAreHandled
<1>2. ASSUME NEW w, Unhandled' \subseteq Unhandled \cup {w}, faults' = faults + 1
      PROVE  UnhandledBound'
  <2>1. /\ IsFiniteSet(Unhandled \cup {w})
        /\ Cardinality(Unhandled \cup {w}) \in Nat
        /\ Cardinality(Unhandled \cup {w}) <= Cardinality(Unhandled) + 1
    BY <1>0, FS_AddElement, FS_CardinalityType
  <2>2. /\ IsFiniteSet(Unhandled')
        /\ Cardinality(Unhandled') <= Cardinality(Unhandled \cup {w})
    BY <1>2, <2>1, FS_Subset
  <2>3. Cardinality(Unhandled') \in Nat
    BY <2>2, FS_CardinalityType
  <2> QED BY <1>0, <1>2, <2>1, <2>2, <2>3 DEF UnhandledBound, ClaimsAreHandled
<1> QED BY <1>0, <1>1, <1>2, StepUnhandled DEF HandledInv

\* There are none at the start.
LEMMA InitHandled == Init => HandledInv
<1> SUFFICES ASSUME Init PROVE AbsentUnclaimed /\ UnhandledBound
  BY InitTyped DEF HandledInv
<1>1. Unhandled = {}
  BY DEF Init, Unhandled
<1> QED
  BY <1>1, FS_EmptySet DEF Init, AbsentUnclaimed, UnhandledBound, ClaimsAreHandled

\* One claim for each fault is all that is ever left to expire.
THEOREM ClaimsHandled == Spec => []ClaimsAreHandled
<1>1. HandledInv => ClaimsAreHandled
  BY DEF HandledInv, UnhandledBound
<1> QED BY <1>1, InitHandled, NextHandled, PTL DEF Spec
=============================================================================
