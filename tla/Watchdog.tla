------------------------------- MODULE Watchdog -------------------------------
(***************************************************************************)
(* The delivery watchdog (watchdog.check): every worker's sweep, and the   *)
(* POST /api/realtime/health/check handler, run the same state machine     *)
(* over the webhook_outages table.  A check is a string of separate        *)
(* transactions with two awaits in it, the re-sync and the Telegram        *)
(* message, and works on the outage row it read at the beginning.          *)
(*                                                                         *)
(* Instants are kept as ages in ticks, not told apart beyond Horizon.      *)
(***************************************************************************)
EXTENDS Integers, Sequences, FiniteSets

CONSTANTS
    Checkers,       \* whoever may run check() at the same time
    Silence,        \* silence_minutes
    AlertAfter,     \* alert_minutes
    Cooldown,       \* resync_cooldown_minutes
    MaxCooldown,    \* MAX_COOLDOWN_MINUTES
    MaxResyncs,     \* bound: attempts told apart (the cooldown is capped there)
    Horizon,        \* bound: ages told apart
    MaxChanges,     \* bound: deliveries that end a silence, and changes of
                    \* what the user has switched on
    MaxCrashes,     \* bound
    None            \* SQL NULL, and "nothing" in a local variable

ASSUME ThresholdsAssumption ==
    /\ Silence \in Nat /\ AlertAfter \in Nat /\ Horizon \in Nat
    /\ Silence <= AlertAfter /\ AlertAfter <= Horizon
ASSUME CooldownAssumption ==
    /\ Cooldown \in Nat /\ MaxCooldown \in 0 .. Horizon /\ MaxResyncs \in Nat
    /\ Cooldown * 2 ^ MaxResyncs >= MaxCooldown
ASSUME BoundsAssumption == MaxChanges \in Nat /\ MaxCrashes \in Nat
ASSUME NoneAssumption ==
    /\ None \notin Int
    /\ None \notin [id : Nat, alerted : BOOLEAN, resyncs : Nat,
                   tried : Nat \cup {None}]

VARIABLES
    silent,     \* ticks since the last delivery (or since the start)
    mode,       \* "watching", "nothing_live" (realtime_chains() is empty), or
                \* "off" (disabled, or without an Alchemy token)
    outages,    \* the webhook_outages table, in id order
    pc, seen, row, age,   \* a check: where it is, silent_for, its outage and
                          \* the ticks since its `now`
    changes, crashes

checkVars  == <<pc, seen, row, age>>
budgetVars == <<changes, crashes>>
vars       == <<silent, mode, outages, checkVars, budgetVars>>

-----------------------------------------------------------------------------
\* A webhook_outages row.  `down` and `up` are auxiliary: the messages sent
\* about it.
Outage == [open : BOOLEAN, alerted : BOOLEAN, resyncs : 0 .. MaxResyncs,
           tried : 0 .. Horizon \cup {None}, down : 0 .. 2, up : 0 .. 2]

\* Mutant: resyncs has no default in the schema.
NullResyncs == [open |-> TRUE, alerted |-> FALSE, resyncs |-> None,
                tried |-> None, down |-> 0, up |-> 0]

NewOutage == [open |-> TRUE, alerted |-> FALSE, resyncs |-> 0, tried |-> None,
              down |-> 0, up |-> 0]

\* What a check remembers of the row it read.
Copy == [id : DOMAIN outages, alerted : BOOLEAN, resyncs : 0 .. MaxResyncs,
         tried : 0 .. Horizon \cup {None}]

TypeOK ==
    /\ silent \in 0 .. Horizon
    /\ mode \in {"watching", "nothing_live", "off"}
    /\ outages \in Seq(Outage)
    /\ pc \in [Checkers -> {"idle", "resolving", "opening", "rereading",
                            "deciding", "syncing", "alerting", "telling_down",
                            "telling_up"}]
    /\ seen \in [Checkers -> 0 .. Horizon]
    /\ row \in [Checkers -> Copy \cup {None}]
    /\ age \in [Checkers -> 0 .. Horizon]
    /\ changes \in 0 .. MaxChanges
    /\ crashes \in 0 .. MaxCrashes

Lesser(a, b) == IF a < b THEN a ELSE b

Open == {i \in DOMAIN outages : outages[i].open}

CopyOf(i) == [id |-> i, alerted |-> outages[i].alerted,
              resyncs |-> outages[i].resyncs, tried |-> outages[i].tried]

\* Mutant: the newest row, if it is not resolved.
NewestIfOpen == IF Len(outages) \in Open THEN CopyOf(Len(outages)) ELSE None

\* open_outage: the newest row not resolved.
OpenOutage ==
    IF Open = {} THEN None
    ELSE CopyOf(CHOOSE i \in Open : \A j \in Open : j <= i)

CooldownOf(resyncs) == Lesser(Cooldown * 2 ^ resyncs, MaxCooldown)

Init ==
    /\ silent = 0
    /\ mode = "watching"
    /\ outages = <<>>
    /\ pc = [c \in Checkers |-> "idle"]
    /\ seen = [c \in Checkers |-> 0]
    /\ row = [c \in Checkers |-> None]
    /\ age = [c \in Checkers |-> 0]
    /\ changes = 0 /\ crashes = 0

Goto(c, where) == pc' = [pc EXCEPT ![c] = where]

\* The check returns, or raises into the sweep's except clause.
Return(c) ==
    /\ Goto(c, "idle")
    /\ row' = [row EXCEPT ![c] = None]
    /\ seen' = [seen EXCEPT ![c] = 0]
    /\ age' = [age EXCEPT ![c] = 0]

-----------------------------------------------------------------------------
(* The check. *)

\* Nothing live: an open outage ends quietly.  (The SELECT and the UPDATE are
\* one step here: resolving looks at nothing another check may change.)
CheckNothingLive(c) ==
    /\ pc[c] = "idle" /\ mode = "nothing_live"
    /\ OpenOutage # None
    /\ outages' = [outages EXCEPT ![OpenOutage.id].open = FALSE]
    /\ UNCHANGED <<silent, mode, checkVars, budgetVars>>

\* Deliveries arrive: the open outage is about to be resolved.
CheckHealthy(c) ==
    /\ pc[c] = "idle" /\ mode = "watching"
    /\ silent < Silence
    /\ OpenOutage # None
    /\ row' = [row EXCEPT ![c] = OpenOutage]
    /\ Goto(c, "resolving")
    /\ UNCHANGED <<silent, mode, outages, seen, age, budgetVars>>

\* Silence: start_outage looks for an open outage first.
CheckSilent(c) ==
    /\ pc[c] = "idle" /\ mode = "watching"
    /\ silent >= Silence
    /\ seen' = [seen EXCEPT ![c] = silent]
    /\ row' = [row EXCEPT ![c] = OpenOutage]
    /\ Goto(c, IF OpenOutage = None THEN "opening" ELSE "deciding")
    /\ UNCHANGED <<silent, mode, outages, age, budgetVars>>

\* resolve_outage; the all-clear is due if this check closed the row, and the
\* row it had read was alerted.
Resolve(c) ==
    LET i == row[c].id IN
    /\ pc[c] = "resolving"
    /\ \/ /\ outages[i].open /\ row[c].alerted
          /\ Goto(c, "telling_up")
          /\ UNCHANGED <<seen, row, age>>
       \/ ~(outages[i].open /\ row[c].alerted) /\ Return(c)
    /\ outages' = [outages EXCEPT ![i].open = FALSE]
    /\ UNCHANGED <<silent, mode, budgetVars>>

\* start_outage's INSERT, in a transaction of its own.
OpenNew(c) ==
    /\ pc[c] = "opening"
    /\ outages' = Append(outages, NewOutage)
    /\ Goto(c, "rereading")
    /\ UNCHANGED <<silent, mode, seen, row, age, budgetVars>>

\* start_outage returns open_outage() or {}; {} has no id, and check() raises.
Reread(c) ==
    /\ pc[c] = "rereading"
    /\ \/ /\ OpenOutage # None
          /\ row' = [row EXCEPT ![c] = OpenOutage]
          /\ Goto(c, "deciding")
          /\ UNCHANGED <<seen, age>>
       \/ OpenOutage = None /\ Return(c)
    /\ UNCHANGED <<silent, mode, outages, budgetVars>>

\* Re-sync, unless the last attempt the row shows is within the cooldown.
Decide(c) ==
    /\ pc[c] = "deciding"
    /\ Goto(c, IF \/ row[c].tried = None
                  \/ row[c].tried >= CooldownOf(row[c].resyncs)
               THEN "syncing" ELSE "alerting")
    /\ UNCHANGED <<silent, mode, outages, seen, row, age, budgetVars>>

\* The re-sync returned or raised: either way it counts, at the check's `now`.
Resynced(c) ==
    LET i == row[c].id IN
    /\ pc[c] = "syncing"
    /\ outages' = [outages EXCEPT
                     ![i].resyncs = Lesser(MaxResyncs, @ + 1),
                     ![i].tried = age[c]]
    /\ Goto(c, "alerting")
    /\ UNCHANGED <<silent, mode, seen, row, age, budgetVars>>

\* Mutants: the UPDATE forgets "AND alerted_at IS NULL", or says NOT NULL.
ClaimsAlways(i) == TRUE
ClaimsAgain(i)  == outages[i].alerted

\* Whether mark_outage_alerted claims the one alert of row i.
ClaimsAlert(i) == ~outages[i].alerted

\* Alert when it has been silent long enough (as this check measured it) and
\* no check has claimed the alert before.
Alert(c) ==
    LET i == row[c].id IN
    /\ pc[c] = "alerting"
    /\ \/ /\ seen[c] >= AlertAfter /\ ClaimsAlert(i)
          /\ outages' = [outages EXCEPT ![i].alerted = TRUE]
          /\ Goto(c, "telling_down")
          /\ UNCHANGED <<seen, row, age>>
       \/ /\ ~(seen[c] >= AlertAfter /\ ClaimsAlert(i))
          /\ Return(c)
          /\ UNCHANGED outages
    /\ UNCHANGED <<silent, mode, budgetVars>>

\* send_watchdog_notification returned.
ToldDown(c) ==
    /\ pc[c] = "telling_down"
    /\ outages' = [outages EXCEPT ![row[c].id].down = Lesser(2, @ + 1)]
    /\ Return(c)
    /\ UNCHANGED <<silent, mode, budgetVars>>

ToldUp(c) ==
    /\ pc[c] = "telling_up"
    /\ outages' = [outages EXCEPT ![row[c].id].up = Lesser(2, @ + 1)]
    /\ Return(c)
    /\ UNCHANGED <<silent, mode, budgetVars>>

-----------------------------------------------------------------------------
(* The environment. *)

\* record_delivery, of any status.
Deliver ==
    /\ silent > 0
    /\ IF silent < Silence THEN UNCHANGED changes
       ELSE changes < MaxChanges /\ changes' = changes + 1
    /\ silent' = 0
    /\ UNCHANGED <<mode, outages, checkVars, crashes>>

\* The last live watchlist is switched off or the first one on, the watchdog
\* disabled or enabled, the token removed or saved.
Toggle ==
    /\ changes < MaxChanges
    /\ changes' = changes + 1
    /\ mode' \in {"watching", "nothing_live", "off"} \ {mode}
    /\ UNCHANGED <<silent, outages, checkVars, crashes>>

\* The process of a check dies; the rows it wrote stay.
Crash(c) ==
    /\ pc[c] # "idle"
    /\ crashes < MaxCrashes
    /\ crashes' = crashes + 1
    /\ Return(c)
    /\ UNCHANGED <<silent, mode, outages, changes>>

Older(t) == IF t = None THEN None ELSE Lesser(Horizon, t + 1)

\* Time passes; only an await may last.
Tick ==
    /\ \A c \in Checkers :
          pc[c] \in {"idle", "syncing", "telling_down", "telling_up"}
    /\ silent' = Lesser(Horizon, silent + 1)
    /\ outages' = [i \in DOMAIN outages |->
                     [outages[i] EXCEPT !.tried = Older(@)]]
    /\ row' = [c \in Checkers |-> IF row[c] = None THEN None
                                  ELSE [row[c] EXCEPT !.tried = Older(@)]]
    /\ age' = [c \in Checkers |->
                 IF pc[c] = "idle" THEN 0 ELSE Lesser(Horizon, age[c] + 1)]
    /\ UNCHANGED <<mode, pc, seen, budgetVars>>

Begin(c) == CheckNothingLive(c) \/ CheckHealthy(c) \/ CheckSilent(c)

Proceed(c) ==
    \/ Resolve(c) \/ OpenNew(c) \/ Reread(c) \/ Decide(c) \/ Resynced(c)
    \/ Alert(c) \/ ToldDown(c) \/ ToldUp(c)

Next ==
    \/ \E c \in Checkers : Begin(c) \/ Proceed(c) \/ Crash(c)
    \/ Deliver \/ Toggle \/ Tick

Spec == Init /\ [][Next]_vars

\* A started check goes on (its awaits have timeouts), the sweep runs it again
\* and again, and time passes.
FairSpec ==
    /\ Spec
    /\ \A c \in Checkers : WF_vars(Proceed(c)) /\ SF_vars(Begin(c))
    /\ WF_vars(Tick)

-----------------------------------------------------------------------------
(* Properties. *)

\* Whatever checks overlap, an outage is announced at most once, its end at
\* most once, and its end only after the outage itself was announced (or that
\* announcement was claimed by a check on its way to send it).
MessagesPaired ==
    \A i \in DOMAIN outages :
        /\ outages[i].down <= 1
        /\ outages[i].up <= 1
        /\ outages[i].up > 0 => outages[i].alerted /\ ~outages[i].open

\* Once deliveries arrive for good, every outage is closed in the end, the
\* duplicates that overlapping checks opened too.
OutagesEnd == <>[](mode = "watching" /\ silent < Silence) => <>[](Open = {})

\* A silence that never ends is announced, or its announcement was claimed by
\* a check that died before sending it.
SilenceIsTold ==
    <>[](mode = "watching" /\ silent >= AlertAfter)
        => <>[](\/ \E i \in DOMAIN outages : outages[i].down > 0
                \/ crashes > 0)
=============================================================================
