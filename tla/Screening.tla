------------------------------ MODULE Screening ------------------------------
(***************************************************************************)
(* Contract screening (security.screen) of one token: the sweeps and the   *)
(* board of both workers ask GoPlus through the token_risk table, where a  *)
(* verdict is good for VerdictTTL and a failure to get one for             *)
(* UncheckedTTL only.  A screen reads the table twice and then asks about  *)
(* one token after the other, so it may last; other screens write the row  *)
(* meanwhile, and the contract itself may change.                          *)
(*                                                                         *)
(* Instants are ages in ticks, not told apart beyond AgeCap.              *)
(***************************************************************************)
EXTENDS Integers

CONSTANTS
    Screens,       \* the sweeps and requests that may screen at once
    VerdictTTL,    \* VERDICT_TTL_SECONDS
    UncheckedTTL,  \* UNCHECKED_TTL_SECONDS
    MaxElapsed,    \* bound: ticks the other tokens of a screen take
    MaxFaults,     \* bound: writes of the table that fail
    None           \* no row

ScreeningAssumption ==
    /\ {VerdictTTL, UncheckedTTL, MaxElapsed, MaxFaults} \subseteq Nat
    /\ UncheckedTTL < VerdictTTL
    /\ None \notin {"honeypot", "sellable", "unchecked", "unscreened"}

VARIABLES
    honeypot,   \* whether the contract refuses the sale
    since,      \* auxiliary: for how long that has been so
    failed,     \* auxiliary: ticks since a failure was last stored
    row,        \* the token_risk row
    pc, elapsed,
    cached,     \* the row as the first SELECT returned it
    result,     \* the verdict this screen works with
    overtaken,  \* auxiliary: the row was written between its two SELECTs
    faults

screenVars == <<pc, elapsed, cached, result, overtaken>>
vars == <<honeypot, since, failed, row, screenVars, faults>>

-----------------------------------------------------------------------------
AgeCap   == VerdictTTL + MaxElapsed + 1
Verdicts == {"honeypot", "sellable", "unchecked"}

TypeOK ==
    /\ honeypot \in BOOLEAN
    /\ since \in 0 .. AgeCap /\ failed \in 0 .. AgeCap
    /\ row = None \/ row \in [verdict : Verdicts, age : 0 .. AgeCap]
    /\ pc \in [Screens -> {"idle", "reading", "asking", "saving", "done"}]
    /\ elapsed \in [Screens -> 0 .. MaxElapsed]
    /\ \A p \in Screens : cached[p] \in Verdicts \cup {None}
    /\ \A p \in Screens : result[p] \in Verdicts \cup {"unscreened", None}
    /\ \A p \in Screens : pc[p] = "done" => result[p] # None
    /\ overtaken \in [Screens -> BOOLEAN]
    /\ faults \in 0 .. MaxFaults

Init ==
    /\ honeypot \in BOOLEAN
    /\ since = 0 /\ failed = AgeCap
    /\ row = None
    /\ pc = [p \in Screens |-> "idle"]
    /\ elapsed = [p \in Screens |-> 0]
    /\ cached = [p \in Screens |-> None] /\ result = [p \in Screens |-> None]
    /\ overtaken = [p \in Screens |-> FALSE]
    /\ faults = 0

Goto(p, where) == pc' = [pc EXCEPT ![p] = where]

\* get_token_risks with fresh_after = now - ttl.
Fresh(ttl) ==
    IF row # None /\ row.age <= ttl THEN row.verdict ELSE None

-----------------------------------------------------------------------------
(* A screen. *)

\* The first SELECT; GET /api/tokens/risk may ask for a refresh instead.
Begin(p) ==
    /\ pc[p] = "idle"
    /\ \/ /\ cached' = [cached EXCEPT ![p] = Fresh(VerdictTTL)]
          /\ Goto(p, "reading")
       \/ Goto(p, "asking") /\ UNCHANGED cached
    /\ UNCHANGED <<honeypot, since, failed, row, elapsed, result, overtaken, faults>>

\* Mutant: a stored failure keeps like a verdict.
AnyCached(p) == cached[p] # None

\* A real verdict, or a failure that is recent by the second SELECT.
Usable(p) ==
    \/ cached[p] \in {"honeypot", "sellable"}
    \/ cached[p] = "unchecked" /\ Fresh(UncheckedTTL) # None

\* The second SELECT.  What the cache does not answer is asked about, in turn
\* with the other tokens of the screen.
ReadRecent(p) ==
    /\ pc[p] = "reading"
    /\ IF Usable(p)
       THEN result' = [result EXCEPT ![p] = cached[p]] /\ Goto(p, "done")
       ELSE UNCHANGED result /\ Goto(p, "asking")
    /\ UNCHANGED <<honeypot, since, failed, row, elapsed, cached, overtaken, faults>>

\* What GoPlus's answer makes of the token: assess blocks a honeypot and warns
\* about the rest; an error, or no record of the token, is unchecked.
Answers == {"unchecked", IF honeypot THEN "honeypot" ELSE "sellable"}

Ask(p) ==
    /\ pc[p] = "asking"
    /\ \E v \in Answers : result' = [result EXCEPT ![p] = v]
    /\ Goto(p, "saving")
    /\ UNCHANGED <<honeypot, since, failed, row, elapsed, cached, overtaken, faults>>

\* save_token_risk: the last writer wins.
Save(p) ==
    /\ pc[p] = "saving"
    /\ row' = [verdict |-> result[p], age |-> 0]
    /\ failed' = IF result[p] = "unchecked" THEN 0 ELSE failed
    /\ overtaken' = [q \in Screens |-> overtaken[q] \/ pc[q] = "reading"]
    /\ Goto(p, "done")
    /\ UNCHANGED <<honeypot, since, elapsed, cached, result, faults>>

\* The write raises, here or for another token: tradeable lets everything pass.
Raise(p) ==
    /\ pc[p] \in {"asking", "saving"}
    /\ faults < MaxFaults
    /\ faults' = faults + 1
    /\ result' = [result EXCEPT ![p] = "unscreened"]
    /\ Goto(p, "done")
    /\ UNCHANGED <<honeypot, since, failed, row, elapsed, cached, overtaken>>

\* Every token has its verdict; tradeable drops the blocked ones.
Return(p) ==
    /\ pc[p] = "done"
    /\ Goto(p, "idle")
    /\ elapsed' = [elapsed EXCEPT ![p] = 0]
    /\ cached' = [cached EXCEPT ![p] = None]
    /\ result' = [result EXCEPT ![p] = None]
    /\ overtaken' = [overtaken EXCEPT ![p] = FALSE]
    /\ UNCHANGED <<honeypot, since, failed, row, faults>>

-----------------------------------------------------------------------------
(* The environment. *)

\* The owner switches selling off or on.
Switch ==
    /\ honeypot' = ~honeypot
    /\ since' = 0
    /\ UNCHANGED <<failed, row, screenVars, faults>>

Older(t) == IF t < AgeCap THEN t + 1 ELSE t

\* One request has a timeout far below a tick, a whole screen has not.
Tick ==
    /\ \A p \in Screens :
          /\ pc[p] \notin {"reading", "saving"}
          /\ pc[p] # "idle" => elapsed[p] < MaxElapsed
    /\ since' = Older(since) /\ failed' = Older(failed)
    /\ row' = IF row = None THEN None ELSE [row EXCEPT !.age = Older(@)]
    /\ elapsed' = [p \in Screens |-> IF pc[p] = "idle" THEN 0 ELSE elapsed[p] + 1]
    /\ UNCHANGED <<honeypot, pc, cached, result, overtaken, faults>>

Next ==
    \/ \E p \in Screens :
          \/ Begin(p) \/ ReadRecent(p) \/ Ask(p) \/ Save(p)
          \/ Raise(p) \/ Return(p)
    \/ Switch \/ Tick

Spec == Init /\ [][Next]_vars

-----------------------------------------------------------------------------
(* Properties. *)

\* "An outage should not be remembered for hours": a token that has been a
\* honeypot for longer than a verdict keeps passes a screen only if a lookup
\* failed within UncheckedTTL of its beginning, or the screen raised; or if
\* another screen wrote the row between this one's two reads, which makes an
\* old failure look recent.
TrapsAreCaught ==
    \A p \in Screens :
        /\ result[p] \in {"sellable", "unchecked"}
        /\ honeypot /\ since > VerdictTTL + elapsed[p]
        => failed <= UncheckedTTL + elapsed[p] \/ overtaken[p]
           \/ pc[p] = "saving"

\* "A gate that silently swallows signals": no failure and no overlap blocks a
\* token, only a honeypot that was one within VerdictTTL of the beginning.
AlarmsAreCurrent ==
    \A p \in Screens :
        result[p] = "honeypot" => honeypot \/ since <= VerdictTTL + elapsed[p]
=============================================================================
