-------------------------- MODULE SignalAlertsProofs --------------------------
(***************************************************************************)
(* For every set of sweepers and tokens, every threshold and every bound:  *)
(* the sweep keeps its types, a token is announced as new at most once, a  *)
(* signal loses its outcome stamp only to a failure of its own, a          *)
(* dismissal stands, and a growth goes untold only where a stale count     *)
(* masked it.                                                              *)
(***************************************************************************)
EXTENDS SignalAlerts, FiniteSetTheorems, TLAPS

Checking == {"selecting", "writing", "stamping", "reading"}

\* What a sweep at a given pc carries.
LocalsOK ==
    \A s \in Sweepers :
        /\ pc[s] \in Checking => tok[s] \in Tokens
        /\ pc[s] \notin Checking => tok[s] = None /\ ~fresh[s]
        /\ fresh[s] => pc[s] \in {"stamping", "reading"}
        /\ pc[s] = "stamping" => fresh[s]
        /\ pc[s] \in {"stamping", "reading"} => Exists(tok[s])
        /\ pc[s] = "writing" /\ had[s] # None => Exists(tok[s])

Typed == TypeOK /\ fired \in [Sweepers -> SUBSET News] /\ LocalsOK

\* A sweep has at most one message about a token, and none about one it is
\* still to check.
FiredOK ==
    \A s \in Sweepers :
        /\ pc[s] \in {"idle", "screening"} => fired[s] = {}
        /\ tok[s] \notin todo[s]
        /\ \A m \in fired[s] : m.token \notin todo[s] /\ m.token # tok[s]
        /\ \A m, o \in fired[s] : m.token = o.token => m = o

\* The sweep s will announce t as a new signal, or announce it at all.
CarriesNew(s, t) ==
    (fresh[s] /\ tok[s] = t) \/ \E m \in fired[s] : m.token = t /\ m.new
Carries(s, t) ==
    (fresh[s] /\ tok[s] = t) \/ \E m \in fired[s] : m.token = t

\* One sweep at most is going to announce a token as new, and only while
\* nobody did.
NewExclusive ==
    \A t \in Tokens :
        /\ \A s \in Sweepers : CarriesNew(s, t) => Exists(t) /\ news[t] = 0
        /\ \A s, r \in Sweepers : CarriesNew(s, t) /\ CarriesNew(r, t) => s = r
        /\ news[t] <= 1
        /\ news[t] > 0 => Exists(t)

\* The signals without a stamp that nobody is about to stamp.
Unstamped ==
    {t \in Tokens : /\ Exists(t) /\ ~stamped[t]
                    /\ \A s \in Sweepers : ~(pc[s] = "stamping" /\ tok[s] = t)}

StampBound == IsFiniteSet(Unstamped) /\ Cardinality(Unstamped) <= faults

\* What was said of a dismissed signal, and what is still on its way.
Carriers(t) == {s \in Sweepers : Carries(s, t)}

QuietBound ==
    \A t \in Tokens : Dismissed(t) =>
        late[t] + Cardinality(Carriers(t)) <= Cardinality(Sweepers)

IInv == Typed /\ FiredOK /\ NewExclusive /\ StampBound /\ QuietBound

-----------------------------------------------------------------------------
(* Types. *)

LEMMA SweepersCounted ==
    /\ Cardinality(Sweepers) \in Nat
    /\ \A t : /\ IsFiniteSet(Carriers(t)) /\ Cardinality(Carriers(t)) \in Nat
              /\ Cardinality(Carriers(t)) <= Cardinality(Sweepers)
<1>1. Cardinality(Sweepers) \in Nat
  BY SweepersAssumption, FS_CardinalityType
<1>2. ASSUME NEW t
      PROVE  /\ IsFiniteSet(Carriers(t)) /\ Cardinality(Carriers(t)) \in Nat
             /\ Cardinality(Carriers(t)) <= Cardinality(Sweepers)
  <2>1. Carriers(t) \subseteq Sweepers
    BY DEF Carriers
  <2>2. /\ IsFiniteSet(Carriers(t))
        /\ Cardinality(Carriers(t)) <= Cardinality(Sweepers)
    BY <2>1, SweepersAssumption, FS_Subset
  <2> QED BY <2>2, FS_CardinalityType
<1> QED BY <1>1, <1>2

LEMMA InitTyped == Init => Typed
<1> SUFFICES ASSUME Init PROVE Typed
  OBVIOUS
<1>1. 0 \in Counts /\ 0 \in 0 .. Cardinality(Sweepers) + 1
  BY ThresholdAssumption, SweepersCounted DEF Counts
<1> QED BY <1>1, BudgetAssumption DEF Init, Typed, TypeOK, LocalsOK, Checking

\* Every step keeps the types.
LEMMA NextTyped == Typed /\ [Next]_vars => Typed'
<1> SUFFICES ASSUME Typed, [Next]_vars PROVE Typed'
  OBVIOUS
<1> USE DEF Typed, TypeOK
<1>0. /\ 0 \in Counts /\ Counts \subseteq Int
      /\ faults + 1 \in Int /\ changes + 1 \in Int /\ mutes + 1 \in Int
  BY ThresholdAssumption, BudgetAssumption DEF Counts
<1>1. ASSUME NEW s \in Sweepers, Count(s)  PROVE Typed'
  BY <1>1 DEF Count, Goto, tellVars, budgetVars, LocalsOK, Checking, Exists
<1>2. ASSUME NEW s \in Sweepers, Screened(s)  PROVE Typed'
  BY <1>2 DEF Screened, Goto, tellVars, budgetVars, LocalsOK, Checking, Exists
<1>3. ASSUME NEW s \in Sweepers, NEW t \in Tokens, Evaluate(s, t)  PROVE Typed'
  <2>1. /\ todo' \in [Sweepers -> SUBSET Tokens]
        /\ tok' \in [Sweepers -> Tokens \cup {None}]
        /\ n' \in [Sweepers -> Counts]
        /\ pc' \in [Sweepers -> {"idle", "screening", "evaluating", "selecting",
                                 "writing", "stamping", "reading", "announcing"}]
    BY <1>3 DEF Evaluate, Goto
  <2>2. LocalsOK'
    BY <1>3 DEF Evaluate, Goto, LocalsOK, Checking, Exists
  <2> QED BY <1>3, <2>1, <2>2 DEF Evaluate, tellVars, budgetVars
<1>4. ASSUME NEW s \in Sweepers, SelectSignal(s)  PROVE Typed'
  BY <1>4 DEF SelectSignal, Goto, tellVars, budgetVars, LocalsOK, Checking,
     Exists, Signal
<1>5. ASSUME NEW s \in Sweepers, InsertSignal(s)  PROVE Typed'
  <2>1. CASE /\ MayInsert(tok[s]) /\ Goto(s, "stamping")
             /\ signals' = [signals EXCEPT ![tok[s]] =
                              [wallets |-> n[s], active |-> TRUE]]
             /\ fresh' = [fresh EXCEPT ![s] = TRUE]
             /\ UNCHANGED <<tok, n, had>>
    <3>1. [wallets |-> n[s], active |-> TRUE] \in Signal /\ tok[s] \in Tokens
      BY <1>5 DEF InsertSignal, Signal, LocalsOK, Checking
    <3>2. signals' \in [Tokens -> Signal \cup {None}]
          /\ \A t \in Tokens : Exists(t) => Exists(t)'
      BY <2>1, <3>1, NoneAssumption DEF Exists
    <3>3. Exists(tok[s])'
      BY <2>1, <3>1, NoneAssumption DEF Exists
    <3> QED BY <1>5, <2>1, <3>1, <3>2, <3>3
            DEF InsertSignal, Goto, tellVars, budgetVars, LocalsOK, Checking
  <2>2. CASE Clear(s) /\ Goto(s, "evaluating") /\ UNCHANGED signals
    BY <1>0, <1>5, <2>2 DEF InsertSignal, Clear, Goto, tellVars, budgetVars,
       LocalsOK, Checking, Exists
  <2> QED BY <1>5, <2>1, <2>2 DEF InsertSignal
<1>6. ASSUME NEW s \in Sweepers, UpdateSignal(s)  PROVE Typed'
  <2>1. tok[s] \in Tokens /\ Exists(tok[s])
    BY <1>6 DEF UpdateSignal, LocalsOK, Checking
  <2>2. Refreshed(tok[s], n[s]) \in Signal
    BY <2>1 DEF Refreshed, Exists, Signal
  <2>3. signals' \in [Tokens -> Signal \cup {None}]
        /\ \A t \in Tokens : Exists(t) => Exists(t)'
    BY <1>6, <2>1, <2>2, NoneAssumption DEF UpdateSignal, Exists
  <2> QED BY <1>6, <2>1, <2>3 DEF UpdateSignal, Goto, tellVars, budgetVars,
             LocalsOK, Checking
<1>7. ASSUME NEW s \in Sweepers, Stamp(s)  PROVE Typed'
  BY <1>7 DEF Stamp, Stamps, Goto, tellVars, budgetVars, LocalsOK, Checking, Exists
<1>8. ASSUME NEW s \in Sweepers, ReadBack(s)  PROVE Typed'
  <2> DEFINE message == [token |-> tok[s], new |-> fresh[s],
                         wallets |-> signals[tok[s]].wallets]
  <2>1. message \in News
    BY <1>8 DEF ReadBack, LocalsOK, Checking, Exists, Signal, News
  <2>2. fired' \in [Sweepers -> SUBSET News]
    BY <1>8, <2>1 DEF ReadBack
  <2>3. masked' \in [Tokens -> BOOLEAN]
    <3> DEFINE low == masked[tok[s]] \/
                        (Strengthened(s) /\ signals[tok[s]].wallets < n[s])
    <3>1. masked' = [masked EXCEPT ![tok[s]] = low]
      BY <1>8 DEF ReadBack
    <3>2. low \in BOOLEAN
      BY <1>8, Zenon DEF ReadBack, LocalsOK, Checking
    <3> HIDE DEF low
    <3> QED BY <3>1, <3>2
  <2>4. /\ Clear(s) /\ Goto(s, "evaluating") /\ pc[s] = "reading"
        /\ UNCHANGED <<count, passes, signals, stamped, todo, news, told, late,
                       changes, mutes, faults>>
    BY <1>8 DEF ReadBack, budgetVars
  <2>5. TypeOK'
    BY <1>0, <2>2, <2>3, <2>4 DEF Clear, Goto
  <2>6. LocalsOK'
    BY <2>4 DEF Clear, Goto, LocalsOK, Checking, Exists
  <2> QED BY <2>2, <2>5, <2>6
<1>9. ASSUME NEW s \in Sweepers, Checked(s)  PROVE Typed'
  BY <1>9 DEF Checked, Goto, tellVars, budgetVars, LocalsOK, Checking, Exists
<1>10. ASSUME NEW s \in Sweepers, NEW m \in fired[s], Announce(s, m)  PROVE Typed'
  <2>1. m \in News
    OBVIOUS
  <2>2. news' \in [Tokens -> 0 .. 2]
    <3>1. \A i \in 0 .. 2 : Lesser(2, i + 1) \in 0 .. 2
      BY DEF Lesser
    <3> QED BY <1>10, <3>1 DEF Announce
  <2>3. told' \in [Tokens -> Counts]
    BY <1>10, <2>1 DEF Announce, Greater, News
  <2>4. late' \in [Tokens -> 0 .. Cardinality(Sweepers) + 1]
    <3> DEFINE most == Cardinality(Sweepers) + 1
    <3>1. most \in Nat
      BY SweepersCounted
    <3> HIDE DEF most
    <3>2. \A i \in 0 .. most : Lesser(most, i + 1) \in 0 .. most
      BY <3>1 DEF Lesser
    <3>3. late \in [Tokens -> 0 .. most]
      BY DEF most
    <3>4. late' \in [Tokens -> 0 .. most]
      BY <1>10, <3>2, <3>3 DEF Announce, most
    <3> QED BY <3>4 DEF most
  <2> QED BY <1>10, <2>2, <2>3, <2>4 DEF Announce, Goto, budgetVars, LocalsOK,
             Checking, Exists
<1>11. ASSUME NEW s \in Sweepers, Crash(s) \/ DatabaseFails(s)  PROVE Typed'
  <2>1. faults' \in 0 .. MaxFaults
    BY <1>11, BudgetAssumption DEF Crash, DatabaseFails
  <2>2. CASE Crash(s)
    BY <1>0, <2>1, <2>2 DEF Crash, Clear, Goto, tellVars, LocalsOK, Checking, Exists
  <2>3. CASE DatabaseFails(s)
    BY <1>0, <2>1, <2>3 DEF DatabaseFails, Clear, Goto, tellVars, LocalsOK,
       Checking, Exists
  <2> QED BY <1>11, <2>2, <2>3
<1>12. ASSUME NEW t \in Tokens, Recount(t) \/ Rescreen(t)  PROVE Typed'
  <2>1. changes' \in 0 .. MaxChanges
    BY <1>12, BudgetAssumption DEF Recount, Rescreen
  <2>2. CASE Recount(t)
    BY <2>1, <2>2 DEF Recount, sweepVars, tellVars, LocalsOK, Checking, Exists
  <2>3. CASE Rescreen(t)
    BY <2>1, <2>3 DEF Rescreen, sweepVars, tellVars, LocalsOK, Checking, Exists
  <2> QED BY <1>12, <2>2, <2>3
<1>13. ASSUME NEW t \in Tokens, Mute(t)  PROVE Typed'
  <2>1. mutes' \in 0 .. MaxMutes
    BY <1>13, BudgetAssumption DEF Mute
  <2>2. [signals[t] EXCEPT !.active = ~@] \in Signal
    <3>1. signals[t] \in Signal
      BY <1>13 DEF Mute, Exists
    <3>2. \A m \in Signal : [m EXCEPT !.active = ~@] \in Signal
      BY DEF Signal
    <3> QED BY <3>1, <3>2
  <2>3. signals' \in [Tokens -> Signal \cup {None}]
        /\ \A u \in Tokens : Exists(u) => Exists(u)'
    <3> DEFINE muted == [signals[t] EXCEPT !.active = ~@]
    <3>1. signals' = [signals EXCEPT ![t] = muted]
      BY <1>13 DEF Mute
    <3>2. muted \in Signal /\ muted # None
      BY <2>2, NoneAssumption
    <3> HIDE DEF muted
    <3> QED BY <3>1, <3>2 DEF Exists
  <2>4. late' \in [Tokens -> 0 .. Cardinality(Sweepers) + 1]
    BY <1>13, SweepersCounted DEF Mute
  <2> QED BY <1>13, <2>1, <2>3, <2>4 DEF Mute, sweepVars, LocalsOK, Checking
<1>14. CASE UNCHANGED vars
  BY <1>14 DEF vars, sweepVars, tellVars, budgetVars, LocalsOK, Exists
<1> QED
  BY <1>1, <1>2, <1>3, <1>4, <1>5, <1>6, <1>7, <1>8, <1>9, <1>10, <1>11, <1>12,
     <1>13, <1>14 DEF Next, Sweep

\* A sweep's local state always fits where it is.
THEOREM TypeCorrect == Spec => []TypeOK
<1>1. Typed => TypeOK
  BY DEF Typed
<1> QED BY <1>1, InitTyped, NextTyped, PTL DEF Spec

-----------------------------------------------------------------------------
(* What a sweep has to say. *)

\* A message is about a token the sweep is done with, and the only one.
LEMMA NextFired == Typed /\ FiredOK /\ [Next]_vars => FiredOK'
<1> SUFFICES ASSUME Typed, FiredOK, [Next]_vars PROVE FiredOK'
  OBVIOUS
<1> USE DEF Typed, TypeOK, FiredOK
<1>1. ASSUME NEW s \in Sweepers, Count(s)  PROVE FiredOK'
  <2>1. tok[s] = None
    BY <1>1 DEF Count, LocalsOK, Checking
  <2> QED BY <1>1, <2>1, TokensAssumption DEF Count, Goto
<1>2. ASSUME NEW s \in Sweepers, Screened(s)  PROVE FiredOK'
  BY <1>2 DEF Screened, Goto
<1>3. ASSUME NEW s \in Sweepers, NEW t \in Tokens, Evaluate(s, t)  PROVE FiredOK'
  BY <1>3 DEF Evaluate, Goto
<1>4. ASSUME NEW s \in Sweepers, SelectSignal(s)  PROVE FiredOK'
  BY <1>4 DEF SelectSignal, Goto
<1>5. ASSUME NEW s \in Sweepers, InsertSignal(s)  PROVE FiredOK'
  BY <1>5, TokensAssumption DEF InsertSignal, Clear, Goto, News
<1>6. ASSUME NEW s \in Sweepers, UpdateSignal(s) \/ Stamp(s)  PROVE FiredOK'
  BY <1>6 DEF UpdateSignal, Stamp, Goto
<1>7. ASSUME NEW s \in Sweepers, ReadBack(s)  PROVE FiredOK'
  <2> DEFINE message == [token |-> tok[s], new |-> fresh[s],
                         wallets |-> signals[tok[s]].wallets]
  <2>1. message.token = tok[s] /\ tok[s] \in Tokens /\ tok[s] # None
    BY <1>7, TokensAssumption DEF ReadBack, LocalsOK, Checking
  <2>2. /\ fired'[s] = fired[s] \/ fired'[s] = fired[s] \cup {message}
        /\ \A r \in Sweepers \ {s} : fired'[r] = fired[r]
    BY <1>7 DEF ReadBack
  <2> HIDE DEF message
  <2>3. \A r \in Sweepers : \A m \in fired[r] : m.token # None
    BY TokensAssumption DEF News
  <2>4. /\ \A r \in Sweepers \ {s} : tok'[r] = tok[r] /\ pc'[r] = pc[r]
        /\ tok'[s] = None /\ pc'[s] = "evaluating" /\ todo' = todo
    BY <1>7 DEF ReadBack, Clear, Goto
  <2> QED BY <2>1, <2>2, <2>3, <2>4, TokensAssumption
<1>8. ASSUME NEW s \in Sweepers, Checked(s)  PROVE FiredOK'
  BY <1>8 DEF Checked, Goto
<1>9. ASSUME NEW s \in Sweepers, NEW m \in fired[s], Announce(s, m)  PROVE FiredOK'
  BY <1>9 DEF Announce, Goto
<1>10. ASSUME NEW s \in Sweepers, Crash(s) \/ DatabaseFails(s)  PROVE FiredOK'
  BY <1>10, TokensAssumption DEF Crash, DatabaseFails, Clear, Goto, News
<1>11. ASSUME NEW t \in Tokens, Recount(t) \/ Rescreen(t) \/ Mute(t)
       PROVE  FiredOK'
  BY <1>11 DEF Recount, Rescreen, Mute, sweepVars
<1>12. CASE UNCHANGED vars
  BY <1>12 DEF vars, sweepVars
<1> QED
  BY <1>1, <1>2, <1>3, <1>4, <1>5, <1>6, <1>7, <1>8, <1>9, <1>10, <1>11, <1>12
     DEF Next, Sweep

Stamping(s, t) == pc[s] = "stamping" /\ tok[s] = t

\* A step that neither inserts, stamps, reads back, announces, fails nor mutes
\* changes nothing of what the alerts' properties look at.
Silent ==
    /\ UNCHANGED <<stamped, news, late, faults, mutes>>
    /\ \A t \in Tokens :
          /\ Exists(t)' = Exists(t) /\ Dismissed(t)' = Dismissed(t)
          /\ \A s \in Sweepers : /\ Carries(s, t)' = Carries(s, t)
                                 /\ CarriesNew(s, t)' = CarriesNew(s, t)
                                 /\ Stamping(s, t)' = Stamping(s, t)

LEMMA SilentSteps ==
    ASSUME Typed, [Next]_vars,
           \A s \in Sweepers :
              /\ ~InsertSignal(s) /\ ~Stamp(s) /\ ~ReadBack(s)
              /\ ~Crash(s) /\ ~DatabaseFails(s)
              /\ \A m \in fired[s] : ~Announce(s, m),
           \A t \in Tokens : ~Mute(t)
    PROVE  Silent
<1> USE DEF Typed, TypeOK
<1>1. ASSUME NEW s \in Sweepers,
             Count(s) \/ Screened(s) \/ SelectSignal(s) \/ Checked(s)
      PROVE  Silent
  <2>1. UNCHANGED <<signals, stamped, tok, fresh, fired, tellVars, budgetVars>>
    BY <1>1 DEF Count, Screened, SelectSignal, Checked
  <2>2. \A r \in Sweepers : pc'[r] = "stamping" <=> pc[r] = "stamping"
    BY <1>1 DEF Count, Screened, SelectSignal, Checked, Goto
  <2> QED BY <2>1, <2>2 DEF Silent, tellVars, budgetVars, Exists, Dismissed,
             Carries, CarriesNew, Stamping
<1>2. ASSUME NEW s \in Sweepers, NEW t \in Tokens, Evaluate(s, t)  PROVE Silent
  <2>1. UNCHANGED <<signals, stamped, fresh, fired, tellVars, budgetVars>>
    BY <1>2 DEF Evaluate
  <2>2. /\ pc[s] # "stamping" /\ pc'[s] # "stamping" /\ ~fresh[s]
        /\ \A r \in Sweepers \ {s} : pc'[r] = pc[r] /\ tok'[r] = tok[r]
    BY <1>2 DEF Evaluate, Goto, LocalsOK
  <2> QED BY <2>1, <2>2 DEF Silent, tellVars, budgetVars, Exists, Dismissed,
             Carries, CarriesNew, Stamping
<1>3. ASSUME NEW s \in Sweepers, UpdateSignal(s)  PROVE Silent
  <2>1. UNCHANGED <<stamped, tok, fresh, fired, tellVars, budgetVars>>
    BY <1>3 DEF UpdateSignal
  <2>2. \A r \in Sweepers : pc'[r] = "stamping" <=> pc[r] = "stamping"
    BY <1>3 DEF UpdateSignal, Goto
  <2>3. ASSUME NEW t \in Tokens
        PROVE  Exists(t)' = Exists(t) /\ Dismissed(t)' = Dismissed(t)
    <3>1. CASE t # tok[s]
      BY <1>3, <3>1 DEF UpdateSignal, Exists, Dismissed
    <3>2. CASE t = tok[s]
      <4>1. signals[t] # None /\ signals[t] \in Signal
        BY <1>3, <3>2 DEF UpdateSignal, LocalsOK, Exists
      <4>2. signals'[t] = [signals[t] EXCEPT !.wallets = n[s]]
        BY <1>3, <3>2 DEF UpdateSignal, Refreshed
      <4>3. signals'[t].active = signals[t].active /\ signals'[t] \in Signal
        BY <4>1, <4>2 DEF Signal
      <4> QED BY <4>1, <4>3, NoneAssumption DEF Exists, Dismissed
    <3> QED BY <3>1, <3>2
  <2> QED BY <2>1, <2>2, <2>3 DEF Silent, tellVars, budgetVars, Carries,
             CarriesNew, Stamping
<1>4. CASE UNCHANGED vars \/ \E t \in Tokens : Recount(t) \/ Rescreen(t)
  <2>1. UNCHANGED <<signals, stamped, sweepVars, tellVars, faults, mutes>>
    BY <1>4 DEF vars, Recount, Rescreen, budgetVars
  <2> QED BY <2>1 DEF Silent, sweepVars, tellVars, Exists, Dismissed, Carries,
             CarriesNew, Stamping
<1> QED BY <1>1, <1>2, <1>3, <1>4 DEF Next, Sweep

\* An insert makes its sweep the one carrier of a signal that was not there; a
\* failed one changes nothing.
LEMMA InsertStep ==
    ASSUME Typed, FiredOK, NEW s \in Sweepers, InsertSignal(s)
    PROVE  \/ Silent
           \/ /\ UNCHANGED <<tok, stamped, news, late, faults, mutes>>
              /\ ~Exists(tok[s]) /\ Stamping(s, tok[s])'
              /\ Exists(tok[s])' /\ ~Dismissed(tok[s])'
              /\ \A t \in Tokens \ {tok[s]} :
                    Exists(t)' = Exists(t) /\ Dismissed(t)' = Dismissed(t)
              /\ \A r \in Sweepers, t \in Tokens : r # s \/ t # tok[s] =>
                    /\ Carries(r, t)' = Carries(r, t)
                    /\ CarriesNew(r, t)' = CarriesNew(r, t)
                    /\ Stamping(r, t)' = Stamping(r, t)
<1> USE DEF Typed, TypeOK
<1>0. /\ UNCHANGED <<stamped, fired, tellVars, budgetVars>>
      /\ pc[s] = "writing" /\ ~fresh[s] /\ tok[s] \in Tokens
  BY DEF InsertSignal, LocalsOK, Checking
<1>1. CASE ~MayInsert(tok[s])
  <2>1. /\ signals' = signals /\ ~fresh'[s] /\ pc'[s] # "stamping"
        /\ \A r \in Sweepers \ {s} :
              pc'[r] = pc[r] /\ tok'[r] = tok[r] /\ fresh'[r] = fresh[r]
    BY <1>0, <1>1 DEF InsertSignal, Clear, Goto
  <2> QED BY <1>0, <2>1 DEF Silent, tellVars, budgetVars, Exists, Dismissed,
             Carries, CarriesNew, Stamping
<1>2. CASE MayInsert(tok[s])
  <2>1. /\ signals' = [signals EXCEPT ![tok[s]] =
                         [wallets |-> n[s], active |-> TRUE]]
        /\ fresh' = [fresh EXCEPT ![s] = TRUE]
        /\ pc' = [pc EXCEPT ![s] = "stamping"] /\ tok' = tok
        /\ ~Exists(tok[s])
    BY <1>2 DEF InsertSignal, Goto, MayInsert
  <2>2. [wallets |-> n[s], active |-> TRUE] \in Signal
    BY DEF Signal
  <2>3. Exists(tok[s])' /\ ~Dismissed(tok[s])'
    BY <1>0, <2>1, <2>2, NoneAssumption DEF Exists, Dismissed
  <2>4. Stamping(s, tok[s])'
    BY <2>1 DEF Stamping
  <2>5. \A t \in Tokens \ {tok[s]} :
           Exists(t)' = Exists(t) /\ Dismissed(t)' = Dismissed(t)
    BY <2>1 DEF Exists, Dismissed
  <2>6. \A r \in Sweepers, t \in Tokens : r # s \/ t # tok[s] =>
           /\ Carries(r, t)' = Carries(r, t)
           /\ CarriesNew(r, t)' = CarriesNew(r, t)
           /\ Stamping(r, t)' = Stamping(r, t)
    BY <1>0, <2>1 DEF Carries, CarriesNew, Stamping
  <2> QED BY <1>0, <2>1, <2>3, <2>4, <2>5, <2>6 DEF tellVars, budgetVars
<1> QED BY <1>1, <1>2

\* Reading back, a sweep notes the new signal it carries, or a strengthened one
\* nobody dismissed.
LEMMA ReadBackStep ==
    ASSUME Typed, FiredOK, NEW s \in Sweepers, ReadBack(s)
    PROVE  /\ UNCHANGED <<signals, stamped, news, late, faults, mutes>>
           /\ \A r \in Sweepers, t \in Tokens :
                 /\ CarriesNew(r, t)' = CarriesNew(r, t)
                 /\ Carries(r, t) => Carries(r, t)'
                 /\ Carries(r, t)' /\ Dismissed(t) => Carries(r, t)
                 /\ Stamping(r, t)' = Stamping(r, t)
<1> USE DEF Typed, TypeOK
<1> DEFINE message == [token |-> tok[s], new |-> fresh[s],
                       wallets |-> signals[tok[s]].wallets]
           says == fresh[s] \/ (had[s] # None /\ Grew(s))
<1>1. /\ UNCHANGED <<signals, stamped, news, told, late, budgetVars>>
      /\ pc[s] = "reading" /\ pc'[s] = "evaluating"
      /\ tok[s] \in Tokens /\ tok'[s] = None /\ fresh'[s] = FALSE
      /\ fired'[s] = IF says THEN fired[s] \cup {message} ELSE fired[s]
      /\ \A r \in Sweepers \ {s} : /\ pc'[r] = pc[r] /\ tok'[r] = tok[r]
                                   /\ fresh'[r] = fresh[r] /\ fired'[r] = fired[r]
  BY DEF ReadBack, Clear, Goto, LocalsOK, Checking
<1>2. message.token = tok[s] /\ message.new = fresh[s]
  OBVIOUS
<1>3. \A m \in fired[s] : m.token # tok[s]
  BY DEF FiredOK
<1>4. says => fresh[s] \/ ~Dismissed(tok[s])
  BY DEF Grew, Dismissed
<1>5. fresh[s] => says
  OBVIOUS
<1> HIDE DEF message, says
<1>6. ASSUME NEW t \in Tokens
      PROVE  /\ CarriesNew(s, t)' = CarriesNew(s, t)
             /\ Carries(s, t) => Carries(s, t)'
             /\ Carries(s, t)' /\ Dismissed(t) => Carries(s, t)
  <2>1. CASE t = tok[s] /\ says
    <3>1. CarriesNew(s, t)' <=> fresh[s]
      BY <1>1, <1>2, <1>3, <2>1 DEF CarriesNew
    <3>2. CarriesNew(s, t) <=> fresh[s]
      BY <1>3, <2>1 DEF CarriesNew
    <3>3. Carries(s, t)'
      BY <1>1, <1>2, <2>1 DEF Carries
    <3>4. Dismissed(t) => Carries(s, t)
      BY <1>4, <2>1 DEF Carries
    <3> QED BY <3>1, <3>2, <3>3, <3>4 DEF CarriesNew
  <2>2. CASE ~says
    BY <1>1, <1>5, <2>2 DEF Carries, CarriesNew
  <2>3. CASE t # tok[s] /\ says
    BY <1>1, <1>2, <2>3, TokensAssumption DEF Carries, CarriesNew
  <2> QED BY <2>1, <2>2, <2>3
<1>7. ASSUME NEW t \in Tokens, NEW r \in Sweepers \ {s}
      PROVE  /\ CarriesNew(r, t)' = CarriesNew(r, t)
             /\ Carries(r, t)' = Carries(r, t)
  BY <1>1 DEF Carries, CarriesNew
<1>8. \A r \in Sweepers, t \in Tokens : Stamping(r, t)' = Stamping(r, t)
  BY <1>1 DEF Stamping
<1> QED BY <1>1, <1>6, <1>7, <1>8 DEF budgetVars

\* An announced token is carried no more by the sweep that announced it.
LEMMA AnnounceStep ==
    ASSUME Typed, FiredOK, NEW s \in Sweepers, NEW m \in fired[s], Announce(s, m)
    PROVE  /\ UNCHANGED <<signals, stamped, faults, mutes>>
           /\ m.token \in Tokens
           /\ news' = [news EXCEPT ![m.token] =
                         IF m.new THEN Lesser(2, @ + 1) ELSE @]
           /\ late' = [late EXCEPT ![m.token] =
                         IF Dismissed(m.token)
                         THEN Lesser(Cardinality(Sweepers) + 1, @ + 1) ELSE @]
           /\ Carries(s, m.token) /\ ~Carries(s, m.token)'
           /\ ~CarriesNew(s, m.token)' /\ (m.new <=> CarriesNew(s, m.token))
           /\ \A r \in Sweepers, t \in Tokens : r # s \/ t # m.token =>
                 /\ Carries(r, t)' = Carries(r, t)
                 /\ CarriesNew(r, t)' = CarriesNew(r, t)
           /\ \A r \in Sweepers, t \in Tokens : Stamping(r, t)' = Stamping(r, t)
<1> USE DEF Typed, TypeOK
<1>1. /\ UNCHANGED <<signals, stamped, tok, fresh, budgetVars>>
      /\ fired' = [fired EXCEPT ![s] = @ \ {m}]
      /\ pc[s] = "announcing" /\ pc'[s] \in {"announcing", "idle"}
      /\ \A r \in Sweepers \ {s} : pc'[r] = pc[r]
  BY DEF Announce, Goto
<1>2. m.token \in Tokens /\ ~fresh[s] /\ \A o \in fired[s] : o.token = m.token => o = m
  BY <1>1 DEF News, LocalsOK, FiredOK
<1>3. Carries(s, m.token) /\ ~Carries(s, m.token)'
  BY <1>1, <1>2 DEF Carries
<1>4. ~CarriesNew(s, m.token)' /\ (m.new <=> CarriesNew(s, m.token))
  BY <1>1, <1>2 DEF CarriesNew
<1>5. ASSUME NEW r \in Sweepers, NEW t \in Tokens, r # s \/ t # m.token
      PROVE  Carries(r, t)' = Carries(r, t) /\ CarriesNew(r, t)' = CarriesNew(r, t)
  <2>1. \A o \in fired[r] : o.token = t => o \in fired'[r]
    BY <1>1, <1>5
  <2>2. fired'[r] \subseteq fired[r]
    BY <1>1
  <2> QED BY <1>1, <2>1, <2>2 DEF Carries, CarriesNew
<1>6. \A r \in Sweepers, t \in Tokens : Stamping(r, t)' = Stamping(r, t)
  BY <1>1 DEF Stamping
<1> QED BY <1>1, <1>2, <1>3, <1>4, <1>5, <1>6 DEF Announce, budgetVars

\* A failure of any kind makes no sweep carry more, and one stamp less likely.
LEMMA FailStep ==
    ASSUME Typed, FiredOK, NEW s \in Sweepers, Crash(s) \/ DatabaseFails(s)
    PROVE  /\ UNCHANGED <<signals, stamped, news, late, mutes>>
           /\ faults' = faults + 1
           /\ \A r \in Sweepers, t \in Tokens :
                 /\ Carries(r, t)' => Carries(r, t)
                 /\ CarriesNew(r, t)' => CarriesNew(r, t)
                 /\ r # s => Stamping(r, t)' = Stamping(r, t)
<1> USE DEF Typed, TypeOK
<1>1. /\ UNCHANGED <<signals, stamped, tellVars, mutes>> /\ faults' = faults + 1
      /\ tok'[s] = None /\ fresh'[s] = FALSE
      /\ fired'[s] \subseteq fired[s]
      /\ \A r \in Sweepers \ {s} : /\ pc'[r] = pc[r] /\ tok'[r] = tok[r]
                                   /\ fresh'[r] = fresh[r] /\ fired'[r] = fired[r]
  BY DEF Crash, DatabaseFails, Clear, Goto
<1> QED BY <1>1 DEF tellVars, Carries, CarriesNew, Stamping

\* A stamp is given by the sweep that created the signal.
LEMMA StampStep ==
    ASSUME Typed, FiredOK, NEW s \in Sweepers, Stamp(s)
    PROVE  /\ UNCHANGED <<signals, news, late, faults, mutes>>
           /\ tok[s] \in Tokens /\ stamped' = [stamped EXCEPT ![tok[s]] = TRUE]
           /\ \A r \in Sweepers, t \in Tokens :
                 /\ Carries(r, t)' = Carries(r, t)
                 /\ CarriesNew(r, t)' = CarriesNew(r, t)
                 /\ r # s \/ t # tok[s] => Stamping(r, t)' = Stamping(r, t)
<1> USE DEF Typed, TypeOK
<1>1. /\ UNCHANGED <<signals, tok, fresh, fired, tellVars, budgetVars>>
      /\ pc' = [pc EXCEPT ![s] = "reading"] /\ pc[s] = "stamping"
      /\ tok[s] \in Tokens /\ fresh[s]
  BY DEF Stamp, Goto, LocalsOK, Checking
<1>2. stamped' = [stamped EXCEPT ![tok[s]] = TRUE]
  BY <1>1 DEF Stamp, Stamps
<1> QED BY <1>1, <1>2 DEF tellVars, budgetVars, Carries, CarriesNew, Stamping

-----------------------------------------------------------------------------
(* New signals are announced once. *)

LEMMA NextExclusive ==
    ASSUME Typed, FiredOK, NewExclusive, [Next]_vars
    PROVE  NewExclusive'
<1> USE DEF NewExclusive
<1>0. \A t \in Tokens : news[t] \in 0 .. 2
  BY DEF Typed, TypeOK
<1>1. CASE Silent
  BY <1>1 DEF Silent
<1>2. ASSUME NEW s \in Sweepers, InsertSignal(s)  PROVE NewExclusive'
  <2>1. CASE Silent
    BY <1>1, <2>1
  <2>2. CASE ~Silent
    <3>1. /\ news' = news /\ tok' = tok /\ ~Exists(tok[s]) /\ Exists(tok[s])'
          /\ \A t \in Tokens \ {tok[s]} : Exists(t)' = Exists(t)
          /\ \A r \in Sweepers, t \in Tokens : r # s \/ t # tok[s] =>
                CarriesNew(r, t)' = CarriesNew(r, t)
      BY <1>2, <2>2, InsertStep
    <3> SUFFICES ASSUME NEW t \in Tokens
                 PROVE  /\ \A r \in Sweepers :
                              CarriesNew(r, t)' => Exists(t)' /\ news'[t] = 0
                        /\ \A r, q \in Sweepers :
                              CarriesNew(r, t)' /\ CarriesNew(q, t)' => r = q
                        /\ news'[t] <= 1
                        /\ news'[t] > 0 => Exists(t)'
      OBVIOUS
    <3>2. CASE t = tok[s]
      <4>1. news[t] = 0 /\ Exists(t)' /\ \A r \in Sweepers : ~CarriesNew(r, t)
        <5>1. news[t] = 0
          BY <1>0, <3>1, <3>2
        <5>2. Exists(t)'
          BY <3>1, <3>2 DEF Exists
        <5>3. \A r \in Sweepers : ~CarriesNew(r, t)
          BY <3>1, <3>2
        <5> QED BY <5>1, <5>2, <5>3
      <4>2. \A r \in Sweepers : CarriesNew(r, t)' => r = s
        BY <3>1, <4>1
      <4> QED BY <3>1, <4>1, <4>2
    <3>3. CASE t # tok[s]
      BY <3>1, <3>3
    <3> QED BY <3>2, <3>3
  <2> QED BY <2>1, <2>2
<1>3. ASSUME NEW s \in Sweepers, Stamp(s)  PROVE NewExclusive'
  BY <1>3, StampStep DEF Exists
<1>4. ASSUME NEW s \in Sweepers, ReadBack(s)  PROVE NewExclusive'
  BY <1>4, ReadBackStep DEF Exists
<1>5. ASSUME NEW s \in Sweepers, NEW m \in fired[s], Announce(s, m)
      PROVE  NewExclusive'
  <2> SUFFICES ASSUME NEW t \in Tokens
               PROVE  /\ \A r \in Sweepers :
                            CarriesNew(r, t)' => Exists(t)' /\ news'[t] = 0
                      /\ \A r, q \in Sweepers :
                            CarriesNew(r, t)' /\ CarriesNew(q, t)' => r = q
                      /\ news'[t] <= 1
                      /\ news'[t] > 0 => Exists(t)'
    OBVIOUS
  <2>1. Exists(t)' = Exists(t) /\ \A r \in Sweepers :
            CarriesNew(r, t)' => CarriesNew(r, t) /\ ~(r = s /\ t = m.token)
    BY <1>5, AnnounceStep DEF Exists
  <2>2. CASE t = m.token /\ m.new
    <3>1. CarriesNew(s, t) /\ news[t] = 0 /\ Exists(t)
      BY <1>5, <2>2, AnnounceStep
    <3>2. news'[t] = 1
      BY <1>5, <2>2, <3>1, AnnounceStep DEF Lesser, Typed, TypeOK
    <3>3. \A r \in Sweepers : ~CarriesNew(r, t)'
      BY <2>1, <2>2, <3>1
    <3> QED BY <2>1, <3>1, <3>2, <3>3
  <2>3. CASE ~(t = m.token /\ m.new)
    <3>1. news'[t] = news[t]
      BY <1>5, <2>3, AnnounceStep DEF Typed, TypeOK
    <3> QED BY <2>1, <3>1
  <2> QED BY <2>2, <2>3
<1>6. ASSUME NEW s \in Sweepers, Crash(s) \/ DatabaseFails(s)
      PROVE  NewExclusive'
  BY <1>6, FailStep DEF Exists
<1>7. ASSUME NEW t \in Tokens, Mute(t)  PROVE NewExclusive'
  <2>1. \A s \in Sweepers, u \in Tokens : CarriesNew(s, u)' = CarriesNew(s, u)
    BY <1>7 DEF Mute, sweepVars, CarriesNew
  <2>2. \A u \in Tokens : Exists(u)' = Exists(u)
    <3>1. signals[t] # None /\ signals[t] \in Signal
      BY <1>7 DEF Mute, Exists, Typed, TypeOK
    <3>2. [signals[t] EXCEPT !.active = ~@] \in Signal
      BY <3>1 DEF Signal
    <3> QED BY <1>7, <3>1, <3>2, NoneAssumption DEF Mute, Exists, Typed, TypeOK
  <2> QED BY <1>7, <2>1, <2>2 DEF Mute
<1> QED
  BY <1>1, <1>2, <1>3, <1>4, <1>5, <1>6, <1>7, SilentSteps

\* However sweeps overlap, a new signal is announced once.
THEOREM NewOnce == Spec => []NewToldOnce
<1> DEFINE Inv == Typed /\ FiredOK /\ NewExclusive
<1>1. Init => Inv
  <2>1. Init => FiredOK /\ NewExclusive
    BY DEF Init, FiredOK, NewExclusive, CarriesNew
  <2> QED BY <2>1, InitTyped
<1>2. Inv /\ [Next]_vars => Inv'
  BY NextTyped, NextFired, NextExclusive
<1>3. Inv => NewToldOnce
  BY DEF NewExclusive, NewToldOnce
<1> QED BY <1>1, <1>2, <1>3, PTL DEF Spec

-----------------------------------------------------------------------------
(* Outcomes are stamped. *)

\* A set that grows by one element at most has at most one element more.
LEMMA GrowsByOne ==
    ASSUME NEW S, NEW T, NEW x, IsFiniteSet(S), T \subseteq S \cup {x}
    PROVE  /\ IsFiniteSet(T) /\ Cardinality(T) \in Nat
           /\ Cardinality(T) <= Cardinality(S) + 1
<1>0. Cardinality(S) \in Nat
  BY FS_CardinalityType
<1>1. /\ IsFiniteSet(S \cup {x})
      /\ Cardinality(S \cup {x}) <= Cardinality(S) + 1
  <2>1. /\ IsFiniteSet(S \cup {x})
        /\ \/ Cardinality(S \cup {x}) = Cardinality(S)
           \/ Cardinality(S \cup {x}) = Cardinality(S) + 1
    <3>1. x \in S => S \cup {x} = S
      OBVIOUS
    <3> QED BY <3>1, FS_AddElement
  <2> QED BY <1>0, <2>1
<1>4. Cardinality(S \cup {x}) \in Nat
  BY <1>1, FS_CardinalityType
<1>2. IsFiniteSet(T) /\ Cardinality(T) <= Cardinality(S \cup {x})
  BY <1>1, FS_Subset
<1>3. Cardinality(T) \in Nat
  BY <1>2, FS_CardinalityType
<1> QED BY <1>0, <1>1, <1>2, <1>3, <1>4

\* So a step leaves a signal without a stamp only as it fails.
LEMMA NextStamped ==
    ASSUME Typed, FiredOK, StampBound, Typed', [Next]_vars
    PROVE  StampBound'
<1>1. \/ Unstamped' \subseteq Unstamped /\ faults' = faults
      \/ \E x : Unstamped' \subseteq Unstamped \cup {x} /\ faults' = faults + 1
  <2>1. CASE Silent
    BY <2>1 DEF Silent, Unstamped, Stamping
  <2>2. ASSUME NEW s \in Sweepers, InsertSignal(s)
        PROVE  Unstamped' \subseteq Unstamped /\ faults' = faults
    <3>1. CASE Silent
      BY <3>1 DEF Silent, Unstamped, Stamping
    <3>2. CASE ~Silent
      <4>1. /\ UNCHANGED <<tok, stamped, faults>> /\ Stamping(s, tok[s])'
            /\ \A t \in Tokens \ {tok[s]} : Exists(t)' = Exists(t)
            /\ \A r \in Sweepers, t \in Tokens \ {tok[s]} :
                  Stamping(r, t)' = Stamping(r, t)
        BY <2>2, <3>2, InsertStep
      <4>2. ASSUME NEW t \in Unstamped'  PROVE t \in Unstamped
        <5>1. /\ t \in Tokens /\ Exists(t)' /\ ~stamped'[t]
              /\ \A r \in Sweepers : ~Stamping(r, t)'
          BY DEF Unstamped, Stamping
        <5>2. t # tok[s]
          BY <4>1, <5>1 DEF Stamping
        <5> QED BY <4>1, <5>1, <5>2 DEF Unstamped, Stamping
      <4> QED BY <4>1, <4>2
    <3> QED BY <3>1, <3>2
  <2>3. ASSUME NEW s \in Sweepers, Stamp(s)
        PROVE  Unstamped' \subseteq Unstamped /\ faults' = faults
    <3>1. /\ faults' = faults
          /\ \A t \in Tokens : Exists(t)' = Exists(t)
      BY <2>3, StampStep DEF Exists
    <3>2. /\ tok[s] \in Tokens /\ stamped'[tok[s]]
          /\ \A t \in Tokens \ {tok[s]} : stamped'[t] = stamped[t]
      BY <2>3, StampStep DEF Typed, TypeOK
    <3>3. \A t \in Tokens \ {tok[s]}, r \in Sweepers :
              Stamping(r, t)' = Stamping(r, t)
      BY <2>3, StampStep
    <3>4. ASSUME NEW t \in Unstamped'  PROVE t \in Unstamped
      <4>1. /\ t \in Tokens /\ Exists(t)' /\ ~stamped'[t]
            /\ \A r \in Sweepers : ~Stamping(r, t)'
        BY DEF Unstamped, Stamping
      <4>2. t # tok[s]
        BY <3>2, <4>1
      <4> QED BY <3>1, <3>2, <3>3, <4>1, <4>2 DEF Unstamped, Stamping
    <3> QED BY <3>1, <3>4
  <2>4. ASSUME NEW s \in Sweepers, ReadBack(s)
        PROVE  Unstamped' \subseteq Unstamped /\ faults' = faults
    BY <2>4, ReadBackStep DEF Unstamped, Stamping, Exists
  <2>5. ASSUME NEW s \in Sweepers, NEW m \in fired[s], Announce(s, m)
        PROVE  Unstamped' \subseteq Unstamped /\ faults' = faults
    BY <2>5, AnnounceStep DEF Unstamped, Stamping, Exists
  <2>6. ASSUME NEW s \in Sweepers, Crash(s) \/ DatabaseFails(s)
        PROVE  \E x : Unstamped' \subseteq Unstamped \cup {x} /\ faults' = faults + 1
    <3>1. Unstamped' \subseteq Unstamped \cup {tok[s]}
      BY <2>6, FailStep DEF Unstamped, Stamping, Exists
    <3> QED BY <2>6, <3>1, FailStep
  <2>7. ASSUME NEW t \in Tokens, Mute(t)
        PROVE  Unstamped' \subseteq Unstamped /\ faults' = faults
    <3>1. \A u \in Tokens : Exists(u)' => Exists(u)
      BY <2>7 DEF Mute, Exists, Typed, TypeOK
    <3> QED BY <2>7, <3>1 DEF Mute, sweepVars, Unstamped
  <2> QED BY <2>1, <2>2, <2>3, <2>4, <2>5, <2>6, <2>7, SilentSteps
<1>0. /\ IsFiniteSet(Unstamped) /\ Cardinality(Unstamped) \in Nat
      /\ Cardinality(Unstamped) <= faults /\ faults \in Int
  BY FS_CardinalityType, BudgetAssumption DEF StampBound, Typed, TypeOK
<1>2. CASE Unstamped' \subseteq Unstamped /\ faults' = faults
  <2>1. /\ IsFiniteSet(Unstamped')
        /\ Cardinality(Unstamped') <= Cardinality(Unstamped)
    BY <1>0, <1>2, FS_Subset
  <2>2. Cardinality(Unstamped') \in Nat
    BY <2>1, FS_CardinalityType
  <2> QED BY <1>0, <1>2, <2>1, <2>2 DEF StampBound
<1>3. ASSUME NEW x, Unstamped' \subseteq Unstamped \cup {x}, faults' = faults + 1
      PROVE  StampBound'
  <2>1. /\ IsFiniteSet(Unstamped') /\ Cardinality(Unstamped') \in Nat
        /\ Cardinality(Unstamped') <= Cardinality(Unstamped) + 1
    BY <1>0, <1>3, GrowsByOne
  <2> QED BY <1>0, <1>3, <2>1 DEF StampBound
<1> QED BY <1>1, <1>2, <1>3

\* A signal without a stamp costs a failure of its own.
THEOREM OutcomesStamped == Spec => []FiresAreStamped
<1> DEFINE Inv == Typed /\ FiredOK /\ StampBound
<1>1. Init => Inv
  <2>1. Init => FiredOK
    BY DEF Init, FiredOK
  <2>2. Init => StampBound
    <3> SUFFICES ASSUME Init PROVE StampBound
      OBVIOUS
    <3>1. Unstamped = {}
      BY DEF Init, Unstamped, Exists
    <3> QED BY <3>1, FS_EmptySet DEF Init, StampBound
  <2> QED BY <2>1, <2>2, InitTyped
<1>2. Inv /\ [Next]_vars => Inv'
  BY NextTyped, NextFired, NextStamped
<1>3. Inv => FiresAreStamped
  BY DEF StampBound, Unstamped, FiresAreStamped
<1> QED BY <1>1, <1>2, <1>3, PTL DEF Spec

-----------------------------------------------------------------------------
(* A dismissal stands. *)

\* Fewer carriers and no new message keep the bound of a dismissed signal.
LEMMA FewerCarriers ==
    ASSUME Typed, QuietBound, NEW t \in Tokens, Dismissed(t),
           Carriers(t)' \subseteq Carriers(t), late'[t] = late[t]
    PROVE  late'[t] + Cardinality(Carriers(t)') <= Cardinality(Sweepers)
<1>1. /\ late[t] \in Int
      /\ IsFiniteSet(Carriers(t)) /\ Cardinality(Carriers(t)) \in Nat
      /\ Cardinality(Sweepers) \in Nat
  BY SweepersCounted DEF Typed, TypeOK
<1>2. /\ IsFiniteSet(Carriers(t)')
      /\ Cardinality(Carriers(t)') <= Cardinality(Carriers(t))
  BY <1>1, FS_Subset
<1>3. Cardinality(Carriers(t)') \in Nat
  BY <1>2, FS_CardinalityType
<1> QED BY <1>1, <1>2, <1>3 DEF QuietBound

\* A dismissed signal gains no carrier, and a message about it uses one up.
LEMMA NextQuiet ==
    ASSUME Typed, FiredOK, QuietBound, [Next]_vars
    PROVE  QuietBound'
<1> SUFFICES ASSUME NEW t \in Tokens, Dismissed(t)'
             PROVE  late'[t] + Cardinality(Carriers(t)') <= Cardinality(Sweepers)
  BY DEF QuietBound
<1> DEFINE Goal == late'[t] + Cardinality(Carriers(t)') <= Cardinality(Sweepers)
<1>1. CASE Silent
  BY <1>1, FewerCarriers DEF Silent, Carriers
<1>2. ASSUME NEW s \in Sweepers, InsertSignal(s)  PROVE Goal
  <2>1. CASE Silent
    BY <1>1, <2>1
  <2>2. CASE ~Silent
    <3>1. /\ UNCHANGED <<tok, late>> /\ ~Dismissed(tok[s])'
          /\ \A u \in Tokens \ {tok[s]} : Dismissed(u)' = Dismissed(u)
          /\ \A r \in Sweepers, u \in Tokens \ {tok[s]} :
                Carries(r, u)' = Carries(r, u)
      BY <1>2, <2>2, InsertStep
    <3>2. t # tok[s]
      BY <3>1 DEF Dismissed, Exists
    <3> QED BY <3>1, <3>2, FewerCarriers DEF Carriers
  <2> QED BY <2>1, <2>2
<1>3. ASSUME NEW s \in Sweepers, Stamp(s)  PROVE Goal
  <2>1. UNCHANGED <<signals, late>> /\ \A r \in Sweepers : Carries(r, t)' = Carries(r, t)
    BY <1>3, StampStep
  <2>2. Dismissed(t)
    BY <2>1 DEF Dismissed, Exists
  <2> QED BY <2>1, <2>2, FewerCarriers DEF Carriers
<1>4. ASSUME NEW s \in Sweepers, ReadBack(s)  PROVE Goal
  <2>1. UNCHANGED <<signals, late>>
    BY <1>4, ReadBackStep
  <2>2. Dismissed(t)
    BY <2>1 DEF Dismissed, Exists
  <2>3. \A r \in Sweepers : Carries(r, t)' => Carries(r, t)
    BY <1>4, <2>2, ReadBackStep
  <2> QED BY <2>1, <2>2, <2>3, FewerCarriers DEF Carriers
<1>5. ASSUME NEW s \in Sweepers, NEW m \in fired[s], Announce(s, m)  PROVE Goal
  <2>1. Dismissed(t)
    BY <1>5, AnnounceStep DEF Dismissed, Exists
  <2>2. CASE t # m.token
    <3>1. late'[t] = late[t]
      BY <1>5, <2>2, AnnounceStep DEF Typed, TypeOK
    <3>2. \A r \in Sweepers : Carries(r, t)' = Carries(r, t)
      BY <1>5, <2>2, AnnounceStep
    <3>3. Carriers(t)' = Carriers(t)
      BY <3>2 DEF Carriers
    <3> QED BY <2>1, <3>1, <3>3, FewerCarriers
  <2>3. CASE t = m.token
    <3> DEFINE N == Cardinality(Sweepers)
               C == Carriers(t)
    <3>1. /\ late[t] \in Nat /\ N \in Nat
          /\ IsFiniteSet(C) /\ Cardinality(C) \in Nat
          /\ late[t] + Cardinality(C) <= N
      BY <2>1, SweepersCounted DEF Typed, TypeOK, QuietBound
    <3>2. s \in C /\ Carriers(t)' = C \ {s}
      BY <1>5, <2>3, AnnounceStep DEF Carriers
    <3>3. Cardinality(Carriers(t)') = Cardinality(C) - 1
      BY <3>1, <3>2, FS_RemoveElement
    <3>4. late'[t] = Lesser(N + 1, late[t] + 1)
      BY <1>5, <2>1, <2>3, AnnounceStep DEF Typed, TypeOK
    <3> HIDE DEF N, C
    <3>5. late'[t] = late[t] + 1
      BY <3>1, <3>4 DEF Lesser
    <3>6. late'[t] + Cardinality(Carriers(t)') <= N
      BY <3>1, <3>3, <3>5
    <3> QED BY <3>6 DEF N
  <2> QED BY <2>2, <2>3
<1>6. ASSUME NEW s \in Sweepers, Crash(s) \/ DatabaseFails(s)  PROVE Goal
  <2>1. /\ UNCHANGED <<signals, late>>
        /\ \A r \in Sweepers : Carries(r, t)' => Carries(r, t)
    BY <1>6, FailStep
  <2>2. Dismissed(t)
    BY <2>1 DEF Dismissed, Exists
  <2> QED BY <2>1, <2>2, FewerCarriers DEF Carriers
<1>7. ASSUME NEW u \in Tokens, Mute(u)  PROVE Goal
  <2>1. \A r \in Sweepers : Carries(r, t)' = Carries(r, t)
    BY <1>7 DEF Mute, sweepVars, Carries
  <2>2. Carriers(t)' = Carriers(t)
    BY <2>1 DEF Carriers
  <2>3. CASE t = u
    <3>1. late'[t] = 0
      BY <1>7, <2>3 DEF Mute, Typed, TypeOK
    <3> QED BY <2>2, <3>1, SweepersCounted
  <2>4. CASE t # u
    <3>1. late'[t] = late[t] /\ Dismissed(t)
      BY <1>7, <2>4 DEF Mute, Typed, TypeOK, Dismissed, Exists
    <3> QED BY <2>2, <3>1, FewerCarriers
  <2> QED BY <2>3, <2>4
<1> QED BY <1>1, <1>2, <1>3, <1>4, <1>5, <1>6, <1>7, SilentSteps

\* No step but the user's restores a dismissed signal.
LEMMA StepRestores ==
    ASSUME Typed, FiredOK, [Next]_vars, NEW t \in Tokens,
           Dismissed(t), signals'[t] # None, signals'[t].active
    PROVE  mutes' = mutes + 1
<1>0. ~Dismissed(t)'
  BY DEF Dismissed
<1>1. CASE Silent
  BY <1>0, <1>1 DEF Silent
<1>2. ASSUME NEW s \in Sweepers, InsertSignal(s)  PROVE FALSE
  <2>1. CASE Silent
    BY <1>0, <2>1 DEF Silent
  <2>2. CASE ~Silent
    BY <1>0, <1>2, <2>2, InsertStep DEF Dismissed
  <2> QED BY <2>1, <2>2
<1>3. ASSUME NEW s \in Sweepers,
             \/ Stamp(s) \/ ReadBack(s) \/ Crash(s) \/ DatabaseFails(s)
             \/ \E m \in fired[s] : Announce(s, m)
      PROVE  FALSE
  BY <1>0, <1>3, StampStep, ReadBackStep, FailStep, AnnounceStep
     DEF Dismissed, Exists
<1>4. ASSUME NEW u \in Tokens, Mute(u)  PROVE mutes' = mutes + 1
  BY <1>4 DEF Mute
<1> QED BY <1>1, <1>2, <1>3, <1>4, SilentSteps

\* Once dismissed, a signal is quiet but for what was on its way, and stays
\* dismissed until the user restores it.
THEOREM DismissalsStand == Spec => DismissalStands
<1> DEFINE Inv == Typed /\ FiredOK /\ QuietBound
<1>1. Init => Inv
  <2>1. Init => FiredOK /\ QuietBound
    BY DEF Init, FiredOK, QuietBound, Dismissed, Exists
  <2> QED BY <2>1, InitTyped
<1>2. Inv /\ [Next]_vars => Inv'
  BY NextTyped, NextFired, NextQuiet
<1>3. Inv => DismissedStaysQuiet
  <2> SUFFICES ASSUME Inv, NEW t \in Tokens, Dismissed(t)
               PROVE  late[t] <= Cardinality(Sweepers)
    BY DEF DismissedStaysQuiet
  <2>1. /\ late[t] \in Int /\ Cardinality(Carriers(t)) \in Nat
        /\ Cardinality(Sweepers) \in Nat
    BY SweepersCounted DEF Typed, TypeOK
  <2> QED BY <2>1 DEF QuietBound
<1>4. Inv /\ [Next]_vars =>
        [\A t \in Tokens :
            Dismissed(t) /\ signals'[t] # None /\ signals'[t].active
                => mutes' = mutes + 1]_vars
  BY StepRestores
<1> HIDE DEF Inv
<1> QED
  BY <1>1, <1>2, <1>3, <1>4, PTL DEF Spec, DismissalStands, OnlyUsersRestore
-----------------------------------------------------------------------------
(* A strengthened signal is told. *)

\* No failure and no mute so far, and no stale count masked a growth of t.
Plain(t) == mutes = 0 /\ faults = 0 /\ ~masked[t]

\* Somebody was told that t has w wallets or more, or is going to be: a sweep
\* has the message, or has just written such a growth and not read it back.
Due(t, w) ==
    \/ told[t] >= w
    \/ \E s \in Sweepers :
          \/ \E m \in fired[s] : m.token = t /\ m.wallets >= w
          \/ /\ pc[s] \in {"stamping", "reading"} /\ tok[s] = t
             /\ Strengthened(s) /\ n[s] >= w

\* The count a signal shows is due, and so is the one a sweep will write over.
GrowthOK ==
    \A t \in Tokens : Plain(t) =>
        /\ Exists(t) => signals[t].active /\ Due(t, signals[t].wallets)
        /\ \A s \in Sweepers :
              pc[s] = "writing" /\ tok[s] = t /\ had[s] # None => Due(t, had[s])

LEMMA DueDown ==
    ASSUME Typed, NEW t \in Tokens, NEW v \in Counts, NEW w \in Counts,
           v <= w, Due(t, w)
    PROVE  Due(t, v)
<1>1. /\ told[t] \in Int /\ v \in Int /\ w \in Int
      /\ \A s \in Sweepers : n[s] \in Int /\ \A m \in fired[s] : m.wallets \in Int
  BY ThresholdAssumption DEF Typed, TypeOK, Counts, News
<1> QED BY <1>1 DEF Due

\* No step makes a sweep forget what it has to tell.
LEMMA DueStays ==
    ASSUME Typed, FiredOK, GrowthOK, [Next]_vars, NEW t \in Tokens, Plain(t)',
           NEW w \in Counts, Due(t, w)
    PROVE  Plain(t) /\ Due(t, w)'
<1> USE DEF Typed, TypeOK
<1>0. /\ w \in Int /\ told[t] \in Int /\ Counts \subseteq Int
      /\ mutes \in Int /\ faults \in Int /\ mutes >= 0 /\ faults >= 0
  BY ThresholdAssumption, BudgetAssumption DEF Counts
<1>1. ASSUME NEW s \in Sweepers,
             \/ Count(s) \/ Screened(s) \/ SelectSignal(s) \/ InsertSignal(s)
             \/ UpdateSignal(s) \/ Checked(s) \/ \E u \in Tokens : Evaluate(s, u)
      PROVE  Plain(t) /\ Due(t, w)'
  <2>1. /\ UNCHANGED <<fired, tellVars, budgetVars>>
        /\ pc[s] \notin {"stamping", "reading"}
        /\ \A r \in Sweepers \ {s} :
              /\ pc'[r] = pc[r] /\ tok'[r] = tok[r] /\ n'[r] = n[r]
              /\ had'[r] = had[r] /\ fresh'[r] = fresh[r]
    BY <1>1 DEF Count, Screened, SelectSignal, InsertSignal, UpdateSignal,
       Checked, Evaluate, Clear, Goto
  <2> QED BY <2>1 DEF Plain, Due, Strengthened, tellVars, budgetVars
<1>2. ASSUME NEW s \in Sweepers, Stamp(s)  PROVE Plain(t) /\ Due(t, w)'
  <2>1. /\ UNCHANGED <<tok, n, had, fresh, fired, tellVars, budgetVars>>
        /\ pc[s] = "stamping" /\ pc'[s] = "reading"
        /\ \A r \in Sweepers \ {s} : pc'[r] = pc[r]
    BY <1>2 DEF Stamp, Goto
  <2> QED BY <2>1 DEF Plain, Due, Strengthened, tellVars, budgetVars
<1>3. ASSUME NEW s \in Sweepers, ReadBack(s)  PROVE Plain(t) /\ Due(t, w)'
  <2> DEFINE wallets == signals[tok[s]].wallets
             message == [token |-> tok[s], new |-> fresh[s], wallets |-> wallets]
             says == fresh[s] \/ (had[s] # None /\ Grew(s))
             low == Strengthened(s) /\ wallets < n[s]
  <2>1. /\ UNCHANGED <<told, mutes, faults>> /\ pc[s] = "reading"
        /\ tok[s] \in Tokens /\ Exists(tok[s]) /\ wallets \in Int
        /\ masked'[tok[s]] = (masked[tok[s]] \/ low)
        /\ \A u \in Tokens \ {tok[s]} : masked'[u] = masked[u]
        /\ fired'[s] = IF says THEN fired[s] \cup {message} ELSE fired[s]
        /\ \A r \in Sweepers \ {s} :
              /\ pc'[r] = pc[r] /\ tok'[r] = tok[r] /\ n'[r] = n[r]
              /\ had'[r] = had[r] /\ fresh'[r] = fresh[r] /\ fired'[r] = fired[r]
    BY <1>0, <1>3 DEF ReadBack, Clear, Goto, LocalsOK, Checking, Exists, Signal,
       budgetVars
  <2>2. message.token = tok[s] /\ message.wallets = wallets
    OBVIOUS
  <2>3. Plain(t) /\ (tok[s] = t => ~low)
    BY <2>1 DEF Plain
  <2>4. tok[s] = t => signals[t].active
    BY <2>1, <2>3 DEF GrowthOK
  <2>5. tok[s] = t /\ Strengthened(s) => says /\ wallets >= n[s]
    <3> SUFFICES ASSUME tok[s] = t, Strengthened(s) PROVE says /\ wallets >= n[s]
      OBVIOUS
    <3>0. n[s] \in Int /\ (had[s] # None => had[s] \in Int)
      BY <1>0
    <3>1. wallets >= n[s]
      <4>1. wallets \in Int /\ ~(wallets < n[s])
        BY <2>1, <2>3
      <4> HIDE DEF wallets
      <4> QED BY <3>0, <4>1
    <3>2. ASSUME had[s] # None, n[s] > had[s]  PROVE Grew(s)
      <4>1. wallets \in Int
        BY <2>1
      <4> HIDE DEF wallets
      <4>2. wallets > had[s]
        BY <3>0, <3>1, <3>2, <4>1
      <4> QED BY <2>4, <4>2 DEF Grew, wallets
    <3> QED BY <3>1, <3>2 DEF Strengthened
  <2>6. fired[s] \subseteq fired'[s]
    BY <2>1
  <2>7. CASE pc[s] = "reading" /\ tok[s] = t /\ Strengthened(s) /\ n[s] >= w
    <3>1. message \in fired'[s] /\ wallets >= w
      BY <1>0, <2>1, <2>5, <2>7
    <3> HIDE DEF wallets, message
    <3> QED BY <2>2, <2>3, <2>7, <3>1 DEF Due
  <2>8. CASE ~(pc[s] = "reading" /\ tok[s] = t /\ Strengthened(s) /\ n[s] >= w)
    <3> HIDE DEF wallets, message, says, low
    <3> QED BY <2>1, <2>3, <2>6, <2>8 DEF Due, Strengthened
  <2> QED BY <2>7, <2>8
<1>4. ASSUME NEW s \in Sweepers, NEW m \in fired[s], Announce(s, m)
      PROVE  Plain(t) /\ Due(t, w)'
  <2>1. /\ UNCHANGED <<tok, n, had, fresh, masked, mutes, faults>>
        /\ told' = [told EXCEPT ![m.token] = Greater(@, m.wallets)]
        /\ fired' = [fired EXCEPT ![s] = @ \ {m}]
        /\ pc[s] = "announcing" /\ \A r \in Sweepers \ {s} : pc'[r] = pc[r]
        /\ m.token \in Tokens /\ m.wallets \in Int
    BY <1>0, <1>4 DEF Announce, Goto, budgetVars, News
  <2>2. told'[t] >= told[t] /\ (m.token = t => told'[t] >= m.wallets)
    BY <1>0, <2>1 DEF Greater
  <2>3. told'[t] \in Int
    BY <1>0, <2>1 DEF Greater
  <2>4. CASE told[t] >= w \/ (m.token = t /\ m.wallets >= w)
    BY <1>0, <2>1, <2>2, <2>3, <2>4 DEF Plain, Due
  <2>5. ASSUME NEW r \in Sweepers, NEW o \in fired[r], o # m,
               o.token = t, o.wallets >= w
        PROVE  Plain(t) /\ Due(t, w)'
    <3>1. o \in fired'[r]
      BY <2>1, <2>5
    <3> QED BY <2>1, <2>5, <3>1 DEF Plain, Due
  <2>6. ASSUME NEW r \in Sweepers, pc[r] \in {"stamping", "reading"},
               tok[r] = t, Strengthened(r), n[r] >= w
        PROVE  Plain(t) /\ Due(t, w)'
    BY <2>1, <2>6 DEF Plain, Due, Strengthened
  <2> QED BY <2>4, <2>5, <2>6 DEF Due
<1>5. ASSUME NEW s \in Sweepers, Crash(s) \/ DatabaseFails(s)  PROVE FALSE
  BY <1>0, <1>5 DEF Crash, DatabaseFails, Plain
<1>6. ASSUME NEW u \in Tokens, Mute(u)  PROVE FALSE
  BY <1>0, <1>6 DEF Mute, Plain
<1>7. CASE UNCHANGED vars \/ \E u \in Tokens : Recount(u) \/ Rescreen(u)
  <2>1. UNCHANGED <<sweepVars, tellVars, mutes, faults>>
    BY <1>7 DEF vars, Recount, Rescreen, budgetVars
  <2> QED BY <2>1 DEF sweepVars, tellVars, Plain, Due, Strengthened
<1> QED BY <1>1, <1>2, <1>3, <1>4, <1>5, <1>6, <1>7 DEF Next, Sweep

\* So what a signal shows, and what a sweep writes over, stays due.
LEMMA NextGrowth ==
    ASSUME Typed, FiredOK, GrowthOK, [Next]_vars, Typed'
    PROVE  GrowthOK'
<1> DEFINE Shown(t) ==
               Exists(t) => signals[t].active /\ Due(t, signals[t].wallets)
           Writes(t, s) ==
               pc[s] = "writing" /\ tok[s] = t /\ had[s] # None => Due(t, had[s])
<1> SUFFICES ASSUME NEW t \in Tokens, Plain(t)'
             PROVE  Shown(t)' /\ \A s \in Sweepers : Writes(t, s)'
  BY DEF GrowthOK
<1>1. Plain(t) /\ \A w \in Counts : Due(t, w) => Due(t, w)'
  <2>1. 0 \in Counts /\ Due(t, 0)
    BY ThresholdAssumption DEF Counts, Due, Typed, TypeOK
  <2> QED BY <2>1, DueStays
<1>2. Shown(t) /\ \A s \in Sweepers : Writes(t, s)
  BY <1>1 DEF GrowthOK
<1>3. /\ Exists(t) => signals[t] \in Signal /\ signals[t].wallets \in Counts
      /\ \A s \in Sweepers : n[s] \in Counts /\ had[s] \in Counts \cup {None}
      /\ Counts \subseteq Int
  BY DEF Typed, TypeOK, Exists, Signal, Counts
<1>4. signals'[t] = signals[t] => Shown(t)'
  BY <1>1, <1>2, <1>3 DEF Exists
<1>5. ASSUME NEW s \in Sweepers,
             pc'[s] = "writing" => /\ pc[s] = "writing" /\ tok'[s] = tok[s]
                                   /\ had'[s] = had[s]
      PROVE  Writes(t, s)'
  BY <1>1, <1>2, <1>3, <1>5
<1>6. ASSUME NEW r \in Sweepers, SelectSignal(r)
      PROVE  Shown(t)' /\ \A s \in Sweepers : Writes(t, s)'
  <2>1. /\ signals' = signals /\ tok' = tok
        /\ had'[r] = IF Exists(tok[r]) THEN signals[tok[r]].wallets ELSE None
        /\ \A s \in Sweepers \ {r} : pc'[s] = pc[s] /\ had'[s] = had[s]
    BY <1>6 DEF SelectSignal, Goto, Typed, TypeOK
  <2>2. Writes(t, r)'
    BY <1>1, <1>2, <1>3, <2>1
  <2> QED BY <1>4, <1>5, <2>1, <2>2
<1>7. ASSUME NEW r \in Sweepers, InsertSignal(r) \/ UpdateSignal(r)
      PROVE  Shown(t)' /\ \A s \in Sweepers : Writes(t, s)'
  <2>1. \A s \in Sweepers : pc'[s] = "writing" =>
           pc[s] = "writing" /\ tok'[s] = tok[s] /\ had'[s] = had[s]
    BY <1>7 DEF InsertSignal, UpdateSignal, Clear, Goto, Typed, TypeOK
  <2>2. pc[r] = "writing" /\ tok[r] \in Tokens
    BY <1>7 DEF InsertSignal, UpdateSignal, Typed, LocalsOK, Checking
  <2>3. CASE t # tok[r] \/ signals' = signals
    <3>1. signals'[t] = signals[t]
      BY <1>7, <2>2, <2>3 DEF InsertSignal, UpdateSignal, Typed, TypeOK
    <3> QED BY <1>4, <1>5, <2>1, <3>1
  <2>4. CASE InsertSignal(r) /\ t = tok[r] /\ signals' # signals
    <3>1. /\ signals'[t] = [wallets |-> n[r], active |-> TRUE]
          /\ tok'[r] = t /\ n'[r] = n[r] /\ fresh'[r] /\ pc'[r] = "stamping"
      BY <2>2, <2>4 DEF InsertSignal, Goto, Typed, TypeOK
    <3>2. signals'[t].active /\ signals'[t].wallets = n'[r]
      BY <3>1
    <3>3. Strengthened(r)'
      BY <3>1 DEF Strengthened
    <3>4. Due(t, n[r])'
      <4>0. n[r] \in Int
        BY <1>3
      <4>1. n'[r] >= n'[r]
        BY <3>1, <4>0
      <4> QED BY <2>2, <3>1, <3>3, <4>1 DEF Due
    <3> QED BY <1>5, <2>1, <3>2, <3>4
  <2>5. CASE UpdateSignal(r) /\ t = tok[r]
    <3>1. /\ had[r] # None /\ Exists(t)
          /\ signals'[t] = [signals[t] EXCEPT !.wallets = n[r]]
          /\ UNCHANGED <<tok, n, had>> /\ pc'[r] = "reading"
      BY <2>2, <2>5 DEF UpdateSignal, Refreshed, Goto, Typed, TypeOK, LocalsOK
    <3>2. signals'[t].active /\ signals'[t].wallets = n'[r]
      BY <1>2, <1>3, <3>1 DEF Signal
    <3>3. Due(t, n[r])'
      <4>1. CASE n[r] > had[r]
        <5>1. Strengthened(r)' /\ n'[r] >= n[r]
          BY <1>3, <3>1, <4>1 DEF Strengthened
        <5> QED BY <2>2, <2>5, <3>1, <5>1 DEF Due
      <4>2. CASE ~(n[r] > had[r])
        <5>1. Due(t, had[r]) /\ had[r] \in Counts /\ n[r] <= had[r]
          BY <1>2, <1>3, <2>2, <2>5, <3>1, <4>2
        <5>2. Due(t, n[r])
          BY <1>3, <5>1, DueDown
        <5> QED BY <1>1, <1>3, <3>1, <5>2
      <4> QED BY <4>1, <4>2
    <3> QED BY <1>5, <2>1, <3>2, <3>3
  <2> QED BY <1>7, <2>3, <2>4, <2>5
<1>8. ASSUME NEW u \in Tokens, Mute(u)  PROVE FALSE
  <2>1. mutes \in Int /\ mutes >= 0 /\ mutes' = mutes + 1
    BY <1>8, BudgetAssumption DEF Mute, Typed, TypeOK
  <2> QED BY <2>1 DEF Plain
<1>9. ASSUME NEW r \in Sweepers,
             \/ Count(r) \/ Screened(r) \/ Stamp(r) \/ ReadBack(r) \/ Checked(r)
             \/ Crash(r) \/ DatabaseFails(r) \/ \E u \in Tokens : Evaluate(r, u)
             \/ \E m \in fired[r] : Announce(r, m)
      PROVE  Shown(t)' /\ \A s \in Sweepers : Writes(t, s)'
  <2>1. /\ signals' = signals /\ pc'[r] # "writing"
        /\ \A s \in Sweepers \ {r} :
              pc'[s] = pc[s] /\ tok'[s] = tok[s] /\ had'[s] = had[s]
    BY <1>9 DEF Count, Screened, Stamp, ReadBack, Checked, Crash, DatabaseFails,
       Evaluate, Announce, Clear, Goto, Typed, TypeOK
  <2> QED BY <1>4, <1>5, <2>1
<1>10. CASE UNCHANGED vars \/ \E u \in Tokens : Recount(u) \/ Rescreen(u)
  <2>1. UNCHANGED <<signals, pc, tok, had>>
    BY <1>10 DEF vars, Recount, Rescreen, sweepVars
  <2> QED BY <1>4, <1>5, <2>1
<1> QED BY <1>6, <1>7, <1>8, <1>9, <1>10 DEF Next, Sweep

\* However many sweeps overlap, a growth nobody is told of was masked by a stale
\* count, or came with a failure or a mute.
THEOREM StrengthsTold == Spec => []StrengthIsTold
<1> DEFINE Inv == Typed /\ FiredOK /\ GrowthOK
<1>1. Init => Inv
  <2>1. Init => FiredOK /\ GrowthOK
    BY DEF Init, FiredOK, GrowthOK, Exists
  <2> QED BY <2>1, InitTyped
<1>2. Inv /\ [Next]_vars => Inv'
  BY NextTyped, NextFired, NextGrowth
<1>3. Inv => StrengthIsTold
  <2> SUFFICES ASSUME Inv, NEW t \in Tokens, Exists(t), Quiet, ~masked[t]
               PROVE  told[t] >= signals[t].wallets
    BY DEF StrengthIsTold
  <2>1. Due(t, signals[t].wallets)
    BY DEF GrowthOK, Plain, Quiet
  <2>2. \A s \in Sweepers : fired[s] = {} /\ pc[s] \notin {"stamping", "reading"}
    BY DEF FiredOK, Quiet
  <2> QED BY <2>1, <2>2 DEF Due
<1> QED BY <1>1, <1>2, <1>3, PTL DEF Spec
=============================================================================
