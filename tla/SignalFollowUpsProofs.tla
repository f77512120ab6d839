------------------------ MODULE SignalFollowUpsProofs ------------------------
(***************************************************************************)
(* For every set of signals and sweepers, every pair of bars and every     *)
(* bound: the stages keep their types, and the exit of a signal's buyers   *)
(* is told exactly once, or not at all for a failure of its own.           *)
(***************************************************************************)
EXTENDS SignalFollowUps, FiniteSetTheorems, TLAPS

\* A warning under way was claimed and not sent yet, and one sweep has it;
\* what was sent was claimed.
WarningsClaimed ==
    \A i \in Signals :
        /\ \A s \in Sweepers : Warning(s, i) => exits[i] /\ warned[i] = 0
        /\ \A s, r \in Sweepers : Warning(s, i) /\ Warning(r, i) => s = r
        /\ warned[i] <= 1
        /\ warned[i] > 0 => exits[i]

\* The exits claimed that nobody told and nobody is going to tell.
Unsent ==
    {i \in Signals : /\ exits[i] /\ warned[i] = 0
                     /\ \A s \in Sweepers : ~Warning(s, i)}

SentBound == Cardinality(Unsent) <= faults

IInv == TypeOK /\ WarningsClaimed /\ SentBound

-----------------------------------------------------------------------------
(* Types. *)

LEMMA InitTyped == Init => TypeOK
BY LimitsAssumption, BudgetAssumption DEF Init, TypeOK

\* Entering a stage keeps the program counters and the batches well typed.
LEMMA ListTyped ==
    ASSUME TypeOK, NEW s \in Sweepers, NEW listed \in SUBSET Signals,
           NEW stage \in {"pricing", "researching", "measuring"},
           NEW otherwise \in {"prices", "briefs", "exits"},
           List(s, listed, stage, otherwise)
    PROVE  /\ pc' \in [Sweepers -> {"prices", "pricing", "briefs", "researching",
                          "telling", "exits", "measuring", "warning"}]
           /\ batch' \in [Sweepers -> SUBSET Signals]
           /\ \A r \in Sweepers :
                 batch'[r] = {} => pc'[r] \in {"prices", "briefs", "exits"}
BY DEF TypeOK, List

LEMMA NextTyped == TypeOK /\ [Next]_vars => TypeOK'
<1> SUFFICES ASSUME TypeOK, [Next]_vars PROVE TypeOK'
  OBVIOUS
<1>1. ASSUME NEW s \in Sweepers, ListDue(s)  PROVE TypeOK'
  BY <1>1, ListTyped DEF TypeOK, ListDue, worldVars, tableVars
<1>2. ASSUME NEW s \in Sweepers, FillHorizons(s)  PROVE TypeOK'
  <2>1. price' \in [Signals -> {None, "price", "zero"}]
    BY <1>2 DEF TypeOK, FillHorizons, Measured
  <2> QED BY <1>2, <2>1, ListTyped DEF TypeOK, FillHorizons, worldVars
<1>3. ASSUME NEW s \in Sweepers, ListBriefs(s)  PROVE TypeOK'
  BY <1>3, ListTyped DEF TypeOK, ListBriefs, NewestOf, worldVars, tableVars
<1>4. ASSUME NEW s \in Sweepers, Research(s)  PROVE TypeOK'
  BY <1>4, ListTyped DEF TypeOK, Research, Proceed, worldVars
<1>5. ASSUME NEW s \in Sweepers, TellBrief(s)  PROVE TypeOK'
  BY <1>5, ListTyped DEF TypeOK, TellBrief, Proceed, worldVars, tableVars
<1>6. ASSUME NEW s \in Sweepers, ListExits(s)  PROVE TypeOK'
  BY <1>6, ListTyped DEF TypeOK, ListExits, NewestOf, worldVars, tableVars
<1>7. ASSUME NEW s \in Sweepers, Measure(s)  PROVE TypeOK'
  <2>1. exits' \in [Signals -> BOOLEAN]
    <3>1. \A i : Records(i) \in BOOLEAN
      BY DEF Records, IsNews
    <3> QED BY <1>7, <3>1 DEF TypeOK, Measure
  <2>2. /\ pc' \in [Sweepers -> {"prices", "pricing", "briefs", "researching",
                          "telling", "exits", "measuring", "warning"}]
        /\ batch' \in [Sweepers -> SUBSET Signals]
        /\ \A r \in Sweepers :
              batch'[r] = {} => pc'[r] \in {"prices", "briefs", "exits"}
    <3>1. CASE pc' = [pc EXCEPT ![s] = "warning"] /\ UNCHANGED batch
      BY <1>7, <3>1 DEF TypeOK, Measure
    <3>2. CASE Proceed(s, First(batch[s]), "measuring", "prices")
      BY <3>2, ListTyped DEF TypeOK, Proceed
    <3> QED BY <1>7, <3>1, <3>2 DEF Measure
  <2> QED BY <1>7, <2>1, <2>2 DEF TypeOK, Measure, worldVars
<1>8. ASSUME NEW s \in Sweepers, Warn(s)  PROVE TypeOK'
  <2>1. warned' \in [Signals -> 0 .. 2]
    <3>1. \A n \in 0 .. 2 : Lesser(2, n + 1) \in 0 .. 2
      BY DEF Lesser
    <3> QED BY <1>8, <3>1 DEF TypeOK, Warn
  <2> QED BY <1>8, <2>1, ListTyped DEF TypeOK, Warn, Proceed, worldVars, tableVars
<1>9. ASSUME NEW s \in Sweepers, Crash(s)  PROVE TypeOK'
  BY <1>9, BudgetAssumption DEF TypeOK, Crash, worldVars, tableVars
<1>10. ASSUME NEW s \in Sweepers, Fail(s)  PROVE TypeOK'
  <2>1. faults' \in 0 .. MaxFaults
    BY <1>10, BudgetAssumption DEF TypeOK, Fail
  <2> QED BY <1>10, <2>1, ListTyped DEF TypeOK, Fail, Proceed, worldVars, tableVars
<1>11. ASSUME NEW i \in Signals, Age(i) \/ Sell(i)  PROVE TypeOK'
  <2>1. CASE Age(i)
    BY <2>1 DEF TypeOK, Age, tableVars
  <2>2. CASE Sell(i)
    <3>1. sellers' \in [Signals -> 0 .. Buyers]
      BY <2>2, LimitsAssumption DEF TypeOK, Sell
    <3> QED BY <2>2, <3>1 DEF TypeOK, Sell, tableVars
  <2> QED BY <1>11, <2>1, <2>2
<1>12. ASSUME NEW i \in Signals, Change(i)  PROVE TypeOK'
  <2>1. changes' \in 0 .. MaxChanges
    BY <1>12, BudgetAssumption DEF TypeOK, Change
  <2> QED BY <1>12, <2>1 DEF TypeOK, Change
<1>13. CASE UNCHANGED vars
  BY <1>13 DEF TypeOK, vars, worldVars, tableVars
<1> QED
  BY <1>1, <1>2, <1>3, <1>4, <1>5, <1>6, <1>7, <1>8, <1>9, <1>10, <1>11, <1>12,
     <1>13 DEF Next, Stages

\* The stages stay well typed; a sweep with nothing to do is in no stage.
THEOREM TypeCorrect == Spec => []TypeOK
BY InitTyped, NextTyped, PTL DEF Spec

-----------------------------------------------------------------------------
(* Exits. *)

\* A step other than a claim, a warning or a failure neither claims nor warns,
\* and no sweep begins or ends warning.
LEMMA QuietStep ==
    ASSUME TypeOK, [Next]_vars,
           \A s \in Sweepers : ~Measure(s) /\ ~Warn(s) /\ ~Crash(s) /\ ~Fail(s)
    PROVE  /\ UNCHANGED <<exits, warned, faults>>
           /\ \A s \in Sweepers, i \in Signals : Warning(s, i)' = Warning(s, i)
<1>1. UNCHANGED <<exits, warned, faults>>
  BY DEF Next, Stages, ListDue, FillHorizons, ListBriefs, Research, TellBrief,
     ListExits, Age, Sell, Change, vars, tableVars
<1>2. ASSUME NEW s \in Sweepers, NEW i \in Signals
      PROVE  Warning(s, i)' = Warning(s, i)
  <2>1. ASSUME NEW r \in Sweepers,
               ListDue(r) \/ FillHorizons(r) \/ ListBriefs(r) \/ Research(r)
                 \/ TellBrief(r) \/ ListExits(r)
        PROVE  /\ pc[r] # "warning" /\ pc'[r] # "warning"
               /\ r # s => pc'[s] = pc[s] /\ batch'[s] = batch[s]
    BY <2>1 DEF TypeOK, ListDue, FillHorizons, ListBriefs, Research, TellBrief,
       ListExits, Proceed, List
  <2>2. (\A r \in Sweepers : ~Stages(r)) => UNCHANGED <<pc, batch>>
    BY DEF Next, Age, Sell, Change, vars
  <2> QED BY <2>1, <2>2 DEF Stages, Warning
<1> QED BY <1>1, <1>2

\* Entering another stage, a sweep warns of nothing; the others go on.
LEMMA ListLocal ==
    ASSUME TypeOK, NEW s \in Sweepers, NEW listed,
           NEW stage \in {"pricing", "researching", "measuring"},
           NEW otherwise \in {"prices", "briefs", "exits"},
           List(s, listed, stage, otherwise)
    PROVE  \A i \in Signals :
               /\ ~Warning(s, i)'
               /\ \A r \in Sweepers \ {s} : Warning(r, i)' = Warning(r, i)
BY DEF TypeOK, List, Warning

\* A failure leaves the tables alone and ends at most one warning.
LEMMA FailLocal ==
    ASSUME TypeOK, NEW s \in Sweepers, Crash(s) \/ Fail(s)
    PROVE  /\ UNCHANGED <<exits, warned>> /\ faults' = faults + 1
           /\ \A i \in Signals :
                 /\ ~Warning(s, i)'
                 /\ \A r \in Sweepers \ {s} : Warning(r, i)' = Warning(r, i)
<1>1. UNCHANGED <<exits, warned>> /\ faults' = faults + 1
  BY DEF Crash, Fail, tableVars
<1>2. CASE Crash(s)
  BY <1>1, <1>2 DEF TypeOK, Crash, Warning
<1>3. CASE Fail(s)
  BY <1>1, <1>3, ListLocal DEF Fail, Proceed
<1> QED BY <1>2, <1>3

\* A claim makes at most the sweep that claims warn, of its first signal, which
\* was not claimed before and is now.
LEMMA MeasureLocal ==
    ASSUME TypeOK, NEW s \in Sweepers, Measure(s)
    PROVE  /\ UNCHANGED <<warned, faults>>
           /\ \A i \in Signals :
                 /\ exits[i] => exits'[i]
                 /\ exits'[i] /\ ~exits[i] => Warning(s, i)'
                 /\ ~Warning(s, i)
                 /\ Warning(s, i)' => ~exits[i] /\ exits'[i]
                 /\ \A r \in Sweepers \ {s} : Warning(r, i)' = Warning(r, i)
<1> DEFINE j == First(batch[s])
<1>1. /\ UNCHANGED <<warned, faults>> /\ pc[s] = "measuring"
      /\ exits' = [exits EXCEPT ![j] = @ \/ Records(j)]
  BY DEF Measure
<1>2. CASE IsNews(j) /\ Claims(j) /\ UNCHANGED batch
           /\ pc' = [pc EXCEPT ![s] = "warning"]
  <2>1. \A i \in Signals : Warning(s, i)' <=> i = j
    BY <1>2 DEF TypeOK, Warning
  <2>2. \A i \in Signals : \A r \in Sweepers \ {s} : Warning(r, i)' = Warning(r, i)
    BY <1>2 DEF TypeOK, Warning
  <2>3. \A i \in Signals : ~Warning(s, i)
    BY <1>1 DEF Warning
  <2>4. j \in Signals => ~exits[j] /\ exits'[j]
    BY <1>1, <1>2 DEF TypeOK, Claims, Records
  <2>5. \A i \in Signals : i # j => exits'[i] = exits[i]
    BY <1>1 DEF TypeOK
  <2> QED BY <1>1, <2>1, <2>2, <2>3, <2>4, <2>5
<1>3. CASE ~(IsNews(j) /\ Claims(j)) /\ Proceed(s, j, "measuring", "prices")
  <2>1. \A i \in Signals :
            ~Warning(s, i)' /\ \A r \in Sweepers \ {s} : Warning(r, i)' = Warning(r, i)
    BY <1>3, ListLocal DEF Proceed
  <2>2. \A i \in Signals : ~Warning(s, i)
    BY <1>1 DEF Warning
  <2>3. \A i \in Signals : exits'[i] = exits[i]
    BY <1>1, <1>3 DEF TypeOK, Claims, Records
  <2> QED BY <1>1, <2>1, <2>2, <2>3
<1> QED BY <1>2, <1>3 DEF Measure

\* A sent warning is counted, and its sweep warns no more.
LEMMA WarnLocal ==
    ASSUME TypeOK, NEW s \in Sweepers, Warn(s)
    PROVE  /\ UNCHANGED <<exits, faults>>
           /\ \A i \in Signals :
                 /\ warned'[i] = IF Warning(s, i) THEN Lesser(2, warned[i] + 1)
                                                  ELSE warned[i]
                 /\ ~Warning(s, i)'
                 /\ \A r \in Sweepers \ {s} : Warning(r, i)' = Warning(r, i)
<1>1. /\ UNCHANGED <<exits, faults>> /\ pc[s] = "warning"
      /\ warned' = [warned EXCEPT ![First(batch[s])] = Lesser(2, @ + 1)]
      /\ Proceed(s, First(batch[s]), "measuring", "prices")
  BY DEF Warn, tableVars
<1>2. \A i \in Signals :
          ~Warning(s, i)' /\ \A r \in Sweepers \ {s} : Warning(r, i)' = Warning(r, i)
  BY <1>1, ListLocal DEF Proceed
<1>3. \A i \in Signals :
          warned'[i] = IF Warning(s, i) THEN Lesser(2, warned[i] + 1) ELSE warned[i]
  BY <1>1 DEF TypeOK, Warning
<1> QED BY <1>1, <1>2, <1>3

\* Every step keeps warnings claimed, and exclusive.
LEMMA NextClaimed ==
    ASSUME TypeOK, WarningsClaimed, [Next]_vars
    PROVE  WarningsClaimed'
<1> USE DEF WarningsClaimed
<1>0. \A i \in Signals : exits[i] \in BOOLEAN /\ warned[i] \in 0 .. 2
  BY DEF TypeOK
<1>1. CASE \A s \in Sweepers : ~Measure(s) /\ ~Warn(s) /\ ~Crash(s) /\ ~Fail(s)
  BY <1>1, QuietStep
<1>2. ASSUME NEW s \in Sweepers, Measure(s)  PROVE WarningsClaimed'
  BY <1>0, <1>2, MeasureLocal
<1>3. ASSUME NEW s \in Sweepers, Warn(s)  PROVE WarningsClaimed'
  <2> SUFFICES ASSUME NEW i \in Signals
               PROVE /\ \A r \in Sweepers :
                            Warning(r, i)' => exits'[i] /\ warned'[i] = 0
                     /\ \A r, q \in Sweepers :
                            Warning(r, i)' /\ Warning(q, i)' => r = q
                     /\ warned'[i] <= 1
                     /\ warned'[i] > 0 => exits'[i]
    OBVIOUS
  <2>1. /\ exits'[i] = exits[i]
        /\ warned'[i] = IF Warning(s, i) THEN Lesser(2, warned[i] + 1)
                                         ELSE warned[i]
        /\ ~Warning(s, i)'
        /\ \A r \in Sweepers \ {s} : Warning(r, i)' = Warning(r, i)
    BY <1>3, WarnLocal
  <2>2. CASE Warning(s, i)
    <3>1. warned'[i] = 1 /\ exits[i]
      BY <2>1, <2>2 DEF Lesser
    <3>2. \A r \in Sweepers : ~Warning(r, i)'
      BY <2>1, <2>2
    <3> QED BY <2>1, <3>1, <3>2
  <2>3. CASE ~Warning(s, i)
    BY <2>1, <2>3
  <2> QED BY <2>2, <2>3
<1>4. ASSUME NEW s \in Sweepers, Crash(s) \/ Fail(s)  PROVE WarningsClaimed'
  BY <1>4, FailLocal
<1> QED BY <1>1, <1>2, <1>3, <1>4

\* A step leaves no further exit untold, except for a failure, which leaves the
\* one its sweep was warning of.
LEMMA StepUnsent ==
    ASSUME TypeOK, WarningsClaimed, [Next]_vars
    PROVE  \/ Unsent' \subseteq Unsent /\ faults' = faults
           \/ \E x : Unsent' \subseteq Unsent \cup {x} /\ faults' = faults + 1
<1>1. CASE \A s \in Sweepers : ~Measure(s) /\ ~Warn(s) /\ ~Crash(s) /\ ~Fail(s)
  BY <1>1, QuietStep DEF Unsent
<1>2. ASSUME NEW s \in Sweepers, Measure(s)
      PROVE  Unsent' \subseteq Unsent /\ faults' = faults
  BY <1>2, MeasureLocal DEF Unsent, TypeOK
<1>3. ASSUME NEW s \in Sweepers, Warn(s)
      PROVE  Unsent' \subseteq Unsent /\ faults' = faults
  <2>1. faults' = faults
    BY <1>3, WarnLocal
  <2>2. ASSUME NEW i \in Unsent'  PROVE i \in Unsent
    <3>0. /\ i \in Signals /\ exits'[i] /\ warned'[i] = 0
          /\ \A r \in Sweepers : ~Warning(r, i)'
      BY DEF Unsent
    <3>1. /\ exits'[i] = exits[i]
          /\ warned'[i] = IF Warning(s, i) THEN Lesser(2, warned[i] + 1)
                                           ELSE warned[i]
          /\ \A r \in Sweepers \ {s} : Warning(r, i)' = Warning(r, i)
      BY <1>3, <3>0, WarnLocal
    <3>2. ~Warning(s, i)
      BY <3>0, <3>1 DEF WarningsClaimed, Lesser
    <3> QED BY <3>0, <3>1, <3>2 DEF Unsent
  <2> QED BY <2>1, <2>2
<1>4. ASSUME NEW s \in Sweepers, Crash(s) \/ Fail(s)
      PROVE  \E x : Unsent' \subseteq Unsent \cup {x} /\ faults' = faults + 1
  <2>1. \A i \in Signals : Warning(s, i) => i = First(batch[s])
    BY DEF Warning
  <2>2. Unsent' \subseteq Unsent \cup {First(batch[s])}
    BY <1>4, <2>1, FailLocal DEF Unsent
  <2> QED BY <1>4, <2>2, FailLocal
<1> QED BY <1>1, <1>2, <1>3, <1>4

\* A set that grows by one element at most has at most one element more.
LEMMA GrowsByOne ==
    ASSUME NEW S, NEW T, NEW x, IsFiniteSet(S), T \subseteq S \cup {x}
    PROVE  /\ IsFiniteSet(T) /\ Cardinality(T) \in Nat
           /\ Cardinality(T) <= Cardinality(S) + 1
<1>0. Cardinality(S) \in Nat
  BY FS_CardinalityType
<1>1. /\ IsFiniteSet(S \cup {x})
      /\ Cardinality(S \cup {x}) <= Cardinality(S) + 1
  <2>1. /\ IsFiniteSet(S \cup {x})
        /\ \/ Cardinality(S \cup {x}) = Cardinality(S)
           \/ Cardinality(S \cup {x}) = Cardinality(S) + 1
    <3>1. x \in S => S \cup {x} = S
      OBVIOUS
    <3> QED BY <3>1, FS_AddElement
  <2> QED BY <1>0, <2>1
<1>4. Cardinality(S \cup {x}) \in Nat
  BY <1>1, FS_CardinalityType
<1>2. IsFiniteSet(T) /\ Cardinality(T) <= Cardinality(S \cup {x})
  BY <1>1, FS_Subset
<1>3. Cardinality(T) \in Nat
  BY <1>2, FS_CardinalityType
<1> QED BY <1>0, <1>1, <1>2, <1>3, <1>4

\* So their number grows no faster than the failures.
LEMMA NextSent ==
    ASSUME TypeOK, WarningsClaimed, SentBound, TypeOK', [Next]_vars
    PROVE  SentBound'
<1>0. /\ IsFiniteSet(Unsent) /\ Cardinality(Unsent) \in Nat
      /\ Cardinality(Unsent) <= faults /\ faults \in Int
  <2>1. Unsent \subseteq Signals
    BY DEF Unsent
  <2>2. IsFiniteSet(Unsent)
    BY <2>1, SignalsAssumption, FS_Subset
  <2> QED BY <2>2, FS_CardinalityType, BudgetAssumption DEF SentBound, TypeOK
<1>1. CASE Unsent' \subseteq Unsent /\ faults' = faults
  <2>1. IsFiniteSet(Unsent') /\ Cardinality(Unsent') <= Cardinality(Unsent)
    BY <1>0, <1>1, FS_Subset
  <2>2. Cardinality(Unsent') \in Nat
    BY <2>1, FS_CardinalityType
  <2> QED BY <1>0, <1>1, <2>1, <2>2 DEF SentBound
<1>2. ASSUME NEW x, Unsent' \subseteq Unsent \cup {x}, faults' = faults + 1
      PROVE  SentBound'
  <2>1. /\ Cardinality(Unsent') \in Nat
        /\ Cardinality(Unsent') <= Cardinality(Unsent) + 1
    BY <1>0, <1>2, GrowsByOne
  <2> QED BY <1>0, <1>2, <2>1 DEF SentBound
<1> QED BY <1>1, <1>2, StepUnsent

LEMMA InitInv == Init => IInv
<1> SUFFICES ASSUME Init PROVE WarningsClaimed /\ SentBound
  BY InitTyped DEF IInv
<1>1. Unsent = {}
  BY DEF Init, Unsent
<1>2. WarningsClaimed
  BY DEF Init, WarningsClaimed, Warning
<1> QED BY <1>1, <1>2, FS_EmptySet DEF Init, SentBound

LEMMA NextInv == IInv /\ [Next]_vars => IInv'
BY NextTyped, NextClaimed, NextSent DEF IInv

\* The exit of a signal's buyers is told once, or lost to a failure of its own.
THEOREM ExitsTold == Spec => []ExitIsToldOnce
<1>1. IInv => ExitIsToldOnce
  BY DEF IInv, WarningsClaimed, SentBound, Unsent, ExitIsToldOnce, ExitToldOnce,
     ExitsAreSent
<1> QED BY <1>1, InitInv, NextInv, PTL DEF Spec
=============================================================================
