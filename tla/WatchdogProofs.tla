---------------------------- MODULE WatchdogProofs ----------------------------
(***************************************************************************)
(* Proofs about the delivery watchdog, for any number of checkers, any     *)
(* thresholds and any number of outages: the type invariant, and that the  *)
(* two messages about an outage are sent at most once and in order.        *)
(***************************************************************************)
EXTENDS Watchdog, SequenceTheorems, WellFoundedInduction, TLAPS

\* What the steps need of the assumptions on the constants.
LEMMA Bounds ==
    /\ Horizon \in Nat /\ MaxResyncs \in Nat
    /\ MaxChanges \in Nat /\ MaxCrashes \in Nat
    /\ None \notin Int
BY ThresholdsAssumption, CooldownAssumption, BoundsAssumption, NoneAssumption

USE Bounds

-----------------------------------------------------------------------------
(* The newest open outage. *)

\* A set of naturals that is not empty has a least member.
LEMMA LeastExists ==
    ASSUME NEW S \in SUBSET Nat, S # {}
    PROVE  \E m \in S : \A k \in S : m <= k
<1> DEFINE R == {ss \in Nat \X Nat : ss[1] < ss[2]}
<1>1. IsWellFoundedOn(R, Nat)
  BY NatLessThanWellFounded DEF OpToRel
<1> HIDE DEF R
<1>2. PICK x \in S : \A y \in S : ~(<<y, x>> \in R)
  BY <1>1, WFMin
<1> USE DEF R
<1>3. \A y \in S : ~(y < x)
  BY <1>2
<1> QED
  BY <1>3

\* A set of positions in a table that is not empty has a greatest member.
LEMMA NewestExists ==
    ASSUME NEW n \in Nat, NEW S \in SUBSET (1 .. n), S # {}
    PROVE  \E m \in S : \A k \in S : k <= m
<1> DEFINE T == {n - i : i \in S}
<1>1. T \in SUBSET Nat /\ T # {}
  <2>1. ASSUME NEW t \in T PROVE t \in Nat
    <3>1. PICK i \in S : t = n - i
      OBVIOUS
    <3>2. i \in 1 .. n
      OBVIOUS
    <3> QED
      BY <3>1, <3>2
  <2> QED
    BY <2>1
<1>2. PICK d \in T : \A k \in T : d <= k
  <2> HIDE DEF T
  <2> QED
    BY <1>1, LeastExists
<1>3. PICK m \in S : d = n - m
  BY <1>2
<1>4. \A k \in S : n - m <= n - k
  BY <1>2, <1>3
<1> QED
  BY <1>4

\* open_outage answers a copy of an open row, or None when there is none.
LEMMA OpenOutageCopies ==
    ASSUME TypeOK
    PROVE  /\ OpenOutage \in Copy \cup {None}
           /\ OpenOutage = None <=> Open = {}
           /\ OpenOutage # None => /\ OpenOutage.id \in Open
                                   /\ OpenOutage = CopyOf(OpenOutage.id)
<1>0. outages \in Seq(Outage)
  BY DEF TypeOK
<1>1. DOMAIN outages = 1 .. Len(outages) /\ Len(outages) \in Nat
  BY <1>0, LenProperties
<1>2. Open \in SUBSET (1 .. Len(outages))
  BY <1>1 DEF Open
<1>3. \A i \in DOMAIN outages : CopyOf(i) \in Copy /\ CopyOf(i) # None
  <2> SUFFICES ASSUME NEW i \in DOMAIN outages
               PROVE  CopyOf(i) \in Copy /\ CopyOf(i) # None
    OBVIOUS
  <2>1. outages[i] \in Outage
    BY <1>0, <1>1, ElementOfSeq
  <2>2. CopyOf(i) \in Copy
    BY <2>1 DEF Copy, CopyOf, Outage
  <2>3. Copy \subseteq [id : Nat, alerted : BOOLEAN, resyncs : Nat,
                        tried : Nat \cup {None}]
    <3>1. DOMAIN outages \subseteq Nat
      BY <1>1
    <3>2. 0 .. MaxResyncs \subseteq Nat /\ 0 .. Horizon \subseteq Nat
      OBVIOUS
    <3> QED
      BY <3>1, <3>2 DEF Copy
  <2> QED
    BY <2>2, <2>3, NoneAssumption
<1>4. CASE Open = {}
  BY <1>4 DEF OpenOutage
<1>5. CASE Open # {}
  <2> DEFINE m == CHOOSE i \in Open : \A j \in Open : j <= i
  <2>1. m \in Open
    BY <1>1, <1>2, <1>5, NewestExists
  <2>2. OpenOutage = CopyOf(m)
    BY <1>5 DEF OpenOutage
  <2> HIDE DEF m
  <2>3. CopyOf(m).id = m
    BY DEF CopyOf
  <2> QED
    BY <2>1, <2>2, <2>3, <1>1, <1>2, <1>3, <1>5
<1> QED
  BY <1>4, <1>5

-----------------------------------------------------------------------------
(* The type invariant. *)

\* Changing one row keeps the table's length and its other rows.
LEMMA RowChanged ==
    ASSUME outages \in Seq(Outage), NEW i \in DOMAIN outages,
           NEW o \in Outage, outages' = [outages EXCEPT ![i] = o]
    PROVE  /\ outages' \in Seq(Outage)
           /\ DOMAIN outages' = DOMAIN outages
           /\ outages'[i] = o
           /\ \A k \in DOMAIN outages : k # i => outages'[k] = outages[k]
<1>1. outages' \in Seq(Outage)
  BY ExceptSeq
<1> QED
  BY <1>1

\* Appending a row keeps the others.
LEMMA RowAppended ==
    ASSUME outages \in Seq(Outage), outages' = Append(outages, NewOutage)
    PROVE  /\ outages' \in Seq(Outage)
           /\ DOMAIN outages' = DOMAIN outages \cup {Len(outages) + 1}
           /\ Len(outages) + 1 \notin DOMAIN outages
           /\ outages'[Len(outages) + 1] = NewOutage
           /\ \A k \in DOMAIN outages : outages'[k] = outages[k]
<1>1. NewOutage \in Outage
  BY DEF NewOutage, Outage
<1> QED
  BY <1>1

\* Rows are never deleted: a copy stays a copy.
LEMMA CopiesStay ==
    ASSUME DOMAIN outages \subseteq DOMAIN outages'
    PROVE  Copy \subseteq Copy'
BY DEF Copy

\* Where a check works on the row it read.
Holding == {"resolving", "deciding", "syncing", "alerting", "telling_down",
            "telling_up"}

\* A check that works on a row has read one.
RowInHand == \A c \in Checkers : pc[c] \in Holding => row[c] # None

Typed == TypeOK /\ RowInHand

LEMMA TypedInit == Init => Typed
<1> SUFFICES ASSUME Init PROVE Typed
  OBVIOUS
<1> USE DEF Init
<1>1. outages \in Seq(Outage)
  BY EmptySeq
<1>2. MaxChanges \in Nat /\ MaxCrashes \in Nat => TypeOK
  BY <1>1 DEF TypeOK
<1>3. RowInHand
  BY DEF RowInHand, Holding
<1> QED
  BY <1>2, <1>3 DEF Typed

\* What a check in its critical part holds.
LEMMA HeldRow ==
    ASSUME Typed, NEW c \in Checkers, pc[c] \in Holding
    PROVE  /\ row[c] \in Copy /\ row[c] # None
           /\ row[c].id \in DOMAIN outages
           /\ outages \in Seq(Outage)
           /\ outages[row[c].id] \in Outage
<1>1. row[c] \in Copy /\ row[c] # None
  BY DEF Typed, TypeOK, RowInHand
<1>2. row[c].id \in DOMAIN outages
  BY <1>1 DEF Copy
<1>3. outages \in Seq(Outage)
  BY DEF Typed, TypeOK
<1> QED
  BY <1>1, <1>2, <1>3, ElementOfSeq, LenProperties

\* A step of one check that leaves the table alone, or changes or appends a
\* row, and leaves the check with a row wherever it needs one.
LEMMA TypedStep ==
    ASSUME Typed, NEW c \in Checkers,
           outages' \in Seq(Outage), DOMAIN outages \subseteq DOMAIN outages',
           pc' \in [Checkers -> {"idle", "resolving", "opening", "rereading",
                                 "deciding", "syncing", "alerting",
                                 "telling_down", "telling_up"}],
           seen' \in [Checkers -> 0 .. Horizon],
           age' \in [Checkers -> 0 .. Horizon],
           NEW r \in Copy \cup {None}, row' = [row EXCEPT ![c] = r],
           \A d \in Checkers : d # c => pc'[d] = pc[d],
           pc'[c] \in Holding => r # None,
           silent' = silent, mode' = mode, changes' = changes,
           crashes' \in 0 .. MaxCrashes
    PROVE  Typed'
<1> USE DEF Typed
<1>1. row' \in [Checkers -> Copy' \cup {None}]
  <2>1. row \in [Checkers -> Copy \cup {None}]
    BY DEF TypeOK
  <2>2. Copy \subseteq Copy'
    BY CopiesStay
  <2> HIDE DEF Typed
  <2> QED
    BY <2>1, <2>2
<1>2. TypeOK'
  BY <1>1 DEF TypeOK
<1>3. RowInHand'
  <2>1. row \in [Checkers -> Copy \cup {None}]
    BY DEF TypeOK
  <2> QED
    BY <2>1 DEF RowInHand
<1> QED
  BY <1>2, <1>3

\* Returning is such a step.
LEMMA TypedReturn ==
    ASSUME Typed, NEW c \in Checkers, Return(c),
           outages' \in Seq(Outage), DOMAIN outages \subseteq DOMAIN outages',
           silent' = silent, mode' = mode, changes' = changes,
           crashes' \in 0 .. MaxCrashes
    PROVE  Typed'
<1> USE DEF Return, Goto
<1>1. /\ pc' \in [Checkers -> {"idle", "resolving", "opening", "rereading",
                               "deciding", "syncing", "alerting",
                               "telling_down", "telling_up"}]
      /\ seen' \in [Checkers -> 0 .. Horizon]
      /\ age' \in [Checkers -> 0 .. Horizon]
      /\ pc'[c] = "idle" /\ \A d \in Checkers : d # c => pc'[d] = pc[d]
  <2>1. /\ pc \in [Checkers -> {"idle", "resolving", "opening", "rereading",
                                "deciding", "syncing", "alerting",
                                "telling_down", "telling_up"}]
        /\ seen \in [Checkers -> 0 .. Horizon]
        /\ age \in [Checkers -> 0 .. Horizon]
    BY DEF Typed, TypeOK
  <2>2. 0 \in 0 .. Horizon
    OBVIOUS
  <2>3. /\ pc' = [pc EXCEPT ![c] = "idle"]
        /\ seen' = [seen EXCEPT ![c] = 0]
        /\ age' = [age EXCEPT ![c] = 0]
    OBVIOUS
  <2> HIDE DEF Return, Goto
  <2>4. pc' \in [Checkers -> {"idle", "resolving", "opening", "rereading",
                             "deciding", "syncing", "alerting",
                             "telling_down", "telling_up"}]
    BY <2>1, <2>3
  <2>5. seen' \in [Checkers -> 0 .. Horizon] /\ age' \in [Checkers -> 0 .. Horizon]
    BY <2>1, <2>2, <2>3
  <2> QED
    BY <2>1, <2>3, <2>4, <2>5
<1>2. row' = [row EXCEPT ![c] = None] /\ None \in Copy \cup {None}
  OBVIOUS
<1> QED
  BY <1>1, <1>2, TypedStep DEF Holding

\* A check that looks at the table: its row, if it found one, is a copy.
LEMMA TypedLook ==
    ASSUME Typed, NEW c \in Checkers, UNCHANGED <<silent, mode, budgetVars>>,
           UNCHANGED <<outages, age>>,
           NEW where \in {"resolving", "opening", "deciding"}, Goto(c, where),
           seen' = seen \/ seen' = [seen EXCEPT ![c] = silent],
           row' = [row EXCEPT ![c] = OpenOutage],
           where # "opening" => OpenOutage # None
    PROVE  Typed'
<1>1. /\ pc \in [Checkers -> {"idle", "resolving", "opening", "rereading",
                              "deciding", "syncing", "alerting",
                              "telling_down", "telling_up"}]
      /\ seen \in [Checkers -> 0 .. Horizon]
      /\ age \in [Checkers -> 0 .. Horizon]
      /\ silent \in 0 .. Horizon
      /\ outages \in Seq(Outage) /\ crashes \in 0 .. MaxCrashes
  BY DEF Typed, TypeOK
<1>2. OpenOutage \in Copy \cup {None}
  BY OpenOutageCopies DEF Typed
<1>3. /\ pc' \in [Checkers -> {"idle", "resolving", "opening", "rereading",
                               "deciding", "syncing", "alerting",
                               "telling_down", "telling_up"}]
      /\ \A d \in Checkers : d # c => pc'[d] = pc[d]
      /\ pc'[c] = where
  BY <1>1 DEF Goto
<1>4. seen' \in [Checkers -> 0 .. Horizon]
  BY <1>1
<1> QED
  BY <1>1, <1>2, <1>3, <1>4, TypedStep DEF budgetVars, Holding

\* A check that goes on with the row it has, changing the table or not.
LEMMA TypedAdvance ==
    ASSUME Typed, NEW c \in Checkers, UNCHANGED <<silent, mode, budgetVars>>,
           UNCHANGED <<seen, row, age>>,
           outages' \in Seq(Outage), DOMAIN outages \subseteq DOMAIN outages',
           NEW where \in {"idle", "rereading", "syncing", "alerting",
                          "telling_down", "telling_up"},
           Goto(c, where),
           where \in Holding => pc[c] \in Holding
    PROVE  Typed'
<1>1. /\ pc \in [Checkers -> {"idle", "resolving", "opening", "rereading",
                              "deciding", "syncing", "alerting",
                              "telling_down", "telling_up"}]
      /\ seen \in [Checkers -> 0 .. Horizon]
      /\ age \in [Checkers -> 0 .. Horizon]
      /\ row \in [Checkers -> Copy \cup {None}]
      /\ crashes \in 0 .. MaxCrashes
  BY DEF Typed, TypeOK
<1>2. /\ pc' \in [Checkers -> {"idle", "resolving", "opening", "rereading",
                               "deciding", "syncing", "alerting",
                               "telling_down", "telling_up"}]
      /\ \A d \in Checkers : d # c => pc'[d] = pc[d]
      /\ pc'[c] = where
  BY <1>1 DEF Goto
<1>3. row' = [row EXCEPT ![c] = row[c]] /\ row[c] \in Copy \cup {None}
  BY <1>1
<1>4. pc'[c] \in Holding => row[c] # None
  BY <1>2 DEF Typed, RowInHand
<1> QED
  BY <1>1, <1>2, <1>3, <1>4, TypedStep DEF budgetVars

\* What an action writes into a row keeps it a row.
LEMMA RowValues ==
    ASSUME NEW o \in Outage
    PROVE  /\ [o EXCEPT !.open = FALSE] \in Outage
           /\ [o EXCEPT !.alerted = TRUE] \in Outage
           /\ \A t \in 0 .. Horizon :
                 [o EXCEPT !.resyncs = Lesser(MaxResyncs, @ + 1), !.tried = t]
                   \in Outage
           /\ [o EXCEPT !.down = Lesser(2, @ + 1)] \in Outage
           /\ [o EXCEPT !.up = Lesser(2, @ + 1)] \in Outage
           /\ [o EXCEPT !.tried = Older(@)] \in Outage
<1>1. \A n \in 0 .. 2 : Lesser(2, n + 1) \in 0 .. 2
  BY DEF Lesser
<1>2. \A n \in 0 .. MaxResyncs : Lesser(MaxResyncs, n + 1) \in 0 .. MaxResyncs
  BY DEF Lesser
<1>3. \A n \in 0 .. Horizon \cup {None} : Older(n) \in 0 .. Horizon \cup {None}
  BY DEF Older, Lesser
<1> QED
  BY <1>1, <1>2, <1>3 DEF Outage

\* Time makes every age one tick older and moves nothing else.
LEMMA TypedTick == Typed /\ Tick => Typed'
<1> SUFFICES ASSUME Typed, Tick PROVE Typed'
  OBVIOUS
<1>1. /\ outages \in Seq(Outage)
      /\ DOMAIN outages = 1 .. Len(outages) /\ Len(outages) \in Nat
      /\ row \in [Checkers -> Copy \cup {None}]
      /\ age \in [Checkers -> 0 .. Horizon] /\ silent \in 0 .. Horizon
  BY LenProperties DEF Typed, TypeOK
<1>2. outages' = [i \in 1 .. Len(outages) |-> [outages[i] EXCEPT !.tried = Older(@)]]
  BY <1>1 DEF Tick
<1>3. outages' \in [1 .. Len(outages) -> Outage]
  <2>1. \A i \in 1 .. Len(outages) :
           [outages[i] EXCEPT !.tried = Older(@)] \in Outage
    BY <1>1, RowValues, ElementOfSeq
  <2> QED
    BY <1>2, <2>1
<1>4. outages' \in Seq(Outage) /\ DOMAIN outages' = DOMAIN outages
  BY <1>1, <1>3, SeqDef
<1>5. \A d \in Checkers :
         /\ row'[d] \in Copy' \cup {None}
         /\ row[d] # None => row'[d] # None
  <2> SUFFICES ASSUME NEW d \in Checkers
               PROVE  /\ row'[d] \in Copy' \cup {None}
                      /\ row[d] # None => row'[d] # None
    OBVIOUS
  <2>1. row'[d] = IF row[d] = None THEN None
                  ELSE [row[d] EXCEPT !.tried = Older(@)]
    BY DEF Tick
  <2>2. CASE row[d] = None
    BY <2>1, <2>2
  <2>3. CASE row[d] # None
    <3>1. row[d] \in Copy
      BY <1>1, <2>3
    <3>2. \A n \in 0 .. Horizon \cup {None} :
             Older(n) \in 0 .. Horizon \cup {None}
      BY DEF Older, Lesser
    <3>3. row'[d] \in Copy'
      BY <2>1, <2>3, <3>1, <3>2, <1>4 DEF Copy
    <3>4. row'[d] # None
      <4>1. Copy' \subseteq [id : Nat, alerted : BOOLEAN, resyncs : Nat,
                             tried : Nat \cup {None}]
        BY <1>1, <1>4 DEF Copy
      <4> QED
        BY <3>3, <4>1, NoneAssumption
    <3> QED
      BY <3>3, <3>4
  <2> QED
    BY <2>2, <2>3
<1>6. row' \in [Checkers -> Copy' \cup {None}]
  <2>1. row' = [d \in Checkers |-> IF row[d] = None THEN None
                                   ELSE [row[d] EXCEPT !.tried = Older(@)]]
    BY DEF Tick
  <2>2. row' = [d \in Checkers |-> row'[d]]
    BY <2>1
  <2> QED
    BY <2>2, <1>5
<1>7. /\ silent' \in 0 .. Horizon
      /\ age' \in [Checkers -> 0 .. Horizon]
  <2>1. \A n \in 0 .. Horizon : Lesser(Horizon, n + 1) \in 0 .. Horizon
    BY DEF Lesser
  <2>2. silent' \in 0 .. Horizon
    BY <1>1, <2>1 DEF Tick
  <2>3. age' = [d \in Checkers |-> IF pc[d] = "idle" THEN 0
                                  ELSE Lesser(Horizon, age[d] + 1)]
    BY DEF Tick
  <2>4. ASSUME NEW d \in Checkers
        PROVE  Lesser(Horizon, age[d] + 1) \in 0 .. Horizon /\ 0 \in 0 .. Horizon
    BY <1>1, <2>1
  <2> QED
    BY <2>2, <2>3, <2>4
<1>8. UNCHANGED <<mode, pc, seen, changes, crashes>>
  BY DEF Tick, budgetVars
<1>9. TypeOK'
  BY <1>4, <1>6, <1>7, <1>8 DEF Typed, TypeOK
<1>10. RowInHand'
  BY <1>5, <1>8 DEF Typed, RowInHand
<1> QED
  BY <1>9, <1>10 DEF Typed

\* One check's step.
LEMMA TypedCheck ==
    ASSUME Typed, NEW c \in Checkers, Begin(c) \/ Proceed(c) \/ Crash(c)
    PROVE  Typed'
<1> DEFINE i == row[c].id
<1>0. /\ outages \in Seq(Outage) /\ crashes \in 0 .. MaxCrashes
      /\ seen \in [Checkers -> 0 .. Horizon]
      /\ age \in [Checkers -> 0 .. Horizon]
      /\ row \in [Checkers -> Copy \cup {None}]
  BY DEF Typed, TypeOK
<1>1. CASE CheckNothingLive(c)
  <2>1. OpenOutage.id \in DOMAIN outages
    BY <1>1, OpenOutageCopies DEF CheckNothingLive, Typed, Open
  <2>2. outages[OpenOutage.id] \in Outage
    BY <2>1, <1>0, ElementOfSeq, LenProperties
  <2> DEFINE o == [outages[OpenOutage.id] EXCEPT !.open = FALSE]
             k == OpenOutage.id
  <2>3. o \in Outage
    BY <2>2, RowValues
  <2>4. outages' = [outages EXCEPT ![k] = o]
    BY <1>1 DEF CheckNothingLive
  <2>5. outages' \in Seq(Outage) /\ DOMAIN outages' = DOMAIN outages
    <3> HIDE DEF o, k
    <3>1. k \in DOMAIN outages
      BY <2>1 DEF k
    <3> QED
      BY <1>0, <3>1, <2>3, <2>4, RowChanged
  <2>6. UNCHANGED <<silent, mode, changes, crashes, pc, seen, row, age>>
    BY <1>1 DEF CheckNothingLive, checkVars, budgetVars
  <2> QED
    BY <2>5, <2>6 DEF Typed, TypeOK, RowInHand, Copy
<1>2. CASE CheckHealthy(c)
  BY <1>2, TypedLook DEF CheckHealthy
<1>3. CASE CheckSilent(c)
  <2> DEFINE where == IF OpenOutage = None THEN "opening" ELSE "deciding"
  <2>1. /\ where \in {"resolving", "opening", "deciding"}
        /\ where # "opening" => OpenOutage # None
    OBVIOUS
  <2>2. Goto(c, where)
    BY <1>3 DEF CheckSilent
  <2> HIDE DEF where
  <2> QED
    BY <1>3, <2>1, <2>2, TypedLook DEF CheckSilent
<1>4. CASE Resolve(c)
  <2>1. /\ i \in DOMAIN outages /\ outages[i] \in Outage
        /\ outages' = [outages EXCEPT ![i] = [outages[i] EXCEPT !.open = FALSE]]
    BY <1>4, HeldRow DEF Resolve, Holding
  <2>2. [outages[i] EXCEPT !.open = FALSE] \in Outage
    BY <2>1, RowValues
  <2>3. outages' \in Seq(Outage) /\ DOMAIN outages' = DOMAIN outages
    BY <1>0, <2>1, <2>2, RowChanged
  <2>4. UNCHANGED <<silent, mode, budgetVars>> /\ pc[c] \in Holding
    BY <1>4 DEF Resolve, Holding
  <2>5. CASE Goto(c, "telling_up") /\ UNCHANGED <<seen, row, age>>
    BY <2>3, <2>4, <2>5, TypedAdvance
  <2>6. CASE Return(c)
    BY <2>3, <2>4, <2>6, <1>0, TypedReturn DEF budgetVars
  <2> QED
    BY <1>4, <2>5, <2>6 DEF Resolve
<1>5. CASE OpenNew(c)
  <2>1. outages' \in Seq(Outage) /\ DOMAIN outages \subseteq DOMAIN outages'
    BY <1>0, <1>5, RowAppended DEF OpenNew
  <2>2. "rereading" \notin Holding
    BY DEF Holding
  <2> QED
    BY <1>5, <2>1, <2>2, TypedAdvance DEF OpenNew
<1>6. CASE Reread(c)
  <2>1. CASE OpenOutage # None /\ row' = [row EXCEPT ![c] = OpenOutage]
             /\ Goto(c, "deciding") /\ UNCHANGED <<seen, age>>
    BY <1>6, <2>1, TypedLook DEF Reread
  <2>2. CASE Return(c)
    BY <1>0, <1>6, <2>2, TypedReturn DEF Reread, budgetVars
  <2> QED
    BY <1>6, <2>1, <2>2 DEF Reread
<1>7. CASE Decide(c)
  <2>1. pc[c] \in Holding /\ outages' = outages
        /\ UNCHANGED <<silent, mode, budgetVars, seen, row, age>>
    BY <1>7 DEF Decide, Holding
  <2>2. Goto(c, "syncing") \/ Goto(c, "alerting")
    BY <1>7 DEF Decide
  <2> QED
    BY <1>0, <2>1, <2>2, TypedAdvance
<1>8. CASE Resynced(c)
  <2>1. /\ i \in DOMAIN outages /\ outages[i] \in Outage
        /\ outages' = [outages EXCEPT ![i] =
                         [outages[i] EXCEPT
                            !.resyncs = Lesser(MaxResyncs, @ + 1),
                            !.tried = age[c]]]
    <3>1. i \in DOMAIN outages /\ outages[i] \in Outage
      BY <1>8, HeldRow DEF Resynced, Holding
    <3> QED
      BY <1>0, <1>8, <3>1 DEF Resynced
  <2>2. [outages[i] EXCEPT !.resyncs = Lesser(MaxResyncs, @ + 1),
                           !.tried = age[c]] \in Outage
    BY <1>0, <2>1, RowValues
  <2>3. outages' \in Seq(Outage) /\ DOMAIN outages' = DOMAIN outages
    BY <1>0, <2>1, <2>2, RowChanged
  <2>4. pc[c] \in Holding
    BY <1>8 DEF Resynced, Holding
  <2> QED
    BY <1>8, <2>3, <2>4, TypedAdvance DEF Resynced
<1>9. CASE Alert(c)
  <2>1. pc[c] \in Holding /\ UNCHANGED <<silent, mode, budgetVars>>
    BY <1>9 DEF Alert, Holding
  <2>2. CASE outages' = [outages EXCEPT ![i].alerted = TRUE]
             /\ Goto(c, "telling_down") /\ UNCHANGED <<seen, row, age>>
    <3>1. /\ i \in DOMAIN outages /\ outages[i] \in Outage
          /\ outages' = [outages EXCEPT ![i] =
                           [outages[i] EXCEPT !.alerted = TRUE]]
      BY <2>1, <2>2, HeldRow
    <3>2. [outages[i] EXCEPT !.alerted = TRUE] \in Outage
      BY <3>1, RowValues
    <3>3. outages' \in Seq(Outage) /\ DOMAIN outages' = DOMAIN outages
      BY <1>0, <3>1, <3>2, RowChanged
    <3> QED
      BY <2>1, <2>2, <3>3, TypedAdvance
  <2>3. CASE Return(c) /\ UNCHANGED outages
    BY <1>0, <2>1, <2>3, TypedReturn DEF budgetVars
  <2> QED
    BY <1>9, <2>2, <2>3 DEF Alert
<1>10. CASE ToldDown(c)
  <2>1. /\ i \in DOMAIN outages /\ outages[i] \in Outage
        /\ outages' = [outages EXCEPT ![i] =
                         [outages[i] EXCEPT !.down = Lesser(2, @ + 1)]]
    BY <1>10, HeldRow DEF ToldDown, Holding
  <2>2. [outages[i] EXCEPT !.down = Lesser(2, @ + 1)] \in Outage
    BY <2>1, RowValues
  <2>3. outages' \in Seq(Outage) /\ DOMAIN outages' = DOMAIN outages
    BY <1>0, <2>1, <2>2, RowChanged
  <2> QED
    BY <1>0, <1>10, <2>3, TypedReturn DEF ToldDown, budgetVars
<1>11. CASE ToldUp(c)
  <2>1. /\ i \in DOMAIN outages /\ outages[i] \in Outage
        /\ outages' = [outages EXCEPT ![i] =
                         [outages[i] EXCEPT !.up = Lesser(2, @ + 1)]]
    BY <1>11, HeldRow DEF ToldUp, Holding
  <2>2. [outages[i] EXCEPT !.up = Lesser(2, @ + 1)] \in Outage
    BY <2>1, RowValues
  <2>3. outages' \in Seq(Outage) /\ DOMAIN outages' = DOMAIN outages
    BY <1>0, <2>1, <2>2, RowChanged
  <2> QED
    BY <1>0, <1>11, <2>3, TypedReturn DEF ToldUp, budgetVars
<1>12. CASE Crash(c)
  <2>1. crashes' \in 0 .. MaxCrashes /\ UNCHANGED <<silent, mode, outages, changes>>
    BY <1>0, <1>12 DEF Crash
  <2> QED
    BY <1>0, <1>12, <2>1, TypedReturn DEF Crash
<1> HIDE DEF i
<1> QED
  BY <1>1, <1>2, <1>3, <1>4, <1>5, <1>6, <1>7, <1>8, <1>9, <1>10, <1>11, <1>12
  DEF Begin, Proceed

LEMMA TypedNext == Typed /\ [Next]_vars => Typed'
<1> SUFFICES ASSUME Typed, [Next]_vars PROVE Typed'
  OBVIOUS
<1>1. CASE Deliver \/ Toggle
  <2>1. /\ UNCHANGED <<outages, pc, seen, row, age, crashes>>
        /\ silent' = silent \/ silent' = 0
        /\ mode' \in {"watching", "nothing_live", "off"}
        /\ changes' \in 0 .. MaxChanges
    <3>1. changes \in 0 .. MaxChanges /\ mode \in {"watching", "nothing_live", "off"}
      BY DEF Typed, TypeOK
    <3>2. CASE Deliver
      <4>1. /\ silent' = 0 /\ mode' = mode
            /\ changes' = changes \/ (changes < MaxChanges /\ changes' = changes + 1)
        BY <3>2 DEF Deliver
      <4>2. UNCHANGED <<outages, pc, seen, row, age, crashes>>
        BY <3>2 DEF Deliver, checkVars
      <4> QED
        BY <3>1, <4>1, <4>2
    <3>3. CASE Toggle
      <4>1. /\ silent' = silent
            /\ mode' \in {"watching", "nothing_live", "off"}
            /\ changes < MaxChanges /\ changes' = changes + 1
        BY <3>3 DEF Toggle
      <4>2. UNCHANGED <<outages, pc, seen, row, age, crashes>>
        BY <3>3 DEF Toggle, checkVars
      <4> QED
        BY <3>1, <4>1, <4>2
    <3> QED
      BY <1>1, <3>2, <3>3
  <2>2. Copy' = Copy
    BY <2>1 DEF Copy
  <2>3. silent' \in 0 .. Horizon
    <3>1. silent \in 0 .. Horizon
      BY DEF Typed, TypeOK
    <3> QED
      BY <2>1, <3>1
  <2>4. TypeOK'
    BY <2>1, <2>2, <2>3 DEF Typed, TypeOK
  <2>5. RowInHand'
    BY <2>1 DEF Typed, RowInHand
  <2> QED
    BY <2>4, <2>5 DEF Typed
<1>2. CASE UNCHANGED vars
  BY <1>2 DEF vars, checkVars, budgetVars, Typed, TypeOK, RowInHand, Copy
<1>3. CASE \E c \in Checkers : Begin(c) \/ Proceed(c) \/ Crash(c)
  BY <1>3, TypedCheck
<1> QED
  BY <1>1, <1>2, <1>3, TypedTick DEF Next

\* Every variable keeps its type, and a check always works on a row of the
\* table: none of the UPDATEs of watchdog.check goes astray.
THEOREM TypeCorrect == Spec => []TypeOK
<1>1. Typed => TypeOK
  BY DEF Typed
<1> QED
  BY TypedInit, TypedNext, <1>1, PTL DEF Spec

-----------------------------------------------------------------------------
(* The messages. *)

\* Check c has read row i.
Reads(c, i) == row[c] # None /\ row[c].id = i

\* Check c is about to send a message about row i.
Tells(c, i, what) == pc[c] = what /\ Reads(c, i)

\* A row's counters are within bounds and earned; what a check remembers of
\* its alert is true; and a message on its way has not been sent before and
\* has one sender.
Paired(i) ==
    /\ outages[i].down <= 1 /\ outages[i].up <= 1
    /\ outages[i].up > 0 => outages[i].alerted /\ ~outages[i].open
    /\ outages[i].down > 0 => outages[i].alerted
    /\ \A c \in Checkers :
          /\ Reads(c, i) /\ row[c].alerted => outages[i].alerted
          /\ Tells(c, i, "telling_down")
                => outages[i].alerted /\ outages[i].down = 0
          /\ Tells(c, i, "telling_up")
                => /\ outages[i].alerted /\ ~outages[i].open
                   /\ outages[i].up = 0
    /\ \A c, d \in Checkers : \A what \in {"telling_down", "telling_up"} :
          Tells(c, i, what) /\ Tells(d, i, what) => c = d

IInv == Typed /\ \A i \in DOMAIN outages : Paired(i)

\* A step that sends nothing about row i, nor begins to: it may claim the
\* alert, close the row, end or copy checks.
LEMMA QuietRow ==
    ASSUME NEW i, outages[i] \in Outage, outages'[i] \in Outage, Paired(i),
           outages'[i].down = outages[i].down, outages'[i].up = outages[i].up,
           outages[i].alerted => outages'[i].alerted,
           outages'[i].open => outages[i].open,
           \A d \in Checkers : \A what \in {"telling_down", "telling_up"} :
              Tells(d, i, what)' => Tells(d, i, what),
           \A d \in Checkers :
              Reads(d, i)' /\ row'[d].alerted => outages'[i].alerted
    PROVE  Paired(i)'
<1>1. /\ outages[i].open \in BOOLEAN /\ outages'[i].open \in BOOLEAN
      /\ outages[i].alerted \in BOOLEAN /\ outages'[i].alerted \in BOOLEAN
      /\ outages[i].down \in 0 .. 2 /\ outages[i].up \in 0 .. 2
  BY DEF Outage
<1> QED
  BY <1>1 DEF Paired

\* The claim of the alert of row i, by a check about to send it.
LEMMA ClaimedRow ==
    ASSUME NEW i, outages[i] \in Outage, NEW c \in Checkers, Paired(i),
           ~outages[i].alerted,
           outages'[i] = [outages[i] EXCEPT !.alerted = TRUE],
           row' = row, Goto(c, "telling_down"), DOMAIN pc = Checkers
    PROVE  Paired(i)'
<1>1. outages[i].down = 0 /\ outages[i].up = 0
  BY DEF Paired, Outage
<1>2. /\ outages'[i].alerted
      /\ outages'[i].down = 0 /\ outages'[i].up = 0
  BY <1>1 DEF Outage
<1>3. \A d \in Checkers : \A what \in {"telling_down", "telling_up"} :
         ~Tells(d, i, what)
  BY DEF Paired
<1>4. \A d \in Checkers : \A what \in {"telling_down", "telling_up"} :
         Tells(d, i, what)' => d = c /\ what = "telling_down"
  BY <1>3 DEF Goto, Tells, Reads
<1> QED
  BY <1>2, <1>4 DEF Paired

\* The end of row i, by the check about to announce it.
LEMMA ResolvedRow ==
    ASSUME NEW i, outages[i] \in Outage, NEW c \in Checkers, Paired(i),
           outages[i].open, Reads(c, i), row[c].alerted,
           pc[c] = "resolving",
           outages'[i] = [outages[i] EXCEPT !.open = FALSE],
           row' = row, Goto(c, "telling_up"), DOMAIN pc = Checkers
    PROVE  Paired(i)'
<1>1. outages[i].alerted /\ outages[i].up = 0
  BY DEF Paired, Outage
<1>2. /\ outages'[i].alerted = outages[i].alerted /\ ~outages'[i].open
      /\ outages'[i].down = outages[i].down /\ outages'[i].up = 0
  BY <1>1 DEF Outage
<1>3. \A d \in Checkers : ~Tells(d, i, "telling_up")
  BY DEF Paired
<1>4. \A d \in Checkers :
         /\ Tells(d, i, "telling_up")' => d = c
         /\ Tells(d, i, "telling_down")' => Tells(d, i, "telling_down")
  BY <1>3 DEF Goto, Tells, Reads
<1> QED
  BY <1>1, <1>2, <1>4 DEF Paired, Reads

\* A message about row i arrives.
LEMMA ToldRow ==
    ASSUME NEW i, outages[i] \in Outage, NEW c \in Checkers, Paired(i),
           DOMAIN pc = Checkers,
           Return(c),
           \/ /\ Tells(c, i, "telling_down")
              /\ outages'[i] = [outages[i] EXCEPT !.down = Lesser(2, @ + 1)]
           \/ /\ Tells(c, i, "telling_up")
              /\ outages'[i] = [outages[i] EXCEPT !.up = Lesser(2, @ + 1)],
           \A d \in Checkers : d # c => row'[d] = row[d],
           row'[c] = None
    PROVE  Paired(i)'
<1>1. \A d \in Checkers : \A what \in {"telling_down", "telling_up"} :
         Tells(d, i, what)' => d # c /\ Tells(d, i, what)
  BY DEF Return, Goto, Tells, Reads
<1>2. \A d \in Checkers : Reads(d, i)' => Reads(d, i) /\ row'[d] = row[d]
  BY DEF Reads
<1>3. /\ outages'[i].open = outages[i].open
      /\ outages'[i].alerted = outages[i].alerted
  BY DEF Outage
<1>4. CASE /\ Tells(c, i, "telling_down")
           /\ outages'[i] = [outages[i] EXCEPT !.down = Lesser(2, @ + 1)]
  <2>1. outages[i].alerted /\ outages[i].down = 0
    BY <1>4 DEF Paired
  <2>2. outages'[i].down = 1 /\ outages'[i].up = outages[i].up
    BY <1>4, <2>1 DEF Outage, Lesser
  <2>3. \A d \in Checkers : ~Tells(d, i, "telling_down")'
    BY <1>1, <1>4 DEF Paired
  <2> QED
    BY <1>1, <1>2, <1>3, <2>1, <2>2, <2>3 DEF Paired
<1>5. CASE /\ Tells(c, i, "telling_up")
           /\ outages'[i] = [outages[i] EXCEPT !.up = Lesser(2, @ + 1)]
  <2>1. outages[i].alerted /\ ~outages[i].open /\ outages[i].up = 0
    BY <1>5 DEF Paired
  <2>2. outages'[i].up = 1 /\ outages'[i].down = outages[i].down
    BY <1>5, <2>1 DEF Outage, Lesser
  <2>3. \A d \in Checkers : ~Tells(d, i, "telling_up")'
    BY <1>1, <1>5 DEF Paired
  <2> QED
    BY <1>1, <1>2, <1>3, <2>1, <2>2, <2>3 DEF Paired
<1> QED
  BY <1>4, <1>5

\* A step of check c, as row i sees it: the row's messages are untouched, and
\* if c is about to send one, it is about another row.
LEMMA QuietCheck ==
    ASSUME Typed, NEW c \in Checkers, NEW i \in DOMAIN outages, Paired(i),
           outages'[i] \in Outage,
           outages'[i].down = outages[i].down, outages'[i].up = outages[i].up,
           outages[i].alerted => outages'[i].alerted,
           outages'[i].open => outages[i].open,
           NEW where, pc' = [pc EXCEPT ![c] = where],
           NEW r, row' = [row EXCEPT ![c] = r],
           where \in {"telling_down", "telling_up"} => ~(r # None /\ r.id = i),
           r # None /\ r.id = i /\ r.alerted => outages'[i].alerted
    PROVE  Paired(i)'
<1>1. /\ outages[i] \in Outage
      /\ DOMAIN pc = Checkers /\ row \in [Checkers -> Copy \cup {None}]
  <2>1. /\ outages \in Seq(Outage)
        /\ row \in [Checkers -> Copy \cup {None}]
        /\ pc \in [Checkers -> {"idle", "resolving", "opening", "rereading",
                                "deciding", "syncing", "alerting",
                                "telling_down", "telling_up"}]
    BY DEF Typed, TypeOK
  <2>2. outages[i] \in Outage
    BY <2>1, ElementOfSeq, LenProperties
  <2>3. DOMAIN pc = Checkers
    BY <2>1
  <2> QED
    BY <2>1, <2>2, <2>3
<1>2. \A d \in Checkers : \A what \in {"telling_down", "telling_up"} :
         Tells(d, i, what)' => Tells(d, i, what)
  BY <1>1 DEF Tells, Reads
<1>3. \A d \in Checkers : Reads(d, i)' /\ row'[d].alerted => outages'[i].alerted
  <2> SUFFICES ASSUME NEW d \in Checkers, Reads(d, i)', row'[d].alerted
               PROVE  outages'[i].alerted
    OBVIOUS
  <2>1. CASE d = c
    BY <2>1, <1>1 DEF Reads
  <2>2. CASE d # c
    BY <2>2, <1>1 DEF Reads, Paired
  <2> QED
    BY <2>1, <2>2
<1> QED
  BY <1>1, <1>2, <1>3, QuietRow

\* So is one that keeps every check's row and starts no message.
LEMMA QuietKeep ==
    ASSUME Typed, NEW i \in DOMAIN outages, Paired(i),
           outages'[i] \in Outage,
           outages'[i].down = outages[i].down, outages'[i].up = outages[i].up,
           outages[i].alerted => outages'[i].alerted,
           outages'[i].open => outages[i].open,
           row' = row,
           \A d \in Checkers : pc'[d] \in {"telling_down", "telling_up"}
                                => pc[d] = pc'[d]
    PROVE  Paired(i)'
<1>1. outages[i] \in Outage
  <2>1. outages \in Seq(Outage)
    BY DEF Typed, TypeOK
  <2> QED
    BY <2>1, ElementOfSeq, LenProperties
<1>2. \A d \in Checkers : \A what \in {"telling_down", "telling_up"} :
         Tells(d, i, what)' => Tells(d, i, what)
  BY DEF Tells, Reads
<1>3. \A d \in Checkers : Reads(d, i)' /\ row'[d].alerted => outages'[i].alerted
  BY DEF Reads, Paired
<1> QED
  BY <1>1, <1>2, <1>3, QuietRow

\* Returning is such a step, whatever it was about.
LEMMA QuietReturn ==
    ASSUME Typed, NEW c \in Checkers, Return(c),
           NEW i \in DOMAIN outages, Paired(i), outages'[i] \in Outage,
           outages'[i].down = outages[i].down, outages'[i].up = outages[i].up,
           outages[i].alerted => outages'[i].alerted,
           outages'[i].open => outages[i].open
    PROVE  Paired(i)'
<1>1. pc' = [pc EXCEPT ![c] = "idle"] /\ row' = [row EXCEPT ![c] = None]
  BY DEF Return, Goto
<1> QED
  BY <1>1, QuietCheck

\* So is looking at the table.
LEMMA QuietLook ==
    ASSUME Typed, NEW c \in Checkers, outages' = outages,
           NEW where \in {"resolving", "opening", "deciding"}, Goto(c, where),
           row' = [row EXCEPT ![c] = OpenOutage],
           NEW i \in DOMAIN outages, Paired(i)
    PROVE  Paired(i)'
<1>1. OpenOutage # None /\ OpenOutage.id = i
         => OpenOutage.alerted = outages[i].alerted
  BY OpenOutageCopies DEF Typed, CopyOf
<1>2. outages[i] \in Outage
  BY ElementOfSeq, LenProperties DEF Typed, TypeOK
<1>3. pc' = [pc EXCEPT ![c] = where]
  BY DEF Goto
<1> DEFINE r == OpenOutage
<1>4. row' = [row EXCEPT ![c] = r] /\ (r # None /\ r.id = i /\ r.alerted => outages'[i].alerted)
  BY <1>1
<1> HIDE DEF r
<1> QED
  BY <1>2, <1>3, <1>4, QuietCheck

\* Closing a row, or counting a re-sync, leaves its alert and its messages.
LEMMA SilentUpdate ==
    ASSUME NEW o \in Outage, NEW p,
           \/ p = o
           \/ p = [o EXCEPT !.open = FALSE]
           \/ \E t \in 0 .. Horizon :
                 p = [o EXCEPT !.resyncs = Lesser(MaxResyncs, @ + 1),
                               !.tried = t]
           \/ p = [o EXCEPT !.tried = Older(@)]
    PROVE  /\ p \in Outage
           /\ p.down = o.down /\ p.up = o.up
           /\ o.alerted => p.alerted
           /\ p.alerted => o.alerted
           /\ p.open => o.open
<1>1. CASE p = o
  BY <1>1
<1>2. CASE p = [o EXCEPT !.open = FALSE]
  BY <1>2, RowValues DEF Outage
<1>3. CASE \E t \in 0 .. Horizon :
              p = [o EXCEPT !.resyncs = Lesser(MaxResyncs, @ + 1), !.tried = t]
  <2>1. PICK t \in 0 .. Horizon :
           p = [o EXCEPT !.resyncs = Lesser(MaxResyncs, @ + 1), !.tried = t]
    BY <1>3
  <2>2. p \in Outage
    BY <2>1, RowValues
  <2>3. /\ p.down = o.down /\ p.up = o.up
        /\ p.alerted = o.alerted /\ p.open = o.open
    BY <2>1 DEF Outage
  <2> QED
    BY <2>2, <2>3
<1>4. CASE p = [o EXCEPT !.tried = Older(@)]
  BY <1>4, RowValues DEF Outage
<1> QED
  BY <1>1, <1>2, <1>3, <1>4

\* No step of a check breaks the pairing of a row.
LEMMA PairedCheck ==
    ASSUME IInv, NEW c \in Checkers, Begin(c) \/ Proceed(c) \/ Crash(c),
           NEW i \in DOMAIN outages
    PROVE  Paired(i)'
<1> DEFINE k == row[c].id
<1>1. Typed /\ Paired(i) /\ Typed'
  BY TypedCheck DEF IInv
<1>2. /\ outages \in Seq(Outage) /\ outages[i] \in Outage
      /\ DOMAIN pc = Checkers
      /\ row \in [Checkers -> Copy \cup {None}]
  <2>1. /\ outages \in Seq(Outage)
        /\ row \in [Checkers -> Copy \cup {None}]
        /\ pc \in [Checkers -> {"idle", "resolving", "opening", "rereading",
                                "deciding", "syncing", "alerting",
                                "telling_down", "telling_up"}]
    BY <1>1 DEF Typed, TypeOK
  <2>2. outages[i] \in Outage
    BY <2>1, ElementOfSeq, LenProperties
  <2>3. DOMAIN pc = Checkers
    BY <2>1
  <2> QED
    BY <2>1, <2>2, <2>3
<1>3. /\ outages[i].open \in BOOLEAN /\ outages[i].alerted \in BOOLEAN
      /\ outages[i].down \in 0 .. 2 /\ outages[i].up \in 0 .. 2
  BY <1>2 DEF Outage
<1>5. row' = row => row' = [row EXCEPT ![c] = row[c]]
  BY <1>2
<1>6. row[c] # None /\ row[c].id = i /\ row[c].alerted => outages[i].alerted
  BY <1>1 DEF Paired, Reads
<1>7. CASE CheckNothingLive(c)
  <2>1. /\ pc' = pc /\ row' = row
        /\ outages' = [outages EXCEPT ![OpenOutage.id] = [outages[OpenOutage.id] EXCEPT !.open = FALSE]]
    BY <1>2, <1>7 DEF CheckNothingLive, checkVars
  <2>2. \/ outages'[i] = outages[i]
        \/ outages'[i] = [outages[i] EXCEPT !.open = FALSE]
    BY <2>1
  <2>3. /\ outages'[i].down = outages[i].down /\ outages'[i].up = outages[i].up
        /\ outages[i].alerted => outages'[i].alerted
        /\ outages'[i].open => outages[i].open
        /\ outages'[i] \in Outage
    BY <1>2, <2>2, SilentUpdate
  <2> QED
    BY <1>1, <2>1, <2>3, QuietKeep
<1>8. CASE CheckHealthy(c)
  BY <1>1, <1>8, QuietLook DEF CheckHealthy
<1>9. CASE CheckSilent(c)
  <2> DEFINE where == IF OpenOutage = None THEN "opening" ELSE "deciding"
  <2>1. where \in {"resolving", "opening", "deciding"} /\ Goto(c, where)
    BY <1>9 DEF CheckSilent
  <2> HIDE DEF where
  <2> QED
    BY <1>1, <1>9, <2>1, QuietLook DEF CheckSilent
<1>10. CASE Resolve(c)
  <2>1. /\ k \in DOMAIN outages /\ pc[c] = "resolving" /\ row[c] # None
        /\ outages' = [outages EXCEPT ![k] = [outages[k] EXCEPT !.open = FALSE]]
    BY <1>1, <1>10, HeldRow DEF Resolve, Holding
  <2>2. \/ i # k /\ outages'[i] = outages[i]
        \/ i = k /\ outages'[i] = [outages[i] EXCEPT !.open = FALSE]
    BY <2>1
  <2>3. /\ outages'[i].down = outages[i].down /\ outages'[i].up = outages[i].up
        /\ outages[i].alerted => outages'[i].alerted
        /\ outages'[i].open => outages[i].open
        /\ outages'[i] \in Outage
    BY <1>2, <2>2, SilentUpdate
  <2>4. CASE Return(c)
    BY <1>1, <2>3, <2>4, QuietReturn
  <2>5. CASE /\ outages[k].open /\ row[c].alerted
             /\ Goto(c, "telling_up") /\ UNCHANGED row
    <3>1. CASE i = k
      BY <1>1, <1>2, <2>1, <2>2, <2>5, <3>1, ResolvedRow DEF Reads
    <3>2. CASE i # k
      <4>1. pc' = [pc EXCEPT ![c] = "telling_up"]
        BY <2>5 DEF Goto
      <4> QED
        BY <1>1, <1>5, <1>6, <2>1, <2>3, <2>5, <3>2, <4>1, QuietCheck
    <3> QED
      BY <3>1, <3>2
  <2> QED
    BY <1>10, <2>4, <2>5 DEF Resolve
<1>11. CASE OpenNew(c)
  <2>1. outages'[i] = outages[i] /\ pc' = [pc EXCEPT ![c] = "rereading"]
        /\ row' = row
    BY <1>2, <1>11, RowAppended DEF OpenNew, Goto
  <2> QED
    BY <1>1, <1>2, <2>1, QuietKeep
<1>12. CASE Reread(c)
  <2>1. CASE Return(c)
    BY <1>1, <1>2, <1>12, <2>1, QuietReturn DEF Reread
  <2>2. CASE row' = [row EXCEPT ![c] = OpenOutage] /\ Goto(c, "deciding")
    BY <1>1, <1>12, <2>2, QuietLook DEF Reread
  <2> QED
    BY <1>12, <2>1, <2>2 DEF Reread
<1>13. CASE Decide(c)
  <2>1. PICK where \in {"syncing", "alerting"} : pc' = [pc EXCEPT ![c] = where]
    BY <1>13 DEF Decide, Goto
  <2>2. row' = row /\ outages' = outages
    BY <1>13 DEF Decide
  <2> QED
    BY <1>1, <1>2, <2>1, <2>2, QuietKeep
<1>14. CASE Resynced(c)
  <2>1. /\ pc' = [pc EXCEPT ![c] = "alerting"] /\ row' = row
    BY <1>14 DEF Resynced, Goto
  <2>2. age[c] \in 0 .. Horizon
    BY <1>1 DEF Typed, TypeOK
  <2>3. \/ outages'[i] = outages[i]
        \/ outages'[i] = [outages[i] EXCEPT
                            !.resyncs = Lesser(MaxResyncs, @ + 1),
                            !.tried = age[c]]
    BY <1>2, <1>14 DEF Resynced
  <2>4. /\ outages'[i].down = outages[i].down /\ outages'[i].up = outages[i].up
        /\ outages[i].alerted => outages'[i].alerted
        /\ outages'[i].open => outages[i].open
        /\ outages'[i] \in Outage
    BY <1>2, <2>2, <2>3, SilentUpdate
  <2> QED
    BY <1>1, <1>2, <2>1, <2>4, QuietKeep
<1>15. CASE Alert(c)
  <2>1. CASE Return(c) /\ UNCHANGED outages
    BY <1>1, <1>2, <2>1, QuietReturn
  <2>2. CASE /\ ClaimsAlert(k) /\ Goto(c, "telling_down") /\ UNCHANGED row
             /\ outages' = [outages EXCEPT ![k].alerted = TRUE]
    <3>1. \/ i # k /\ outages'[i] = outages[i]
          \/ i = k /\ outages'[i] = [outages[i] EXCEPT !.alerted = TRUE]
      BY <1>2, <2>2
    <3>2. CASE i = k
      BY <1>1, <1>2, <2>2, <3>1, <3>2, ClaimedRow DEF ClaimsAlert
    <3>3. CASE i # k
      <4>1. pc' = [pc EXCEPT ![c] = "telling_down"]
        BY <2>2 DEF Goto
      <4> QED
        BY <1>1, <1>2, <1>5, <1>6, <2>2, <3>1, <3>3, <4>1, QuietCheck
    <3> QED
      BY <3>2, <3>3
  <2> QED
    BY <1>15, <2>1, <2>2 DEF Alert
<1>16. CASE ToldDown(c) \/ ToldUp(c)
  <2>1. /\ Return(c) /\ row[c] # None
        /\ \/ /\ pc[c] = "telling_down"
              /\ outages' = [outages EXCEPT ![k].down = Lesser(2, @ + 1)]
           \/ /\ pc[c] = "telling_up"
              /\ outages' = [outages EXCEPT ![k].up = Lesser(2, @ + 1)]
    BY <1>1, <1>16, HeldRow DEF ToldDown, ToldUp, Holding
  <2>2. row' = [row EXCEPT ![c] = None]
    BY <2>1 DEF Return
  <2>3. CASE i = k
    BY <1>1, <1>2, <2>1, <2>2, <2>3, ToldRow DEF Tells, Reads
  <2>4. CASE i # k
    <3>1. outages'[i] = outages[i]
      BY <1>2, <2>1, <2>4
    <3> QED
      BY <1>1, <1>2, <2>1, <3>1, QuietReturn
  <2> QED
    BY <2>3, <2>4
<1>17. CASE Crash(c)
  BY <1>1, <1>2, <1>17, QuietReturn DEF Crash
<1> HIDE DEF k
<1> QED
  BY <1>7, <1>8, <1>9, <1>10, <1>11, <1>12, <1>13, <1>14, <1>15, <1>16, <1>17
  DEF Begin, Proceed

\* A row just opened has no reader and no message.
LEMMA PairedNew ==
    ASSUME IInv, NEW c \in Checkers, OpenNew(c),
           NEW i, i = Len(outages) + 1
    PROVE  Paired(i)'
<1>1. /\ outages \in Seq(Outage) /\ row \in [Checkers -> Copy \cup {None}]
      /\ row' = row
  BY DEF IInv, Typed, TypeOK, OpenNew
<1>2. outages'[i] = NewOutage /\ i \notin DOMAIN outages
  BY <1>1, RowAppended DEF OpenNew
<1>3. \A d \in Checkers : ~(row[d] # None /\ row[d].id = i)
  BY <1>1, <1>2 DEF Copy
<1>4. \A d \in Checkers : ~Reads(d, i)'
  BY <1>1, <1>3 DEF Reads
<1>5. /\ outages'[i].down = 0 /\ outages'[i].up = 0
  BY <1>2 DEF NewOutage
<1> QED
  BY <1>4, <1>5 DEF Paired, Tells

\* Time passing sends nothing.
LEMMA PairedTick ==
    ASSUME IInv, Tick, NEW i \in DOMAIN outages
    PROVE  Paired(i)'
<1>1. Typed /\ Paired(i)
  BY DEF IInv
<1>2. /\ outages[i] \in Outage
      /\ row \in [Checkers -> Copy \cup {None}]
  BY <1>1, ElementOfSeq, LenProperties DEF Typed, TypeOK
<1>3. outages'[i] = [outages[i] EXCEPT !.tried = Older(@)] /\ pc' = pc
  BY DEF Tick
<1>4. /\ outages'[i] \in Outage
      /\ outages'[i].down = outages[i].down /\ outages'[i].up = outages[i].up
      /\ outages[i].alerted => outages'[i].alerted
      /\ outages'[i].open => outages[i].open
  BY <1>2, <1>3, SilentUpdate
<1>5. \A d \in Checkers :
         Reads(d, i)' => Reads(d, i) /\ row'[d].alerted = row[d].alerted
  <2> SUFFICES ASSUME NEW d \in Checkers, Reads(d, i)'
               PROVE  Reads(d, i) /\ row'[d].alerted = row[d].alerted
    OBVIOUS
  <2>1. row'[d] = IF row[d] = None THEN None
                  ELSE [row[d] EXCEPT !.tried = Older(@)]
    BY DEF Tick
  <2>2. row[d] # None /\ row'[d].id = i
    BY <2>1 DEF Reads
  <2>3. row[d] \in Copy
    BY <1>2, <2>2
  <2> QED
    BY <2>1, <2>2, <2>3 DEF Reads, Copy
<1>6. \A d \in Checkers : \A what \in {"telling_down", "telling_up"} :
         Tells(d, i, what)' => Tells(d, i, what)
  BY <1>3, <1>5 DEF Tells
<1>7. \A d \in Checkers : Reads(d, i)' /\ row'[d].alerted => outages'[i].alerted
  BY <1>1, <1>4, <1>5 DEF Paired
<1> QED
  BY <1>1, <1>2, <1>4, <1>6, <1>7, QuietRow

LEMMA PairedInit == Init => IInv
<1> SUFFICES ASSUME Init PROVE IInv
  OBVIOUS
<1>1. outages = <<>>
  BY DEF Init
<1> QED
  BY <1>1, TypedInit DEF IInv

LEMMA PairedNext == IInv /\ [Next]_vars => IInv'
<1> SUFFICES ASSUME IInv, [Next]_vars PROVE IInv'
  OBVIOUS
<1>1. Typed /\ Typed'
  BY TypedNext DEF IInv
<1>2. \A i \in DOMAIN outages : Paired(i)'
  <2> SUFFICES ASSUME NEW i \in DOMAIN outages PROVE Paired(i)'
    OBVIOUS
  <2>1. CASE \E c \in Checkers : Begin(c) \/ Proceed(c) \/ Crash(c)
    BY <2>1, PairedCheck
  <2>2. CASE Deliver \/ Toggle \/ UNCHANGED vars
    <3>1. outages' = outages /\ pc' = pc /\ row' = row
      BY <2>2 DEF Deliver, Toggle, vars, checkVars
    <3> QED
      BY <3>1 DEF IInv, Paired, Tells, Reads
  <2> QED
    BY <2>1, <2>2, PairedTick DEF Next
<1>3. ASSUME NEW i \in DOMAIN outages', i \notin DOMAIN outages
      PROVE  Paired(i)'
  <2>1. PICK c \in Checkers : OpenNew(c)
    <3>1. outages \in Seq(Outage)
      BY <1>1 DEF Typed, TypeOK
    <3>2. ASSUME NEW c \in Checkers,
                 Resolve(c) \/ Reread(c) \/ Decide(c) \/ Resynced(c)
          PROVE  DOMAIN outages' = DOMAIN outages
      <4>1. CASE Resolve(c)
        BY <3>1, <4>1 DEF Resolve
      <4>2. CASE Reread(c)
        BY <4>2 DEF Reread
      <4>3. CASE Decide(c)
        BY <3>1, <4>3 DEF Decide
      <4>4. CASE Resynced(c)
        BY <3>1, <4>4 DEF Resynced
      <4> QED
        BY <3>2, <4>1, <4>2, <4>3, <4>4
    <3>3. ASSUME NEW c \in Checkers, Alert(c) \/ ToldDown(c) \/ ToldUp(c)
          PROVE  DOMAIN outages' = DOMAIN outages
      <4>1. CASE Alert(c)
        BY <3>1, <4>1 DEF Alert
      <4>2. CASE ToldDown(c)
        <5> DEFINE told == Lesser(2, outages[row[c].id].down + 1)
        <5>1. outages' = [outages EXCEPT ![row[c].id].down = told]
          BY <4>2 DEF ToldDown
        <5> HIDE DEF told
        <5> QED
          BY <3>1, <5>1
      <4>3. CASE ToldUp(c)
        <5> DEFINE told == Lesser(2, outages[row[c].id].up + 1)
        <5>1. outages' = [outages EXCEPT ![row[c].id].up = told]
          BY <4>3 DEF ToldUp
        <5> HIDE DEF told
        <5> QED
          BY <3>1, <5>1
      <4> QED
        BY <3>3, <4>1, <4>2, <4>3
    <3>4. ASSUME NEW c \in Checkers, Begin(c) \/ Crash(c)
          PROVE  DOMAIN outages' = DOMAIN outages
      BY <3>1, <3>4
         DEF Begin, CheckNothingLive, CheckHealthy, CheckSilent, Crash
    <3>5. ASSUME Deliver \/ Toggle \/ Tick \/ UNCHANGED vars
          PROVE  DOMAIN outages' = DOMAIN outages
      <4>1. CASE Tick
        BY <4>1 DEF Tick
      <4>2. CASE Deliver \/ Toggle \/ UNCHANGED vars
        BY <4>2 DEF Deliver, Toggle, vars
      <4> QED
        BY <3>5, <4>1, <4>2
    <3> QED
      BY <1>3, <3>2, <3>3, <3>4, <3>5 DEF Next, Proceed
  <2>2. i = Len(outages) + 1
    BY <1>1, <1>3, <2>1, RowAppended DEF OpenNew, Typed, TypeOK
  <2> QED
    BY <2>1, <2>2, PairedNew
<1> QED
  BY <1>1, <1>2, <1>3 DEF IInv

\* Whatever checks overlap, crash or work on rows read long ago: an outage is
\* announced at most once, its end at most once, and the end only of an outage
\* whose announcement was claimed (mark_outage_alerted and resolve_outage).
THEOREM MessagesArePaired == Spec => []MessagesPaired
<1>1. IInv => MessagesPaired
  BY DEF IInv, Paired, MessagesPaired
<1> QED
  BY PairedInit, PairedNext, <1>1, PTL DEF Spec
=============================================================================
