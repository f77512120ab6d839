----------------------------- MODULE PartsProofs -----------------------------
(***************************************************************************)
(* Proofs about the parts of Parts.  Each part has an inductive invariant  *)
(* of its own (StoreInv, CohortInv, FileInv, ScreenInv, TradeRows,         *)
(* HolderRows); PartsInv joins them, and the theorems at the end of the    *)
(* module follow from it.                                                  *)
(*                                                                         *)
(* Inductions over sizes, days and partial sums are by least               *)
(* counterexample (LeastExists).  An instance's copy of an operator of the *)
(* standard modules, as C!Cardinality, is a symbol of its own: a lemma     *)
(* says that it is the same.                                               *)
(***************************************************************************)
EXTENDS Parts, FiniteSetTheorems, WellFoundedInduction, TLAPS

-----------------------------------------------------------------------------
(* Naturals and finite sets. *)

\* A set of naturals that is not empty has a least member.
LEMMA LeastExists ==
    ASSUME NEW X \in SUBSET Nat, X # {}
    PROVE  \E m \in X : \A k \in X : m <= k
<1> DEFINE R == {ss \in Nat \X Nat : ss[1] < ss[2]}
<1>1. IsWellFoundedOn(R, Nat)
  BY NatLessThanWellFounded DEF OpToRel
<1> HIDE DEF R
<1>2. PICK x \in X : \A y \in X : ~(<<y, x>> \in R)
  BY <1>1, WFMin
<1> USE DEF R
<1>3. \A y \in X : ~(y < x)
  BY <1>2
<1> QED
  BY <1>3

\* A finite set has subsets of every size up to its own.
LEMMA SubsetOfSize ==
    ASSUME NEW X, IsFiniteSet(X), NEW k \in Nat, k <= Cardinality(X)
    PROVE  \E Y \in SUBSET X : Cardinality(Y) = k
<1> DEFINE Sizes == {n \in Nat : n >= k /\ \E Y \in SUBSET X : Cardinality(Y) = n}
<1>1. Cardinality(X) \in Sizes
  BY FS_CardinalityType
<1> HIDE DEF Sizes
<1>2. PICK n \in Sizes : \A m \in Sizes : n <= m
  BY <1>1, LeastExists DEF Sizes
<1>3. PICK Y \in SUBSET X : Cardinality(Y) = n
  BY DEF Sizes
<1>4. IsFiniteSet(Y) /\ n \in Nat /\ n >= k
  BY <1>3, FS_Subset DEF Sizes
<1>5. CASE n = k
  BY <1>3, <1>5
<1>6. CASE n > k
  <2>1. Y # {}
    BY <1>3, <1>4, <1>6, FS_EmptySet
  <2>2. PICK y : y \in Y
    BY <2>1
  <2>3. Cardinality(Y \ {y}) = n - 1
    BY <1>3, <1>4, <2>2, FS_RemoveElement
  <2>4. n - 1 \in Sizes
    BY <1>4, <1>6, <2>3 DEF Sizes
  <2> QED BY <1>2, <1>4, <2>4
<1> QED BY <1>4, <1>5, <1>6

\* A subset of a finite set is finite and not larger.
LEMMA SmallerSet ==
    ASSUME NEW X, NEW Y, IsFiniteSet(Y), X \subseteq Y
    PROVE  /\ IsFiniteSet(X) /\ Cardinality(X) \in Nat /\ Cardinality(Y) \in Nat
           /\ Cardinality(X) <= Cardinality(Y)
BY FS_Subset, FS_CardinalityType

-----------------------------------------------------------------------------
(* Sums over finite sets and sorted sequences, which the library defines by   *)
(* recursion and by choice.                                                   *)

Pick(s) == CHOOSE x \in s : TRUE

\* The partial sums of g over the members of F, a set of sets.
PartialSums(F0, g) ==
    {it \in [F0 -> Int] :
        \A s \in F0 : it[s] = IF s = {} THEN 0 ELSE g[Pick(s)] + it[s \ {Pick(s)}]}

UpTo(X, n) == {s \in SUBSET X : Cardinality(s) <= n}

\* A set without one of its members is smaller.
LEMMA PickSmaller ==
    ASSUME NEW X, IsFiniteSet(X), NEW s \in SUBSET X, NEW x \in s
    PROVE  /\ IsFiniteSet(s) /\ Cardinality(s) \in Nat /\ Cardinality(s) > 0
           /\ Cardinality(s \ {x}) = Cardinality(s) - 1
           /\ s \ {x} \in SUBSET X
<1>1. IsFiniteSet(s) /\ Cardinality(s) \in Nat
  BY SmallerSet
<1>2. Cardinality(s) # 0
  BY <1>1, FS_EmptySet
<1>3. Cardinality(s \ {x}) = Cardinality(s) - 1
  BY <1>1, FS_RemoveElement
<1> QED BY <1>1, <1>2, <1>3

LEMMA PickIsMember ==
    ASSUME NEW s, s # {}
    PROVE  Pick(s) \in s
BY DEF Pick

\* The recursion of a sum has a solution.
LEMMA PartialSumsExist ==
    ASSUME NEW X, IsFiniteSet(X), NEW g \in [X -> Int]
    PROVE  PartialSums(SUBSET X, g) # {}
<1> DEFINE Bad == {n \in Nat : PartialSums(UpTo(X, n), g) = {}}
<1>1. ASSUME Bad # {} PROVE FALSE
  <2> HIDE DEF Bad
  <2>1. PICK n \in Bad : \A k \in Bad : n <= k
    <3>1. Bad \in SUBSET Nat
      BY DEF Bad
    <3> QED BY <1>1, <3>1, LeastExists
  <2>2. n \in Nat /\ PartialSums(UpTo(X, n), g) = {}
    BY DEF Bad
  <2>3. CASE n = 0
    <3>1. \A s \in UpTo(X, 0) : s = {}
      <4>1. ASSUME NEW s \in UpTo(X, 0)
            PROVE  s = {}
        <5>1. IsFiniteSet(s) /\ Cardinality(s) \in Nat /\ Cardinality(s) <= 0
          BY SmallerSet DEF UpTo
        <5>2. Cardinality(s) = 0
          BY <5>1
        <5> QED BY <5>1, <5>2, FS_EmptySet
      <4> QED BY <4>1
    <3>2. [s \in UpTo(X, 0) |-> 0] \in PartialSums(UpTo(X, 0), g)
      BY <3>1 DEF PartialSums
    <3> QED BY <2>2, <2>3, <3>2
  <2>4. CASE n > 0
    <3>1. n - 1 \in Nat /\ n - 1 \notin Bad
      BY <2>1, <2>2, <2>4
    <3>2. PICK it \in PartialSums(UpTo(X, n - 1), g) : TRUE
      BY <3>1 DEF Bad
    <3> DEFINE new == [s \in UpTo(X, n) |->
                         IF s = {} THEN 0 ELSE g[Pick(s)] + it[s \ {Pick(s)}]]
    <3>3. /\ it \in [UpTo(X, n - 1) -> Int]
          /\ \A s \in UpTo(X, n - 1) :
                it[s] = IF s = {} THEN 0 ELSE g[Pick(s)] + it[s \ {Pick(s)}]
      BY <3>2 DEF PartialSums
    <3>4. ASSUME NEW s \in UpTo(X, n), s # {}
          PROVE  s \ {Pick(s)} \in UpTo(X, n - 1) /\ Pick(s) \in X
      <4>1. Pick(s) \in s
        BY <3>4, PickIsMember
      <4>2. Cardinality(s \ {Pick(s)}) = Cardinality(s) - 1 /\ Cardinality(s) \in Nat
            /\ s \ {Pick(s)} \in SUBSET X
        BY <4>1, PickSmaller DEF UpTo
      <4>3. Cardinality(s) <= n
        BY DEF UpTo
      <4>4. Cardinality(s \ {Pick(s)}) <= n - 1
        BY <2>2, <4>2, <4>3
      <4> QED BY <4>1, <4>2, <4>4 DEF UpTo
    <3>5. \A s \in UpTo(X, n - 1) : s \in UpTo(X, n)
      <4>1. \A s \in SUBSET X : Cardinality(s) \in Nat
        BY SmallerSet
      <4> QED BY <2>2, <4>1 DEF UpTo
    <3>6. new \in [UpTo(X, n) -> Int]
      <4>1. ASSUME NEW s \in UpTo(X, n), s # {}
            PROVE  g[Pick(s)] + it[s \ {Pick(s)}] \in Int
        BY <3>3, <3>4, <4>1
      <4>2. \A s \in UpTo(X, n) :
               (IF s = {} THEN 0 ELSE g[Pick(s)] + it[s \ {Pick(s)}]) \in Int
        BY <4>1
      <4> QED BY <4>2
    <3>7. \A s \in UpTo(X, n - 1) : new[s] = it[s]
      BY <3>3, <3>5
    <3>8. \A s \in UpTo(X, n) :
             new[s] = IF s = {} THEN 0 ELSE g[Pick(s)] + new[s \ {Pick(s)}]
      <4>1. ASSUME NEW s \in UpTo(X, n), s # {}
            PROVE  new[s] = g[Pick(s)] + new[s \ {Pick(s)}]
        <5>1. new[s] = g[Pick(s)] + it[s \ {Pick(s)}]
          BY <4>1
        <5> HIDE DEF new
        <5> QED BY <3>4, <3>7, <4>1, <5>1
      <4> QED BY <4>1
    <3> HIDE DEF new
    <3>9. new \in PartialSums(UpTo(X, n), g)
      BY <3>6, <3>8 DEF PartialSums
    <3> QED BY <2>2, <3>9
  <2> QED BY <2>2, <2>3, <2>4
<1>2. Cardinality(X) \in Nat
  BY FS_CardinalityType
<1>3. PartialSums(UpTo(X, Cardinality(X)), g) # {}
  BY <1>1, <1>2
<1>4. UpTo(X, Cardinality(X)) = SUBSET X
  BY SmallerSet DEF UpTo
<1> QED BY <1>3, <1>4

\* Every solution of the recursion is a sum of integers.
LEMMA SolutionIsSum ==
    ASSUME NEW X, IsFiniteSet(X), NEW g \in [X -> Int], NEW any,
           any = [s \in SUBSET X |->
                    IF s = {} THEN 0 ELSE g[Pick(s)] + any[s \ {Pick(s)}]]
    PROVE  any \in PartialSums(SUBSET X, g)
<1>1. \A s \in SUBSET X : any[s] = IF s = {} THEN 0
                                   ELSE g[Pick(s)] + any[s \ {Pick(s)}]
  OBVIOUS
<1> DEFINE Bad == {n \in Nat : \E s \in SUBSET X : Cardinality(s) = n
                                                   /\ any[s] \notin Int}
<1>2. ASSUME Bad # {} PROVE FALSE
  <2> HIDE DEF Bad
  <2>1. PICK n \in Bad : \A k \in Bad : n <= k
    <3>1. Bad \in SUBSET Nat
      BY DEF Bad
    <3> QED BY <1>2, <3>1, LeastExists
  <2>2. PICK s \in SUBSET X : n \in Nat /\ Cardinality(s) = n /\ any[s] \notin Int
    BY DEF Bad
  <2>3. s # {}
    BY <1>1, <2>2
  <2>4. PICK x \in s : x = Pick(s)
    BY <2>3, PickIsMember
  <2>5. any[s] = g[x] + any[s \ {x}]
    BY <1>1, <2>3, <2>4
  <2>6. /\ Cardinality(s) > 0 /\ Cardinality(s \ {x}) = Cardinality(s) - 1
        /\ s \ {x} \in SUBSET X
    BY PickSmaller
  <2>7. Cardinality(s \ {x}) = n - 1 /\ n - 1 \in Nat /\ n - 1 \notin Bad
    BY <2>1, <2>2, <2>6
  <2>8. any[s \ {x}] \in Int
    BY <2>6, <2>7 DEF Bad
  <2>9. g[x] \in Int
    OBVIOUS
  <2> QED BY <2>2, <2>5, <2>8, <2>9
<1>3. \A s \in SUBSET X : any[s] \in Int
  <2>1. \A s \in SUBSET X : Cardinality(s) \in Nat
    BY SmallerSet
  <2> QED BY <1>2, <2>1
<1>4. any \in [SUBSET X -> Int]
  BY <1>3
<1> QED BY <1>1, <1>4 DEF PartialSums

\* Whatever member is taken out first, the sum is the same.
LEMMA SumRemoves ==
    ASSUME NEW X, IsFiniteSet(X), NEW g \in [X -> Int],
           NEW it \in PartialSums(SUBSET X, g), NEW s \in SUBSET X, NEW x \in s
    PROVE  it[s] = g[x] + it[s \ {x}]
<1>0. /\ it \in [SUBSET X -> Int]
      /\ \A t \in SUBSET X : it[t] = IF t = {} THEN 0
                                     ELSE g[Pick(t)] + it[t \ {Pick(t)}]
  BY DEF PartialSums
<1> DEFINE Bad == {n \in Nat : \E t \in SUBSET X : Cardinality(t) = n
                      /\ \E y \in t : it[t] # g[y] + it[t \ {y}]}
<1>1. ASSUME Bad # {} PROVE FALSE
  <2> HIDE DEF Bad
  <2>1. PICK n \in Bad : \A k \in Bad : n <= k
    <3>1. Bad \in SUBSET Nat
      BY DEF Bad
    <3> QED BY <1>1, <3>1, LeastExists
  <2>2. PICK t \in SUBSET X : n \in Nat /\ Cardinality(t) = n
           /\ \E y \in t : it[t] # g[y] + it[t \ {y}]
    BY DEF Bad
  <2>3. PICK y \in t : it[t] # g[y] + it[t \ {y}]
    BY <2>2
  <2>4. PICK c \in t : c = Pick(t)
    BY PickIsMember
  <2>5. it[t] = g[c] + it[t \ {c}]
    BY <1>0, <2>4
  <2>6. c # y
    BY <2>3, <2>5
  <2>7. /\ Cardinality(t \ {c}) = n - 1 /\ n - 1 \in Nat
        /\ Cardinality(t \ {y}) = n - 1
    BY <2>2, PickSmaller
  <2>8. n - 1 \notin Bad
    BY <2>1, <2>2
  <2>9. /\ t \ {c} \in SUBSET X /\ y \in t \ {c}
        /\ t \ {y} \in SUBSET X /\ c \in t \ {y}
    BY <2>6
  <2>10. /\ it[t \ {c}] = g[y] + it[(t \ {c}) \ {y}]
         /\ it[t \ {y}] = g[c] + it[(t \ {y}) \ {c}]
    BY <2>7, <2>8, <2>9 DEF Bad
  <2>11. PICK r \in SUBSET X : r = (t \ {c}) \ {y}
    OBVIOUS
  <2>12. r = (t \ {y}) \ {c}
    BY <2>11
  <2>13. it[t \ {c}] = g[y] + it[r] /\ it[t \ {y}] = g[c] + it[r]
    BY <2>10, <2>11, <2>12
  <2>14. g[y] \in Int /\ g[c] \in Int /\ it[r] \in Int
    BY <1>0
  <2> QED BY <2>3, <2>5, <2>13, <2>14
<1>2. Cardinality(s) \in Nat
  BY SmallerSet
<1>3. Cardinality(s) \notin Bad
  BY <1>1
<1> QED BY <1>2, <1>3

\* A sum of naturals grows with the set.
LEMMA SumGrows ==
    ASSUME NEW X, IsFiniteSet(X), NEW g \in [X -> Nat],
           NEW it \in PartialSums(SUBSET X, g), NEW t \in SUBSET X
    PROVE  \A s \in SUBSET X : t \subseteq s => it[t] <= it[s]
<1>0. it \in [SUBSET X -> Int] /\ g \in [X -> Int]
  BY DEF PartialSums
<1> DEFINE Bad == {n \in Nat : \E s \in SUBSET X : Cardinality(s) = n
                      /\ t \subseteq s /\ ~(it[t] <= it[s])}
<1>1. ASSUME Bad # {} PROVE FALSE
  <2> HIDE DEF Bad
  <2>1. PICK n \in Bad : \A k \in Bad : n <= k
    <3>1. Bad \in SUBSET Nat
      BY DEF Bad
    <3> QED BY <1>1, <3>1, LeastExists
  <2>2. PICK s \in SUBSET X : n \in Nat /\ Cardinality(s) = n
           /\ t \subseteq s /\ ~(it[t] <= it[s])
    BY DEF Bad
  <2>3. s # t
    BY <1>0, <2>2
  <2>4. PICK x \in s : x \notin t
    BY <2>2, <2>3
  <2>5. it[s] = g[x] + it[s \ {x}]
    BY <1>0, SumRemoves
  <2>11. /\ Cardinality(s) > 0 /\ Cardinality(s \ {x}) = Cardinality(s) - 1
         /\ s \ {x} \in SUBSET X
    BY PickSmaller
  <2>6. Cardinality(s \ {x}) = n - 1 /\ n - 1 \in Nat
    BY <2>2, <2>11
  <2>7. n - 1 \notin Bad
    BY <2>1, <2>2
  <2>8. t \subseteq s \ {x}
    BY <2>2, <2>4
  <2>9. it[t] <= it[s \ {x}]
    BY <2>6, <2>7, <2>8, <2>11 DEF Bad
  <2>10. g[x] \in Nat /\ it[t] \in Int /\ it[s \ {x}] \in Int
    BY <1>0
  <2> QED BY <2>2, <2>5, <2>9, <2>10
<1>2. \A s \in SUBSET X : Cardinality(s) \in Nat
  BY SmallerSet
<1> QED BY <1>1, <1>2

\* The arrangements of X in the order R, its members without repetition.
Arranged(X, R) ==
    {f \in [1 .. Cardinality(X) -> X] :
        \A i, j \in 1 .. Cardinality(X) :
            i < j => f[i] # f[j] /\ <<f[i], f[j]>> \in R}

\* A finite set can be arranged in any order that is total and transitive.
LEMMA ArrangedExist ==
    ASSUME NEW X, IsFiniteSet(X), NEW R,
           \A a, b \in X : <<a, b>> \in R \/ <<b, a>> \in R,
           \A a, b, c \in X : <<a, b>> \in R /\ <<b, c>> \in R => <<a, c>> \in R
    PROVE  Arranged(X, R) # {}
<1> DEFINE Bad == {n \in Nat : \E s \in SUBSET X : Cardinality(s) = n
                                                   /\ Arranged(s, R) = {}}
<1>1. ASSUME Bad # {} PROVE FALSE
  <2> HIDE DEF Bad
  <2>1. PICK n \in Bad : \A k \in Bad : n <= k
    <3>1. Bad \in SUBSET Nat
      BY DEF Bad
    <3> QED BY <1>1, <3>1, LeastExists
  <2>2. PICK s \in SUBSET X : /\ n \in Nat /\ Cardinality(s) = n
                              /\ Arranged(s, R) = {}
    BY DEF Bad
  <2>3. CASE s = {}
    <3>1. n = 0
      BY <2>2, <2>3, FS_EmptySet
    <3>2. [i \in 1 .. 0 |-> 0] \in Arranged(s, R)
      BY <2>2, <3>1 DEF Arranged
    <3> QED BY <2>2, <3>2
  <2>4. CASE s # {}
    <3>1. PICK x \in s : TRUE
      BY <2>4
    <3>2. /\ Cardinality(s) > 0 /\ Cardinality(s \ {x}) = Cardinality(s) - 1
          /\ s \ {x} \in SUBSET X
      BY PickSmaller
    <3>3. /\ n \in Nat /\ n >= 1 /\ n - 1 \in Nat /\ n - 1 \notin Bad
          /\ Cardinality(s \ {x}) = n - 1
      BY <2>1, <2>2, <3>2
    <3>4. PICK f \in Arranged(s \ {x}, R) : TRUE
      BY <3>2, <3>3 DEF Bad
    <3>5. /\ f \in [1 .. n - 1 -> s \ {x}]
          /\ \A i, j \in 1 .. n - 1 :
                i < j => f[i] # f[j] /\ <<f[i], f[j]>> \in R
      BY <3>3, <3>4 DEF Arranged
    <3> DEFINE After == {i \in 1 .. n - 1 : <<x, f[i]>> \in R} \cup {n}
    <3>6. PICK m \in After : \A k \in After : m <= k
      <4>1. After \in SUBSET Nat /\ After # {}
        BY <3>3
      <4> HIDE DEF After
      <4> QED BY <4>1, LeastExists
    <3>7. /\ m \in 1 .. n
          /\ \A i \in 1 .. n - 1 : i < m => <<x, f[i]>> \notin R
          /\ m # n => <<x, f[m]>> \in R
      <4>1. m \in 1 .. n
        BY <3>3
      <4>2. ASSUME NEW i \in 1 .. n - 1, i < m
            PROVE  <<x, f[i]>> \notin R
        <5>1. i \notin After
          BY <3>6, <4>1, <4>2
        <5> QED BY <5>1
      <4> QED BY <4>1, <4>2
    <3> HIDE DEF After
    <3>8. \A i \in 1 .. n - 1 : f[i] \in s /\ f[i] # x /\ f[i] \in X
      BY <3>5
    <3>9. \A i \in 1 .. n - 1 : /\ i < m => <<f[i], x>> \in R
                                /\ i >= m => <<x, f[i]>> \in R
      <4>1. ASSUME NEW i \in 1 .. n - 1, i < m
            PROVE  <<f[i], x>> \in R
        BY <3>1, <3>7, <3>8, <4>1
      <4>2. ASSUME NEW i \in 1 .. n - 1, i >= m
            PROVE  <<x, f[i]>> \in R
        <5>1. m # n /\ m \in 1 .. n - 1
          BY <3>3, <3>7, <4>2
        <5>2. CASE i = m
          BY <3>7, <5>1, <5>2
        <5>3. CASE i > m
          <6>1. <<x, f[m]>> \in R /\ <<f[m], f[i]>> \in R
            BY <3>5, <3>7, <5>1, <5>3
          <6> QED BY <3>1, <3>8, <5>1, <6>1
        <5> QED BY <3>3, <3>7, <4>2, <5>2, <5>3
      <4> QED BY <4>1, <4>2
    <3> DEFINE new == [i \in 1 .. n |-> IF i < m THEN f[i]
                                        ELSE IF i = m THEN x ELSE f[i - 1]]
    <3>10. \A i \in 1 .. n : /\ i < m => i \in 1 .. n - 1 /\ new[i] = f[i]
                             /\ i = m => new[i] = x
                             /\ i > m => i - 1 \in 1 .. n - 1 /\ new[i] = f[i - 1]
      BY <3>3, <3>7
    <3>11. new \in [1 .. n -> s]
      <4>1. \A i \in 1 .. n : new[i] \in s
        BY <3>1, <3>3, <3>7, <3>8, <3>10
      <4> QED BY <4>1
    <3> HIDE DEF new
    <3>12. ASSUME NEW i \in 1 .. n, NEW j \in 1 .. n, i < j
           PROVE  new[i] # new[j] /\ <<new[i], new[j]>> \in R
      <4>1. CASE j < m
        <5>1. /\ i \in 1 .. n - 1 /\ j \in 1 .. n - 1
              /\ new[i] = f[i] /\ new[j] = f[j]
          BY <3>7, <3>10, <3>12, <4>1
        <5> QED BY <3>5, <3>12, <5>1
      <4>2. CASE j = m
        <5>1. i \in 1 .. n - 1 /\ i < m /\ new[i] = f[i] /\ new[j] = x
          BY <3>7, <3>10, <3>12, <4>2
        <5> QED BY <3>8, <3>9, <5>1
      <4>3. CASE j > m /\ i < m
        <5>1. /\ i \in 1 .. n - 1 /\ j - 1 \in 1 .. n - 1 /\ i < j - 1
              /\ new[i] = f[i] /\ new[j] = f[j - 1]
          BY <3>7, <3>10, <3>12, <4>3
        <5> QED BY <3>5, <5>1
      <4>4. CASE i = m
        <5>1. /\ j - 1 \in 1 .. n - 1 /\ j - 1 >= m
              /\ new[i] = x /\ new[j] = f[j - 1]
          BY <3>7, <3>10, <3>12, <4>4
        <5> QED BY <3>8, <3>9, <5>1
      <4>5. CASE i > m
        <5>1. /\ i - 1 \in 1 .. n - 1 /\ j - 1 \in 1 .. n - 1 /\ i - 1 < j - 1
              /\ new[i] = f[i - 1] /\ new[j] = f[j - 1]
          BY <3>7, <3>10, <3>12, <4>5
        <5> QED BY <3>5, <5>1
      <4> QED BY <3>7, <4>1, <4>2, <4>3, <4>4, <4>5
    <3>13. new \in Arranged(s, R)
      BY <2>2, <3>11, <3>12 DEF Arranged
    <3> QED BY <2>2, <3>13
  <2> QED BY <2>3, <2>4
<1>2. Cardinality(X) \in Nat
  BY FS_CardinalityType
<1> QED BY <1>1, <1>2

\* An arrangement leaves out nobody.
LEMMA ArrangedCovers ==
    ASSUME NEW X, IsFiniteSet(X), NEW R, NEW f \in Arranged(X, R)
    PROVE  \A x \in X : \E i \in 1 .. Cardinality(X) : f[i] = x
<1> DEFINE n == Cardinality(X)
<1>1. n \in Nat
  BY FS_CardinalityType
<1>2. /\ f \in [1 .. n -> X]
      /\ \A i, j \in 1 .. n : i < j => f[i] # f[j]
  BY DEF Arranged
<1> HIDE DEF n
<1>3. f \in Injection(1 .. n, X)
  <2>1. \A i, j \in 1 .. n : f[i] = f[j] => i = j
    <3>1. ASSUME NEW i \in 1 .. n, NEW j \in 1 .. n, f[i] = f[j], i # j
          PROVE  FALSE
      <4>1. i < j \/ j < i
        BY <3>1
      <4> QED BY <1>2, <3>1, <4>1
    <3> QED BY <3>1
  <2> QED BY <1>2, <2>1 DEF Injection, IsInjective
<1>4. Cardinality(1 .. n) = n
  <2>1. Cardinality(1 .. n) = IF 1 > n THEN 0 ELSE n - 1 + 1
    BY <1>1, FS_Interval
  <2> QED BY <1>1, <2>1
<1>5. f \in Surjection(1 .. n, X)
  <2>1. Cardinality(1 .. n) = Cardinality(X) <=> f \in Surjection(1 .. n, X)
    BY <1>3, FS_Injection
  <2> QED BY <1>4, <2>1 DEF n
<1> QED BY <1>5 DEF Surjection, n
-----------------------------------------------------------------------------
(* The live event store. *)

\* What LiveEvents assumes of its constants.
LEMMA LiveBounds ==
    /\ Window \in Nat /\ Retention \in Nat /\ Horizon \in Nat
    /\ MaxDeliveries \in Nat /\ MaxRewatches \in Nat
    /\ Window < Retention /\ Retention < Horizon
    /\ None \notin Int /\ None \notin L!Event
BY PartsAssumption DEF L!LiveEventsAssumption

\* A handler holds nothing, or a transaction and events parsed from it.
InHandOK ==
    inhand \in [Handlers -> {None} \cup [tx : Txs, events : SUBSET L!Parsed]]

StoreTyped == L!TypeOK /\ InHandOK

\* The flags of an event or a row say what the transfers M did for w and token.
FlagsTrue(M, w, token, e) ==
    /\ e.buy => L!Paid(M, w) /\ \E x \in M : x.to = w /\ x.asset = token
    /\ e.sell => L!GotBack(M, w, token) /\ \E x \in M : x.from = w /\ x.asset = token
    /\ \E x \in M : x.asset = token /\ (x.to = w \/ x.from = w)

\* The transfers M have w buy, or sell, the token from somebody never watched.
Buys(M, w, token) ==
    /\ \E x \in M : x.to = w /\ x.asset = token /\ x.from \notin Addresses
    /\ L!Paid(M, w)
Sells(M, w, token) ==
    /\ \E x \in M : x.from = w /\ x.asset = token /\ x.to \notin Addresses
    /\ L!GotBack(M, w, token)

\* Neither half of what M did for w and token is missing from the events E.
FlagsWhole(M, w, token, E) ==
    /\ Buys(M, w, token) => \E e \in E : e.buy
    /\ Sells(M, w, token) => \E e \in E : e.sell

\* So it is with what handlers carry, and with what is stored.
CarriedTrue ==
    \A h \in Handlers : inhand[h] # None =>
        \A e \in inhand[h].events :
            FlagsTrue(transfers[inhand[h].tx], e.wallet, e.token, e)

StoredTrue ==
    \A t \in Txs, w \in Addresses, token \in Contracts :
        events[<<t, w, token>>] # None =>
            FlagsTrue(transfers[t], w, token, events[<<t, w, token>>])

\* Nothing is missing from what a handler carries for a wallet, nor from a row.
CarriedWhole ==
    \A h \in Handlers, w \in Addresses, token \in Contracts :
        inhand[h] # None /\ L!OfKey(inhand[h].events, w, token) # {} =>
            FlagsWhole(transfers[inhand[h].tx], w, token,
                       L!OfKey(inhand[h].events, w, token))

StoredWhole ==
    \A t \in Txs, w \in Addresses, token \in Contracts :
        events[<<t, w, token>>] # None =>
            FlagsWhole(transfers[t], w, token, {events[<<t, w, token>>]})

\* A row has the age its event has, and only rows past the retention are gone.
AgesAgree ==
    \A k \in L!Keys :
        /\ events[k] # None => stored[k] = events[k].age
        /\ events[k] = None /\ stored[k] # None => stored[k] > Retention

StoreInv ==
    StoreTyped /\ CarriedTrue /\ StoredTrue /\ CarriedWhole /\ StoredWhole
    /\ AgesAgree

-----------------------------------------------------------------------------
(* The operators. *)

\* Parsing yields events only, and every flag it sets is true of the transfers.
LEMMA ParseIsTrue ==
    ASSUME NEW M, NEW e \in L!Parse(M), watched \subseteq Addresses
    PROVE  e \in L!Parsed /\ FlagsTrue(M, e.wallet, e.token, e)
<1>1. \/ \E x \in M :
            /\ L!IsToken(x) /\ x.to \in watched
            /\ e = [wallet |-> x.to, token |-> x.asset,
                    buy |-> L!Paid(M, x.to), sell |-> FALSE]
      \/ \E x \in M :
            /\ L!IsToken(x) /\ x.from \in watched
            /\ e = [wallet |-> x.from, token |-> x.asset,
                    buy |-> FALSE, sell |-> L!GotBack(M, x.from, x.asset)]
  BY DEF L!Parse
<1>2. CASE \E x \in M : /\ L!IsToken(x) /\ x.to \in watched
                        /\ e = [wallet |-> x.to, token |-> x.asset,
                                buy |-> L!Paid(M, x.to), sell |-> FALSE]
  <2>1. PICK x \in M : /\ L!IsToken(x) /\ x.to \in watched
                       /\ e = [wallet |-> x.to, token |-> x.asset,
                               buy |-> L!Paid(M, x.to), sell |-> FALSE]
    BY <1>2
  <2>2. L!Paid(M, x.to) \in BOOLEAN
    BY DEF L!Paid
  <2>3. e \in L!Parsed
    BY <2>1, <2>2 DEF L!Parsed, L!IsToken
  <2>4. /\ e.wallet = x.to /\ e.token = x.asset
        /\ e.buy = L!Paid(M, x.to) /\ e.sell = FALSE
    BY <2>1
  <2> QED BY <2>1, <2>3, <2>4 DEF FlagsTrue
<1>3. CASE \E x \in M : /\ L!IsToken(x) /\ x.from \in watched
                        /\ e = [wallet |-> x.from, token |-> x.asset, buy |-> FALSE,
                                sell |-> L!GotBack(M, x.from, x.asset)]
  <2>1. PICK x \in M : /\ L!IsToken(x) /\ x.from \in watched
                       /\ e = [wallet |-> x.from, token |-> x.asset, buy |-> FALSE,
                               sell |-> L!GotBack(M, x.from, x.asset)]
    BY <1>3
  <2>2. L!GotBack(M, x.from, x.asset) \in BOOLEAN
    BY DEF L!GotBack
  <2>3. e \in L!Parsed
    BY <2>1, <2>2 DEF L!Parsed, L!IsToken
  <2>4. /\ e.wallet = x.from /\ e.token = x.asset
        /\ e.buy = FALSE /\ e.sell = L!GotBack(M, x.from, x.asset)
    BY <2>1
  <2> QED BY <2>1, <2>3, <2>4 DEF FlagsTrue
<1> QED BY <1>1, <1>2, <1>3

\* And it misses nothing of a wallet it has an event for, which is a watched one.
LEMMA ParseIsWhole ==
    ASSUME NEW M, NEW w \in Addresses, NEW token \in Contracts,
           watched \subseteq Addresses, L!OfKey(L!Parse(M), w, token) # {}
    PROVE  FlagsWhole(M, w, token, L!OfKey(L!Parse(M), w, token))
<1>1. w \in watched
  BY DEF L!OfKey, L!Parse
<1>2. ASSUME Buys(M, w, token)
      PROVE  \E e \in L!OfKey(L!Parse(M), w, token) : e.buy
  <2>1. PICK x \in M : x.to = w /\ x.asset = token /\ x.from \notin Addresses
    BY <1>2 DEF Buys
  <2> DEFINE e == [wallet |-> x.to, token |-> x.asset,
                   buy |-> L!Paid(M, x.to), sell |-> FALSE]
  <2>2. L!IsToken(x) /\ x.to \in watched /\ x.from \notin watched
    BY <1>1, <2>1 DEF L!IsToken
  <2>3. e \in L!Parse(M)
    BY <2>2 DEF L!Parse
  <2>4. e.wallet = w /\ e.token = token /\ e.buy = L!Paid(M, w)
    BY <2>1
  <2>5. L!Paid(M, w)
    BY <1>2 DEF Buys
  <2> HIDE DEF e
  <2> QED BY <2>3, <2>4, <2>5 DEF L!OfKey
<1>3. ASSUME Sells(M, w, token)
      PROVE  \E e \in L!OfKey(L!Parse(M), w, token) : e.sell
  <2>1. PICK x \in M : x.from = w /\ x.asset = token /\ x.to \notin Addresses
    BY <1>3 DEF Sells
  <2> DEFINE e == [wallet |-> x.from, token |-> x.asset, buy |-> FALSE,
                   sell |-> L!GotBack(M, x.from, x.asset)]
  <2>2. L!IsToken(x) /\ x.from \in watched /\ x.to \notin watched
    BY <1>1, <2>1 DEF L!IsToken
  <2>3. e \in L!Parse(M)
    BY <2>2 DEF L!Parse
  <2>4. e.wallet = w /\ e.token = token /\ e.sell = L!GotBack(M, w, token)
    BY <2>1
  <2>5. L!GotBack(M, w, token)
    BY <1>3 DEF Sells
  <2> HIDE DEF e
  <2> QED BY <2>3, <2>4, <2>5 DEF L!OfKey
<1> QED BY <1>2, <1>3 DEF FlagsWhole

\* The upsert keeps a row a row; it sets a flag only if the row or an event
\* has it, loses none, and leaves the age of a row that was there.
LEMMA UpsertKeeps ==
    ASSUME NEW old \in L!Event \cup {None}, NEW E \in SUBSET L!Parsed
    PROVE  /\ L!Upserted(old, E) \in L!Event
           /\ L!Upserted(old, E).buy =>
                 (old # None /\ old.buy) \/ \E e \in E : e.buy
           /\ L!Upserted(old, E).sell =>
                 (old # None /\ old.sell) \/ \E e \in E : e.sell
           /\ old = None => L!Upserted(old, E).age = 0
           /\ old # None => /\ L!Upserted(old, E).age = old.age
                            /\ old.buy => L!Upserted(old, E).buy
                            /\ old.sell => L!Upserted(old, E).sell
<1>1. 0 \in 0 .. Horizon
  BY LiveBounds
<1> QED BY <1>1 DEF L!Upserted, L!Event

\* And it takes over every flag of the events.
LEMMA UpsertGains ==
    ASSUME NEW old \in L!Event \cup {None}, NEW E, NEW e \in E
    PROVE  /\ e.buy => L!Upserted(old, E).buy
           /\ e.sell => L!Upserted(old, E).sell
BY DEF L!Upserted, L!Event

-----------------------------------------------------------------------------
(* Types. *)

LEMMA StoreInitTyped == L!Init => StoreTyped
BY LiveBounds DEF L!Init, StoreTyped, L!TypeOK, InHandOK

\* Growing older, an age stays within the bound and does not shrink.
LEMMA OlderAge ==
    ASSUME NEW age \in 0 .. Horizon
    PROVE  /\ L!Older(age) \in 0 .. Horizon
           /\ L!Older(age) >= age
           /\ age > Retention => L!Older(age) > Retention
BY LiveBounds DEF L!Older, L!Lesser

LEMMA StoreNextTyped == StoreTyped /\ [L!Next]_L!vars => StoreTyped'
<1> SUFFICES ASSUME StoreTyped, [L!Next]_L!vars PROVE StoreTyped'
  OBVIOUS
<1> USE DEF StoreTyped, L!TypeOK, InHandOK
<1>1. ASSUME NEW h \in Handlers, NEW t \in Txs, L!Receive(h, t)  PROVE StoreTyped'
  <2>1. L!Parse(transfers[t]) \subseteq L!Parsed
    BY ParseIsTrue
  <2>2. deliveries' \in 0 .. MaxDeliveries
    BY <1>1, LiveBounds DEF L!Receive
  <2> QED BY <1>1, <2>1, <2>2 DEF L!Receive
<1>2. ASSUME NEW h \in Handlers, L!Store(h)  PROVE StoreTyped'
  <2> DEFINE Of(k) == L!OfKey(inhand[h].events, k[2], k[3])
             touched == {k \in L!Keys : k[1] = inhand[h].tx /\ Of(k) # {}}
  <2>1. \A k \in L!Keys : Of(k) \in SUBSET L!Parsed
    BY <1>2 DEF L!Store, L!OfKey
  <2>2. \A k \in L!Keys : L!Upserted(events[k], Of(k)) \in L!Event
    BY <2>1, UpsertKeeps
  <2>3. events' = [k \in L!Keys |-> IF k \in touched
                                  THEN L!Upserted(events[k], Of(k)) ELSE events[k]]
    BY <1>2 DEF L!Store
  <2> HIDE DEF Of, touched
  <2>4. events' \in [L!Keys -> L!Event \cup {None}]
    BY <2>2, <2>3
  <2>5. stored' \in [L!Keys -> 0 .. Horizon \cup {None}]
    BY <1>2, LiveBounds DEF L!Store
  <2>6. inhand[h] \in [tx : Txs, events : SUBSET L!Parsed]
    BY <1>2 DEF L!Store
  <2>7. [inhand[h] EXCEPT !.events = {}] \in [tx : Txs, events : SUBSET L!Parsed]
    BY <2>6
  <2>8. inhand' = [inhand EXCEPT ![h] = [inhand[h] EXCEPT !.events = {}]]
    BY <1>2 DEF L!Store
  <2>9. InHandOK'
    BY <2>7, <2>8
  <2>10. UNCHANGED <<transfers, watched, airdrops, deliveries, rewatches>>
    BY <1>2 DEF L!Store
  <2> QED BY <2>4, <2>5, <2>9, <2>10
<1>3. ASSUME NEW h \in Handlers, L!Prune(h) \/ L!Abort(h)  PROVE StoreTyped'
  BY <1>3 DEF L!Prune, L!Abort
<1>4. ASSUME NEW w \in Addresses, L!Rewatch(w)  PROVE StoreTyped'
  BY <1>4, LiveBounds DEF L!Rewatch
<1>5. CASE L!Tick
  BY <1>5, OlderAge DEF L!Tick, L!Event
<1>6. CASE UNCHANGED L!vars
  BY <1>6 DEF L!vars
<1> QED BY <1>1, <1>2, <1>3, <1>4, <1>5, <1>6 DEF L!Next

-----------------------------------------------------------------------------
(* What is stored is true. *)

\* A stored row's flags after a write come from the row that was there, from
\* the events carried for it, or from both.
LEMMA StoreIsTrue ==
    ASSUME StoreTyped, CarriedTrue, StoredTrue, NEW h \in Handlers, L!Store(h)
    PROVE  StoredTrue'
<1> DEFINE Of(k) == L!OfKey(inhand[h].events, k[2], k[3])
           touched == {k \in L!Keys : k[1] = inhand[h].tx /\ Of(k) # {}}
<1> SUFFICES ASSUME NEW t \in Txs, NEW w \in Addresses, NEW token \in Contracts,
                    events'[<<t, w, token>>] # None
             PROVE  FlagsTrue(transfers[t], w, token, events'[<<t, w, token>>])
  BY DEF StoredTrue, L!Store
<1> DEFINE k == <<t, w, token>>
           E == Of(k)
<1>1. /\ k \in L!Keys
      /\ events'[k] = IF k \in touched THEN L!Upserted(events[k], E) ELSE events[k]
  BY DEF L!Store, L!Keys
<1>2. FlagsTrue(transfers[t], w, token, events[k]) \/ events[k] = None
  BY DEF StoredTrue
<1>3. CASE k \notin touched
  BY <1>1, <1>2, <1>3
<1>4. CASE k \in touched
  <2>1. E \in SUBSET L!Parsed /\ events[k] \in L!Event \cup {None}
    BY <1>1 DEF L!Store, L!OfKey, StoreTyped, L!TypeOK, InHandOK
  <2>2. \A e \in E : FlagsTrue(transfers[t], w, token, e)
    BY <1>4 DEF L!Store, L!OfKey, CarriedTrue
  <2>3. events'[k] = L!Upserted(events[k], E)
    BY <1>1, <1>4
  <2> HIDE DEF E, k
  <2>4. FlagsTrue(transfers[t], w, token, events'[k])
    <3>1. E # {}
      BY <1>4 DEF E, k
    <3> QED BY <1>2, <2>1, <2>2, <2>3, <3>1, UpsertKeeps DEF FlagsTrue
  <2> QED BY <2>4 DEF k
<1> QED BY <1>3, <1>4

\* And they lack nothing the row or the events had.
LEMMA StoreIsWhole ==
    ASSUME StoreTyped, CarriedWhole, StoredWhole, NEW h \in Handlers, L!Store(h)
    PROVE  StoredWhole'
<1> DEFINE Of(k) == L!OfKey(inhand[h].events, k[2], k[3])
           touched == {k \in L!Keys : k[1] = inhand[h].tx /\ Of(k) # {}}
<1> SUFFICES ASSUME NEW t \in Txs, NEW w \in Addresses, NEW token \in Contracts,
                    events'[<<t, w, token>>] # None
             PROVE  FlagsWhole(transfers[t], w, token, {events'[<<t, w, token>>]})
  BY DEF StoredWhole, L!Store
<1> DEFINE k == <<t, w, token>>
           E == Of(k)
<1>1. /\ k \in L!Keys
      /\ events'[k] = IF k \in touched THEN L!Upserted(events[k], E) ELSE events[k]
  BY DEF L!Store, L!Keys
<1>2. FlagsWhole(transfers[t], w, token, {events[k]}) \/ events[k] = None
  BY DEF StoredWhole
<1>3. CASE k \notin touched
  BY <1>1, <1>2, <1>3
<1>4. CASE k \in touched
  <2>1. E \in SUBSET L!Parsed /\ events[k] \in L!Event \cup {None}
    BY <1>1 DEF L!Store, L!OfKey, StoreTyped, L!TypeOK, InHandOK
  <2>2. FlagsWhole(transfers[t], w, token, E)
    BY <1>4 DEF L!Store, CarriedWhole
  <2>3. events'[k] = L!Upserted(events[k], E)
    BY <1>1, <1>4
  <2> HIDE DEF E, k
  <2>4. FlagsWhole(transfers[t], w, token, {events'[k]})
    <3>1. ASSUME NEW e \in E
          PROVE  /\ e.buy => L!Upserted(events[k], E).buy
                 /\ e.sell => L!Upserted(events[k], E).sell
      BY <2>1, UpsertGains
    <3> QED BY <2>2, <2>3, <3>1 DEF FlagsWhole
  <2> QED BY <2>4 DEF k
<1> QED BY <1>3, <1>4

\* Every step keeps what is carried and what is stored true.
LEMMA StoreNextTrue ==
    ASSUME StoreTyped, CarriedTrue, StoredTrue, [L!Next]_L!vars
    PROVE  CarriedTrue' /\ StoredTrue'
<1> USE DEF StoreTyped, L!TypeOK, InHandOK
<1>1. ASSUME NEW h \in Handlers, NEW t \in Txs, L!Receive(h, t)
      PROVE  CarriedTrue' /\ StoredTrue'
  <2>1. \A e \in L!Parse(transfers[t]) : FlagsTrue(transfers[t], e.wallet, e.token, e)
    BY ParseIsTrue
  <2>2. CarriedTrue'
    BY <1>1, <2>1 DEF L!Receive, CarriedTrue
  <2> QED BY <1>1, <2>2 DEF L!Receive, StoredTrue
<1>2. ASSUME NEW h \in Handlers, L!Store(h)
      PROVE  CarriedTrue' /\ StoredTrue'
  <2>1. /\ transfers' = transfers
        /\ inhand' = [inhand EXCEPT ![h] = [inhand[h] EXCEPT !.events = {}]]
        /\ inhand[h] \in [tx : Txs, events : SUBSET L!Parsed]
    BY <1>2 DEF L!Store
  <2>2. CarriedTrue'
    BY <2>1 DEF CarriedTrue
  <2> QED BY <1>2, <2>2, StoreIsTrue
<1>3. ASSUME NEW h \in Handlers, L!Prune(h)
      PROVE  CarriedTrue' /\ StoredTrue'
  <2>1. CarriedTrue'
    BY <1>3 DEF L!Prune, CarriedTrue
  <2>2. ASSUME NEW k \in L!Keys, events'[k] # None
        PROVE  events'[k] = events[k]
    BY <1>3, <2>2 DEF L!Prune
  <2>3. StoredTrue'
    BY <1>3, <2>2 DEF L!Prune, StoredTrue, L!Keys
  <2> QED BY <2>1, <2>3
<1>4. ASSUME NEW h \in Handlers, L!Abort(h)
      PROVE  CarriedTrue' /\ StoredTrue'
  BY <1>4 DEF L!Abort, CarriedTrue, StoredTrue
<1>5. ASSUME NEW w \in Addresses, L!Rewatch(w)
      PROVE  CarriedTrue' /\ StoredTrue'
  BY <1>5 DEF L!Rewatch, CarriedTrue, StoredTrue
<1>6. CASE L!Tick
  <2>1. CarriedTrue'
    BY <1>6 DEF L!Tick, CarriedTrue
  <2>2. ASSUME NEW k \in L!Keys, events'[k] # None
        PROVE  /\ events[k] # None
               /\ events'[k].buy = events[k].buy /\ events'[k].sell = events[k].sell
    BY <1>6, <2>2 DEF L!Tick, L!Event
  <2>3. StoredTrue'
    <3> SUFFICES ASSUME NEW t \in Txs, NEW w \in Addresses, NEW token \in Contracts,
                        events'[<<t, w, token>>] # None
                 PROVE  FlagsTrue(transfers[t], w, token, events'[<<t, w, token>>])
      BY <1>6 DEF L!Tick, StoredTrue
    <3> DEFINE k == <<t, w, token>>
    <3>1. k \in L!Keys
      BY DEF L!Keys
    <3>2. FlagsTrue(transfers[t], w, token, events[k])
      BY <2>2, <3>1 DEF StoredTrue
    <3> QED BY <2>2, <3>1, <3>2 DEF FlagsTrue
  <2> QED BY <2>1, <2>3
<1>7. CASE UNCHANGED L!vars
  BY <1>7 DEF L!vars, CarriedTrue, StoredTrue
<1> QED BY <1>1, <1>2, <1>3, <1>4, <1>5, <1>6, <1>7 DEF L!Next

\* Nor does any step lose half of a trade.
LEMMA StoreNextWhole ==
    ASSUME StoreTyped, CarriedWhole, StoredWhole, [L!Next]_L!vars
    PROVE  CarriedWhole' /\ StoredWhole'
<1> USE DEF StoreTyped, L!TypeOK, InHandOK
<1>1. ASSUME NEW h \in Handlers, NEW t \in Txs, L!Receive(h, t)
      PROVE  CarriedWhole' /\ StoredWhole'
  <2>1. /\ inhand' = [inhand EXCEPT ![h] =
                         [tx |-> t, events |-> L!Parse(transfers[t])]]
        /\ UNCHANGED <<transfers, events>>
    BY <1>1 DEF L!Receive
  <2>2. ASSUME NEW g \in Handlers, NEW w \in Addresses, NEW token \in Contracts,
               inhand'[g] # None, L!OfKey(inhand'[g].events, w, token) # {}
        PROVE  FlagsWhole(transfers[inhand'[g].tx], w, token,
                          L!OfKey(inhand'[g].events, w, token))
    <3>1. CASE g = h
      <4>1. inhand'[g].tx = t /\ inhand'[g].events = L!Parse(transfers[t])
        BY <2>1, <3>1
      <4> QED BY <2>2, <4>1, ParseIsWhole
    <3>2. CASE g # h
      BY <2>1, <2>2, <3>2 DEF CarriedWhole
    <3> QED BY <3>1, <3>2
  <2> QED BY <2>1, <2>2 DEF CarriedWhole, StoredWhole
<1>2. ASSUME NEW h \in Handlers, L!Store(h)
      PROVE  CarriedWhole' /\ StoredWhole'
  <2>1. /\ transfers' = transfers
        /\ inhand' = [inhand EXCEPT ![h] = [inhand[h] EXCEPT !.events = {}]]
        /\ inhand[h] \in [tx : Txs, events : SUBSET L!Parsed]
    BY <1>2 DEF L!Store
  <2>2. \A w, token : L!OfKey({}, w, token) = {}
    BY DEF L!OfKey
  <2>3. CarriedWhole'
    BY <2>1, <2>2 DEF CarriedWhole
  <2> QED BY <1>2, <2>3, StoreIsWhole
<1>3. ASSUME NEW h \in Handlers, L!Prune(h)
      PROVE  CarriedWhole' /\ StoredWhole'
  <2>1. CarriedWhole'
    BY <1>3 DEF L!Prune, CarriedWhole
  <2>2. ASSUME NEW k \in L!Keys, events'[k] # None
        PROVE  events'[k] = events[k]
    BY <1>3, <2>2 DEF L!Prune
  <2>3. StoredWhole'
    BY <1>3, <2>2 DEF L!Prune, StoredWhole, L!Keys
  <2> QED BY <2>1, <2>3
<1>4. ASSUME NEW h \in Handlers, L!Abort(h)
      PROVE  CarriedWhole' /\ StoredWhole'
  BY <1>4 DEF L!Abort, CarriedWhole, StoredWhole
<1>5. ASSUME NEW w \in Addresses, L!Rewatch(w)
      PROVE  CarriedWhole' /\ StoredWhole'
  BY <1>5 DEF L!Rewatch, CarriedWhole, StoredWhole
<1>6. CASE L!Tick
  <2>1. CarriedWhole'
    BY <1>6 DEF L!Tick, CarriedWhole
  <2>2. ASSUME NEW k \in L!Keys, events'[k] # None
        PROVE  /\ events[k] # None
               /\ events'[k].buy = events[k].buy /\ events'[k].sell = events[k].sell
    BY <1>6, <2>2 DEF L!Tick, L!Event
  <2>3. ASSUME NEW t \in Txs, NEW w \in Addresses, NEW token \in Contracts,
               events'[<<t, w, token>>] # None
        PROVE  FlagsWhole(transfers[t], w, token, {events'[<<t, w, token>>]})
    <3> DEFINE k == <<t, w, token>>
    <3>1. k \in L!Keys
      BY DEF L!Keys
    <3>2. FlagsWhole(transfers[t], w, token, {events[k]})
      BY <2>2, <2>3, <3>1 DEF StoredWhole
    <3> QED BY <2>2, <2>3, <3>1, <3>2 DEF FlagsWhole
  <2> QED BY <1>6, <2>1, <2>3 DEF L!Tick, StoredWhole
<1>7. CASE UNCHANGED L!vars
  BY <1>7 DEF L!vars, CarriedWhole, StoredWhole
<1> QED BY <1>1, <1>2, <1>3, <1>4, <1>5, <1>6, <1>7 DEF L!Next

-----------------------------------------------------------------------------
(* Ages. *)

\* Rows and events age together, and pruning takes only what is stale.
LEMMA StoreNextAges ==
    ASSUME StoreTyped, AgesAgree, [L!Next]_L!vars
    PROVE  AgesAgree'
<1> USE DEF StoreTyped, L!TypeOK
<1> SUFFICES ASSUME NEW k \in L!Keys
             PROVE  /\ events'[k] # None => stored'[k] = events'[k].age
                    /\ events'[k] = None /\ stored'[k] # None
                          => stored'[k] > Retention
  BY DEF AgesAgree
<1>0. /\ events[k] # None => stored[k] = events[k].age
      /\ events[k] = None /\ stored[k] # None => stored[k] > Retention
      /\ events[k] \in L!Event \cup {None}
      /\ stored[k] \in 0 .. Horizon \cup {None}
  BY DEF AgesAgree
<1>1. CASE UNCHANGED <<events, stored>>
  BY <1>0, <1>1
<1>2. ASSUME NEW h \in Handlers, L!Store(h)
      PROVE  /\ events'[k] # None => stored'[k] = events'[k].age
             /\ events'[k] = None /\ stored'[k] # None => stored'[k] > Retention
  <2> DEFINE E == L!OfKey(inhand[h].events, k[2], k[3])
             touched == k[1] = inhand[h].tx /\ E # {}
  <2>1. /\ events'[k] = IF touched THEN L!Upserted(events[k], E) ELSE events[k]
        /\ stored'[k] = IF touched /\ events[k] = None THEN 0 ELSE stored[k]
    BY <1>2 DEF L!Store
  <2>2. E \in SUBSET L!Parsed
    BY <1>2 DEF L!Store, L!OfKey, InHandOK
  <2> HIDE DEF E, touched
  <2>3. CASE touched /\ events[k] = None
    BY <1>0, <2>1, <2>2, <2>3, UpsertKeeps, LiveBounds
  <2>4. CASE touched /\ events[k] # None
    BY <1>0, <2>1, <2>2, <2>4, UpsertKeeps, LiveBounds
  <2>5. CASE ~touched
    BY <1>0, <2>1, <2>5
  <2> QED BY <2>3, <2>4, <2>5
<1>3. ASSUME NEW h \in Handlers, L!Prune(h)
      PROVE  /\ events'[k] # None => stored'[k] = events'[k].age
             /\ events'[k] = None /\ stored'[k] # None => stored'[k] > Retention
  BY <1>0, <1>3 DEF L!Prune, L!Stale
<1>4. CASE L!Tick
  <2>1. CASE events[k] = None
    BY <1>0, <1>4, <2>1, OlderAge DEF L!Tick
  <2>2. CASE events[k] # None
    <3>1. stored[k] \in 0 .. Horizon /\ stored[k] # None
      BY <1>0, <2>2, LiveBounds DEF L!Event
    <3>2. /\ stored'[k] = L!Older(stored[k])
          /\ events'[k] = [events[k] EXCEPT !.age = L!Older(@)]
      BY <1>4, <2>2, <3>1 DEF L!Tick
    <3>3. events'[k].age = L!Older(stored[k]) /\ events'[k] \in L!Event
      BY <1>0, <2>2, <3>1, <3>2, OlderAge DEF L!Event
    <3> QED BY <3>2, <3>3, LiveBounds
  <2> QED BY <2>1, <2>2
<1> QED
  BY <1>1, <1>2, <1>3, <1>4 DEF L!Next, L!Receive, L!Abort, L!Rewatch, L!vars

-----------------------------------------------------------------------------
(* The theorems. *)

LEMMA StoreInitInv == L!Init => StoreInv
BY StoreInitTyped DEF L!Init, StoreInv, CarriedTrue, StoredTrue, CarriedWhole,
   StoredWhole, AgesAgree, L!Keys

LEMMA StoreNextInv == StoreInv /\ [L!Next]_L!vars => StoreInv'
BY StoreNextTyped, StoreNextTrue, StoreNextWhole, StoreNextAges DEF StoreInv

\* What is counted really happened, and what was seen in the window is counted.
LEMMA StoreInvCounts == StoreInv => L!CountsAreExact
<1> SUFFICES ASSUME StoreInv PROVE L!CountsAreExact
  OBVIOUS
<1> USE DEF StoreInv, StoreTyped, L!TypeOK
<1>1. L!CountedPaid
  <2> SUFFICES ASSUME ~airdrops, NEW token \in Contracts, NEW w \in L!Counted(token)
               PROVE  \E t \in Txs :
                         /\ L!InWindow(t, w, token) /\ L!Arrived(t, w, token)
                         /\ \E x \in transfers[t] : x.from = w
    BY DEF L!CountedPaid
  <2>1. PICK t \in Txs : L!InWindow(t, w, token) /\ events[<<t, w, token>>].buy
    BY DEF L!Counted
  <2>2. FlagsTrue(transfers[t], w, token, events[<<t, w, token>>])
    BY <2>1 DEF L!Counted, L!InWindow, StoredTrue
  <2> QED BY <2>1, <2>2 DEF FlagsTrue, L!Arrived, L!Paid
<1>2. L!SellersSold
  BY DEF L!SellersSold, StoredTrue, FlagsTrue, L!Left, L!GotBack
<1>3. L!CountedMoved
  <2> SUFFICES ASSUME NEW token \in Contracts, NEW w \in L!Counted(token)
               PROVE  \E t \in Txs :
                         /\ L!InWindow(t, w, token)
                         /\ L!Arrived(t, w, token) \/ L!Left(t, w, token)
    BY DEF L!CountedMoved
  <2>1. PICK t \in Txs : L!InWindow(t, w, token)
    BY DEF L!Counted
  <2>2. FlagsTrue(transfers[t], w, token, events[<<t, w, token>>])
    BY <2>1 DEF L!Counted, L!InWindow, StoredTrue
  <2> QED BY <2>1, <2>2 DEF FlagsTrue, L!Arrived, L!Left
<1>4. L!WindowKept
  <2> SUFFICES ASSUME NEW t \in Txs, NEW w \in Addresses, NEW token \in Contracts,
                      stored[<<t, w, token>>] # None,
                      stored[<<t, w, token>>] <= Window
               PROVE  LET event == events[<<t, w, token>>]
                      IN /\ event # None
                         /\ w \in watched /\ (airdrops \/ L!Bought(t, w, token))
                               => w \in L!Counted(token)
                         /\ L!Sold(t, w, token) => event.sell
    BY DEF L!WindowKept
  <2> DEFINE k == <<t, w, token>>
  <2>1. k \in L!Keys
    BY DEF L!Keys
  <2>2. events[k] # None /\ events[k].age <= Window
    BY <2>1, LiveBounds DEF AgesAgree
  <2>3. FlagsWhole(transfers[t], w, token, {events[k]})
    BY <2>2 DEF StoredWhole
  <2>4. L!Bought(t, w, token) => events[k].buy
    BY <2>3 DEF FlagsWhole, Buys, L!Bought
  <2>5. L!Sold(t, w, token) => events[k].sell
    BY <2>3 DEF FlagsWhole, Sells, L!Sold
  <2> QED BY <2>2, <2>4, <2>5 DEF L!Counted, L!InWindow
<1> QED BY <1>1, <1>2, <1>3, <1>4 DEF L!CountsAreExact

\* One step never makes a stored row younger nor takes a flag from it.
LEMMA StoreStepAges ==
    ASSUME StoreTyped, [L!Next]_L!vars, NEW k \in L!Keys,
           events[k] # None, events'[k] # None
    PROVE  /\ events'[k].age >= events[k].age
           /\ events[k].buy => events'[k].buy
           /\ events[k].sell => events'[k].sell
<1> USE DEF StoreTyped, L!TypeOK
<1>0. events[k] \in L!Event /\ events[k].age \in Int
  BY DEF L!Event
<1>1. CASE events'[k] = events[k]
  BY <1>0, <1>1
<1>2. ASSUME NEW h \in Handlers, L!Store(h)
      PROVE  /\ events'[k].age >= events[k].age
             /\ events[k].buy => events'[k].buy
             /\ events[k].sell => events'[k].sell
  <2> DEFINE E == L!OfKey(inhand[h].events, k[2], k[3])
  <2>1. E \in SUBSET L!Parsed
    BY <1>2 DEF L!Store, L!OfKey, InHandOK
  <2>2. events'[k] = L!Upserted(events[k], E) \/ events'[k] = events[k]
    BY <1>2 DEF L!Store
  <2> HIDE DEF E
  <2> QED BY <1>0, <1>1, <2>1, <2>2, UpsertKeeps
<1>3. CASE L!Tick
  BY <1>0, <1>3, OlderAge DEF L!Tick, L!Event
<1> QED
  BY <1>1, <1>2, <1>3 DEF L!Next, L!Receive, L!Prune, L!Abort, L!Rewatch, L!vars
-----------------------------------------------------------------------------
(* The watchlists and the derived one. *)

\* What Cohorts assumes of its constants.
LEMMA CohortBounds ==
    /\ MinCohorts \in Nat /\ MinCohorts >= 2 /\ WalletCap \in Nat /\ MaxId \in Nat
    /\ MaxRequests \in Nat /\ MaxFaults \in Nat
    /\ None \notin Int /\ None \notin C!Row
    /\ C!Ids = 1 .. MaxId
BY PartsAssumption DEF C!CohortsAssumption, C!Row, C!Ids

\* The instance counts as everybody does.
LEMMA CohortCards ==
    ASSUME NEW X
    PROVE  C!Cardinality(X) = Cardinality(X)
BY DEF C!Cardinality, Cardinality

LEMMA CohortFinite ==
    ASSUME NEW X
    PROVE  C!IsFiniteSet(X) <=> IsFiniteSet(X)
BY DEF C!IsFiniteSet, IsFiniteSet

LEMMA FiniteWallets == IsFiniteSet(Wallets)
BY PartsAssumption, CohortFinite DEF C!CohortsAssumption

\* Types, and a handler past the reading knows its watchlist, which exists or
\* existed: its id is not given again.
CohortTyped ==
    /\ C!TypeOK
    /\ \A h \in Handlers : pc[h] \in {"adding", "removing", "replacing"} =>
          target[h] \in C!Ids /\ target[h] < nextId

\* Until two rebuilds overlap, the one that creates found no derived watchlist,
\* and there is one at most.
OneDerived ==
    ~lapped =>
        /\ \A h, o \in Handlers : C!Rebuilding(h) /\ C!Rebuilding(o) => h = o
        /\ \A h \in Handlers : pc[h] = "creating" => C!Derived = {}
        /\ \A i, j \in C!Derived : i = j

\* A rebuild never writes a watchlist of the user's.
ReplacesDerived ==
    \A h \in Handlers : pc[h] = "replacing" =>
        rows[target[h]] = None \/ rows[target[h]].derived

\* Until two PATCHes overlap or something fails, what the PATCH under way is
\* going to leave is within the cap, and so is every other watchlist.
Within(ws) == Cardinality(ws) <= WalletCap

CapKept ==
    ~crossed /\ faults = 0 =>
        /\ \A h, o \in Handlers : C!Patching(h) /\ C!Patching(o) => h = o
        /\ \A h \in Handlers : target[h] \in C!Real =>
              /\ pc[h] = "adding" =>
                    Within((rows[target[h]].wallets \cup wallets[h]) \ removals[h])
              /\ pc[h] = "removing" =>
                    Within(rows[target[h]].wallets \ removals[h])
        /\ \A id \in C!Real :
              (\A h \in Handlers : ~(C!Patching(h) /\ target[h] = id))
                  => Within(rows[id].wallets)

\* While nobody wrote since it read, a rebuild has the repeat wallets, and what
\* it found is still so.
AloneKnows ==
    \A h \in Handlers :
        alone[h] /\ pc[h] \in {"finding", "creating", "replacing"} =>
            /\ wallets[h] = C!RepeatWallets
            /\ pc[h] = "creating" => C!Derived = {}
            /\ pc[h] = "replacing" => target[h] \in C!Derived

CohortInv ==
    CohortTyped /\ OneDerived /\ ReplacesDerived /\ CapKept /\ AloneKnows

LEMMA CohortInit == C!Init => CohortInv
<1> SUFFICES ASSUME C!Init PROVE CohortInv
  OBVIOUS
<1> USE CohortBounds
<1>1. CohortTyped
  <2>1. /\ rows \in [C!Ids -> C!Row \cup {None}] /\ nextId \in 1 .. MaxId + 1
        /\ \A id \in C!Ids : rows[id] = None
    BY DEF C!Init
  <2>2. /\ target \in [Handlers -> C!Ids \cup {None}]
        /\ wallets \in [Handlers -> SUBSET Wallets]
        /\ removals \in [Handlers -> SUBSET Wallets]
        /\ alone \in [Handlers -> BOOLEAN]
    BY DEF C!Init
  <2>3. requests \in 0 .. MaxRequests /\ faults \in 0 .. MaxFaults
    BY SMT DEF C!Init
  <2>5. lapped \in BOOLEAN /\ crossed \in BOOLEAN
    BY Zenon DEF C!Init
  <2>4. /\ pc \in [Handlers -> {"idle", "adding", "removing", "reading",
                                "finding", "creating", "replacing"}]
        /\ \A h \in Handlers : pc[h] = "idle"
    BY DEF C!Init
  <2> QED BY <2>1, <2>2, <2>3, <2>4, <2>5 DEF CohortTyped, C!TypeOK
<1>2. C!Derived = {} /\ C!Real = {}
  BY DEF C!Init, C!Derived, C!Real, C!Exists
<1> QED
  BY <1>1, <1>2
     DEF C!Init, CohortInv, OneDerived, ReplacesDerived, CapKept, AloneKnows,
         C!Rebuilding, C!Patching

\* find_derived returns a derived watchlist, if there is one.
LEMMA FoundIsDerived ==
    /\ C!Derived = {} => C!FoundDerived = None
    /\ C!Derived # {} => C!FoundDerived \in C!Derived /\ C!FoundDerived # None
<1>1. ASSUME C!Derived # {}
      PROVE  C!Min(C!Derived) \in C!Derived
  <2>1. C!Derived \subseteq Nat
    BY CohortBounds DEF C!Derived
  <2>2. \E m \in C!Derived : \A k \in C!Derived : m <= k
    BY <1>1, <2>1, LeastExists
  <2> QED BY <2>2 DEF C!Min
<1> QED
  BY <1>1, CohortBounds DEF C!FoundDerived, C!Derived

\* A step of any kind keeps the types.
LEMMA CohortNextTyped ==
    ASSUME CohortTyped, [C!Next]_C!vars
    PROVE  CohortTyped'
<1> USE CohortBounds DEF CohortTyped, C!TypeOK
<1>1. ASSUME NEW h \in Handlers, NEW new \in SUBSET Wallets, C!CreateWatchlist(h, new)
      PROVE  CohortTyped'
  <2>1. /\ nextId \in C!Ids /\ nextId' = nextId + 1
        /\ rows' = [rows EXCEPT ![nextId] = [derived |-> FALSE, wallets |-> new]]
        /\ [derived |-> FALSE, wallets |-> new] \in C!Row
    BY <1>1 DEF C!CreateWatchlist, C!Insert, C!Following, C!Row
  <2>2. /\ rows' \in [C!Ids -> C!Row \cup {None}] /\ nextId' \in 1 .. MaxId + 1
        /\ \A id \in C!Ids : id >= nextId' => rows'[id] = None
    BY <2>1
  <2>3. /\ pc' = [pc EXCEPT ![h] = "reading"] /\ requests' \in 0 .. MaxRequests
        /\ UNCHANGED <<target, wallets, removals, crossed, faults>>
    BY <1>1 DEF C!CreateWatchlist, C!Request, C!Rebuild, C!Goto
  <2>4. lapped' \in BOOLEAN /\ alone' \in [Handlers -> BOOLEAN]
    BY <1>1 DEF C!CreateWatchlist, C!Rebuild, C!Wrote
  <2>5. pc' \in [Handlers -> {"idle", "adding", "removing", "reading",
                             "finding", "creating", "replacing"}]
    BY <2>3
  <2>6. \A o \in Handlers : pc'[o] \in {"adding", "removing", "replacing"} =>
           target'[o] \in C!Ids /\ target'[o] < nextId'
    BY <2>1, <2>3
  <2> QED BY <2>2, <2>3, <2>4, <2>5, <2>6
<1>2. ASSUME NEW h \in Handlers, NEW id \in C!Ids, C!DeleteWatchlist(h, id)
      PROVE  CohortTyped'
  <2>1. /\ rows' = [rows EXCEPT ![id] = None] /\ nextId' = nextId
        /\ pc' = [pc EXCEPT ![h] = "reading"] /\ requests' \in 0 .. MaxRequests
        /\ UNCHANGED <<target, wallets, removals, crossed, faults>>
    BY <1>2 DEF C!DeleteWatchlist, C!Request, C!Rebuild, C!Goto
  <2>2. lapped' \in BOOLEAN /\ alone' \in [Handlers -> BOOLEAN]
    BY <1>2 DEF C!DeleteWatchlist, C!Rebuild, C!Wrote
  <2> QED BY <2>1, <2>2
<1>3. ASSUME NEW h \in Handlers, C!Derive(h)
      PROVE  CohortTyped'
  <2>1. /\ pc' = [pc EXCEPT ![h] = "reading"] /\ requests' \in 0 .. MaxRequests
        /\ UNCHANGED <<rows, nextId, target, wallets, removals, alone, crossed, faults>>
    BY <1>3 DEF C!Derive, C!Request, C!Rebuild, C!Goto
  <2>2. lapped' \in BOOLEAN
    BY <1>3 DEF C!Derive, C!Rebuild
  <2> QED BY <2>1, <2>2
<1>4. ASSUME NEW h \in Handlers, NEW id \in C!Ids, NEW add \in SUBSET Wallets,
             NEW remove \in SUBSET Wallets, C!ReadForPatch(h, id, add, remove)
      PROVE  CohortTyped'
  <2>1. /\ target' = [target EXCEPT ![h] = id]
        /\ wallets' = [wallets EXCEPT ![h] = add]
        /\ removals' = [removals EXCEPT ![h] = remove]
        /\ pc' = [pc EXCEPT ![h] = IF add = {} THEN "removing" ELSE "adding"]
        /\ requests' \in 0 .. MaxRequests
        /\ UNCHANGED <<rows, nextId, alone, lapped, faults>>
    BY <1>4 DEF C!ReadForPatch, C!Request, C!Goto
  <2>2. crossed' \in BOOLEAN /\ id < nextId
    BY <1>4 DEF C!ReadForPatch, C!Exists
  <2> QED BY <2>1, <2>2
<1>5. ASSUME NEW h \in Handlers, C!AddWallets(h)
      PROVE  CohortTyped'
  <2>1. /\ target[h] \in C!Ids /\ target[h] < nextId
        /\ UNCHANGED <<nextId, lapped, crossed, requests, faults>>
        /\ alone' \in [Handlers -> BOOLEAN]
    BY <1>5 DEF C!AddWallets, C!notes, C!Wrote
  <2>2. \/ rows' = rows
        \/ /\ rows[target[h]] \in C!Row
           /\ rows' = [rows EXCEPT ![target[h]] =
                         [rows[target[h]] EXCEPT !.wallets = @ \cup wallets[h]]]
    BY <1>5, <2>1 DEF C!AddWallets, C!Exists
  <2>3. rows[target[h]] \in C!Row =>
           [rows[target[h]] EXCEPT !.wallets = @ \cup wallets[h]] \in C!Row
    BY DEF C!Row
  <2> DEFINE new == rows'[target[h]]
  <2>6. /\ rows' = [rows EXCEPT ![target[h]] = new]
        /\ new \in C!Row \cup {None}
    BY <2>1, <2>2, <2>3
  <2> HIDE DEF new
  <2>7. rows' \in [C!Ids -> C!Row \cup {None}]
    BY <2>1, <2>6
  <2>8. ASSUME NEW id \in C!Ids, id >= nextId  PROVE rows'[id] = None
    BY <2>1, <2>6, <2>8
  <2>4. /\ rows' \in [C!Ids -> C!Row \cup {None}]
        /\ \A id \in C!Ids : id >= nextId' => rows'[id] = None
    BY <2>1, <2>7, <2>8
  <2>5. \/ /\ pc' = [pc EXCEPT ![h] = "removing"]
           /\ UNCHANGED <<target, wallets, removals>>
        \/ /\ pc' = [pc EXCEPT ![h] = "idle"]
           /\ target' = [target EXCEPT ![h] = None]
           /\ wallets' = [wallets EXCEPT ![h] = {}]
           /\ removals' = [removals EXCEPT ![h] = {}]
    BY <1>5 DEF C!AddWallets, C!Goto, C!Done
  <2> QED BY <2>1, <2>4, <2>5, ZenonT(30)
<1>6. ASSUME NEW h \in Handlers, C!RemoveWallets(h)
      PROVE  CohortTyped'
  <2>1. /\ target[h] \in C!Ids /\ target[h] < nextId
        /\ UNCHANGED <<nextId, lapped, crossed, requests, faults>>
        /\ alone' \in [Handlers -> BOOLEAN]
    BY <1>6 DEF C!RemoveWallets, C!notes, C!Wrote
  <2>2. \/ rows' = rows
        \/ /\ rows[target[h]] \in C!Row
           /\ rows' = [rows EXCEPT ![target[h]] =
                         [rows[target[h]] EXCEPT !.wallets = @ \ removals[h]]]
    BY <1>6, <2>1 DEF C!RemoveWallets, C!Exists
  <2>3. rows[target[h]] \in C!Row =>
           [rows[target[h]] EXCEPT !.wallets = @ \ removals[h]] \in C!Row
    BY DEF C!Row
  <2> DEFINE new == rows'[target[h]]
  <2>6. /\ rows' = [rows EXCEPT ![target[h]] = new]
        /\ new \in C!Row \cup {None}
    BY <2>1, <2>2, <2>3
  <2> HIDE DEF new
  <2>7. rows' \in [C!Ids -> C!Row \cup {None}]
    BY <2>1, <2>6
  <2>8. ASSUME NEW id \in C!Ids, id >= nextId  PROVE rows'[id] = None
    BY <2>1, <2>6, <2>8
  <2>4. /\ rows' \in [C!Ids -> C!Row \cup {None}]
        /\ \A id \in C!Ids : id >= nextId' => rows'[id] = None
    BY <2>1, <2>7, <2>8
  <2>5. /\ pc' = [pc EXCEPT ![h] = "idle"]
        /\ target' = [target EXCEPT ![h] = None]
        /\ wallets' = [wallets EXCEPT ![h] = {}]
        /\ removals' = [removals EXCEPT ![h] = {}]
    BY <1>6 DEF C!RemoveWallets, C!Goto, C!Done
  <2> QED BY <2>1, <2>4, <2>5
<1>7. ASSUME NEW h \in Handlers, C!ReadRepeats(h)
      PROVE  CohortTyped'
  <2>1. C!RepeatWallets \in SUBSET Wallets
    BY DEF C!RepeatWallets
  <2> QED BY <1>7, <2>1 DEF C!ReadRepeats, C!Goto, C!notes
<1>8. ASSUME NEW h \in Handlers, C!FindDerived(h)
      PROVE  CohortTyped'
  <2>1. C!FoundDerived # None =>
           C!FoundDerived \in C!Ids /\ C!FoundDerived < nextId
    BY FoundIsDerived DEF C!Derived, C!Exists
  <2>2. UNCHANGED <<rows, nextId, alone, lapped, crossed, requests, faults>>
    BY <1>8 DEF C!FindDerived, C!notes
  <2>3. \/ /\ pc' = [pc EXCEPT ![h] = "creating"]
           /\ UNCHANGED <<target, wallets, removals>>
        \/ /\ C!FoundDerived # None
           /\ pc' = [pc EXCEPT ![h] = "replacing"]
           /\ target' = [target EXCEPT ![h] = C!FoundDerived]
           /\ UNCHANGED <<wallets, removals>>
        \/ /\ pc' = [pc EXCEPT ![h] = "idle"]
           /\ target' = [target EXCEPT ![h] = None]
           /\ wallets' = [wallets EXCEPT ![h] = {}]
           /\ removals' = [removals EXCEPT ![h] = {}]
    BY <1>8 DEF C!FindDerived, C!Goto, C!Done
  <2> QED BY <2>1, <2>2, <2>3, ZenonT(30)
<1>9. ASSUME NEW h \in Handlers, C!CreateDerived(h)
      PROVE  CohortTyped'
  <2>1. /\ nextId \in C!Ids /\ nextId' = nextId + 1
        /\ rows' = [rows EXCEPT ![nextId] = [derived |-> TRUE, wallets |-> wallets[h]]]
        /\ [derived |-> TRUE, wallets |-> wallets[h]] \in C!Row
    BY <1>9 DEF C!CreateDerived, C!Insert, C!Following, C!Row
  <2>2. /\ rows' \in [C!Ids -> C!Row \cup {None}] /\ nextId' \in 1 .. MaxId + 1
        /\ \A id \in C!Ids : id >= nextId' => rows'[id] = None
    BY <2>1
  <2>3. /\ pc' = [pc EXCEPT ![h] = "idle"]
        /\ target' = [target EXCEPT ![h] = None]
        /\ wallets' = [wallets EXCEPT ![h] = {}]
        /\ removals' = [removals EXCEPT ![h] = {}]
        /\ UNCHANGED <<lapped, crossed, requests, faults>>
        /\ alone' \in [Handlers -> BOOLEAN]
    BY <1>9 DEF C!CreateDerived, C!Goto, C!Done, C!notes, C!Wrote
  <2> QED BY <2>1, <2>2, <2>3
<1>10. ASSUME NEW h \in Handlers, C!ReplaceWallets(h)
       PROVE  CohortTyped'
  <2>1. /\ target[h] \in C!Ids /\ target[h] < nextId
        /\ UNCHANGED <<nextId, lapped, crossed, requests, faults>>
        /\ alone' \in [Handlers -> BOOLEAN]
    BY <1>10 DEF C!ReplaceWallets, C!notes, C!Wrote
  <2>2. \/ rows' = rows
        \/ /\ rows[target[h]] \in C!Row
           /\ rows' = [rows EXCEPT ![target[h]] =
                         [rows[target[h]] EXCEPT !.wallets = wallets[h]]]
    BY <1>10, <2>1 DEF C!ReplaceWallets, C!Exists
  <2>3. rows[target[h]] \in C!Row =>
           [rows[target[h]] EXCEPT !.wallets = wallets[h]] \in C!Row
    BY DEF C!Row
  <2> DEFINE new == rows'[target[h]]
  <2>6. /\ rows' = [rows EXCEPT ![target[h]] = new]
        /\ new \in C!Row \cup {None}
    BY <2>1, <2>2, <2>3
  <2> HIDE DEF new
  <2>7. rows' \in [C!Ids -> C!Row \cup {None}]
    BY <2>1, <2>6
  <2>8. ASSUME NEW id \in C!Ids, id >= nextId  PROVE rows'[id] = None
    BY <2>1, <2>6, <2>8
  <2>4. /\ rows' \in [C!Ids -> C!Row \cup {None}]
        /\ \A id \in C!Ids : id >= nextId' => rows'[id] = None
    BY <2>1, <2>7, <2>8
  <2>5. /\ pc' = [pc EXCEPT ![h] = "idle"]
        /\ target' = [target EXCEPT ![h] = None]
        /\ wallets' = [wallets EXCEPT ![h] = {}]
        /\ removals' = [removals EXCEPT ![h] = {}]
    BY <1>10 DEF C!ReplaceWallets, C!Goto, C!Done
  <2> QED BY <2>1, <2>4, <2>5
<1>11. ASSUME NEW h \in Handlers, C!Fail(h)
       PROVE  CohortTyped'
  BY <1>11 DEF C!Fail, C!Goto, C!Done, C!notes
<1>12. CASE UNCHANGED C!vars
  BY <1>12 DEF C!vars, C!locals, C!notes
<1> QED
  BY <1>1, <1>2, <1>3, <1>4, <1>5, <1>6, <1>7, <1>8, <1>9, <1>10, <1>11, <1>12
     DEF C!Next

\* Writing a watchlist's wallets makes it neither derived nor the user's.
LEMMA WalletsWritten ==
    ASSUME CohortTyped, NEW h \in Handlers,
           C!AddWallets(h) \/ C!RemoveWallets(h) \/ C!ReplaceWallets(h)
    PROVE  /\ target[h] \in C!Ids
           /\ C!Derived' = C!Derived /\ C!Real' = C!Real
           /\ \A id \in C!Ids :
                 /\ rows'[id] = None <=> rows[id] = None
                 /\ rows[id] # None => rows'[id].derived = rows[id].derived
                 /\ id # target[h] => rows'[id] = rows[id]
<1> USE CohortBounds
<1>1. target[h] \in C!Ids /\ rows \in [C!Ids -> C!Row \cup {None}]
  BY DEF CohortTyped, C!TypeOK, C!AddWallets, C!RemoveWallets, C!ReplaceWallets
<1>2. PICK ws \in SUBSET Wallets :
         \/ rows' = rows
         \/ /\ rows[target[h]] # None
            /\ rows' = [rows EXCEPT ![target[h]].wallets = ws]
  <2>1. CASE C!AddWallets(h)
    <3>1. rows[target[h]] # None =>
             rows[target[h]].wallets \cup wallets[h] \in SUBSET Wallets
      BY <1>1 DEF CohortTyped, C!TypeOK, C!Row
    <3> QED BY <2>1, <3>1 DEF C!AddWallets, C!Exists
  <2>2. CASE C!RemoveWallets(h)
    <3>1. rows[target[h]] # None =>
             rows[target[h]].wallets \ removals[h] \in SUBSET Wallets
      BY <1>1 DEF CohortTyped, C!TypeOK, C!Row
    <3> QED BY <2>2, <3>1 DEF C!RemoveWallets, C!Exists
  <2>3. CASE C!ReplaceWallets(h)
    BY <2>3 DEF C!ReplaceWallets, C!Exists, CohortTyped, C!TypeOK
  <2> QED BY <2>1, <2>2, <2>3
<1>3. ASSUME NEW id \in C!Ids
      PROVE  /\ rows'[id] = None <=> rows[id] = None
             /\ rows[id] # None => rows'[id].derived = rows[id].derived
             /\ id # target[h] => rows'[id] = rows[id]
  <2>1. CASE rows' = rows
    BY <2>1
  <2>2. CASE /\ rows[target[h]] # None
             /\ rows' = [rows EXCEPT ![target[h]].wallets = ws]
    <3>1. CASE id # target[h]
      BY <1>1, <2>2, <3>1
    <3>2. CASE id = target[h]
      <4>1. rows[id] \in C!Row /\ rows'[id] = [rows[id] EXCEPT !.wallets = ws]
        BY <1>1, <2>2, <3>2
      <4>2. rows'[id] \in C!Row /\ rows'[id].derived = rows[id].derived
        BY <4>1 DEF C!Row
      <4> QED BY <3>2, <4>1, <4>2
    <3> QED BY <3>1, <3>2
  <2> QED BY <1>2, <2>1, <2>2
<1>4. C!Derived' = C!Derived /\ C!Real' = C!Real
  BY <1>3 DEF C!Derived, C!Real, C!Exists
<1> QED BY <1>1, <1>3, <1>4

\* A new watchlist takes an id that none has, and changes no other.
LEMMA RowInserted ==
    ASSUME CohortTyped, NEW d \in BOOLEAN, NEW ws \in SUBSET Wallets,
           nextId \in C!Ids, rows' = C!Insert(d, ws)
    PROVE  /\ nextId \notin C!Derived /\ nextId \notin C!Real
           /\ C!Derived' = IF d THEN C!Derived \cup {nextId} ELSE C!Derived
           /\ C!Real' = IF d THEN C!Real ELSE C!Real \cup {nextId}
           /\ rows'[nextId] = [derived |-> d, wallets |-> ws]
           /\ \A id \in C!Ids : id # nextId => rows'[id] = rows[id]
<1> USE CohortBounds
<1>1. /\ rows \in [C!Ids -> C!Row \cup {None}]
      /\ rows[nextId] = None
  BY DEF CohortTyped, C!TypeOK
<1>2. /\ rows'[nextId] = [derived |-> d, wallets |-> ws]
      /\ \A id \in C!Ids : id # nextId => rows'[id] = rows[id]
  BY <1>1 DEF C!Insert
<1>3. [derived |-> d, wallets |-> ws] \in C!Row
  BY DEF C!Row
<1>4. rows'[nextId] # None /\ (rows'[nextId].derived <=> d)
  BY <1>2, <1>3
<1>5. nextId \notin C!Derived /\ nextId \notin C!Real
  BY <1>1 DEF C!Derived, C!Real, C!Exists
<1>6. \A id \in C!Ids : /\ id \in C!Derived' <=> rows'[id] # None /\ rows'[id].derived
                        /\ id \in C!Real' <=> rows'[id] # None /\ ~rows'[id].derived
                        /\ id \in C!Derived <=> rows[id] # None /\ rows[id].derived
                        /\ id \in C!Real <=> rows[id] # None /\ ~rows[id].derived
  BY DEF C!Derived, C!Real, C!Exists
<1>7. C!Derived \subseteq C!Ids /\ C!Real \subseteq C!Ids
      /\ C!Derived' \subseteq C!Ids /\ C!Real' \subseteq C!Ids
  BY DEF C!Derived, C!Real
<1>8. C!Derived' = IF d THEN C!Derived \cup {nextId} ELSE C!Derived
  BY <1>1, <1>2, <1>4, <1>6, <1>7, ZenonT(30)
<1>9. C!Real' = IF d THEN C!Real ELSE C!Real \cup {nextId}
  BY <1>1, <1>2, <1>4, <1>6, <1>7, ZenonT(30)
<1> QED BY <1>2, <1>5, <1>8, <1>9

\* A deleted watchlist is neither, and no other changes.
LEMMA RowDeleted ==
    ASSUME CohortTyped, NEW i \in C!Ids, rows' = [rows EXCEPT ![i] = None]
    PROVE  /\ C!Derived' = C!Derived \ {i} /\ C!Real' = C!Real \ {i}
           /\ \A id \in C!Ids : id # i => rows'[id] = rows[id]
<1>1. /\ rows'[i] = None
      /\ \A id \in C!Ids : id # i => rows'[id] = rows[id]
  BY CohortBounds DEF CohortTyped, C!TypeOK
<1> QED BY <1>1 DEF C!Derived, C!Real, C!Exists

\* A derived watchlist too many needs two rebuilds at a time.
LEMMA CohortNextOne ==
    ASSUME CohortTyped, OneDerived, ReplacesDerived, [C!Next]_C!vars
    PROVE  OneDerived' /\ ReplacesDerived'
<1> USE CohortBounds DEF C!Rebuilding
<1>0. /\ pc \in [Handlers -> {"idle", "adding", "removing", "reading",
                              "finding", "creating", "replacing"}]
      /\ target \in [Handlers -> C!Ids \cup {None}]
      /\ \A h \in Handlers : pc[h] = "replacing" => target[h] \in C!Ids /\ target[h] < nextId
  BY DEF CohortTyped, C!TypeOK
<1>1. ASSUME NEW h \in Handlers, NEW new \in SUBSET Wallets, C!CreateWatchlist(h, new)
      PROVE  OneDerived' /\ ReplacesDerived'
  <2>1. /\ C!Derived' = C!Derived
        /\ \A id \in C!Ids : id # nextId => rows'[id] = rows[id]
    BY <1>1, RowInserted DEF C!CreateWatchlist
  <2>2. /\ pc[h] = "idle" /\ pc' = [pc EXCEPT ![h] = "reading"]
        /\ lapped' = (lapped \/ \E o \in Handlers \ {h} : C!Rebuilding(o))
        /\ UNCHANGED target /\ nextId \in C!Ids
    BY <1>1 DEF C!CreateWatchlist, C!Request, C!Rebuild, C!Goto
  <2>3. OneDerived'
    BY <1>0, <2>1, <2>2, ZenonT(30) DEF OneDerived
  <2>4. ReplacesDerived'
    BY <1>0, <2>1, <2>2 DEF ReplacesDerived
  <2> QED BY <2>3, <2>4
<1>2. ASSUME NEW h \in Handlers, NEW i \in C!Ids, C!DeleteWatchlist(h, i)
      PROVE  OneDerived' /\ ReplacesDerived'
  <2>1. /\ rows' = [rows EXCEPT ![i] = None]
        /\ pc[h] = "idle" /\ pc' = [pc EXCEPT ![h] = "reading"]
        /\ lapped' = (lapped \/ \E o \in Handlers \ {h} : C!Rebuilding(o))
        /\ UNCHANGED target
    BY <1>2 DEF C!DeleteWatchlist, C!Request, C!Rebuild, C!Goto
  <2>2. /\ C!Derived' = C!Derived \ {i}
        /\ \A id \in C!Ids : id # i => rows'[id] = rows[id]
    BY <2>1, RowDeleted
  <2>3. rows'[i] = None
    BY <2>1 DEF CohortTyped, C!TypeOK
  <2>4. OneDerived'
    BY <1>0, <2>1, <2>2, ZenonT(30) DEF OneDerived
  <2>5. ReplacesDerived'
    BY <1>0, <2>1, <2>2, <2>3 DEF ReplacesDerived
  <2> QED BY <2>4, <2>5
<1>3. ASSUME NEW h \in Handlers, C!Derive(h)
      PROVE  OneDerived' /\ ReplacesDerived'
  <2>1. /\ pc[h] = "idle" /\ pc' = [pc EXCEPT ![h] = "reading"]
        /\ lapped' = (lapped \/ \E o \in Handlers \ {h} : C!Rebuilding(o))
        /\ UNCHANGED <<rows, target>>
    BY <1>3 DEF C!Derive, C!Request, C!Rebuild, C!Goto
  <2>2. C!Derived' = C!Derived
    BY <2>1 DEF C!Derived, C!Exists
  <2> QED BY <1>0, <2>1, <2>2, ZenonT(30) DEF OneDerived, ReplacesDerived
<1>4. ASSUME NEW h \in Handlers, NEW id \in C!Ids, NEW add \in SUBSET Wallets,
             NEW remove \in SUBSET Wallets, C!ReadForPatch(h, id, add, remove)
      PROVE  OneDerived' /\ ReplacesDerived'
  <2>1. /\ target' = [target EXCEPT ![h] = id]
        /\ pc' = [pc EXCEPT ![h] = IF add = {} THEN "removing" ELSE "adding"]
        /\ UNCHANGED <<rows, lapped>>
    BY <1>4 DEF C!ReadForPatch, C!Goto
  <2>2. C!Derived' = C!Derived
    BY <2>1 DEF C!Derived, C!Exists
  <2>3. \A o \in Handlers :
           /\ pc'[o] \in {"reading", "finding", "creating", "replacing"}
                 => pc'[o] = pc[o] /\ target'[o] = target[o]
    BY <1>0, <2>1
  <2> QED BY <2>1, <2>2, <2>3 DEF OneDerived, ReplacesDerived
<1>5. ASSUME NEW h \in Handlers,
             C!AddWallets(h) \/ C!RemoveWallets(h) \/ C!ReplaceWallets(h)
      PROVE  OneDerived' /\ ReplacesDerived'
  <2>1. /\ C!Derived' = C!Derived
        /\ \A id \in C!Ids :
              /\ rows'[id] = None <=> rows[id] = None
              /\ rows[id] # None => rows'[id].derived = rows[id].derived
    BY <1>5, WalletsWritten
  <2>2. lapped' = lapped /\ \A o \in Handlers :
           /\ pc'[o] \in {"reading", "finding", "creating", "replacing"}
                 => pc'[o] = pc[o] /\ target'[o] = target[o]
    BY <1>0, <1>5
       DEF C!AddWallets, C!RemoveWallets, C!ReplaceWallets, C!Goto, C!Done, C!notes
  <2> QED BY <1>0, <2>1, <2>2 DEF OneDerived, ReplacesDerived
<1>6. ASSUME NEW h \in Handlers, C!ReadRepeats(h)
      PROVE  OneDerived' /\ ReplacesDerived'
  <2>1. /\ pc[h] = "reading" /\ pc' = [pc EXCEPT ![h] = "finding"]
        /\ UNCHANGED <<rows, target, lapped>>
    BY <1>6 DEF C!ReadRepeats, C!Goto, C!notes
  <2>2. C!Derived' = C!Derived
    BY <2>1 DEF C!Derived, C!Exists
  <2> QED BY <1>0, <2>1, <2>2 DEF OneDerived, ReplacesDerived
<1>7. ASSUME NEW h \in Handlers, C!FindDerived(h)
      PROVE  OneDerived' /\ ReplacesDerived'
  <2>1. /\ pc[h] = "finding" /\ UNCHANGED <<rows, lapped>>
        /\ \/ pc' = [pc EXCEPT ![h] = "creating"] /\ UNCHANGED target
              /\ C!FoundDerived = None
           \/ pc' = [pc EXCEPT ![h] = "replacing"] /\ C!FoundDerived # None
              /\ target' = [target EXCEPT ![h] = C!FoundDerived]
           \/ pc' = [pc EXCEPT ![h] = "idle"]
              /\ target' = [target EXCEPT ![h] = None]
    BY <1>7 DEF C!FindDerived, C!Creates, C!Goto, C!Done, C!notes
  <2>2. C!Derived' = C!Derived
    BY <2>1 DEF C!Derived, C!Exists
  <2>3. OneDerived'
    BY <1>0, <2>1, <2>2, FoundIsDerived DEF OneDerived
  <2>4. C!FoundDerived # None => rows[C!FoundDerived].derived
    BY FoundIsDerived DEF C!Derived
  <2>5. ReplacesDerived'
    BY <1>0, <2>1, <2>4 DEF ReplacesDerived
  <2> QED BY <2>3, <2>5
<1>8. ASSUME NEW h \in Handlers, C!CreateDerived(h)
      PROVE  OneDerived' /\ ReplacesDerived'
  <2>1. /\ wallets[h] \in SUBSET Wallets /\ nextId \in C!Ids
        /\ rows' = C!Insert(TRUE, wallets[h])
    BY <1>8 DEF C!CreateDerived, CohortTyped, C!TypeOK
  <2>2. /\ C!Derived' = C!Derived \cup {nextId}
        /\ \A id \in C!Ids : id # nextId => rows'[id] = rows[id]
    BY <2>1, RowInserted
  <2>3. /\ pc[h] = "creating" /\ pc' = [pc EXCEPT ![h] = "idle"]
        /\ target' = [target EXCEPT ![h] = None] /\ UNCHANGED lapped
    BY <1>8 DEF C!CreateDerived, C!Goto, C!Done, C!notes
  <2>4. OneDerived'
    BY <1>0, <2>2, <2>3 DEF OneDerived
  <2>5. ASSUME NEW o \in Handlers, pc'[o] = "replacing"
        PROVE  rows'[target'[o]] = None \/ rows'[target'[o]].derived
    <3>1. pc[o] = "replacing" /\ target'[o] = target[o]
      BY <1>0, <2>3, <2>5
    <3>2. target[o] \in C!Ids /\ target[o] # nextId
      BY <1>0, <2>1, <3>1
    <3>3. rows'[target[o]] = rows[target[o]]
      BY <2>2, <3>2
    <3> QED BY <3>1, <3>3 DEF ReplacesDerived
  <2>6. ReplacesDerived'
    BY <2>5 DEF ReplacesDerived
  <2> QED BY <2>4, <2>6
<1>9. ASSUME NEW h \in Handlers, C!Fail(h)
      PROVE  OneDerived' /\ ReplacesDerived'
  <2>1. /\ pc' = [pc EXCEPT ![h] = "idle"]
        /\ target' = [target EXCEPT ![h] = None] /\ UNCHANGED <<rows, lapped>>
    BY <1>9 DEF C!Fail, C!Goto, C!Done, C!notes
  <2>2. C!Derived' = C!Derived
    BY <2>1 DEF C!Derived, C!Exists
  <2> QED BY <1>0, <2>1, <2>2 DEF OneDerived, ReplacesDerived
<1>10. CASE UNCHANGED C!vars
  BY <1>10 DEF C!vars, C!locals, C!notes, OneDerived, ReplacesDerived, C!Derived,
               C!Exists
<1> QED
  BY <1>1, <1>2, <1>3, <1>4, <1>5, <1>6, <1>7, <1>8, <1>9, <1>10 DEF C!Next

\* A step that leaves the PATCHes under way alone, and of the user's watchlists
\* adds or changes only to what is within the cap.
LEMMA CapUntouched ==
    ASSUME CohortTyped, CapKept, crossed => crossed', faults' = faults,
           \A o \in Handlers :
              /\ C!Patching(o)' <=> C!Patching(o)
              /\ C!Patching(o) => /\ pc'[o] = pc[o] /\ target'[o] = target[o]
                                  /\ wallets'[o] = wallets[o]
                                  /\ removals'[o] = removals[o],
           \A id \in C!Real' :
              \/ id \in C!Real /\ rows'[id] = rows[id]
              \/ /\ Within(rows'[id].wallets)
                 /\ \A o \in Handlers : C!Patching(o) => target[o] # id
    PROVE  CapKept'
<1> SUFFICES ASSUME ~crossed', faults' = 0
             PROVE  /\ \A h, o \in Handlers : C!Patching(h)' /\ C!Patching(o)' => h = o
                    /\ \A h \in Handlers : target'[h] \in C!Real' =>
                          /\ pc'[h] = "adding" => Within((rows'[target'[h]].wallets
                                                    \cup wallets'[h]) \ removals'[h])
                          /\ pc'[h] = "removing" =>
                                Within(rows'[target'[h]].wallets \ removals'[h])
                    /\ \A id \in C!Real' :
                          (\A h \in Handlers : ~(C!Patching(h)' /\ target'[h] = id))
                              => Within(rows'[id].wallets)
  BY DEF CapKept, Within
<1>1. /\ \A h, o \in Handlers : C!Patching(h) /\ C!Patching(o) => h = o
      /\ \A h \in Handlers : target[h] \in C!Real =>
            /\ pc[h] = "adding" =>
                  Within((rows[target[h]].wallets \cup wallets[h]) \ removals[h])
            /\ pc[h] = "removing" =>
                  Within(rows[target[h]].wallets \ removals[h])
      /\ \A id \in C!Real :
            (\A h \in Handlers : ~(C!Patching(h) /\ target[h] = id))
                => Within(rows[id].wallets)
  BY DEF CapKept
<1>2. \A h, o \in Handlers : C!Patching(h)' /\ C!Patching(o)' => h = o
  BY <1>1
<1>3. ASSUME NEW h \in Handlers, target'[h] \in C!Real', C!Patching(h)'
      PROVE  /\ target'[h] \in C!Real /\ target'[h] = target[h]
             /\ rows'[target'[h]] = rows[target[h]]
             /\ pc'[h] = pc[h] /\ wallets'[h] = wallets[h]
             /\ removals'[h] = removals[h]
  <2>1. C!Patching(h) /\ target'[h] = target[h] /\ pc'[h] = pc[h]
        /\ wallets'[h] = wallets[h] /\ removals'[h] = removals[h]
    BY <1>3
  <2>2. target'[h] \in C!Real /\ rows'[target'[h]] = rows[target'[h]]
    BY <1>3, <2>1
  <2> QED BY <2>1, <2>2
<1>4. ASSUME NEW h \in Handlers, target'[h] \in C!Real'
      PROVE  /\ pc'[h] = "adding" => Within((rows'[target'[h]].wallets
                                        \cup wallets'[h]) \ removals'[h])
             /\ pc'[h] = "removing" =>
                    Within(rows'[target'[h]].wallets \ removals'[h])
  <2>1. pc'[h] \in {"adding", "removing"} => C!Patching(h)'
    BY DEF C!Patching
  <2> HIDE DEF Within
  <2> QED BY <1>1, <1>3, <1>4, <2>1
<1>5. ASSUME NEW id \in C!Real',
             \A h \in Handlers : ~(C!Patching(h)' /\ target'[h] = id)
      PROVE  Within(rows'[id].wallets)
  <2>1. \A h \in Handlers : ~(C!Patching(h) /\ target[h] = id)
    BY <1>5
  <2> QED BY <1>1, <1>5, <2>1
<1> QED BY <1>2, <1>4, <1>5

\* A watchlist of the user's passes the cap only between the steps of a PATCH.
LEMMA CohortNextCap ==
    ASSUME CohortTyped, ReplacesDerived, CapKept, [C!Next]_C!vars
    PROVE  CapKept'
<1> USE CohortBounds
<1>0. /\ pc \in [Handlers -> {"idle", "adding", "removing", "reading",
                              "finding", "creating", "replacing"}]
      /\ target \in [Handlers -> C!Ids \cup {None}]
      /\ wallets \in [Handlers -> SUBSET Wallets]
      /\ removals \in [Handlers -> SUBSET Wallets]
      /\ \A h \in Handlers : C!Patching(h) => target[h] # nextId
  BY DEF CohortTyped, C!TypeOK, C!Patching
<1>1. ASSUME NEW h \in Handlers, NEW new \in SUBSET Wallets, C!CreateWatchlist(h, new)
      PROVE  CapKept'
  <2>1. /\ nextId \in C!Ids /\ rows' = C!Insert(FALSE, new)
        /\ pc[h] = "idle" /\ pc' = [pc EXCEPT ![h] = "reading"]
        /\ UNCHANGED <<target, wallets, removals, crossed, faults>>
    BY <1>1 DEF C!CreateWatchlist, C!Request, C!Rebuild, C!Goto
  <2>2. /\ C!Real' = C!Real \cup {nextId}
        /\ rows'[nextId] = [derived |-> FALSE, wallets |-> new]
        /\ \A id \in C!Ids : id # nextId => rows'[id] = rows[id]
        /\ C!Real \subseteq C!Ids
    BY <2>1, RowInserted DEF C!Real
  <2>3. Within(new)
    BY <1>1, CohortCards DEF C!CreateWatchlist, Within
  <2>4. \A o \in Handlers :
           /\ C!Patching(o)' <=> C!Patching(o)
           /\ C!Patching(o) => pc'[o] = pc[o]
    BY <1>0, <2>1 DEF C!Patching
  <2>5. \A id \in C!Real' :
              \/ id \in C!Real /\ rows'[id] = rows[id]
              \/ /\ Within(rows'[id].wallets)
                 /\ \A o \in Handlers : C!Patching(o) => target[o] # id
    <3>1. ASSUME NEW id \in C!Real', id # nextId
          PROVE  id \in C!Real /\ rows'[id] = rows[id]
      BY <2>2, <3>1
    <3>2. rows'[nextId].wallets = new
      BY <2>2
    <3>3. Within(rows'[nextId].wallets)
      BY <2>3, <3>2
    <3> QED BY <1>0, <3>1, <3>3
  <2> QED BY <2>1, <2>4, <2>5, CapUntouched
<1>2. ASSUME NEW h \in Handlers, NEW i \in C!Ids, C!DeleteWatchlist(h, i)
      PROVE  CapKept'
  <2>1. /\ rows' = [rows EXCEPT ![i] = None]
        /\ pc[h] = "idle" /\ pc' = [pc EXCEPT ![h] = "reading"]
        /\ UNCHANGED <<target, wallets, removals, crossed, faults>>
    BY <1>2 DEF C!DeleteWatchlist, C!Request, C!Rebuild, C!Goto
  <2>2. \A id \in C!Real' : id \in C!Real /\ rows'[id] = rows[id]
    BY <2>1, RowDeleted DEF C!Real
  <2>3. \A o \in Handlers :
           /\ C!Patching(o)' <=> C!Patching(o)
           /\ C!Patching(o) => pc'[o] = pc[o]
    BY <1>0, <2>1 DEF C!Patching
  <2> QED BY <2>1, <2>2, <2>3, CapUntouched
<1>3. ASSUME NEW h \in Handlers,
             \/ C!Derive(h) \/ C!ReadRepeats(h) \/ C!FindDerived(h)
             \/ C!CreateDerived(h) \/ C!ReplaceWallets(h)
      PROVE  CapKept'
  <2>1. UNCHANGED <<crossed, faults>>
    BY <1>3 DEF C!Derive, C!Rebuild, C!ReadRepeats, C!FindDerived, C!CreateDerived,
                C!ReplaceWallets, C!notes
  <2>2. ~C!Patching(h) /\ ~C!Patching(h)'
    BY <1>0, <1>3
       DEF C!Derive, C!Request, C!Rebuild, C!ReadRepeats, C!FindDerived,
           C!CreateDerived, C!ReplaceWallets, C!Goto, C!Done, C!Patching
  <2>3. \A o \in Handlers \ {h} :
           /\ pc'[o] = pc[o] /\ target'[o] = target[o]
           /\ wallets'[o] = wallets[o] /\ removals'[o] = removals[o]
    BY <1>0, <1>3
       DEF C!Derive, C!Rebuild, C!ReadRepeats, C!FindDerived, C!CreateDerived,
           C!ReplaceWallets, C!Goto, C!Done
  <2>4. \A o \in Handlers :
           /\ C!Patching(o)' <=> C!Patching(o)
           /\ C!Patching(o) => /\ pc'[o] = pc[o] /\ target'[o] = target[o]
                               /\ wallets'[o] = wallets[o]
                               /\ removals'[o] = removals[o]
    BY <2>2, <2>3 DEF C!Patching
  <2>5. \A id \in C!Real' : id \in C!Real /\ rows'[id] = rows[id]
    <3>1. CASE UNCHANGED rows
      BY <3>1 DEF C!Real, C!Exists
    <3>2. CASE C!CreateDerived(h)
      <4>1. /\ wallets[h] \in SUBSET Wallets /\ nextId \in C!Ids
            /\ rows' = C!Insert(TRUE, wallets[h])
        BY <1>0, <3>2 DEF C!CreateDerived
      <4> QED BY <4>1, RowInserted DEF C!Real
    <3>3. CASE C!ReplaceWallets(h)
      <4>1. /\ target[h] \in C!Ids /\ C!Real' = C!Real
            /\ \A id \in C!Ids : id # target[h] => rows'[id] = rows[id]
        BY <3>3, WalletsWritten
      <4>2. target[h] \notin C!Real
        BY <3>3 DEF C!ReplaceWallets, ReplacesDerived, C!Real, C!Exists
      <4> QED BY <4>1, <4>2 DEF C!Real
    <3> QED BY <1>3, <3>1, <3>2, <3>3
            DEF C!Derive, C!ReadRepeats, C!FindDerived
  <2> QED BY <2>1, <2>4, <2>5, CapUntouched
<1>4. ASSUME NEW h \in Handlers, NEW i \in C!Ids, NEW add \in SUBSET Wallets,
             NEW remove \in SUBSET Wallets, C!ReadForPatch(h, i, add, remove)
      PROVE  CapKept'
  <2>1. /\ target' = [target EXCEPT ![h] = i]
        /\ wallets' = [wallets EXCEPT ![h] = add]
        /\ removals' = [removals EXCEPT ![h] = remove]
        /\ pc[h] = "idle"
        /\ pc' = [pc EXCEPT ![h] = IF add = {} THEN "removing" ELSE "adding"]
        /\ crossed' = (crossed \/ \E o \in Handlers \ {h} : C!Patching(o))
        /\ UNCHANGED <<rows, faults>> /\ C!Exists(i)
    BY <1>4 DEF C!ReadForPatch, C!Request, C!Goto
  <2> SUFFICES ASSUME ~crossed', faults' = 0
               PROVE  CapKept'
    BY DEF CapKept
  <2>2. ~crossed /\ faults = 0 /\ \A o \in Handlers : ~C!Patching(o)
    BY <2>1 DEF C!Patching
  <2>3. C!Real' = C!Real
    BY <2>1 DEF C!Real, C!Exists
  <2>4. \A id \in C!Real : Within(rows[id].wallets)
    BY <2>2 DEF CapKept
  <2>5. /\ \A o \in Handlers : C!Patching(o)' => o = h
        /\ target'[h] = i /\ wallets'[h] = add /\ removals'[h] = remove
        /\ pc'[h] = IF add = {} THEN "removing" ELSE "adding"
    BY <1>0, <2>1, <2>2 DEF C!Patching
  <2>6. add # {} => Within((rows[i].wallets \cup add) \ remove)
    BY <1>4, CohortCards DEF C!ReadForPatch, C!WithinCap, Within
  <2>7. i \in C!Real => Within(rows[i].wallets \ remove)
    <3>1. i \in C!Real => rows[i].wallets \in SUBSET Wallets
      BY DEF C!Real, C!Exists, CohortTyped, C!TypeOK, C!Row
    <3>2. i \in C!Real => /\ Cardinality(rows[i].wallets \ remove)
                                <= Cardinality(rows[i].wallets)
                          /\ Cardinality(rows[i].wallets \ remove) \in Nat
                          /\ Cardinality(rows[i].wallets) \in Nat
      <4>1. i \in C!Real => IsFiniteSet(rows[i].wallets)
        BY <3>1, FiniteWallets, FS_Subset
      <4> QED BY <4>1, SmallerSet
    <3> QED BY <2>4, <3>2 DEF Within
  <2>8. ASSUME NEW o \in Handlers, target'[o] \in C!Real'
        PROVE  /\ pc'[o] = "adding" =>
                    Within((rows'[target'[o]].wallets \cup wallets'[o]) \ removals'[o])
               /\ pc'[o] = "removing" =>
                    Within(rows'[target'[o]].wallets \ removals'[o])
    <3>1. pc'[o] \in {"adding", "removing"} => o = h
      BY <2>5 DEF C!Patching
    <3>2. CASE o = h
      <4>1. /\ target'[o] = i /\ i \in C!Real /\ rows' = rows
            /\ wallets'[o] = add /\ removals'[o] = remove
        BY <2>1, <2>3, <2>5, <2>8, <3>2
      <4>2. pc'[o] = "adding" => add # {}
        BY <2>5, <3>2
      <4>3. /\ rows'[target'[o]].wallets = rows[i].wallets
            /\ (rows'[target'[o]].wallets \cup wallets'[o]) \ removals'[o]
                  = (rows[i].wallets \cup add) \ remove
            /\ rows'[target'[o]].wallets \ removals'[o] = rows[i].wallets \ remove
        BY <4>1
      <4> QED BY <2>6, <2>7, <4>1, <4>2, <4>3 DEF Within
    <3> QED BY <3>1, <3>2
  <2>9. \A id \in C!Real' : Within(rows'[id].wallets)
    BY <2>1, <2>3, <2>4
  <2> QED BY <2>5, <2>8, <2>9 DEF CapKept, Within
<1>5. ASSUME NEW h \in Handlers, C!AddWallets(h) \/ C!RemoveWallets(h)
      PROVE  CapKept'
  <2> DEFINE t == target[h]
  <2>1. /\ t \in C!Ids /\ C!Real' = C!Real
        /\ \A id \in C!Ids : id # t => rows'[id] = rows[id]
    BY <1>5, WalletsWritten
  <2>2. UNCHANGED <<crossed, faults>> /\ C!Patching(h)
    BY <1>5 DEF C!AddWallets, C!RemoveWallets, C!notes, C!Patching
  <2> SUFFICES ASSUME ~crossed, faults = 0
               PROVE  CapKept'
    BY <2>2 DEF CapKept
  <2>3. /\ \A o \in Handlers : C!Patching(o) => o = h
        /\ t \in C!Real /\ pc[h] = "adding" =>
              Within((rows[t].wallets \cup wallets[h]) \ removals[h])
        /\ t \in C!Real /\ pc[h] = "removing" => Within(rows[t].wallets \ removals[h])
        /\ \A id \in C!Real : id # t => Within(rows[id].wallets)
    BY <2>2 DEF CapKept
  <2>4. \A o \in Handlers : C!Patching(o)' => o = h
    BY <1>0, <1>5, <2>3
       DEF C!AddWallets, C!RemoveWallets, C!Goto, C!Done, C!Patching
  <2>5. C!Real \subseteq C!Ids /\ rows \in [C!Ids -> C!Row \cup {None}]
    BY DEF C!Real, CohortTyped, C!TypeOK
  <2>6. \A id \in C!Real : id # t => Within(rows'[id].wallets)
    BY <2>1, <2>3, <2>5 DEF Within
  <2>7. CASE t \notin C!Real
    <3>1. \A o \in Handlers : C!Patching(o)' => target'[o] = t
      BY <1>0, <1>5, <2>4
         DEF C!AddWallets, C!RemoveWallets, C!Goto, C!Done, C!Patching
    <3>2. \A id \in C!Real : Within(rows'[id].wallets)
      BY <2>6, <2>7
    <3>3. ASSUME NEW o \in Handlers, target'[o] \in C!Real'
          PROVE  ~C!Patching(o)'
      BY <2>1, <2>7, <3>1, <3>3
    <3> HIDE DEF t
    <3>4. \A o \in Handlers : target'[o] \in C!Real' =>
             pc'[o] # "adding" /\ pc'[o] # "removing"
      BY <3>3 DEF C!Patching
    <3> QED BY <2>1, <2>4, <3>2, <3>4 DEF CapKept, Within
  <2>8. CASE t \in C!Real
    <3>1. rows[t] \in C!Row /\ C!Exists(t)
      BY <2>5, <2>8 DEF C!Real, C!Exists
    <3>2. CASE C!AddWallets(h) /\ removals[h] # {}
      <4>1. /\ rows' = [rows EXCEPT ![t].wallets = @ \cup wallets[h]]
            /\ pc' = [pc EXCEPT ![h] = "removing"]
            /\ UNCHANGED <<target, wallets, removals>>
            /\ pc[h] = "adding"
        BY <3>1, <3>2 DEF C!AddWallets, C!Goto
      <4>2. rows'[t].wallets = rows[t].wallets \cup wallets[h]
        BY <2>1, <2>5, <3>1, <4>1 DEF C!Row
      <4>3. Within(rows'[t].wallets \ removals[h])
        BY <2>3, <2>8, <4>1, <4>2
      <4>4. pc'[h] = "removing" /\ C!Patching(h)' /\ target'[h] = t
            /\ removals'[h] = removals[h]
        BY <1>0, <4>1 DEF C!Patching
      <4>5. ASSUME NEW o \in Handlers, target'[o] \in C!Real'
            PROVE  /\ pc'[o] # "adding"
                   /\ pc'[o] = "removing" =>
                         Within(rows'[target'[o]].wallets \ removals'[o])
        <5>1. pc'[o] \in {"adding", "removing"} => o = h
          BY <2>4 DEF C!Patching
        <5> HIDE DEF Within
        <5> QED BY <4>3, <4>4, <5>1
      <4>6. ASSUME NEW id \in C!Real',
                   \A o \in Handlers : ~(C!Patching(o)' /\ target'[o] = id)
            PROVE  Within(rows'[id].wallets)
        BY <2>1, <2>6, <4>4, <4>6
      <4> QED BY <2>4, <4>5, <4>6 DEF CapKept, Within
    <3>3. CASE ~(C!AddWallets(h) /\ removals[h] # {})
      <4>1. /\ \/ /\ C!AddWallets(h) /\ removals[h] = {} /\ pc[h] = "adding"
                  /\ rows' = [rows EXCEPT ![t].wallets = @ \cup wallets[h]]
               \/ /\ C!RemoveWallets(h) /\ pc[h] = "removing"
                  /\ rows' = [rows EXCEPT ![t].wallets = @ \ removals[h]]
            /\ pc' = [pc EXCEPT ![h] = "idle"]
        BY <1>5, <3>1, <3>3 DEF C!AddWallets, C!RemoveWallets, C!Goto, C!Done
      <4>2. \/ /\ pc[h] = "adding" /\ removals[h] = {}
               /\ rows'[t].wallets = rows[t].wallets \cup wallets[h]
            \/ /\ pc[h] = "removing"
               /\ rows'[t].wallets = rows[t].wallets \ removals[h]
        BY <2>1, <2>5, <3>1, <4>1 DEF C!Row
      <4>3. removals[h] = {} => (rows[t].wallets \cup wallets[h]) \ removals[h]
                                    = rows[t].wallets \cup wallets[h]
        OBVIOUS
      <4>4. Within(rows'[t].wallets)
        BY <2>3, <2>8, <4>2, <4>3
      <4>5. \A id \in C!Real' : Within(rows'[id].wallets)
        BY <2>1, <2>6, <4>4
      <4>6. \A o \in Handlers : ~C!Patching(o)'
        BY <1>0, <2>4, <4>1 DEF C!Patching
      <4>7. \A o \in Handlers : pc'[o] # "adding" /\ pc'[o] # "removing"
        BY <4>6 DEF C!Patching
      <4> QED BY <4>5, <4>6, <4>7 DEF CapKept, Within
    <3> QED BY <3>2, <3>3
  <2> QED BY <2>7, <2>8
<1>6. ASSUME NEW h \in Handlers, C!Fail(h)
      PROVE  CapKept'
  <2>1. faults \in Nat /\ faults' = faults + 1
    BY <1>6 DEF C!Fail, CohortTyped, C!TypeOK
  <2>2. faults' # 0
    BY <2>1
  <2> QED BY <2>2 DEF CapKept
<1>7. CASE UNCHANGED C!vars
  <2>1. UNCHANGED <<rows, pc, target, wallets, removals, crossed, faults>>
    BY <1>7 DEF C!vars, C!locals, C!notes
  <2>2. C!Real' = C!Real /\ \A o \in Handlers : C!Patching(o)' <=> C!Patching(o)
    BY <2>1 DEF C!Real, C!Exists, C!Patching
  <2> QED BY <2>1, <2>2, CapUntouched
<1> QED
  BY <1>1, <1>2, <1>3, <1>4, <1>5, <1>6, <1>7 DEF C!Next

\* A wallet is in enough watchlists of the user's exactly if there are that many
\* with it.
LEMMA BelongIsRepeats == CohortTyped => C!Belong = C!RepeatWallets
<1> SUFFICES ASSUME CohortTyped PROVE C!Belong = C!RepeatWallets
  OBVIOUS
<1> DEFINE With(w) == {id \in C!Real : w \in rows[id].wallets}
<1>1. ASSUME NEW w \in Wallets
      PROVE  w \in C!Belong <=> w \in C!RepeatWallets
  <2>1. IsFiniteSet(With(w))
    <3>1. IsFiniteSet(1 .. MaxId)
      BY CohortBounds, FS_Interval
    <3>2. With(w) \subseteq 1 .. MaxId
      BY CohortBounds DEF C!Real
    <3> QED BY <3>1, <3>2, FS_Subset
  <2>2. w \in C!RepeatWallets <=> Cardinality(With(w)) >= MinCohorts
    BY CohortCards DEF C!RepeatWallets
  <2>3. w \in C!Belong <=> \E S0 \in SUBSET C!Real :
           Cardinality(S0) = MinCohorts /\ \A id \in S0 : w \in rows[id].wallets
    BY CohortCards DEF C!Belong
  <2>4. \A S0 \in SUBSET C!Real :
           (\A id \in S0 : w \in rows[id].wallets) <=> S0 \in SUBSET With(w)
    OBVIOUS
  <2>6. With(w) \subseteq C!Real
    OBVIOUS
  <2> HIDE DEF With
  <2>5. MinCohorts \in Nat /\ Cardinality(With(w)) \in Nat
    BY <2>1, CohortBounds, FS_CardinalityType
  <2>7. ASSUME Cardinality(With(w)) >= MinCohorts
        PROVE  w \in C!Belong
    <3>1. PICK S0 \in SUBSET With(w) : Cardinality(S0) = MinCohorts
      BY <2>1, <2>5, <2>7, SubsetOfSize
    <3> QED BY <2>3, <2>4, <2>6, <3>1
  <2>8. ASSUME w \in C!Belong
        PROVE  Cardinality(With(w)) >= MinCohorts
    <3>1. PICK S0 \in SUBSET C!Real : Cardinality(S0) = MinCohorts
                                      /\ \A id \in S0 : w \in rows[id].wallets
      BY <2>3, <2>8
    <3>2. S0 \subseteq With(w)
      BY <2>4, <3>1
    <3> QED BY <2>1, <2>5, <3>1, <3>2, SmallerSet
  <2> QED BY <2>2, <2>7, <2>8
<1> QED BY <1>1 DEF C!Belong, C!RepeatWallets

LEMMA BelongStaysRepeats == CohortTyped' => (C!Belong = C!RepeatWallets)'
BY BelongIsRepeats, PTL

\* What is repeated depends on the user's watchlists alone.
LEMMA RepeatsUntouched ==
    ASSUME C!Real' = C!Real, \A id \in C!Real : rows'[id] = rows[id]
    PROVE  C!RepeatWallets' = C!RepeatWallets
<1>1. \A w \in Wallets : {id \in C!Real' : w \in rows'[id].wallets}
                            = {id \in C!Real : w \in rows[id].wallets}
  OBVIOUS
<1>2. \A w \in Wallets : C!Cardinality({id \in C!Real' : w \in rows'[id].wallets})
                            = C!Cardinality({id \in C!Real : w \in rows[id].wallets})
  BY <1>1
<1> QED BY <1>2 DEF C!RepeatWallets

\* What a rebuild has read stays so until somebody writes.
LEMMA CohortNextAlone ==
    ASSUME CohortTyped, AloneKnows, [C!Next]_C!vars
    PROVE  AloneKnows'
<1> USE CohortBounds
<1>0. /\ pc \in [Handlers -> {"idle", "adding", "removing", "reading",
                              "finding", "creating", "replacing"}]
      /\ target \in [Handlers -> C!Ids \cup {None}]
      /\ wallets \in [Handlers -> SUBSET Wallets]
      /\ alone \in [Handlers -> BOOLEAN]
  BY DEF CohortTyped, C!TypeOK
<1>1. ASSUME NEW h \in Handlers, C!Wrote(h),
             pc'[h] \notin {"finding", "creating", "replacing"}
      PROVE  AloneKnows'
  BY <1>1 DEF C!Wrote, AloneKnows
<1>2. ASSUME UNCHANGED rows
      PROVE  /\ C!Real' = C!Real /\ C!Derived' = C!Derived
             /\ C!RepeatWallets' = C!RepeatWallets
  <2>1. C!Real' = C!Real /\ C!Derived' = C!Derived
    BY <1>2 DEF C!Real, C!Derived, C!Exists
  <2> QED BY <1>2, <2>1, RepeatsUntouched
<1>3. ASSUME NEW h \in Handlers, UNCHANGED rows,
             \A o \in Handlers \ {h} :
                /\ pc'[o] = pc[o] /\ target'[o] = target[o]
                /\ wallets'[o] = wallets[o] /\ alone'[o] = alone[o],
             alone'[h] /\ pc'[h] \in {"finding", "creating", "replacing"} =>
                /\ wallets'[h] = C!RepeatWallets
                /\ pc'[h] = "creating" => C!Derived = {}
                /\ pc'[h] = "replacing" => target'[h] \in C!Derived
      PROVE  AloneKnows'
  BY <1>2, <1>3 DEF AloneKnows
<1>4. ASSUME NEW h \in Handlers,
             \/ \E new \in SUBSET Wallets : C!CreateWatchlist(h, new)
             \/ \E i \in C!Ids : C!DeleteWatchlist(h, i)
             \/ C!AddWallets(h) \/ C!RemoveWallets(h)
             \/ C!CreateDerived(h) \/ C!ReplaceWallets(h)
      PROVE  AloneKnows'
  <2>1. C!Wrote(h) /\ pc'[h] \notin {"finding", "creating", "replacing"}
    BY <1>0, <1>4
       DEF C!CreateWatchlist, C!DeleteWatchlist, C!AddWallets, C!RemoveWallets,
           C!CreateDerived, C!ReplaceWallets, C!Rebuild, C!Goto, C!Done
  <2> QED BY <1>1, <2>1
<1>5. ASSUME NEW h \in Handlers,
             \/ C!Derive(h) \/ C!Fail(h)
             \/ \E i \in C!Ids, add, remove \in SUBSET Wallets :
                   C!ReadForPatch(h, i, add, remove)
      PROVE  AloneKnows'
  <2>1. /\ UNCHANGED <<rows, alone>>
        /\ pc'[h] \notin {"finding", "creating", "replacing"}
    BY <1>0, <1>5
       DEF C!Derive, C!Rebuild, C!Fail, C!ReadForPatch, C!Goto, C!Done
  <2>2. \A o \in Handlers \ {h} :
           /\ pc'[o] = pc[o] /\ target'[o] = target[o] /\ wallets'[o] = wallets[o]
    BY <1>0, <1>5
       DEF C!Derive, C!Rebuild, C!Fail, C!ReadForPatch, C!Goto, C!Done
  <2> QED BY <1>3, <2>1, <2>2
<1>6. ASSUME NEW h \in Handlers, C!ReadRepeats(h)
      PROVE  AloneKnows'
  <2>1. /\ wallets' = [wallets EXCEPT ![h] = C!RepeatWallets]
        /\ alone' = [alone EXCEPT ![h] = TRUE]
        /\ pc' = [pc EXCEPT ![h] = "finding"]
        /\ UNCHANGED <<rows, target>>
    BY <1>6 DEF C!ReadRepeats, C!Goto
  <2>2. /\ wallets'[h] = C!RepeatWallets /\ pc'[h] = "finding"
        /\ \A o \in Handlers \ {h} :
              /\ pc'[o] = pc[o] /\ target'[o] = target[o]
              /\ wallets'[o] = wallets[o] /\ alone'[o] = alone[o]
    BY <1>0, <2>1
  <2> QED BY <1>3, <2>1, <2>2
<1>7. ASSUME NEW h \in Handlers, C!FindDerived(h)
      PROVE  AloneKnows'
  <2>1. /\ pc[h] = "finding" /\ UNCHANGED <<rows, alone>>
        /\ \/ /\ pc' = [pc EXCEPT ![h] = "creating"] /\ C!FoundDerived = None
              /\ UNCHANGED <<target, wallets>>
           \/ /\ pc' = [pc EXCEPT ![h] = "replacing"] /\ C!FoundDerived # None
              /\ target' = [target EXCEPT ![h] = C!FoundDerived] /\ UNCHANGED wallets
           \/ /\ pc' = [pc EXCEPT ![h] = "idle"]
              /\ target' = [target EXCEPT ![h] = None]
              /\ wallets' = [wallets EXCEPT ![h] = {}]
    BY <1>7 DEF C!FindDerived, C!Creates, C!Goto, C!Done
  <2>2. \A o \in Handlers \ {h} :
           /\ pc'[o] = pc[o] /\ target'[o] = target[o] /\ wallets'[o] = wallets[o]
    BY <1>0, <2>1
  <2>3. alone[h] => wallets[h] = C!RepeatWallets
    BY <2>1 DEF AloneKnows
  <2>4. alone'[h] /\ pc'[h] \in {"finding", "creating", "replacing"} =>
           /\ wallets'[h] = C!RepeatWallets
           /\ pc'[h] = "creating" => C!Derived = {}
           /\ pc'[h] = "replacing" => target'[h] \in C!Derived
    BY <1>0, <2>1, <2>3, FoundIsDerived
  <2> QED BY <1>3, <2>1, <2>2, <2>4
<1>8. CASE UNCHANGED C!vars
  <2>1. UNCHANGED <<rows, pc, target, wallets, alone>>
    BY <1>8 DEF C!vars, C!locals
  <2> QED BY <1>2, <2>1 DEF AloneKnows
<1> QED
  BY <1>4, <1>5, <1>6, <1>7, <1>8 DEF C!Next

\* A rebuild that nobody wrote during leaves what belongs.
LEMMA CohortStepExact ==
    ASSUME CohortTyped, ReplacesDerived, AloneKnows, [C!Next]_C!vars
    PROVE  C!RebuildIsExact
<1> USE CohortBounds
<1>0. /\ pc \in [Handlers -> {"idle", "adding", "removing", "reading",
                              "finding", "creating", "replacing"}]
      /\ wallets \in [Handlers -> SUBSET Wallets]
      /\ faults \in Nat
      /\ rows \in [C!Ids -> C!Row \cup {None}]
  BY DEF CohortTyped, C!TypeOK
<1> SUFFICES ASSUME NEW h \in Handlers,
                    pc[h] \in {"finding", "creating", "replacing"}, pc'[h] = "idle",
                    alone'[h], faults' = faults
             PROVE  C!Current'
  BY DEF C!RebuildIsExact
<1>1. C!FindDerived(h) \/ C!CreateDerived(h) \/ C!ReplaceWallets(h)
  <2>1. ~UNCHANGED C!vars
    <3>1. pc'[h] # pc[h]
      OBVIOUS
    <3> QED BY <3>1 DEF C!vars, C!locals
  <2>2. PICK o \in Handlers :
           \/ \E new \in SUBSET Wallets : C!CreateWatchlist(o, new)
           \/ \E i \in C!Ids : C!DeleteWatchlist(o, i)
           \/ \E i \in C!Ids, add, remove \in SUBSET Wallets :
                 C!ReadForPatch(o, i, add, remove)
           \/ C!Derive(o)
           \/ C!AddWallets(o) \/ C!RemoveWallets(o)
           \/ C!ReadRepeats(o) \/ C!FindDerived(o) \/ C!CreateDerived(o)
           \/ C!ReplaceWallets(o) \/ C!Fail(o)
    BY <2>1 DEF C!Next
  <2>3. \E where \in {"idle", "adding", "removing", "reading",
                      "finding", "creating", "replacing"} :
           pc' = [pc EXCEPT ![o] = where]
    BY <2>2
       DEF C!CreateWatchlist, C!DeleteWatchlist, C!ReadForPatch, C!Derive,
           C!AddWallets, C!RemoveWallets, C!ReadRepeats, C!FindDerived,
           C!CreateDerived, C!ReplaceWallets, C!Fail, C!Rebuild, C!Goto, C!Done
  <2>4. o = h
    BY <1>0, <2>3
  <2>5. ~C!Fail(o)
    BY <1>0 DEF C!Fail
  <2> QED
    BY <1>0, <2>2, <2>4, <2>5
       DEF C!CreateWatchlist, C!DeleteWatchlist, C!ReadForPatch, C!Derive, C!Request,
           C!AddWallets, C!RemoveWallets, C!ReadRepeats
<1>2. C!Belong = C!RepeatWallets
  BY BelongIsRepeats
<1>3. CohortTyped'
  BY CohortNextTyped
<1>4. C!Belong' = C!RepeatWallets'
  BY <1>3, BelongStaysRepeats
<1>5. alone[h] /\ wallets[h] = C!RepeatWallets
  <2>1. alone[h]
    BY <1>1 DEF C!FindDerived, C!CreateDerived, C!ReplaceWallets, C!Wrote
  <2> QED BY <2>1 DEF AloneKnows
<1>6. CASE C!FindDerived(h)
  <2>1. C!FoundDerived = None /\ wallets[h] = {} /\ UNCHANGED rows
    BY <1>0, <1>6 DEF C!FindDerived, C!Goto, C!Done
  <2>2. C!Derived = {}
    BY <2>1, FoundIsDerived
  <2>3. C!Derived' = {} /\ C!Real' = C!Real
    BY <2>1, <2>2 DEF C!Derived, C!Real, C!Exists
  <2>4. C!Belong' = {}
    BY <1>4, <1>5, <2>1, <2>3, RepeatsUntouched
  <2> QED BY <2>3, <2>4 DEF C!Current
<1>7. CASE C!CreateDerived(h)
  <2>1. /\ pc[h] = "creating" /\ nextId \in C!Ids
        /\ rows' = C!Insert(TRUE, wallets[h])
    BY <1>7 DEF C!CreateDerived
  <2>2. /\ C!Derived' = C!Derived \cup {nextId} /\ C!Real' = C!Real
        /\ rows'[nextId] = [derived |-> TRUE, wallets |-> wallets[h]]
        /\ \A id \in C!Ids : id # nextId => rows'[id] = rows[id]
        /\ nextId \notin C!Real
    BY <1>0, <2>1, RowInserted
  <2>3. C!RepeatWallets' = C!RepeatWallets
    BY <2>2, RepeatsUntouched DEF C!Real
  <2>4. nextId \in C!Derived' /\ rows'[nextId].wallets = C!Belong'
    BY <1>4, <1>5, <2>2, <2>3
  <2> QED BY <2>4 DEF C!Current
<1>8. CASE C!ReplaceWallets(h)
  <2>1. pc[h] = "replacing"
    BY <1>8 DEF C!ReplaceWallets
  <2>2. target[h] \in C!Derived
    BY <1>5, <2>1 DEF AloneKnows
  <2>3. /\ target[h] \in C!Ids /\ C!Derived' = C!Derived /\ C!Real' = C!Real
        /\ \A id \in C!Ids : id # target[h] => rows'[id] = rows[id]
    BY <1>8, WalletsWritten
  <2>4. target[h] \notin C!Real
    BY <2>2 DEF C!Real, C!Derived
  <2>5. C!RepeatWallets' = C!RepeatWallets
    BY <2>3, <2>4, RepeatsUntouched DEF C!Real
  <2>6. rows[target[h]] \in C!Row
        /\ rows' = [rows EXCEPT ![target[h]].wallets = wallets[h]]
    BY <1>0, <1>8, <2>2, <2>3 DEF C!ReplaceWallets, C!Derived, C!Exists
  <2>7. rows'[target[h]].wallets = wallets[h]
    BY <1>0, <2>3, <2>6 DEF C!Row
  <2>8. target[h] \in C!Derived' /\ rows'[target[h]].wallets = C!Belong'
    BY <1>4, <1>5, <2>2, <2>3, <2>5, <2>7
  <2> QED BY <2>8 DEF C!Current
<1> QED BY <1>1, <1>6, <1>7, <1>8

\* Together.
LEMMA CohortNext ==
    ASSUME CohortInv, [C!Next]_C!vars
    PROVE  CohortInv'
BY CohortNextTyped, CohortNextOne, CohortNextCap, CohortNextAlone DEF CohortInv

LEMMA CohortProperties ==
    ASSUME CohortInv
    PROVE  C!OneDerivedUnlessLapped /\ C!CapHolds
<1>1. ASSUME ~lapped  PROVE C!Cardinality(C!Derived) <= 1
  <2>1. \A i, j \in C!Derived : i = j
    BY <1>1 DEF CohortInv, OneDerived
  <2>2. CASE C!Derived = {}
    BY <2>2, CohortCards, FS_EmptySet
  <2>3. CASE C!Derived # {}
    <3>1. PICK i : i \in C!Derived
      BY <2>3
    <3>2. C!Derived = {i}
      BY <2>1, <3>1
    <3>3. Cardinality({i}) = 1
      BY FS_Singleton
    <3> QED BY <3>2, <3>3, CohortCards
  <2> QED BY <2>2, <2>3
<1>2. ASSUME ~crossed, faults = 0, \A h \in Handlers : ~C!Patching(h),
             NEW id \in C!Real
      PROVE  C!Cardinality(rows[id].wallets) <= WalletCap
  <2>1. Within(rows[id].wallets)
    BY <1>2 DEF CohortInv, CapKept
  <2> QED BY <2>1, CohortCards DEF Within
<1> QED BY <1>1, <1>2 DEF C!OneDerivedUnlessLapped, C!CapHolds

-----------------------------------------------------------------------------
(* The files of the job store and of the cache. *)

\* What Files assumes of its constants.
LEMMA FileBounds ==
    /\ MaxEntries \in Nat /\ MaxEntries >= 1 /\ MaxCrashes \in Nat
    /\ F!Puts = Jobs \cup Updates /\ F!Names = Jobs \cup {Entry}
    /\ Jobs \cap Updates = {} /\ Entry \notin F!Puts /\ None \notin F!Puts
    /\ \A n \in Jobs : F!Name(n) = n
    /\ \A u \in Updates : F!Name(u) = Entry
BY PartsAssumption DEF F!FilesAssumption, F!Puts, F!Names, F!Name

LEMMA FileCards ==
    ASSUME NEW X
    PROVE  F!Cardinality(X) = Cardinality(X)
BY DEF F!Cardinality, Cardinality

LEMMA FinitePuts ==
    /\ IsFiniteSet(F!Puts) /\ IsFiniteSet(Jobs)
    /\ Cardinality(F!Puts) \in Nat
<1>1. IsFiniteSet(F!Puts)
  BY PartsAssumption DEF F!FilesAssumption, F!Puts, F!IsFiniteSet, IsFiniteSet
<1>2. Jobs \subseteq F!Puts
  BY FileBounds
<1> QED BY <1>1, <1>2, FS_Subset, FS_CardinalityType

\* The puts that have a write ahead of them.
Pending == {p \in F!Puts : at[p] \in {"new", "opened"}}

\* Types, and the clock has ticks left for every write that may come.
FileTyped ==
    /\ F!TypeOK
    /\ clock + Cardinality(Pending) <= Cardinality(F!Puts) + 1
    /\ \A u \in Updates : at[u] \in {"new", "opened", "written", "done"}

\* A result's file is its own put's from the first byte on.
JobFiles ==
    /\ \A n \in Jobs :
          /\ partial[n] \in {None, n} /\ path[n] \in {None, n}
          /\ at[n] = "new" => partial[n] = None /\ path[n] = None
          /\ at[n] \in {"opened", "written"} => inode[n] = n /\ path[n] = None
          /\ at[n] = "opened" => content[n] = "nothing"
          /\ at[n] = "written" => content[n] = n /\ written[n] > 0
          /\ path[n] = n => content[n] = n /\ written[n] > 0
    /\ \A u \in Updates : inode[u] \in Updates \cup {None}
    /\ partial[Entry] \in Updates \cup {None}
    /\ path[Entry] \in Updates \cup {None}

\* Two puts of the cache had the same .partial file open.
Shared == \E u, v \in Updates : u # v /\ inode[u] = inode[v] /\ inode[u] # None

\* An inode was opened first by the put it is named for; and until two share one,
\* the put that is writing has the .partial for itself.
EntryFile ==
    /\ \A u \in Updates : /\ at[u] = "new" => inode[u] = None
                          /\ inode[u] # None => inode[inode[u]] = inode[u]
    /\ partial[Entry] # None => inode[partial[Entry]] = partial[Entry]
    /\ path[Entry] # None => inode[path[Entry]] = path[Entry]
    /\ ~Shared =>
          /\ \A u \in Updates :
                /\ inode[u] \in {None, u}
                /\ at[u] \in {"opened", "written"} =>
                      inode[u] = u /\ partial[Entry] = u /\ path[Entry] # u
                /\ at[u] = "opened" => content[u] = "nothing"
                /\ at[u] = "written" => content[u] = u
          /\ path[Entry] # None => content[path[Entry]] = path[Entry]

\* What a prune has listed is finished, and it knows when it was written; no two
\* results were written at a time.
PruneKnows ==
    /\ \A p \in F!Puts : at[p] \in {"sorting", "expiring", "trimming"} =>
          \A n \in F!Listed(p) :
              /\ at[n] \notin {"new", "opened", "written"} /\ written[n] > 0
              /\ at[p] \in {"expiring", "trimming"} => listed[p][n] = written[n]
    /\ \A p \in F!Puts : written[p] < clock
    /\ \A n, m \in Jobs : written[n] = written[m] /\ written[n] > 0 => n = m

Newer(n) == {m \in Jobs : written[m] > written[n]}

\* Enough newer results than one that was dropped.
DroppedAreOld ==
    \A n \in dropped :
        /\ at[n] \notin {"new", "opened"}
        /\ Cardinality(Newer(n)) >= MaxEntries

\* Unless a prune was given up, the fresh results are within the cap, or a prune
\* that is going on has them all on its list or has not listed yet.
CapAhead ==
    ~raced /\ crashes = 0 =>
        \/ Cardinality(F!Results \ expired) <= MaxEntries
        \/ \E p \in Jobs :
              \/ at[p] = "listing"
              \/ /\ at[p] \in {"sorting", "expiring", "trimming"}
                 /\ F!Results \ expired \subseteq F!Listed(p)

FileInv ==
    FileTyped /\ JobFiles /\ EntryFile /\ PruneKnows /\ DroppedAreOld /\ CapAhead

\* A map of times has names for its domain.
LEMMA ListedIsNames ==
    ASSUME F!TypeOK, NEW p \in F!Puts
    PROVE  /\ F!Listed(p) \in SUBSET Jobs
           /\ listed[p] \in [F!Listed(p) -> 0 .. Cardinality(F!Puts)]
<1>1. listed[p] \in UNION {[names -> 0 .. Cardinality(F!Puts)] :
                              names \in SUBSET Jobs}
  BY FileCards DEF F!TypeOK
<1>2. PICK names \in SUBSET Jobs : listed[p] \in [names -> 0 .. Cardinality(F!Puts)]
  BY <1>1
<1> QED BY <1>2 DEF F!Listed

LEMMA TimesTyped ==
    ASSUME NEW names \in SUBSET Jobs, NEW f \in [names -> 0 .. Cardinality(F!Puts)]
    PROVE  f \in UNION {[ns -> 0 .. F!Cardinality(F!Puts)] : ns \in SUBSET Jobs}
BY FileCards

LEMMA FileInit == F!Init => FileInv
<1> SUFFICES ASSUME F!Init PROVE FileInv
  OBVIOUS
<1> USE FileBounds, FinitePuts
<1>0. /\ partial = [n \in F!Names |-> None] /\ path = [n \in F!Names |-> None]
      /\ content = [p \in F!Puts |-> "nothing"]
      /\ clock = 1 /\ written = [p \in F!Puts |-> 0]
      /\ expired = {} /\ inode = [p \in F!Puts |-> None]
      /\ listed = [p \in F!Puts |-> F!Nothing]
      /\ dropped = {} /\ crashes = 0
  BY DEF F!Init
<1>1. at \in [F!Puts -> {"new", "done"}]
  BY DEF F!Init
<1>2. FileTyped
  <2>1. Cardinality(Pending) <= Cardinality(F!Puts) /\ Cardinality(Pending) \in Nat
    BY SmallerSet DEF Pending
  <2>2. listed \in [F!Puts -> UNION {[names -> 0 .. F!Cardinality(F!Puts)] :
                                        names \in SUBSET Jobs}]
    <3>1. F!Nothing \in [{} -> 0 .. Cardinality(F!Puts)] /\ {} \in SUBSET Jobs
      BY DEF F!Nothing
    <3>2. F!Nothing \in UNION {[names -> 0 .. F!Cardinality(F!Puts)] :
                                  names \in SUBSET Jobs}
      BY <3>1, TimesTyped
    <3> QED BY <1>0, <3>2
  <2>3. raced \in BOOLEAN
    BY Zenon DEF F!Init
  <2>4. /\ clock \in 1 .. Cardinality(F!Puts) + 1
        /\ written \in [F!Puts -> 0 .. Cardinality(F!Puts)]
        /\ crashes \in 0 .. MaxCrashes
    <3>1. \A k \in Nat : 1 \in 1 .. k + 1 /\ 0 \in 0 .. k
      OBVIOUS
    <3>2. 1 \in 1 .. Cardinality(F!Puts) + 1 /\ 0 \in 0 .. Cardinality(F!Puts)
          /\ 0 \in 0 .. MaxCrashes
      BY <3>1
    <3> QED BY <1>0, <3>2
  <2>5. /\ partial \in [F!Names -> F!Puts \cup {None}]
        /\ path \in [F!Names -> F!Puts \cup {None}]
        /\ content \in [F!Puts -> F!Puts \cup {"nothing", "mixed"}]
        /\ inode \in [F!Puts -> F!Puts \cup {None}]
    BY <1>0
  <2>6. at \in [F!Puts -> {"new", "opened", "written", "listing", "sorting",
                           "expiring", "trimming", "done"}]
    BY <1>1
  <2>7. expired \subseteq Jobs /\ dropped \subseteq Jobs
    BY <1>0
  <2>8. F!TypeOK
    BY <2>2, <2>3, <2>4, <2>5, <2>6, <2>7, FileCards DEF F!TypeOK
  <2>9. clock + Cardinality(Pending) <= Cardinality(F!Puts) + 1
    BY <1>0, <2>1
  <2> QED BY <1>1, <2>8, <2>9 DEF FileTyped
<1>3. JobFiles
  BY <1>0, <1>1 DEF JobFiles
<1>4. EntryFile
  BY <1>0, <1>1 DEF EntryFile
<1>5. PruneKnows
  BY <1>0, <1>1 DEF PruneKnows
<1>6. DroppedAreOld
  BY <1>0 DEF DroppedAreOld
<1>7. CapAhead
  <2>1. F!Results \ expired = {}
    BY <1>0 DEF F!Results
  <2>2. Cardinality(F!Results \ expired) = 0
    BY <2>1, FS_EmptySet
  <2> QED BY <2>2 DEF CapAhead
<1> QED BY <1>2, <1>3, <1>4, <1>5, <1>6, <1>7 DEF FileInv

FileTimes == UNION {[names -> 0 .. F!Cardinality(F!Puts)] : names \in SUBSET Jobs}
FileStages == {"new", "opened", "written", "listing", "sorting", "expiring",
               "trimming", "done"}

\* What is left to show of a step for the types.
LEMMA FileTypedStep ==
    ASSUME FileTyped,
           partial' \in [F!Names -> F!Puts \cup {None}],
           path' \in [F!Names -> F!Puts \cup {None}],
           content' \in [F!Puts -> F!Puts \cup {"nothing", "mixed"}],
           inode' \in [F!Puts -> F!Puts \cup {None}],
           written' \in [F!Puts -> 0 .. Cardinality(F!Puts)],
           listed' \in [F!Puts -> FileTimes],
           at' \in [F!Puts -> FileStages],
           \A u \in Updates : at'[u] \in {"new", "opened", "written", "done"},
           \/ clock' = clock /\ Pending' \subseteq Pending
           \/ clock' = clock + 1 /\ \E p \in Pending : Pending' = Pending \ {p},
           expired' \subseteq Jobs, dropped' \subseteq Jobs,
           raced' \in BOOLEAN, crashes' \in 0 .. MaxCrashes
    PROVE  FileTyped'
<1> USE FileBounds, FinitePuts
<1>1. /\ clock \in Nat /\ clock >= 1
      /\ clock + Cardinality(Pending) <= Cardinality(F!Puts) + 1
  BY FileCards DEF FileTyped, F!TypeOK
<1>2. IsFiniteSet(Pending) /\ Cardinality(Pending) \in Nat
  BY SmallerSet DEF Pending
<1>3. clock' + Cardinality(Pending') <= Cardinality(F!Puts) + 1
      /\ Cardinality(Pending') \in Nat /\ clock' \in Nat /\ clock' >= 1
  <2>1. CASE clock' = clock /\ Pending' \subseteq Pending
    <3>1. Cardinality(Pending') <= Cardinality(Pending) /\ Cardinality(Pending') \in Nat
      BY <1>2, <2>1, SmallerSet
    <3> QED BY <1>1, <1>2, <2>1, <3>1
  <2>2. CASE clock' = clock + 1 /\ \E p \in Pending : Pending' = Pending \ {p}
    <3>1. PICK p \in Pending : Pending' = Pending \ {p}
      BY <2>2
    <3>2. Cardinality(Pending \ {p}) = Cardinality(Pending) - 1
      BY <1>2, FS_RemoveElement
    <3>3. Cardinality(Pending \ {p}) \in Nat
      BY <1>2, SmallerSet
    <3>4. Cardinality(Pending') = Cardinality(Pending) - 1
          /\ Cardinality(Pending') \in Nat
      BY <3>1, <3>2, <3>3
    <3> QED BY <1>1, <1>2, <2>2, <3>4
  <2> QED BY <2>1, <2>2
<1>4. clock' \in 1 .. Cardinality(F!Puts) + 1
  BY <1>3
<1>5. F!TypeOK'
  BY <1>4, FileCards DEF F!TypeOK, FileTimes, FileStages
<1> QED BY <1>3, <1>5 DEF FileTyped

LEMMA FileNextTyped ==
    ASSUME FileTyped, [F!Next]_F!vars
    PROVE  FileTyped'
<1> USE FileBounds, FinitePuts
<1>0. /\ partial \in [F!Names -> F!Puts \cup {None}]
      /\ path \in [F!Names -> F!Puts \cup {None}]
      /\ content \in [F!Puts -> F!Puts \cup {"nothing", "mixed"}]
      /\ inode \in [F!Puts -> F!Puts \cup {None}]
      /\ written \in [F!Puts -> 0 .. Cardinality(F!Puts)]
      /\ listed \in [F!Puts -> FileTimes]
      /\ at \in [F!Puts -> FileStages]
      /\ \A u \in Updates : at[u] \in {"new", "opened", "written", "done"}
      /\ expired \subseteq Jobs /\ dropped \subseteq Jobs
      /\ raced \in BOOLEAN /\ crashes \in 0 .. MaxCrashes
  BY FileCards DEF FileTyped, F!TypeOK, FileTimes, FileStages
<1>00. ASSUME NEW p \in F!Puts, NEW where \in FileStages,
              at[p] \notin {"new", "opened"},
              at' = [at EXCEPT ![p] = where], where \notin {"new", "opened"}
       PROVE  at' \in [F!Puts -> FileStages] /\ Pending' \subseteq Pending
  BY <1>0, <1>00 DEF Pending
<1>01. F!Nothing \in FileTimes
  BY TimesTyped DEF F!Nothing, FileTimes
<1>1. ASSUME NEW p \in F!Puts, F!Open(p)
      PROVE  FileTyped'
  <2>1. F!Opened(p) \in F!Puts /\ F!Name(p) \in F!Names
    BY <1>0 DEF F!Opened
  <2>2. /\ at[p] = "new" /\ at' = [at EXCEPT ![p] = "opened"]
        /\ inode' = [inode EXCEPT ![p] = F!Opened(p)]
        /\ partial' = [partial EXCEPT ![F!Name(p)] = F!Opened(p)]
        /\ content' = [content EXCEPT ![F!Opened(p)] = "nothing"]
        /\ UNCHANGED <<path, clock, written, expired, listed, dropped, raced, crashes>>
    BY <1>1 DEF F!Open, F!Goto
  <2>3. /\ at' \in [F!Puts -> FileStages] /\ Pending' \subseteq Pending
        /\ \A u \in Updates : at'[u] \in {"new", "opened", "written", "done"}
    BY <1>0, <2>2 DEF Pending, FileStages
  <2>4. /\ partial' \in [F!Names -> F!Puts \cup {None}]
        /\ content' \in [F!Puts -> F!Puts \cup {"nothing", "mixed"}]
        /\ inode' \in [F!Puts -> F!Puts \cup {None}]
    BY <1>0, <2>1, <2>2
  <2> QED BY <1>0, <2>2, <2>3, <2>4, FileTypedStep
<1>2. ASSUME NEW p \in F!Puts, F!Write(p)
      PROVE  FileTyped'
  <2>1. /\ at[p] = "opened" /\ at' = [at EXCEPT ![p] = "written"]
        /\ written' = [written EXCEPT ![inode[p]] = clock]
        /\ \/ content' = [content EXCEPT ![inode[p]] = p]
           \/ content' = [content EXCEPT ![inode[p]] = "mixed"]
        /\ clock' = clock + 1
        /\ UNCHANGED <<partial, path, expired, inode, listed, dropped, raced, crashes>>
    BY <1>2 DEF F!Write, F!Goto, F!Dump
  <2>2. p \in Pending /\ Pending' = Pending \ {p}
    BY <1>0, <2>1 DEF Pending, FileStages
  <2>3. /\ at' \in [F!Puts -> FileStages]
        /\ \A u \in Updates : at'[u] \in {"new", "opened", "written", "done"}
    BY <1>0, <2>1 DEF FileStages
  <2>4. content' \in [F!Puts -> F!Puts \cup {"nothing", "mixed"}]
    BY <1>0, <2>1
  <2>5. clock \in 0 .. Cardinality(F!Puts)
    <3>1. Cardinality(Pending) \in Nat /\ Cardinality(Pending) # 0
      <4>1. IsFiniteSet(Pending)
        BY SmallerSet DEF Pending
      <4> QED BY <2>2, <4>1, FS_EmptySet, FS_CardinalityType
    <3>2. clock \in Nat /\ clock + Cardinality(Pending) <= Cardinality(F!Puts) + 1
      BY FileCards DEF FileTyped, F!TypeOK
    <3> QED BY <3>1, <3>2
  <2>6. written' \in [F!Puts -> 0 .. Cardinality(F!Puts)]
    BY <1>0, <2>1, <2>5
  <2> QED BY <1>0, <2>1, <2>2, <2>3, <2>4, <2>6, FileTypedStep
<1>3. ASSUME NEW p \in F!Puts, F!Rename(p)
      PROVE  FileTyped'
  <2>1. /\ at[p] = "written"
        /\ at' = [at EXCEPT ![p] = IF p \in Jobs THEN "listing" ELSE "done"]
        /\ \/ /\ path' = [path EXCEPT ![F!Name(p)] = partial[F!Name(p)]]
              /\ partial' = [partial EXCEPT ![F!Name(p)] = None]
           \/ UNCHANGED <<path, partial>>
        /\ UNCHANGED <<content, clock, written, expired, inode, listed, dropped,
                       raced, crashes>>
    BY <1>3 DEF F!Rename, F!Goto
  <2>2. /\ at' \in [F!Puts -> FileStages] /\ Pending' \subseteq Pending
        /\ \A u \in Updates : at'[u] \in {"new", "opened", "written", "done"}
    BY <1>0, <2>1 DEF Pending, FileStages
  <2>3. /\ path' \in [F!Names -> F!Puts \cup {None}]
        /\ partial' \in [F!Names -> F!Puts \cup {None}]
    BY <1>0, <2>1
  <2> QED BY <1>0, <2>1, <2>2, <2>3, FileTypedStep
<1>4. ASSUME NEW p \in F!Puts,
             F!List(p) \/ F!Sort(p) \/ F!DropExpired(p) \/ F!Trim(p) \/ F!Trimmed(p)
      PROVE  FileTyped'
  <2>1. /\ at[p] \in {"listing", "sorting", "expiring", "trimming"} /\ p \in Jobs
        /\ UNCHANGED <<partial, content, clock, written, expired, inode, crashes>>
    BY <1>0, <1>4
       DEF F!List, F!Sort, F!DropExpired, F!Trim, F!Trimmed, F!disk, FileStages
  <2>2. \E where \in {"sorting", "expiring", "trimming", "done"} :
           at' = [at EXCEPT ![p] = where]
    BY <1>0, <1>4
       DEF F!List, F!Sort, F!DropExpired, F!Trim, F!Trimmed, F!Goto, FileStages
  <2>3. /\ at' \in [F!Puts -> FileStages] /\ Pending' \subseteq Pending
        /\ \A u \in Updates : at'[u] \in {"new", "opened", "written", "done"}
    BY <1>0, <2>1, <2>2 DEF Pending, FileStages
  <2>4. F!Listed(p) \in SUBSET Jobs
        /\ listed[p] \in [F!Listed(p) -> 0 .. Cardinality(F!Puts)]
    BY ListedIsNames DEF FileTyped
  <2>5. path' \in [F!Names -> F!Puts \cup {None}]
    BY <1>0, <1>4
       DEF F!List, F!Sort, F!DropExpired, F!Trim, F!Trimmed, F!disk
  <2>6. listed' \in [F!Puts -> FileTimes]
    <3>1. CASE F!List(p)
      <4>1. F!Results \in SUBSET Jobs
            /\ [n \in F!Results |-> 0] \in [F!Results -> 0 .. Cardinality(F!Puts)]
        BY DEF F!Results
      <4>2. [n \in F!Results |-> 0] \in FileTimes
        BY <4>1, TimesTyped DEF FileTimes
      <4> QED BY <1>0, <3>1, <4>2 DEF F!List
    <3>2. CASE F!Sort(p)
      <4>1. CASE F!Listed(p) \subseteq F!Results
        <5>1. \A n \in F!Listed(p) : path[n] \in F!Puts
          BY <1>0, <2>4, <4>1 DEF F!Results
        <5>2. [n \in F!Listed(p) |-> written[path[n]]]
                 \in [F!Listed(p) -> 0 .. Cardinality(F!Puts)]
          BY <1>0, <5>1
        <5>3. [n \in F!Listed(p) |-> written[path[n]]] \in FileTimes
          BY <2>4, <5>2, TimesTyped DEF FileTimes
        <5> QED BY <1>0, <3>2, <4>1, <5>3 DEF F!Sort
      <4>2. CASE ~(F!Listed(p) \subseteq F!Results)
        BY <1>0, <1>01, <3>2, <4>2 DEF F!Sort
      <4> QED BY <4>1, <4>2
    <3>3. ASSUME NEW ns \in SUBSET F!Listed(p)
          PROVE  F!Restrict(listed[p], ns) \in FileTimes
      <4>1. F!Restrict(listed[p], ns) \in [ns -> 0 .. Cardinality(F!Puts)]
        BY <2>4 DEF F!Restrict
      <4> QED BY <2>4, <4>1, TimesTyped DEF FileTimes
    <3>4. CASE F!DropExpired(p)
      <4>1. PICK ns \in SUBSET F!Listed(p) :
               listed' = [listed EXCEPT ![p] = F!Restrict(listed[p], ns)]
        BY <1>0, <3>4 DEF F!DropExpired
      <4> QED BY <1>0, <3>3, <4>1
    <3>5. CASE F!Trim(p)
      <4>1. PICK ns \in SUBSET F!Listed(p) :
               listed' = [listed EXCEPT ![p] = F!Restrict(listed[p], ns)]
        BY <1>0, <3>5 DEF F!Trim
      <4> QED BY <1>0, <3>3, <4>1
    <3>6. CASE F!Trimmed(p)
      BY <1>0, <1>01, <3>6 DEF F!Trimmed
    <3> QED BY <1>4, <3>1, <3>2, <3>4, <3>5, <3>6
  <2>7. dropped' \subseteq Jobs
    BY <1>0, <1>4
       DEF F!List, F!Sort, F!DropExpired, F!Trim, F!Trimmed, F!Results
  <2>8. raced' \in BOOLEAN
    BY <1>0, <1>4, Zenon
       DEF F!List, F!Sort, F!DropExpired, F!Trim, F!Trimmed
  <2> QED BY <1>0, <2>1, <2>3, <2>5, <2>6, <2>7, <2>8, FileTypedStep
<1>5. ASSUME NEW p \in F!Puts, F!Crash(p)
      PROVE  FileTyped'
  <2>1. /\ at[p] \notin {"new", "done"} /\ at' = [at EXCEPT ![p] = "done"]
        /\ listed' = [listed EXCEPT ![p] = F!Nothing]
        /\ UNCHANGED <<partial, path, content, clock, written, expired, inode,
                       dropped, raced>>
    BY <1>5 DEF F!Crash, F!Goto, F!disk
  <2>2. crashes' \in 0 .. MaxCrashes
    BY <1>0, <1>5 DEF F!Crash
  <2>3. /\ at' \in [F!Puts -> FileStages] /\ Pending' \subseteq Pending
        /\ \A u \in Updates : at'[u] \in {"new", "opened", "written", "done"}
    BY <1>0, <2>1 DEF Pending, FileStages
  <2>4. listed' \in [F!Puts -> FileTimes]
    BY <1>0, <1>01, <2>1
  <2> QED BY <1>0, <2>1, <2>2, <2>3, <2>4, FileTypedStep
<1>6. ASSUME NEW n \in Jobs, F!Expire(n)
      PROVE  FileTyped'
  <2>1. /\ expired' \subseteq Jobs
        /\ UNCHANGED <<partial, path, content, clock, written, at, inode, listed,
                       dropped, raced, crashes>>
    BY <1>0, <1>6 DEF F!Expire, F!own
  <2>2. Pending' \subseteq Pending
    BY <2>1 DEF Pending
  <2> QED BY <1>0, <2>1, <2>2, FileTypedStep
<1>7. CASE UNCHANGED F!vars
  <2>1. UNCHANGED <<partial, path, content, clock, written, expired, at, inode,
                    listed, dropped, raced, crashes>>
    BY <1>7 DEF F!vars, F!disk, F!own
  <2>2. Pending' \subseteq Pending
    BY <2>1 DEF Pending
  <2> QED BY <1>0, <2>1, <2>2, FileTypedStep
<1> QED
  BY <1>1, <1>2, <1>3, <1>4, <1>5, <1>6, <1>7 DEF F!Next

\* What is deleted for its age is on the list, and the oldest there.
LEMMA OldestIsListed ==
    ASSUME F!TypeOK, NEW p \in F!Puts, F!OverCap(p)
    PROVE  /\ F!Oldest(p) \in F!Listed(p)
           /\ \A m \in F!Listed(p) : listed[p][F!Oldest(p)] <= listed[p][m]
<1> USE FileBounds
<1>1. /\ F!Listed(p) \in SUBSET Jobs
      /\ listed[p] \in [F!Listed(p) -> 0 .. Cardinality(F!Puts)]
  BY ListedIsNames
<1>2. F!Listed(p) # {}
  <2>1. Cardinality(F!Listed(p)) > MaxEntries
    BY FileCards DEF F!OverCap
  <2>2. Cardinality(F!Listed(p)) # 0
    BY <2>1
  <2> QED BY <2>2, FS_EmptySet
<1>3. listed[p] \in [F!Listed(p) -> Nat]
  BY <1>1, FinitePuts
<1>4. PICK t \in Nat : /\ \E n \in F!Listed(p) : listed[p][n] = t
                       /\ \A m \in F!Listed(p) : t <= listed[p][m]
  <2> DEFINE Times == {listed[p][n] : n \in F!Listed(p)}
  <2>1. Times \in SUBSET Nat /\ Times # {}
    BY <1>2, <1>3
  <2>2. \A m \in F!Listed(p) : listed[p][m] \in Times
    OBVIOUS
  <2>3. \A t \in Times : \E n \in F!Listed(p) : listed[p][n] = t
    OBVIOUS
  <2> HIDE DEF Times
  <2>4. PICK t \in Times : \A k \in Times : t <= k
    BY <2>1, LeastExists
  <2> QED BY <2>1, <2>2, <2>3, <2>4
<1>5. \E n \in F!Listed(p) : \A m \in F!Listed(p) : listed[p][n] <= listed[p][m]
  BY <1>4
<1> QED BY <1>5 DEF F!Oldest

\* A file of the job store only ever holds what was put under its name.
LEMMA FileNextJobs ==
    ASSUME FileTyped, JobFiles, PruneKnows, [F!Next]_F!vars
    PROVE  JobFiles'
<1> USE FileBounds
<1>0. /\ partial \in [F!Names -> F!Puts \cup {None}]
      /\ path \in [F!Names -> F!Puts \cup {None}]
      /\ content \in [F!Puts -> F!Puts \cup {"nothing", "mixed"}]
      /\ inode \in [F!Puts -> F!Puts \cup {None}]
      /\ written \in [F!Puts -> Nat]
      /\ at \in [F!Puts -> FileStages]
      /\ clock \in Nat /\ clock >= 1
  <2>1. written \in [F!Puts -> 0 .. Cardinality(F!Puts)]
    BY FileCards DEF FileTyped, F!TypeOK
  <2>2. written \in [F!Puts -> Nat]
    BY <2>1, FinitePuts
  <2>3. clock \in 1 .. Cardinality(F!Puts) + 1
    BY FileCards DEF FileTyped, F!TypeOK
  <2>4. clock \in Nat /\ clock >= 1
    BY <2>3, FinitePuts
  <2> QED BY <2>2, <2>4 DEF FileTyped, F!TypeOK, FileStages
<1> DEFINE OneFile(n) ==
      /\ partial[n] \in {None, n} /\ path[n] \in {None, n}
      /\ at[n] = "new" => partial[n] = None /\ path[n] = None
      /\ at[n] \in {"opened", "written"} => inode[n] = n /\ path[n] = None
      /\ at[n] = "opened" => content[n] = "nothing"
      /\ at[n] = "written" => content[n] = n /\ written[n] > 0
      /\ path[n] = n => content[n] = n /\ written[n] > 0
    Ours == /\ \A u \in Updates : inode[u] \in Updates \cup {None}
            /\ partial[Entry] \in Updates \cup {None}
            /\ path[Entry] \in Updates \cup {None}
<1>00. Ours /\ \A n \in Jobs : OneFile(n)
  BY DEF JobFiles
<1>01. SUFFICES ASSUME TRUE PROVE Ours' /\ \A n \in Jobs : OneFile(n)'
  BY DEF JobFiles
<1>1. ASSUME NEW p \in F!Puts, F!Open(p)
      PROVE  Ours' /\ \A n \in Jobs : OneFile(n)'
  <2>1. /\ at[p] = "new" /\ at' = [at EXCEPT ![p] = "opened"]
        /\ inode' = [inode EXCEPT ![p] = F!Opened(p)]
        /\ partial' = [partial EXCEPT ![F!Name(p)] = F!Opened(p)]
        /\ content' = [content EXCEPT ![F!Opened(p)] = "nothing"]
        /\ UNCHANGED <<path, written>>
    BY <1>1 DEF F!Open, F!Goto
  <2>2. CASE p \in Jobs
    <3>1. F!Name(p) = p /\ F!Opened(p) = p
      BY <1>00, <2>1, <2>2 DEF F!Opened
    <3>2. Ours'
      BY <1>0, <1>00, <2>1, <2>2, <3>1
    <3>3. OneFile(p)'
      BY <1>0, <1>00, <2>1, <2>2, <3>1
    <3>4. ASSUME NEW n \in Jobs, n # p
          PROVE  OneFile(n)'
      <4>1. OneFile(n)
        BY <1>00
      <4> QED BY <1>0, <2>1, <2>2, <3>1, <3>4, <4>1
    <3> QED BY <3>2, <3>3, <3>4
  <2>3. CASE p \in Updates
    <3>1. F!Name(p) = Entry /\ F!Opened(p) \in Updates
      BY <1>00, <2>3 DEF F!Opened
    <3>2. Ours'
      BY <1>0, <1>00, <2>1, <2>3, <3>1
    <3>3. ASSUME NEW n \in Jobs
          PROVE  OneFile(n)'
      <4>1. OneFile(n) /\ n # p /\ n # F!Opened(p) /\ n # Entry
        BY <1>00, <2>3, <3>1
      <4> QED BY <1>0, <2>1, <3>1, <4>1
    <3> QED BY <3>2, <3>3
  <2> QED BY <2>2, <2>3
<1>2. ASSUME NEW p \in F!Puts, F!Write(p)
      PROVE  Ours' /\ \A n \in Jobs : OneFile(n)'
  <2>1. /\ at[p] = "opened" /\ at' = [at EXCEPT ![p] = "written"]
        /\ written' = [written EXCEPT ![inode[p]] = clock]
        /\ \/ content' = [content EXCEPT ![inode[p]] = p]
           \/ /\ content' = [content EXCEPT ![inode[p]] = "mixed"]
              /\ content[inode[p]] # "nothing"
        /\ UNCHANGED <<partial, path, inode>>
    BY <1>2 DEF F!Write, F!Goto, F!Dump
  <2>2. Ours'
    BY <1>00, <2>1
  <2>3. CASE p \in Jobs
    <3>1. inode[p] = p /\ content' = [content EXCEPT ![p] = p]
      BY <1>00, <2>1, <2>3
    <3>2. OneFile(p)'
      BY <1>0, <1>00, <2>1, <2>3, <3>1
    <3>3. ASSUME NEW n \in Jobs, n # p
          PROVE  OneFile(n)'
      <4>1. OneFile(n)
        BY <1>00
      <4> QED BY <1>0, <2>1, <2>3, <3>1, <3>3, <4>1
    <3> QED BY <2>2, <3>2, <3>3
  <2>4. CASE p \in Updates
    <3>1. ASSUME NEW n \in Jobs
          PROVE  OneFile(n)'
      <4>1. OneFile(n) /\ n # p /\ n # inode[p]
        BY <1>00, <2>4
      <4>2. content'[n] = content[n] /\ written'[n] = written[n] /\ at'[n] = at[n]
        BY <1>0, <2>1, <4>1
      <4> QED BY <2>1, <4>1, <4>2
    <3> QED BY <2>2, <3>1
  <2> QED BY <2>3, <2>4
<1>3. ASSUME NEW p \in F!Puts, F!Rename(p)
      PROVE  Ours' /\ \A n \in Jobs : OneFile(n)'
  <2>1. /\ at[p] = "written"
        /\ at' = [at EXCEPT ![p] = IF p \in Jobs THEN "listing" ELSE "done"]
        /\ \/ /\ path' = [path EXCEPT ![F!Name(p)] = partial[F!Name(p)]]
              /\ partial' = [partial EXCEPT ![F!Name(p)] = None]
           \/ UNCHANGED <<path, partial>>
        /\ UNCHANGED <<content, written, inode>>
    BY <1>3 DEF F!Rename, F!Goto
  <2>2. CASE p \in Jobs
    <3>2. Ours'
      BY <1>0, <1>00, <2>1, <2>2
    <3>3. OneFile(p)'
      BY <1>0, <1>00, <2>1, <2>2
    <3>4. ASSUME NEW n \in Jobs, n # p
          PROVE  OneFile(n)'
      <4>1. OneFile(n)
        BY <1>00
      <4> QED BY <1>0, <2>1, <2>2, <3>4, <4>1
    <3> QED BY <3>2, <3>3, <3>4
  <2>3. CASE p \in Updates
    <3>2. Ours'
      BY <1>0, <1>00, <2>1, <2>3
    <3>3. ASSUME NEW n \in Jobs
          PROVE  OneFile(n)'
      <4>1. OneFile(n) /\ n # p /\ n # Entry
        BY <1>00, <2>3
      <4> QED BY <1>0, <2>1, <2>3, <4>1
    <3> QED BY <3>2, <3>3
  <2> QED BY <2>2, <2>3
<1>4. ASSUME UNCHANGED <<partial, content, written, inode>>,
             \A n \in Jobs : at'[n] \in {"new", "opened", "written"} => at'[n] = at[n],
             \A n \in F!Names :
                path'[n] = path[n] \/ (n \in Jobs /\ path'[n] = None)
      PROVE  Ours' /\ \A n \in Jobs : OneFile(n)'
  <2>1. Ours'
    BY <1>00, <1>4
  <2>2. ASSUME NEW n \in Jobs
        PROVE  OneFile(n)'
    <3>1. OneFile(n)
      BY <1>00
    <3> QED BY <1>4, <3>1
  <2> QED BY <2>1, <2>2
<1>5. ASSUME NEW p \in F!Puts,
             \/ F!List(p) \/ F!Sort(p) \/ F!DropExpired(p) \/ F!Trim(p)
             \/ F!Trimmed(p) \/ F!Crash(p)
      PROVE  Ours' /\ \A n \in Jobs : OneFile(n)'
  <2>1. UNCHANGED <<partial, content, written, inode>>
    BY <1>5
       DEF F!List, F!Sort, F!DropExpired, F!Trim, F!Trimmed, F!Crash, F!disk
  <2>2. \A n \in Jobs : at'[n] \in {"new", "opened", "written"} => at'[n] = at[n]
    BY <1>0, <1>5
       DEF F!List, F!Sort, F!DropExpired, F!Trim, F!Trimmed, F!Crash, F!Goto
  <2>3. F!Listed(p) \in SUBSET Jobs
    BY ListedIsNames DEF FileTyped
  <2>4. ASSUME NEW n \in F!Names
        PROVE  path'[n] = path[n] \/ (n \in Jobs /\ path'[n] = None)
    <3>1. CASE F!DropExpired(p)
      BY <2>3, <3>1 DEF F!DropExpired
    <3>2. CASE F!Trim(p)
      <4>1. F!Oldest(p) \in Jobs /\ path' = [path EXCEPT ![F!Oldest(p)] = None]
        BY OldestIsListed, <3>2, <2>3 DEF F!Trim, FileTyped
      <4> QED BY <1>0, <4>1
    <3>3. CASE UNCHANGED path
      BY <3>3
    <3> QED BY <1>5, <3>1, <3>2, <3>3
            DEF F!List, F!Sort, F!Trimmed, F!Crash, F!disk
  <2> QED BY <1>4, <2>1, <2>2, <2>4
<1>6. ASSUME UNCHANGED <<partial, path, content, written, inode, at>>
      PROVE  Ours' /\ \A n \in Jobs : OneFile(n)'
  BY <1>4, <1>6, Zenon
<1>7. CASE \E n \in Jobs : F!Expire(n)
  BY <1>6, <1>7 DEF F!Expire, F!own
<1>8. CASE UNCHANGED F!vars
  BY <1>6, <1>8 DEF F!vars, F!disk, F!own
<1> QED
  BY <1>1, <1>2, <1>3, <1>5, <1>7, <1>8 DEF F!Next

\* The entry of the cache is whole as long as every .partial has one writer.
LEMMA FileNextEntry ==
    ASSUME FileTyped, JobFiles, EntryFile, [F!Next]_F!vars
    PROVE  EntryFile'
<1> USE FileBounds
<1>0. /\ partial \in [F!Names -> F!Puts \cup {None}]
      /\ path \in [F!Names -> F!Puts \cup {None}]
      /\ content \in [F!Puts -> F!Puts \cup {"nothing", "mixed"}]
      /\ inode \in [F!Puts -> F!Puts \cup {None}]
      /\ at \in [F!Puts -> FileStages]
      /\ \A u \in Updates : at[u] \in {"new", "opened", "written", "done"}
      /\ \A u \in Updates : inode[u] \in Updates \cup {None}
      /\ partial[Entry] \in Updates \cup {None}
      /\ path[Entry] \in Updates \cup {None}
  BY DEF FileTyped, F!TypeOK, FileStages, JobFiles
<1> DEFINE
    Firsts == /\ \A u \in Updates : /\ at[u] = "new" => inode[u] = None
                                    /\ inode[u] # None => inode[inode[u]] = inode[u]
              /\ partial[Entry] # None => inode[partial[Entry]] = partial[Entry]
              /\ path[Entry] # None => inode[path[Entry]] = path[Entry]
    Alone == /\ \A u \in Updates :
                   /\ inode[u] \in {None, u}
                   /\ at[u] \in {"opened", "written"} =>
                         inode[u] = u /\ partial[Entry] = u /\ path[Entry] # u
                   /\ at[u] = "opened" => content[u] = "nothing"
                   /\ at[u] = "written" => content[u] = u
             /\ path[Entry] # None => content[path[Entry]] = path[Entry]
<1>00. Firsts /\ (~Shared => Alone)
  BY DEF EntryFile
<1>01. SUFFICES ASSUME TRUE PROVE Firsts' /\ (~Shared' => Alone')
  BY DEF EntryFile
<1>1. ASSUME NEW p \in F!Puts, F!Open(p)
      PROVE  Firsts' /\ (~Shared' => Alone')
  <2>1. /\ at[p] = "new" /\ at' = [at EXCEPT ![p] = "opened"]
        /\ inode' = [inode EXCEPT ![p] = F!Opened(p)]
        /\ partial' = [partial EXCEPT ![F!Name(p)] = F!Opened(p)]
        /\ content' = [content EXCEPT ![F!Opened(p)] = "nothing"]
        /\ UNCHANGED <<path, written>>
    BY <1>1 DEF F!Open, F!Goto
  <2>2. CASE p \in Jobs
    <3>1. F!Name(p) = p /\ F!Opened(p) = p
      BY <2>1, <2>2 DEF F!Opened, JobFiles
    <3>2. /\ \A u \in Updates : at'[u] = at[u] /\ inode'[u] = inode[u]
                                /\ content'[u] = content[u]
          /\ partial'[Entry] = partial[Entry] /\ path'[Entry] = path[Entry]
      BY <1>0, <2>1, <2>2, <3>1
    <3>3. Shared' <=> Shared
      BY <3>2 DEF Shared
    <3> QED BY <1>0, <1>00, <3>2, <3>3
  <2>3. CASE p \in Updates
    <3>1. inode[p] = None /\ F!Name(p) = Entry
      BY <1>00, <2>1, <2>3
    <3>2. PICK i \in Updates : i = F!Opened(p)
      BY <1>0, <2>3, <3>1 DEF F!Opened
    <3>3. /\ at'[p] = "opened" /\ inode'[p] = i /\ partial'[Entry] = i
          /\ content'[i] = "nothing"
          /\ \A u \in Updates : u # p => at'[u] = at[u] /\ inode'[u] = inode[u]
          /\ \A u \in Updates : u # i => content'[u] = content[u]
          /\ path'[Entry] = path[Entry]
      BY <1>0, <2>1, <2>3, <3>1, <3>2
    <3>4. i = p \/ (i = partial[Entry] /\ i # p /\ inode[i] = i)
      BY <1>0, <1>00, <3>1, <3>2 DEF F!Opened
    <3>5. Firsts'
      BY <1>0, <1>00, <2>3, <3>1, <3>3, <3>4
    <3>6. ASSUME ~Shared'
          PROVE  Alone'
      <4>1. ~Shared
        BY <3>1, <3>3, <3>6 DEF Shared
      <4>2. i = p /\ partial[Entry] = None
        <5>1. ASSUME partial[Entry] # None
              PROVE  FALSE
          <6>1. i = partial[Entry]
            BY <3>1, <3>2, <5>1 DEF F!Opened
          <6>2. i # p /\ inode'[i] = i /\ inode'[p] = i
            BY <1>00, <3>1, <3>3, <5>1, <6>1
          <6> QED BY <2>3, <3>6, <6>2 DEF Shared
        <5> QED BY <3>1, <3>2, <5>1 DEF F!Opened
      <4>3. Alone
        BY <1>00, <4>1
      <4>4. path[Entry] # p
        BY <1>00, <2>3, <3>1
      <4>5. \A u \in Updates : at[u] \notin {"opened", "written"}
        BY <4>2, <4>3
      <4> QED BY <1>0, <3>3, <4>2, <4>3, <4>4, <4>5
    <3> QED BY <3>5, <3>6
  <2> QED BY <2>2, <2>3
<1>2. ASSUME NEW p \in F!Puts, F!Write(p)
      PROVE  Firsts' /\ (~Shared' => Alone')
  <2>1. /\ at[p] = "opened" /\ at' = [at EXCEPT ![p] = "written"]
        /\ \/ content' = [content EXCEPT ![inode[p]] = p]
           \/ /\ content' = [content EXCEPT ![inode[p]] = "mixed"]
              /\ content[inode[p]] # "nothing"
        /\ UNCHANGED <<partial, path, inode>>
    BY <1>2 DEF F!Write, F!Goto, F!Dump
  <2>2. Shared' <=> Shared
    BY <2>1 DEF Shared
  <2>3. Firsts'
    BY <1>0, <1>00, <2>1
  <2>4. CASE p \in Jobs
    <3>1. inode[p] = p
      BY <2>1, <2>4 DEF JobFiles
    <3>2. \A u \in Updates : content'[u] = content[u] /\ at'[u] = at[u]
      BY <1>0, <2>1, <2>4, <3>1
    <3>3. Alone => Alone'
      BY <1>0, <2>1, <3>2
    <3> QED BY <1>00, <2>2, <2>3, <3>3
  <2>5. CASE p \in Updates
    <3>1. ASSUME ~Shared
          PROVE  Alone'
      <4>1. Alone
        BY <1>00, <3>1
      <4>2. inode[p] = p /\ partial[Entry] = p /\ path[Entry] # p
            /\ content' = [content EXCEPT ![p] = p]
        BY <2>1, <2>5, <4>1
      <4>3. content'[p] = p /\ \A u \in Updates : u # p => content'[u] = content[u]
        BY <1>0, <4>2
      <4>4. at'[p] = "written" /\ \A u \in Updates : u # p => at'[u] = at[u]
        BY <1>0, <2>1
      <4> QED BY <1>0, <2>1, <4>1, <4>2, <4>3, <4>4
    <3> QED BY <2>2, <2>3, <3>1
  <2> QED BY <2>4, <2>5
<1>3. ASSUME NEW p \in F!Puts, F!Rename(p)
      PROVE  Firsts' /\ (~Shared' => Alone')
  <2>1. /\ at[p] = "written"
        /\ at' = [at EXCEPT ![p] = IF p \in Jobs THEN "listing" ELSE "done"]
        /\ \/ /\ partial[F!Name(p)] # None
              /\ path' = [path EXCEPT ![F!Name(p)] = partial[F!Name(p)]]
              /\ partial' = [partial EXCEPT ![F!Name(p)] = None]
           \/ partial[F!Name(p)] = None /\ UNCHANGED <<path, partial>>
        /\ UNCHANGED <<content, written, inode>>
    BY <1>3 DEF F!Rename, F!Goto
  <2>2. Shared' <=> Shared
    BY <2>1 DEF Shared
  <2>3. CASE p \in Jobs
    <3>1. /\ \A u \in Updates : at'[u] = at[u]
          /\ partial'[Entry] = partial[Entry] /\ path'[Entry] = path[Entry]
      BY <1>0, <2>1, <2>3
    <3> QED BY <1>0, <1>00, <2>1, <2>2, <3>1
  <2>4. CASE p \in Updates
    <3>1. /\ partial'[Entry] = None
          /\ path'[Entry] = IF partial[Entry] # None THEN partial[Entry] ELSE path[Entry]
      BY <1>0, <2>1, <2>4
    <3>2. at'[p] = "done" /\ \A u \in Updates : u # p => at'[u] = at[u]
      BY <1>0, <2>1, <2>4
    <3>3. Firsts'
      BY <1>0, <1>00, <2>1, <3>1, <3>2
    <3>4. ASSUME ~Shared
          PROVE  Alone'
      <4>1. Alone
        BY <1>00, <3>4
      <4>2. partial[Entry] = p /\ content[p] = p
        BY <2>1, <2>4, <4>1
      <4>3. \A u \in Updates : u # p => at[u] \notin {"opened", "written"}
        BY <4>1, <4>2
      <4> QED BY <2>1, <2>4, <3>1, <3>2, <4>1, <4>2, <4>3
    <3> QED BY <2>2, <3>3, <3>4
  <2> QED BY <2>3, <2>4
<1>4. ASSUME UNCHANGED <<partial, content, inode>>, path'[Entry] = path[Entry],
             \A u \in Updates : at'[u] \in {at[u], "done"}
      PROVE  Firsts' /\ (~Shared' => Alone')
  <2>1. Shared' <=> Shared
    BY <1>4 DEF Shared
  <2>2. Firsts'
    BY <1>00, <1>4
  <2>3. Alone => Alone'
    BY <1>4
  <2> QED BY <1>00, <2>1, <2>2, <2>3
<1>5. ASSUME NEW p \in F!Puts,
             \/ F!List(p) \/ F!Sort(p) \/ F!DropExpired(p) \/ F!Trim(p)
             \/ F!Trimmed(p) \/ F!Crash(p)
      PROVE  Firsts' /\ (~Shared' => Alone')
  <2>1. UNCHANGED <<partial, content, inode>>
    BY <1>5
       DEF F!List, F!Sort, F!DropExpired, F!Trim, F!Trimmed, F!Crash, F!disk
  <2>2. \A u \in Updates : at'[u] \in {at[u], "done"}
    BY <1>0, <1>5
       DEF F!List, F!Sort, F!DropExpired, F!Trim, F!Trimmed, F!Crash, F!Goto
  <2>3. F!Listed(p) \in SUBSET Jobs
    BY ListedIsNames DEF FileTyped
  <2>4. path'[Entry] = path[Entry]
    <3>1. CASE F!DropExpired(p)
      BY <2>3, <3>1 DEF F!DropExpired
    <3>2. CASE F!Trim(p)
      <4>1. F!Oldest(p) \in Jobs /\ path' = [path EXCEPT ![F!Oldest(p)] = None]
        BY OldestIsListed, <3>2, <2>3 DEF F!Trim, FileTyped
      <4> QED BY <1>0, <4>1
    <3>3. CASE UNCHANGED path
      BY <3>3
    <3> QED BY <1>5, <3>1, <3>2, <3>3
            DEF F!List, F!Sort, F!Trimmed, F!Crash, F!disk
  <2> QED BY <1>4, <2>1, <2>2, <2>4
<1>6. ASSUME UNCHANGED <<partial, path, content, inode, at>>
      PROVE  Firsts' /\ (~Shared' => Alone')
  <2>1. path'[Entry] = path[Entry] /\ \A u \in Updates : at'[u] \in {at[u], "done"}
    BY <1>6
  <2> QED BY <1>4, <1>6, <2>1, Zenon
<1>7. CASE \E n \in Jobs : F!Expire(n)
  BY <1>6, <1>7 DEF F!Expire, F!own
<1>8. CASE UNCHANGED F!vars
  BY <1>6, <1>8 DEF F!vars, F!disk, F!own
<1> QED
  BY <1>1, <1>2, <1>3, <1>5, <1>7, <1>8 DEF F!Next

\* What the steps of a prune leave alone, and what they leave on the list.
LEMMA PruneSteps ==
    ASSUME FileTyped, NEW p \in F!Puts,
           \/ F!List(p) \/ F!Sort(p) \/ F!DropExpired(p) \/ F!Trim(p)
           \/ F!Trimmed(p) \/ F!Crash(p)
    PROVE  /\ UNCHANGED <<partial, content, clock, written, expired, inode>>
           /\ \A q \in F!Puts : q # p => at'[q] = at[q] /\ listed'[q] = listed[q]
           /\ \A q \in F!Puts : at[q] \notin {"new", "opened", "written"}
                 => at'[q] \notin {"new", "opened", "written"}
           /\ \A q \in F!Puts : at'[q] \in {"new", "opened", "written"} => at'[q] = at[q]
           /\ F!List(p) => F!Listed(p)' = F!Results
           /\ F!DropExpired(p) \/ F!Trim(p) =>
                 /\ F!Listed(p)' \subseteq F!Listed(p)
                 /\ \A n \in F!Listed(p)' : listed'[p][n] = listed[p][n]
           /\ F!Sort(p) /\ at'[p] # "done" =>
                 /\ F!Listed(p)' = F!Listed(p) /\ F!Listed(p) \subseteq F!Results
                 /\ \A n \in F!Listed(p) : listed'[p][n] = written[path[n]]
<1> USE FileBounds
<1>0. /\ at \in [F!Puts -> FileStages]
      /\ listed \in [F!Puts -> FileTimes]
  BY FileCards DEF FileTyped, F!TypeOK, FileTimes, FileStages
<1>1. UNCHANGED <<partial, content, clock, written, expired, inode>>
  BY DEF F!List, F!Sort, F!DropExpired, F!Trim, F!Trimmed, F!Crash, F!disk
<1>2. \A q \in F!Puts : q # p => at'[q] = at[q] /\ listed'[q] = listed[q]
  BY <1>0 DEF F!List, F!Sort, F!DropExpired, F!Trim, F!Trimmed, F!Crash, F!Goto
<1>3. at'[p] \in {"sorting", "expiring", "trimming", "done"}
  BY <1>0 DEF F!List, F!Sort, F!DropExpired, F!Trim, F!Trimmed, F!Crash, F!Goto
<1>4. F!List(p) => F!Listed(p)' = F!Results
  BY <1>0 DEF F!List, F!Listed
<1>5. ASSUME NEW ns, listed' = [listed EXCEPT ![p] = F!Restrict(listed[p], ns)],
             ns \subseteq F!Listed(p)
      PROVE  /\ F!Listed(p)' \subseteq F!Listed(p)
             /\ \A n \in F!Listed(p)' : listed'[p][n] = listed[p][n]
  <2>1. listed'[p] = F!Restrict(listed[p], ns)
    BY <1>0, <1>5
  <2>2. F!Listed(p)' = ns
    BY <2>1 DEF F!Listed, F!Restrict
  <2> QED BY <1>5, <2>1, <2>2 DEF F!Restrict
<1>6. ASSUME F!DropExpired(p) \/ F!Trim(p)
      PROVE  \E ns \in SUBSET F!Listed(p) :
                listed' = [listed EXCEPT ![p] = F!Restrict(listed[p], ns)]
  <2>1. CASE F!DropExpired(p)
    <3>1. listed' = [listed EXCEPT ![p] = F!Restrict(listed[p], F!Listed(p) \
             {n \in F!Listed(p) : n \in expired \/ path[n] = None})]
      BY <1>0, <2>1 DEF F!DropExpired
    <3> QED BY <3>1
  <2>2. CASE F!Trim(p)
    <3>1. listed' = [listed EXCEPT ![p] =
                        F!Restrict(listed[p], F!Listed(p) \ {F!Oldest(p)})]
      BY <1>0, <2>2 DEF F!Trim
    <3> QED BY <3>1
  <2> QED BY <1>6, <2>1, <2>2
<1>7. ASSUME F!Sort(p), at'[p] # "done"
      PROVE  /\ F!Listed(p)' = F!Listed(p) /\ F!Listed(p) \subseteq F!Results
             /\ \A n \in F!Listed(p) : listed'[p][n] = written[path[n]]
  <2>1. /\ F!Listed(p) \subseteq F!Results
        /\ listed' = [listed EXCEPT ![p] = [n \in F!Listed(p) |-> written[path[n]]]]
    BY <1>0, <1>7 DEF F!Sort, F!Goto
  <2>2. listed'[p] = [n \in F!Listed(p) |-> written[path[n]]]
    BY <1>0, <2>1
  <2>3. F!Listed(p)' = F!Listed(p)
    BY <2>2 DEF F!Listed
  <2> QED BY <2>1, <2>2, <2>3
<1>8. F!DropExpired(p) \/ F!Trim(p) =>
                 /\ F!Listed(p)' \subseteq F!Listed(p)
                 /\ \A n \in F!Listed(p)' : listed'[p][n] = listed[p][n]
  BY <1>5, <1>6
<1>9. /\ \A q \in F!Puts : at[q] \notin {"new", "opened", "written"}
             => at'[q] \notin {"new", "opened", "written"}
      /\ \A q \in F!Puts : at'[q] \in {"new", "opened", "written"} => at'[q] = at[q]
  <2>1. p \in F!Puts /\ at'[p] \notin {"new", "opened", "written"}
    BY <1>3
  <2> QED BY <1>2, <2>1
<1> QED BY <1>1, <1>2, <1>4, <1>7, <1>8, <1>9

\* The list of a prune stays true.
LEMMA FileNextPrune ==
    ASSUME FileTyped, JobFiles, PruneKnows, [F!Next]_F!vars
    PROVE  PruneKnows'
<1> USE FileBounds
<1>0. /\ at \in [F!Puts -> FileStages]
      /\ written \in [F!Puts -> Nat]
      /\ clock \in Nat /\ clock >= 1
      /\ \A p \in F!Puts : F!Listed(p) \in SUBSET Jobs
  <2>1. written \in [F!Puts -> 0 .. Cardinality(F!Puts)]
    BY FileCards DEF FileTyped, F!TypeOK
  <2>2. written \in [F!Puts -> Nat]
    BY <2>1, FinitePuts
  <2>3. clock \in 1 .. Cardinality(F!Puts) + 1
    BY FileCards DEF FileTyped, F!TypeOK
  <2>4. clock \in Nat /\ clock >= 1
    BY <2>3, FinitePuts
  <2>5. \A p \in F!Puts : F!Listed(p) \in SUBSET Jobs
    BY ListedIsNames DEF FileTyped
  <2> QED BY <2>2, <2>4, <2>5 DEF FileTyped, F!TypeOK, FileStages
<1> DEFINE
    Knows(p) == at[p] \in {"sorting", "expiring", "trimming"} =>
          \A n \in F!Listed(p) :
              /\ at[n] \notin {"new", "opened", "written"} /\ written[n] > 0
              /\ at[p] \in {"expiring", "trimming"} => listed[p][n] = written[n]
    Ticks == /\ \A p \in F!Puts : written[p] < clock
             /\ \A n, m \in Jobs : written[n] = written[m] /\ written[n] > 0 => n = m
<1>00. Ticks /\ \A p \in F!Puts : Knows(p)
  BY DEF PruneKnows
<1>01. SUFFICES ASSUME TRUE PROVE Ticks' /\ \A p \in F!Puts : Knows(p)'
  BY DEF PruneKnows
<1>1. ASSUME NEW q \in F!Puts, at'[q] = at[q], listed'[q] = listed[q],
             \A n \in Jobs : at[n] \notin {"new", "opened", "written"} =>
                /\ at'[n] \notin {"new", "opened", "written"}
                /\ written'[n] = written[n]
      PROVE  Knows(q)'
  <2>1. Knows(q) /\ F!Listed(q)' = F!Listed(q)
    BY <1>00, <1>1 DEF F!Listed
  <2>2. F!Listed(q) \in SUBSET Jobs
    BY <1>0
  <2> QED BY <1>1, <2>1, <2>2
<1>2. ASSUME NEW p \in F!Puts, F!Open(p)
      PROVE  Ticks' /\ \A q \in F!Puts : Knows(q)'
  <2>1. /\ at[p] = "new" /\ at' = [at EXCEPT ![p] = "opened"]
        /\ UNCHANGED <<clock, written, listed>>
    BY <1>2 DEF F!Open, F!Goto
  <2>2. /\ at'[p] = "opened" /\ \A q \in F!Puts : q # p => at'[q] = at[q]
        /\ \A n \in Jobs : at[n] \notin {"new", "opened", "written"} =>
                /\ at'[n] \notin {"new", "opened", "written"}
                /\ written'[n] = written[n]
    BY <1>0, <2>1
  <2>3. Ticks'
    BY <1>00, <2>1
  <2> QED BY <1>1, <2>1, <2>2, <2>3
<1>3. ASSUME NEW p \in F!Puts, F!Write(p)
      PROVE  Ticks' /\ \A q \in F!Puts : Knows(q)'
  <2>1. /\ at[p] = "opened" /\ at' = [at EXCEPT ![p] = "written"]
        /\ written' = [written EXCEPT ![inode[p]] = clock]
        /\ clock' = clock + 1
        /\ UNCHANGED listed
    BY <1>3 DEF F!Write, F!Goto, F!Dump
  <2>2. p \in Jobs => inode[p] = p
    BY <2>1 DEF JobFiles
  <2>3. p \notin Jobs => inode[p] \notin Jobs
    BY DEF JobFiles
  <2>4. /\ at'[p] = "written" /\ \A q \in F!Puts : q # p => at'[q] = at[q]
        /\ \A q \in F!Puts : written'[q] = written[q]
                             \/ (q = inode[p] /\ written'[q] = clock)
    BY <1>0, <2>1
  <2>5. \A n \in Jobs : n # p => written'[n] = written[n]
    BY <2>2, <2>3, <2>4
  <2>6. \A n \in Jobs : at[n] \notin {"new", "opened", "written"} =>
                /\ at'[n] \notin {"new", "opened", "written"}
                /\ written'[n] = written[n]
    BY <2>1, <2>4, <2>5
  <2>7. \A q \in F!Puts : Knows(q)'
    BY <1>1, <2>1, <2>4, <2>6
  <2>8. \A q \in F!Puts : written'[q] < clock'
    <3>1. \A q \in F!Puts : written[q] < clock /\ written[q] \in Nat
      BY <1>0, <1>00
    <3> QED BY <1>0, <2>1, <2>4, <3>1
  <2>9. ASSUME NEW n \in Jobs, NEW m \in Jobs,
               written'[n] = written'[m], written'[n] > 0
        PROVE  n = m
    <3>1. /\ written[n] < clock /\ written[m] < clock
          /\ written[n] \in Nat /\ written[m] \in Nat
          /\ written'[n] = written[n] \/ (n = p /\ written'[n] = clock)
          /\ written'[m] = written[m] \/ (m = p /\ written'[m] = clock)
      BY <1>0, <1>00, <2>2, <2>3, <2>4
    <3> QED BY <1>0, <1>00, <2>9, <3>1
  <2> QED BY <2>7, <2>8, <2>9
<1>4. ASSUME NEW p \in F!Puts, F!Rename(p)
      PROVE  Ticks' /\ \A q \in F!Puts : Knows(q)'
  <2>1. /\ at[p] = "written"
        /\ at' = [at EXCEPT ![p] = IF p \in Jobs THEN "listing" ELSE "done"]
        /\ UNCHANGED <<clock, written, listed>>
    BY <1>4 DEF F!Rename, F!Goto
  <2>2. /\ at'[p] \in {"listing", "done"} /\ \A q \in F!Puts : q # p => at'[q] = at[q]
        /\ \A n \in Jobs : at[n] \notin {"new", "opened", "written"} =>
                /\ at'[n] \notin {"new", "opened", "written"}
                /\ written'[n] = written[n]
    BY <1>0, <2>1
  <2>3. Ticks'
    BY <1>00, <2>1
  <2> QED BY <1>1, <2>1, <2>2, <2>3
<1>5. ASSUME NEW p \in F!Puts,
             \/ F!List(p) \/ F!Sort(p) \/ F!DropExpired(p) \/ F!Trim(p)
             \/ F!Trimmed(p) \/ F!Crash(p)
      PROVE  Ticks' /\ \A q \in F!Puts : Knows(q)'
  <2>1. /\ UNCHANGED <<clock, written>>
        /\ \A q \in F!Puts : q # p => at'[q] = at[q] /\ listed'[q] = listed[q]
        /\ \A q \in F!Puts : at[q] \notin {"new", "opened", "written"}
              => at'[q] \notin {"new", "opened", "written"}
        /\ F!List(p) => F!Listed(p)' = F!Results
        /\ F!DropExpired(p) \/ F!Trim(p) =>
              /\ F!Listed(p)' \subseteq F!Listed(p)
              /\ \A n \in F!Listed(p)' : listed'[p][n] = listed[p][n]
        /\ F!Sort(p) /\ at'[p] # "done" =>
              /\ F!Listed(p)' = F!Listed(p) /\ F!Listed(p) \subseteq F!Results
              /\ \A n \in F!Listed(p) : listed'[p][n] = written[path[n]]
    BY <1>5, PruneSteps
  <2>2. Ticks'
    BY <1>00, <2>1
  <2>3. \A q \in F!Puts : q # p => Knows(q)'
    BY <1>1, <2>1
  <2>4. \A n \in F!Results : /\ n \in Jobs /\ path[n] = n
                             /\ at[n] \notin {"new", "opened", "written"}
                             /\ written[n] > 0
    BY <1>0 DEF F!Results, JobFiles
  <2>5. Knows(p)'
    <3>1. CASE F!List(p)
      <4>1. at'[p] = "sorting"
        BY <1>0, <3>1 DEF F!List, F!Goto
      <4> QED BY <2>1, <2>4, <3>1, <4>1
    <3>2. CASE F!Sort(p)
      <4>1. at[p] = "sorting" /\ at'[p] \in {"expiring", "done"}
        BY <1>0, <3>2 DEF F!Sort, F!Goto
      <4> QED BY <1>00, <2>1, <2>4, <3>2, <4>1
    <3>3. CASE F!DropExpired(p) \/ F!Trim(p)
      <4>1. at[p] \in {"expiring", "trimming"} /\ at'[p] \in {"expiring", "trimming"}
        BY <1>0, <3>3 DEF F!DropExpired, F!Trim, F!Goto
      <4>2. \A n \in F!Listed(p) :
              /\ at[n] \notin {"new", "opened", "written"} /\ written[n] > 0
              /\ listed[p][n] = written[n]
        BY <1>00, <4>1
      <4>3. F!Listed(p) \subseteq F!Puts
        BY <1>0
      <4> QED BY <2>1, <3>3, <4>1, <4>2, <4>3
    <3>4. CASE F!Trimmed(p) \/ F!Crash(p)
      <4>1. at'[p] = "done"
        BY <1>0, <3>4 DEF F!Trimmed, F!Crash, F!Goto
      <4> QED BY <4>1
    <3> QED BY <1>5, <3>1, <3>2, <3>3, <3>4
  <2> QED BY <2>2, <2>3, <2>5
<1>6. ASSUME UNCHANGED <<clock, written, at, listed>>
      PROVE  Ticks' /\ \A q \in F!Puts : Knows(q)'
  BY <1>00, <1>1, <1>6
<1>7. CASE \E n \in Jobs : F!Expire(n)
  BY <1>6, <1>7 DEF F!Expire, F!own
<1>8. CASE UNCHANGED F!vars
  BY <1>6, <1>8 DEF F!vars, F!disk, F!own
<1> QED
  BY <1>2, <1>3, <1>4, <1>5, <1>7, <1>8 DEF F!Next

\* Nothing is deleted for its age that is among the newest.
LEMMA FileNextDropped ==
    ASSUME FileTyped, JobFiles, PruneKnows, DroppedAreOld, [F!Next]_F!vars
    PROVE  DroppedAreOld'
<1> USE FileBounds, FinitePuts
<1>0. /\ at \in [F!Puts -> FileStages]
      /\ written \in [F!Puts -> Nat]
      /\ clock \in Nat
      /\ dropped \subseteq Jobs
  <2>1. written \in [F!Puts -> 0 .. Cardinality(F!Puts)]
    BY FileCards DEF FileTyped, F!TypeOK
  <2>2. written \in [F!Puts -> Nat]
    BY <2>1
  <2>3. clock \in 1 .. Cardinality(F!Puts) + 1
    BY FileCards DEF FileTyped, F!TypeOK
  <2>4. clock \in Nat
    BY <2>3
  <2> QED BY <2>2, <2>4 DEF FileTyped, F!TypeOK, FileStages
<1>1. ASSUME \A n \in Jobs : at[n] \notin {"new", "opened"} =>
                at'[n] \notin {"new", "opened"} /\ written'[n] = written[n],
             \A m \in Jobs : written'[m] >= written[m] /\ written'[m] \in Nat,
             NEW n \in Jobs, at[n] \notin {"new", "opened"},
             Cardinality(Newer(n)) >= MaxEntries
      PROVE  /\ at'[n] \notin {"new", "opened"}
             /\ Cardinality(Newer(n)') >= MaxEntries
  <2>1. Newer(n) \subseteq Newer(n)'
    BY <1>0, <1>1 DEF Newer
  <2>2. IsFiniteSet(Newer(n)')
    <3>1. Newer(n)' \subseteq Jobs
      BY DEF Newer
    <3> QED BY <3>1, FS_Subset
  <2>3. /\ Cardinality(Newer(n)) <= Cardinality(Newer(n)')
        /\ Cardinality(Newer(n)) \in Nat /\ Cardinality(Newer(n)') \in Nat
    BY <2>1, <2>2, SmallerSet
  <2> QED BY <1>1, <2>3
<1>2. ASSUME \A n \in Jobs : at[n] \notin {"new", "opened"} =>
                at'[n] \notin {"new", "opened"} /\ written'[n] = written[n],
             \A m \in Jobs : written'[m] >= written[m] /\ written'[m] \in Nat,
             UNCHANGED dropped
      PROVE  DroppedAreOld'
  BY <1>0, <1>1, <1>2 DEF DroppedAreOld
<1>3. ASSUME UNCHANGED written,
             \A n \in Jobs : at[n] \notin {"new", "opened"} =>
                at'[n] \notin {"new", "opened"}
      PROVE  /\ \A n \in Jobs : at[n] \notin {"new", "opened"} =>
                   at'[n] \notin {"new", "opened"} /\ written'[n] = written[n]
             /\ \A m \in Jobs : written'[m] >= written[m] /\ written'[m] \in Nat
  <2>1. \A m \in Jobs : written[m] \in Nat
    BY <1>0
  <2> QED BY <1>3, <2>1
<1>4. ASSUME NEW p \in F!Puts, F!Open(p) \/ F!Rename(p)
      PROVE  DroppedAreOld'
  <2>1. UNCHANGED <<written, dropped>>
    BY <1>4 DEF F!Open, F!Rename
  <2>2. \A n \in Jobs : at[n] \notin {"new", "opened"} => at'[n] \notin {"new", "opened"}
    BY <1>0, <1>4 DEF F!Open, F!Rename, F!Goto
  <2> QED BY <1>2, <1>3, <2>1, <2>2
<1>5. ASSUME NEW p \in F!Puts, F!Write(p)
      PROVE  DroppedAreOld'
  <2>1. /\ at[p] = "opened" /\ at' = [at EXCEPT ![p] = "written"]
        /\ written' = [written EXCEPT ![inode[p]] = clock]
        /\ UNCHANGED dropped
    BY <1>5 DEF F!Write, F!Goto
  <2>2. /\ p \in Jobs => inode[p] = p
        /\ p \notin Jobs => inode[p] \notin Jobs
    BY <2>1 DEF JobFiles
  <2>3. \A n \in Jobs : written'[n] = written[n] \/ (n = p /\ written'[n] = clock)
    BY <1>0, <2>1, <2>2
  <2>4. \A n \in Jobs : at[n] \notin {"new", "opened"} =>
                at'[n] \notin {"new", "opened"} /\ written'[n] = written[n]
    BY <1>0, <2>1, <2>3
  <2>5. \A m \in Jobs : written[m] < clock /\ written[m] \in Nat
    BY <1>0 DEF PruneKnows
  <2>6. \A m \in Jobs : written'[m] >= written[m] /\ written'[m] \in Nat
    BY <1>0, <2>3, <2>5
  <2> QED BY <1>2, <2>1, <2>4, <2>6
<1>6. ASSUME NEW p \in F!Puts,
             \/ F!List(p) \/ F!Sort(p) \/ F!DropExpired(p)
             \/ F!Trimmed(p) \/ F!Crash(p)
      PROVE  DroppedAreOld'
  <2>1. UNCHANGED <<written, dropped>>
    BY <1>6 DEF F!List, F!Sort, F!DropExpired, F!Trimmed, F!Crash, F!disk
  <2>2. \A n \in Jobs : at[n] \notin {"new", "opened"} => at'[n] \notin {"new", "opened"}
    BY <1>0, <1>6
       DEF F!List, F!Sort, F!DropExpired, F!Trimmed, F!Crash, F!Goto
  <2> QED BY <1>2, <1>3, <2>1, <2>2
<1>7. ASSUME NEW p \in F!Puts, F!Trim(p)
      PROVE  DroppedAreOld'
  <2> DEFINE old == F!Oldest(p)
             names == F!Listed(p)
  <2>1. /\ at[p] = "trimming" /\ F!OverCap(p)
        /\ UNCHANGED <<written, at>>
        /\ dropped' \subseteq dropped \cup {old}
    BY <1>7 DEF F!Trim
  <2>2. /\ old \in names /\ names \in SUBSET Jobs
        /\ \A m \in names : listed[p][old] <= listed[p][m]
    BY <2>1, OldestIsListed, ListedIsNames DEF FileTyped
  <2>3. \A n \in names : /\ at[n] \notin {"new", "opened"} /\ written[n] > 0
                         /\ listed[p][n] = written[n]
    BY <2>1 DEF PruneKnows
  <2>4. \A n, m \in Jobs : written[n] = written[m] /\ written[n] > 0 => n = m
    BY DEF PruneKnows
  <2>5. Cardinality(names) > MaxEntries
    BY <2>1, FileCards DEF F!OverCap
  <2> HIDE DEF old, names
  <2>6. \A m \in names \ {old} : m \in Newer(old)
    <3>1. ASSUME NEW m \in names, m # old
          PROVE  written[m] > written[old]
      <4>1. /\ written[m] \in Nat /\ written[old] \in Nat
            /\ written[old] <= written[m]
        BY <1>0, <2>2, <2>3
      <4>2. written[m] # written[old]
        BY <2>2, <2>3, <2>4, <3>1
      <4> QED BY <4>1, <4>2
    <3> QED BY <2>2, <3>1 DEF Newer
  <2>7. Cardinality(Newer(old)) >= MaxEntries
    <3>1. IsFiniteSet(names) /\ Cardinality(names) \in Nat
      BY <2>2, SmallerSet
    <3>2. Cardinality(names \ {old}) = Cardinality(names) - 1
      BY <2>2, <3>1, FS_RemoveElement
    <3>3. IsFiniteSet(Newer(old))
      <4>1. Newer(old) \subseteq Jobs
        BY DEF Newer
      <4> QED BY <4>1, FS_Subset
    <3>4. /\ Cardinality(names \ {old}) <= Cardinality(Newer(old))
          /\ Cardinality(Newer(old)) \in Nat
      BY <2>6, <3>3, SmallerSet
    <3> QED BY <2>5, <3>1, <3>2, <3>4
  <2>8. \A n \in dropped \cup {old} : /\ n \in Jobs /\ at[n] \notin {"new", "opened"}
                                      /\ Cardinality(Newer(n)) >= MaxEntries
    BY <1>0, <2>2, <2>3, <2>7 DEF DroppedAreOld
  <2>9. /\ \A n \in Jobs : at[n] \notin {"new", "opened"} =>
                at'[n] \notin {"new", "opened"} /\ written'[n] = written[n]
        /\ \A m \in Jobs : written'[m] >= written[m] /\ written'[m] \in Nat
    BY <1>3, <2>1
  <2>10. ASSUME NEW n \in dropped'
         PROVE  at'[n] \notin {"new", "opened"} /\ Cardinality(Newer(n)') >= MaxEntries
    <3>1. n \in Jobs /\ at[n] \notin {"new", "opened"}
          /\ Cardinality(Newer(n)) >= MaxEntries
      BY <2>1, <2>8
    <3> QED BY <1>1, <2>9, <3>1
  <2> QED BY <2>10 DEF DroppedAreOld
<1>8. ASSUME UNCHANGED <<written, at, dropped>>
      PROVE  DroppedAreOld'
  BY <1>2, <1>3, <1>8
<1>9. CASE \E n \in Jobs : F!Expire(n)
  BY <1>8, <1>9 DEF F!Expire, F!own
<1>10. CASE UNCHANGED F!vars
  BY <1>8, <1>10 DEF F!vars, F!disk, F!own
<1> QED
  BY <1>4, <1>5, <1>6, <1>7, <1>9, <1>10 DEF F!Next

\* The cap is kept, or somebody is about to keep it.
LEMMA FileNextCap ==
    ASSUME FileTyped, CapAhead, [F!Next]_F!vars
    PROVE  CapAhead'
<1> USE FileBounds, FinitePuts
<1>0. /\ at \in [F!Puts -> FileStages]
      /\ path \in [F!Names -> F!Puts \cup {None}]
      /\ crashes \in Nat /\ raced \in BOOLEAN
      /\ \A p \in F!Puts : F!Listed(p) \in SUBSET Jobs
      /\ \A u \in Updates : at[u] \in {"new", "opened", "written", "done"}
  <2>1. crashes \in 0 .. MaxCrashes
    BY DEF FileTyped, F!TypeOK
  <2>2. \A p \in F!Puts : F!Listed(p) \in SUBSET Jobs
    BY ListedIsNames DEF FileTyped
  <2>3. crashes \in Nat
    BY <2>1
  <2> QED BY <2>2, <2>3 DEF FileTyped, F!TypeOK, FileStages
<1> DEFINE fresh == F!Results \ expired
           Covers(p) == /\ at[p] \in {"sorting", "expiring", "trimming"}
                        /\ fresh \subseteq F!Listed(p)
<1>1. ~raced /\ crashes = 0 =>
         \/ Cardinality(fresh) <= MaxEntries
         \/ \E p \in Jobs : at[p] = "listing" \/ Covers(p)
  BY DEF CapAhead
<1>2. SUFFICES ASSUME ~raced', crashes' = 0
               PROVE  \/ Cardinality(fresh)' <= MaxEntries
                      \/ \E p \in Jobs : at'[p] = "listing" \/ Covers(p)'
  BY DEF CapAhead
<1>3. IsFiniteSet(fresh) /\ Cardinality(fresh) \in Nat
  <2>1. fresh \subseteq Jobs
    BY DEF F!Results
  <2> QED BY <2>1, SmallerSet
<1>4. ASSUME fresh' \subseteq fresh, Cardinality(fresh) <= MaxEntries
      PROVE  Cardinality(fresh)' <= MaxEntries
  <2>1. Cardinality(fresh') <= Cardinality(fresh) /\ Cardinality(fresh') \in Nat
    BY <1>3, <1>4, SmallerSet
  <2> HIDE DEF fresh
  <2> QED BY <1>3, <1>4, <2>1
<1>5. ASSUME raced' = raced, crashes' = crashes, fresh' \subseteq fresh,
             \A q \in Jobs : at[q] \in {"listing", "sorting", "expiring", "trimming"}
                => at'[q] = at[q] /\ listed'[q] = listed[q]
      PROVE  \/ Cardinality(fresh)' <= MaxEntries
             \/ \E p \in Jobs : at'[p] = "listing" \/ Covers(p)'
  <2>1. CASE Cardinality(fresh) <= MaxEntries
    BY <1>4, <1>5, <2>1
  <2>2. ASSUME NEW q \in Jobs, at[q] = "listing" \/ Covers(q)
        PROVE  at'[q] = "listing" \/ Covers(q)'
    <3>1. at'[q] = at[q] /\ F!Listed(q)' = F!Listed(q)
      BY <1>5, <2>2 DEF F!Listed
    <3> HIDE DEF fresh
    <3> QED BY <1>5, <2>2, <3>1
  <2>3. \/ Cardinality(fresh) <= MaxEntries
        \/ \E p \in Jobs : at[p] = "listing" \/ Covers(p)
    BY <1>1, <1>2, <1>5
  <2> HIDE DEF fresh, Covers
  <2> QED BY <2>1, <2>2, <2>3
<1>6. ASSUME NEW p \in F!Puts, F!Open(p) \/ F!Write(p)
      PROVE  \/ Cardinality(fresh)' <= MaxEntries
             \/ \E q \in Jobs : at'[q] = "listing" \/ Covers(q)'
  <2>1. UNCHANGED <<path, expired, raced, crashes, listed>>
    BY <1>6 DEF F!Open, F!Write
  <2>2. fresh' \subseteq fresh
    BY <2>1 DEF F!Results
  <2>3. \A q \in Jobs : at[q] \in {"listing", "sorting", "expiring", "trimming"}
                => at'[q] = at[q]
    BY <1>0, <1>6 DEF F!Open, F!Write, F!Goto
  <2> HIDE DEF fresh, Covers
  <2> QED BY <1>5, <2>1, <2>2, <2>3
<1>7. ASSUME NEW p \in F!Puts, F!Rename(p)
      PROVE  \/ Cardinality(fresh)' <= MaxEntries
             \/ \E q \in Jobs : at'[q] = "listing" \/ Covers(q)'
  <2>1. CASE p \in Jobs
    BY <1>0, <1>7, <2>1 DEF F!Rename, F!Goto
  <2>2. CASE p \in Updates
    <3>1. UNCHANGED <<expired, raced, crashes, listed>>
      BY <1>7 DEF F!Rename
    <3>2. \A n \in Jobs : path'[n] = path[n]
      BY <1>0, <1>7, <2>2 DEF F!Rename
    <3>3. fresh' \subseteq fresh
      BY <3>1, <3>2 DEF F!Results
    <3>4. \A q \in Jobs : at[q] \in {"listing", "sorting", "expiring", "trimming"}
                => at'[q] = at[q]
      BY <1>0, <1>7, <2>2 DEF F!Rename, F!Goto
    <3> HIDE DEF fresh, Covers
    <3> QED BY <1>5, <3>1, <3>3, <3>4
  <2> QED BY <2>1, <2>2
<1>8. ASSUME NEW p \in F!Puts, F!List(p)
      PROVE  \/ Cardinality(fresh)' <= MaxEntries
             \/ \E q \in Jobs : at'[q] = "listing" \/ Covers(q)'
  <2>1. UNCHANGED <<path, expired>> /\ at'[p] = "sorting" /\ p \in Jobs
    BY <1>0, <1>8 DEF F!List, F!disk, F!Goto
  <2>2. F!Listed(p)' = F!Results
    BY <1>8, PruneSteps
  <2>3. fresh' \subseteq F!Results
    BY <2>1 DEF F!Results
  <2>4. Covers(p)'
    BY <2>1, <2>2, <2>3
  <2> QED BY <2>1, <2>4
<1>9. ASSUME NEW p \in F!Puts,
             F!Sort(p) \/ F!DropExpired(p) \/ F!Trim(p) \/ F!Trimmed(p)
      PROVE  \/ Cardinality(fresh)' <= MaxEntries
             \/ \E q \in Jobs : at'[q] = "listing" \/ Covers(q)'
  <2>1. /\ UNCHANGED <<expired, crashes>>
        /\ \A q \in F!Puts : q # p => at'[q] = at[q] /\ listed'[q] = listed[q]
    BY <1>9, PruneSteps DEF F!Sort, F!DropExpired, F!Trim, F!Trimmed
  <2>2. ~raced /\ crashes = 0 /\ p \in Jobs
        /\ at[p] \in {"sorting", "expiring", "trimming"}
    BY <1>0, <1>2, <1>9, <2>1 DEF F!Sort, F!DropExpired, F!Trim, F!Trimmed
  <2>3. fresh' \subseteq fresh
    <3>1. \A n \in Jobs : path'[n] = path[n] \/ path'[n] = None
      BY <1>0, <1>9 DEF F!Sort, F!DropExpired, F!Trim, F!Trimmed, F!disk
    <3> QED BY <2>1, <3>1 DEF F!Results
  <2>4. CASE Cardinality(fresh) <= MaxEntries
    BY <1>4, <2>3, <2>4
  <2>5. ASSUME NEW q \in Jobs, q # p, at[q] = "listing" \/ Covers(q)
        PROVE  at'[q] = "listing" \/ Covers(q)'
    <3>1. at'[q] = at[q] /\ F!Listed(q)' = F!Listed(q)
      BY <2>1, <2>5 DEF F!Listed
    <3> HIDE DEF fresh
    <3> QED BY <2>3, <2>5, <3>1
  <2>6. ASSUME Covers(p)
        PROVE  Covers(p)' \/ Cardinality(fresh)' <= MaxEntries
    <3>1. CASE F!Sort(p)
      <4>1. at'[p] = "expiring"
        BY <1>0, <1>2, <3>1, Zenon DEF F!Sort, F!Goto
      <4>2. F!Listed(p)' = F!Listed(p)
        BY <3>1, <4>1, PruneSteps
      <4> HIDE DEF fresh
      <4> QED BY <2>3, <2>6, <4>1, <4>2
    <3>2. CASE F!DropExpired(p)
      <4> DEFINE gone == {n \in F!Listed(p) : n \in expired \/ path[n] = None}
      <4>1. /\ at'[p] = "trimming"
            /\ listed'[p] = F!Restrict(listed[p], F!Listed(p) \ gone)
            /\ \A n \in Jobs : n \in gone => path'[n] = None
        <5>1. listed \in [F!Puts -> FileTimes]
          BY DEF FileTyped, F!TypeOK, FileTimes
        <5> QED BY <1>0, <3>2, <5>1 DEF F!DropExpired, F!Goto
      <4>2. F!Listed(p)' = F!Listed(p) \ gone
        BY <4>1 DEF F!Listed, F!Restrict
      <4>3. fresh' \subseteq F!Listed(p) \ gone
        <5>1. \A n \in fresh' : n \in Jobs /\ path'[n] # None
          BY DEF F!Results
        <5> HIDE DEF gone, fresh
        <5> QED BY <2>3, <2>6, <4>1, <5>1
      <4> QED BY <4>1, <4>2, <4>3
    <3>3. CASE F!Trim(p)
      <4> DEFINE old == F!Oldest(p)
      <4>1. /\ at'[p] = "trimming" /\ old \in Jobs
            /\ path' = [path EXCEPT ![old] = None]
            /\ listed'[p] = F!Restrict(listed[p], F!Listed(p) \ {old})
        <5>1. listed \in [F!Puts -> FileTimes]
          BY DEF FileTyped, F!TypeOK, FileTimes
        <5>2. old \in Jobs
          BY <1>0, <3>3, OldestIsListed DEF F!Trim, FileTyped
        <5> QED BY <1>0, <3>3, <5>1, <5>2 DEF F!Trim
      <4>2. F!Listed(p)' = F!Listed(p) \ {old}
        BY <4>1 DEF F!Listed, F!Restrict
      <4>3. old \notin fresh'
        BY <1>0, <4>1 DEF F!Results
      <4> HIDE DEF fresh, old
      <4>4. fresh' \subseteq F!Listed(p)'
        BY <2>3, <2>6, <4>2, <4>3
      <4> QED BY <4>1, <4>4
    <3>4. CASE F!Trimmed(p)
      <4>1. Cardinality(F!Listed(p)) <= MaxEntries
            /\ IsFiniteSet(F!Listed(p)) /\ Cardinality(F!Listed(p)) \in Nat
        <5>1. F!Listed(p) \subseteq Jobs
          BY <1>0
        <5>2. IsFiniteSet(F!Listed(p)) /\ Cardinality(F!Listed(p)) \in Nat
          BY <5>1, SmallerSet
        <5>3. ~(Cardinality(F!Listed(p)) > MaxEntries)
          BY <3>4, FileCards DEF F!Trimmed, F!OverCap
        <5> QED BY <5>2, <5>3
      <4>2. Cardinality(fresh) <= Cardinality(F!Listed(p))
        BY <2>6, <4>1, SmallerSet
      <4> HIDE DEF fresh
      <4>3. Cardinality(fresh) <= MaxEntries
        BY <1>3, <4>1, <4>2
      <4> QED BY <1>4, <2>3, <4>3
    <3> QED BY <1>9, <3>1, <3>2, <3>3, <3>4
  <2>7. at[p] # "listing"
    BY <2>2
  <2>8. \/ Cardinality(fresh) <= MaxEntries
        \/ \E q \in Jobs : at[q] = "listing" \/ Covers(q)
    BY <1>1, <2>2
  <2> HIDE DEF fresh, Covers
  <2> QED BY <2>2, <2>4, <2>5, <2>6, <2>7, <2>8
<1>10. ASSUME NEW p \in F!Puts, F!Crash(p)
       PROVE  FALSE
  BY <1>0, <1>2, <1>10 DEF F!Crash
<1>11. ASSUME NEW n \in Jobs, F!Expire(n)
       PROVE  \/ Cardinality(fresh)' <= MaxEntries
              \/ \E q \in Jobs : at'[q] = "listing" \/ Covers(q)'
  <2>1. UNCHANGED <<path, raced, crashes, listed, at>> /\ expired \subseteq expired'
    BY <1>11 DEF F!Expire, F!own
  <2>2. fresh' \subseteq fresh
    BY <2>1 DEF F!Results
  <2> HIDE DEF fresh, Covers
  <2> QED BY <1>5, <2>1, <2>2
<1>12. ASSUME UNCHANGED F!vars
       PROVE  \/ Cardinality(fresh)' <= MaxEntries
              \/ \E q \in Jobs : at'[q] = "listing" \/ Covers(q)'
  <2>1. UNCHANGED <<path, raced, crashes, listed, at, expired>>
    BY <1>12 DEF F!vars, F!disk, F!own
  <2>2. fresh' \subseteq fresh
    BY <2>1 DEF F!Results
  <2> HIDE DEF fresh, Covers
  <2> QED BY <1>5, <2>1, <2>2
<1> QED
  BY <1>6, <1>7, <1>8, <1>9, <1>10, <1>11, <1>12 DEF F!Next

LEMMA FileNext ==
    ASSUME FileInv, [F!Next]_F!vars
    PROVE  FileInv'
BY FileNextTyped, FileNextJobs, FileNextEntry, FileNextPrune, FileNextDropped,
   FileNextCap DEF FileInv

LEMMA FileProperties ==
    ASSUME FileInv
    PROVE  /\ F!ResultsAreWhole /\ F!EntryIsWhole
           /\ F!NewestAreKept /\ F!CapIsKept
<1> USE FileBounds, FinitePuts
<1>1. F!ResultsAreWhole
  BY DEF FileInv, JobFiles, F!ResultsAreWhole
<1>2. F!EntryIsWhole
  BY DEF FileInv, JobFiles, EntryFile, Shared, F!EntryIsWhole
<1>3. F!NewestAreKept
  <2>1. ASSUME NEW n \in dropped
        PROVE  F!Cardinality({m \in Jobs : written[m] > written[n]}) >= MaxEntries
    BY FileCards DEF FileInv, DroppedAreOld, Newer
  <2> QED BY <2>1 DEF F!NewestAreKept
<1>4. F!CapIsKept
  <2> SUFFICES ASSUME \A p \in Jobs : at[p] \in {"new", "done"}, ~raced, crashes = 0
               PROVE  F!Cardinality(F!Results \ expired) <= MaxEntries
    BY DEF F!CapIsKept
  <2> QED BY FileCards DEF FileInv, CapAhead
<1> QED BY <1>1, <1>2, <1>3, <1>4
-----------------------------------------------------------------------------
(* Contract screening. *)

\* What Screening assumes of its constants.
LEMMA ScreenBounds ==
    /\ VerdictTTL \in Nat /\ UncheckedTTL \in Nat /\ MaxElapsed \in Nat
    /\ MaxFaults \in Nat /\ S!AgeCap \in Nat
    /\ None \notin {"honeypot", "sellable", "unchecked", "unscreened"}
BY PartsAssumption DEF S!ScreeningAssumption, S!AgeCap

\* Types, and where a screen has a verdict in hand.
ScreenTyped ==
    /\ S!TypeOK
    /\ cached \in [Screens -> S!Verdicts \cup {None}]
    /\ result \in [Screens -> S!Verdicts \cup {"unscreened", None}]
    /\ \A p \in Screens :
          /\ screen_pc[p] = "idle" =>
                /\ elapsed[p] = 0 /\ result[p] = None
          /\ screen_pc[p] = "saving" => result[p] \in S!Verdicts

\* A verdict of that age is that of the contract now, or it has changed since;
\* and so far back, at most, the last failure is.
Backed(verdict, age) ==
    /\ verdict = "honeypot" => honeypot \/ since <= age
    /\ verdict = "sellable" => ~honeypot \/ since <= age

RowBacked ==
    row # None =>
        Backed(row.verdict, row.age) /\ (row.verdict = "unchecked" => failed <= row.age)

\* No tick passes between the two SELECTs of a screen, nor between the answer
\* and the write.
CachedBacked ==
    \A p \in Screens : screen_pc[p] = "reading" =>
        /\ Backed(cached[p], VerdictTTL)
        /\ cached[p] = "unchecked" /\ ~overtaken[p] =>
              row # None /\ row.verdict = "unchecked"

AnswerBacked ==
    \A p \in Screens : screen_pc[p] = "saving" => Backed(result[p], 0)

ResultBacked ==
    \A p \in Screens :
        /\ Backed(result[p], VerdictTTL + elapsed[p])
        /\ result[p] = "unchecked" =>
              \/ failed <= UncheckedTTL + elapsed[p]
              \/ overtaken[p] \/ screen_pc[p] = "saving"

ScreenInv ==
    ScreenTyped /\ RowBacked /\ CachedBacked /\ AnswerBacked /\ ResultBacked

LEMMA ScreenInit == S!Init => ScreenInv
BY ScreenBounds
   DEF S!Init, ScreenInv, ScreenTyped, RowBacked, CachedBacked, AnswerBacked,
       ResultBacked, Backed, S!TypeOK, S!Verdicts

\* Ages grow by one at most, and in step.
LEMMA OlderTick ==
    ASSUME NEW a \in 0 .. S!AgeCap, NEW b \in 0 .. S!AgeCap
    PROVE  /\ S!Older(a) \in 0 .. S!AgeCap
           /\ S!Older(a) <= a + 1
           /\ a <= b => S!Older(a) <= S!Older(b)
BY ScreenBounds DEF S!Older

\* A SELECT returns the verdict of the row, if that is recent enough.
LEMMA FreshRow ==
    ASSUME ScreenTyped, NEW ttl \in Nat
    PROVE  /\ S!Fresh(ttl) \in S!Verdicts \cup {None}
           /\ S!Fresh(ttl) # None =>
                 /\ row # None /\ row.age <= ttl /\ row.age \in Nat
                 /\ S!Fresh(ttl) = row.verdict
BY ScreenBounds DEF S!Fresh, ScreenTyped, S!TypeOK

LEMMA ScreenNext ==
    ASSUME ScreenInv, [S!Next]_S!vars
    PROVE  ScreenInv'
<1> USE ScreenBounds
<1>0. /\ ScreenTyped /\ RowBacked /\ CachedBacked
      /\ AnswerBacked /\ ResultBacked
      /\ since \in Nat /\ failed \in Nat /\ honeypot \in BOOLEAN
      /\ elapsed \in [Screens -> 0 .. MaxElapsed]
  BY DEF ScreenInv, ScreenTyped, S!TypeOK
<1>1. ASSUME NEW p \in Screens, S!Begin(p)
      PROVE  ScreenInv'
  <2>1. /\ S!Fresh(VerdictTTL) \in S!Verdicts \cup {None}
        /\ S!Fresh(VerdictTTL) # None =>
                 /\ row # None /\ row.age <= VerdictTTL /\ row.age \in Nat
                 /\ S!Fresh(VerdictTTL) = row.verdict
    BY <1>0, FreshRow
  <2>2. ScreenTyped'
    BY <1>0, <1>1, <2>1 DEF S!Begin, S!Goto, ScreenTyped, S!TypeOK
  <2>3. RowBacked'
    BY <1>0, <1>1 DEF S!Begin, RowBacked, Backed
  <2>4. ResultBacked'
    BY <1>0, <1>1 DEF S!Begin, S!Goto, ResultBacked, Backed, ScreenTyped, S!TypeOK
  <2>5. /\ Backed(S!Fresh(VerdictTTL), VerdictTTL)
        /\ S!Fresh(VerdictTTL) = "unchecked" =>
              row # None /\ row.verdict = "unchecked"
    BY <1>0, <2>1 DEF RowBacked, Backed, S!Verdicts
  <2>6. CachedBacked'
    <3> SUFFICES ASSUME NEW q \in Screens, screen_pc'[q] = "reading"
                 PROVE  /\ Backed(cached[q], VerdictTTL)'
                        /\ cached'[q] = "unchecked" /\ ~overtaken'[q] =>
                              row' # None /\ row'.verdict = "unchecked"
      BY DEF CachedBacked
    <3>1. UNCHANGED <<honeypot, since, row, overtaken>>
      BY <1>1 DEF S!Begin
    <3>2. CASE q = p
      <4>1. cached'[p] = S!Fresh(VerdictTTL)
        BY <1>0, <1>1, <3>2 DEF S!Begin, S!Goto, ScreenTyped, S!TypeOK
      <4> QED BY <2>5, <3>1, <3>2, <4>1 DEF Backed
    <3>3. CASE q # p
      <4>1. cached'[q] = cached[q] /\ screen_pc[q] = "reading"
        BY <1>0, <1>1, <3>3 DEF S!Begin, S!Goto, ScreenTyped, S!TypeOK
      <4> QED BY <1>0, <3>1, <4>1 DEF CachedBacked, Backed
    <3> QED BY <3>2, <3>3
  <2>7. AnswerBacked'
    BY <1>0, <1>1 DEF S!Begin, S!Goto, AnswerBacked, Backed, ScreenTyped, S!TypeOK
  <2> QED BY <2>2, <2>3, <2>4, <2>6, <2>7 DEF ScreenInv
<1>2. ASSUME NEW p \in Screens, S!ReadRecent(p)
      PROVE  ScreenInv'
  <2>1. /\ UNCHANGED <<honeypot, since, failed, row, elapsed, cached, overtaken,
                       screen_faults>>
        /\ screen_pc[p] = "reading"
    BY <1>2 DEF S!ReadRecent
  <2>2. /\ screen_pc' \in [Screens -> {"idle", "reading", "asking", "saving", "done"}]
        /\ \A q \in Screens \ {p} : screen_pc'[q] = screen_pc[q] /\ result'[q] = result[q]
        /\ \/ /\ screen_pc'[p] = "done" /\ result'[p] = cached[p]
              /\ result' = [result EXCEPT ![p] = cached[p]]
              /\ S!Usable(p)
           \/ screen_pc'[p] = "asking" /\ result' = result
    BY <1>0, <1>2 DEF S!ReadRecent, S!Goto, ScreenTyped, S!TypeOK
  <2>3. S!Usable(p) => cached[p] \in S!Verdicts /\ cached[p] # None
    BY <1>0 DEF S!Usable, S!Verdicts, ScreenTyped
  <2>4. ScreenTyped'
    BY <1>0, <2>1, <2>2, <2>3 DEF ScreenTyped, S!TypeOK
  <2>5. RowBacked' /\ CachedBacked'
    BY <1>0, <2>1, <2>2 DEF RowBacked, CachedBacked, Backed
  <2>6. S!Usable(p) => /\ Backed(cached[p], VerdictTTL)
                       /\ cached[p] = "unchecked" /\ ~overtaken[p] =>
                             failed <= UncheckedTTL
    <3> SUFFICES ASSUME S!Usable(p)
                 PROVE  /\ Backed(cached[p], VerdictTTL)
                        /\ cached[p] = "unchecked" /\ ~overtaken[p] =>
                              failed <= UncheckedTTL
      OBVIOUS
    <3>1. Backed(cached[p], VerdictTTL)
      BY <1>0, <2>1 DEF CachedBacked
    <3>2. ASSUME cached[p] = "unchecked", ~overtaken[p]
          PROVE  failed <= UncheckedTTL
      <4>1. S!Fresh(UncheckedTTL) # None
        BY <3>2 DEF S!Usable
      <4>2. row # None /\ row.age <= UncheckedTTL /\ row.age \in Nat
        BY <1>0, <4>1, FreshRow
      <4>3. failed <= row.age
        BY <1>0, <2>1, <3>2, <4>2 DEF CachedBacked, RowBacked
      <4> QED BY <1>0, <4>2, <4>3
    <3> QED BY <3>1, <3>2
  <2>7. ResultBacked'
    <3> SUFFICES ASSUME NEW q \in Screens
                 PROVE  /\ Backed(result[q], VerdictTTL + elapsed[q])'
                        /\ result'[q] = "unchecked" =>
                              \/ failed' <= UncheckedTTL + elapsed'[q]
                              \/ overtaken'[q] \/ screen_pc'[q] = "saving"
      BY DEF ResultBacked
    <3>1. /\ Backed(result[q], VerdictTTL + elapsed[q])
          /\ result[q] = "unchecked" =>
                \/ failed <= UncheckedTTL + elapsed[q]
                \/ overtaken[q] \/ screen_pc[q] = "saving"
          /\ elapsed[q] \in Nat
      BY <1>0 DEF ResultBacked
    <3>2. CASE result'[q] = result[q] /\ (q = p \/ screen_pc'[q] = screen_pc[q])
      BY <2>1, <3>1, <3>2 DEF Backed
    <3>3. CASE q = p /\ result'[p] = cached[p] /\ S!Usable(p)
      BY <1>0, <2>1, <2>6, <3>1, <3>3 DEF Backed
    <3> QED BY <2>2, <3>2, <3>3
  <2>8. AnswerBacked'
    BY <1>0, <2>1, <2>2 DEF AnswerBacked, Backed
  <2> QED BY <2>4, <2>5, <2>7, <2>8 DEF ScreenInv
<1>3. ASSUME NEW p \in Screens, S!Ask(p)
      PROVE  ScreenInv'
  <2>1. PICK v \in S!Answers : result' = [result EXCEPT ![p] = v]
    BY <1>3 DEF S!Ask
  <2>2. /\ v \in S!Verdicts
        /\ v = "honeypot" => honeypot
        /\ v = "sellable" => ~honeypot
    BY <1>0 DEF S!Answers, S!Verdicts
  <2>3. ScreenTyped'
    BY <1>0, <1>3, <2>1, <2>2 DEF S!Ask, S!Goto, ScreenTyped, S!TypeOK
  <2>4. RowBacked'
    BY <1>0, <1>3 DEF S!Ask, RowBacked, Backed
  <2>5. CachedBacked'
    BY <1>0, <1>3 DEF S!Ask, S!Goto, CachedBacked, Backed, ScreenTyped, S!TypeOK
  <2>6. ResultBacked'
    BY <1>0, <1>3, <2>1, <2>2
       DEF S!Ask, S!Goto, ResultBacked, Backed, ScreenTyped, S!TypeOK
  <2>7. AnswerBacked'
    BY <1>0, <1>3, <2>1, <2>2
       DEF S!Ask, S!Goto, AnswerBacked, Backed, ScreenTyped, S!TypeOK
  <2> QED BY <2>3, <2>4, <2>5, <2>6, <2>7 DEF ScreenInv
<1>4. ASSUME NEW p \in Screens, S!Save(p)
      PROVE  ScreenInv'
  <2>1. /\ screen_pc[p] = "saving" /\ result[p] \in S!Verdicts
        /\ row' = [verdict |-> result[p], age |-> 0]
        /\ failed' = IF result[p] = "unchecked" THEN 0 ELSE failed
        /\ UNCHANGED <<honeypot, since, elapsed, cached, result, screen_faults>>
        /\ screen_pc' = [screen_pc EXCEPT ![p] = "done"]
        /\ overtaken' = [q \in Screens |-> overtaken[q] \/ screen_pc[q] = "reading"]
    BY <1>0, <1>4 DEF S!Save, S!Goto, ScreenTyped
  <2>2. ScreenTyped'
    BY <1>0, <2>1 DEF ScreenTyped, S!TypeOK, S!Verdicts
  <2>3. ASSUME row' # None  PROVE RowBacked'
    <3>1. row'.verdict = result[p] /\ row'.age = 0
      BY <2>1
    <3>2. Backed(result[p], 0)
      BY <1>0, <2>1 DEF AnswerBacked
    <3> QED BY <1>0, <2>1, <3>1, <3>2 DEF RowBacked, Backed
  <2>4. CachedBacked'
    BY <1>0, <2>1 DEF CachedBacked, Backed, ScreenTyped, S!TypeOK
  <2>5. ResultBacked'
    BY <1>0, <2>1 DEF ResultBacked, Backed, ScreenTyped, S!TypeOK
  <2>6. AnswerBacked'
    BY <1>0, <2>1 DEF AnswerBacked, Backed, ScreenTyped, S!TypeOK
  <2> QED BY <2>2, <2>3, <2>4, <2>5, <2>6 DEF ScreenInv, RowBacked
<1>5. ASSUME NEW p \in Screens, S!Raise(p)
      PROVE  ScreenInv'
  <2>1. ScreenTyped'
    BY <1>0, <1>5 DEF S!Raise, S!Goto, ScreenTyped, S!TypeOK
  <2>2. RowBacked'
    BY <1>0, <1>5 DEF S!Raise, RowBacked, Backed
  <2>3. CachedBacked'
    BY <1>0, <1>5 DEF S!Raise, S!Goto, CachedBacked, Backed, ScreenTyped, S!TypeOK
  <2>4. ResultBacked'
    BY <1>0, <1>5 DEF S!Raise, S!Goto, ResultBacked, Backed, ScreenTyped, S!TypeOK
  <2>5. AnswerBacked'
    BY <1>0, <1>5 DEF S!Raise, S!Goto, AnswerBacked, Backed, ScreenTyped, S!TypeOK
  <2> QED BY <2>1, <2>2, <2>3, <2>4, <2>5 DEF ScreenInv
<1>6. ASSUME NEW p \in Screens, S!Return(p)
      PROVE  ScreenInv'
  <2>1. ScreenTyped'
    BY <1>0, <1>6 DEF S!Return, S!Goto, ScreenTyped, S!TypeOK
  <2>2. RowBacked'
    BY <1>0, <1>6 DEF S!Return, RowBacked, Backed
  <2>3. CachedBacked'
    BY <1>0, <1>6 DEF S!Return, S!Goto, CachedBacked, Backed, ScreenTyped, S!TypeOK
  <2>4. ResultBacked'
    BY <1>0, <1>6 DEF S!Return, S!Goto, ResultBacked, Backed, ScreenTyped, S!TypeOK
  <2>5. AnswerBacked'
    BY <1>0, <1>6 DEF S!Return, S!Goto, AnswerBacked, Backed, ScreenTyped, S!TypeOK
  <2> QED BY <2>1, <2>2, <2>3, <2>4, <2>5 DEF ScreenInv
<1>7. CASE S!Switch
  <2>1. /\ honeypot' = ~honeypot /\ since' = 0
        /\ UNCHANGED <<failed, row, screen_pc, elapsed, cached, result, overtaken,
                       screen_faults>>
    BY <1>7 DEF S!Switch, S!screenVars
  <2>2. ScreenTyped'
    BY <1>0, <2>1 DEF ScreenTyped, S!TypeOK
  <2>3. row # None => row.age \in Nat
    BY <1>0 DEF ScreenTyped, S!TypeOK
  <2>4. RowBacked'
    BY <1>0, <2>1, <2>3 DEF RowBacked, Backed
  <2>5. CachedBacked' /\ AnswerBacked' /\ ResultBacked'
    BY <1>0, <2>1 DEF CachedBacked, AnswerBacked, ResultBacked, Backed
  <2> QED BY <2>2, <2>4, <2>5 DEF ScreenInv
<1>8. CASE S!Tick
  <2>1. /\ \A p \in Screens :
              /\ screen_pc[p] \notin {"reading", "saving"}
              /\ screen_pc[p] # "idle" => elapsed[p] < MaxElapsed
        /\ since' = S!Older(since) /\ failed' = S!Older(failed)
        /\ row' = IF row = None THEN None ELSE [row EXCEPT !.age = S!Older(@)]
        /\ elapsed' = [p \in Screens |->
                         IF screen_pc[p] = "idle" THEN 0 ELSE elapsed[p] + 1]
        /\ UNCHANGED <<honeypot, screen_pc, cached, result, overtaken, screen_faults>>
    BY <1>8 DEF S!Tick
  <2>2. /\ since \in 0 .. S!AgeCap /\ failed \in 0 .. S!AgeCap
        /\ since' \in 0 .. S!AgeCap /\ failed' \in 0 .. S!AgeCap
        /\ since' <= since + 1 /\ failed' <= failed + 1
    BY <1>0, <2>1, OlderTick DEF ScreenTyped, S!TypeOK
  <2>3. ASSUME row # None
        PROVE  /\ row' \in [verdict : S!Verdicts, age : 0 .. S!AgeCap]
               /\ row'.verdict = row.verdict
               /\ since <= row.age => since' <= row'.age
               /\ failed <= row.age => failed' <= row'.age
    <3>1. /\ row \in [verdict : S!Verdicts, age : 0 .. S!AgeCap]
          /\ row' = [row EXCEPT !.age = S!Older(row.age)]
      BY <1>0, <2>1, <2>3 DEF ScreenTyped, S!TypeOK
    <3>2. /\ row.age \in 0 .. S!AgeCap
          /\ row'.age = S!Older(row.age) /\ row'.verdict = row.verdict
      BY <3>1
    <3>3. /\ S!Older(row.age) \in 0 .. S!AgeCap
          /\ since <= row.age => S!Older(since) <= S!Older(row.age)
          /\ failed <= row.age => S!Older(failed) <= S!Older(row.age)
      BY <2>2, <3>2, OlderTick
    <3> QED BY <2>1, <3>1, <3>2, <3>3
  <2>4. elapsed' \in [Screens -> 0 .. MaxElapsed]
    BY <1>0, <2>1
  <2>5. ScreenTyped'
    BY <1>0, <2>1, <2>2, <2>3, <2>4 DEF ScreenTyped, S!TypeOK
  <2>6. RowBacked'
    BY <1>0, <2>1, <2>3 DEF RowBacked, Backed
  <2>7. CachedBacked' /\ AnswerBacked'
    BY <2>1 DEF CachedBacked, AnswerBacked
  <2>8. ResultBacked'
    <3> SUFFICES ASSUME NEW q \in Screens
                 PROVE  /\ Backed(result[q], VerdictTTL + elapsed[q])'
                        /\ result'[q] = "unchecked" =>
                              \/ failed' <= UncheckedTTL + elapsed'[q]
                              \/ overtaken'[q] \/ screen_pc'[q] = "saving"
      BY DEF ResultBacked
    <3>1. /\ Backed(result[q], VerdictTTL + elapsed[q])
          /\ result[q] = "unchecked" =>
                \/ failed <= UncheckedTTL + elapsed[q]
                \/ overtaken[q] \/ screen_pc[q] = "saving"
          /\ elapsed[q] \in Nat
      BY <1>0 DEF ResultBacked
    <3>2. CASE screen_pc[q] = "idle"
      <4>1. result'[q] = None
        BY <1>0, <2>1, <3>2 DEF ScreenTyped
      <4> QED BY <4>1 DEF Backed
    <3>3. CASE screen_pc[q] # "idle"
      <4>1. elapsed'[q] = elapsed[q] + 1 /\ result'[q] = result[q]
        BY <2>1, <3>3
      <4>2. Backed(result[q], VerdictTTL + elapsed[q])'
        BY <1>0, <2>1, <2>2, <3>1, <4>1 DEF Backed
      <4> QED BY <1>0, <2>1, <2>2, <3>1, <4>1, <4>2
    <3> QED BY <3>2, <3>3
  <2> QED BY <2>5, <2>6, <2>7, <2>8 DEF ScreenInv
<1>9. CASE UNCHANGED S!vars
  BY <1>0, <1>9
     DEF S!vars, S!screenVars, ScreenInv, ScreenTyped, RowBacked, CachedBacked,
         AnswerBacked, ResultBacked, Backed, S!TypeOK
<1> QED
  BY <1>1, <1>2, <1>3, <1>4, <1>5, <1>6, <1>7, <1>8, <1>9 DEF S!Next

LEMMA ScreenVerdicts == ScreenInv => S!TrapsAreCaught /\ S!AlarmsAreCurrent
<1> SUFFICES ASSUME ScreenInv, NEW p \in Screens
             PROVE  /\ /\ result[p] \in {"sellable", "unchecked"}
                       /\ honeypot /\ since > VerdictTTL + elapsed[p]
                       => failed <= UncheckedTTL + elapsed[p] \/ overtaken[p]
                          \/ screen_pc[p] = "saving"
                    /\ result[p] = "honeypot" =>
                          honeypot \/ since <= VerdictTTL + elapsed[p]
  BY DEF S!TrapsAreCaught, S!AlarmsAreCurrent
<1>1. /\ Backed(result[p], VerdictTTL + elapsed[p])
      /\ result[p] = "unchecked" =>
            \/ failed <= UncheckedTTL + elapsed[p]
            \/ overtaken[p] \/ screen_pc[p] = "saving"
  BY DEF ScreenInv, ResultBacked
<1>2. since \in Nat /\ elapsed[p] \in Nat /\ VerdictTTL \in Nat
  BY ScreenBounds DEF ScreenInv, ScreenTyped, S!TypeOK
<1> QED BY <1>1, <1>2 DEF Backed

-----------------------------------------------------------------------------
(* The candidates of a monitor run. *)

\* What Trades assumes of its constants.
LEMMA TradeBounds ==
    /\ Ignored \subseteq Tokens /\ Amounts \subseteq Nat /\ Floors \subseteq Nat
    /\ Shares \subseteq 0 .. 100 /\ MinWallets \in Nat /\ None \notin Int
    /\ IsFiniteSet(Watched) /\ IsFiniteSet(Tokens)
<1>1. T!TradesAssumption
  BY PartsAssumption
<1>2. \A X : T!IsFiniteSet(X) <=> IsFiniteSet(X)
  BY DEF T!IsFiniteSet, IsFiniteSet
<1> QED BY <1>1, <1>2 DEF T!TradesAssumption

LEMMA TradeCards ==
    ASSUME NEW X
    PROVE  T!Cardinality(X) = Cardinality(X)
BY DEF T!Cardinality, Cardinality

\* The rows are rows, and finitely many.
TradeRows ==
    /\ trades \subseteq T!Trade /\ positions \subseteq T!Row
    /\ IsFiniteSet(trades)
    /\ min_buy_usd \in Floors /\ min_wallets_pct \in Shares

LEMMA TradeInit == T!Init => TradeRows
BY FS_EmptySet DEF T!Init, TradeRows

LEMMA TradeNext ==
    ASSUME TradeRows, [T!Next]_T!vars
    PROVE  TradeRows'
<1>1. ASSUME NEW r \in T!Trade, T!AddTrade(r)
      PROVE  TradeRows'
  <2>1. IsFiniteSet(trades \cup {r})
    BY FS_AddElement DEF TradeRows
  <2> QED BY <1>1, <2>1 DEF T!AddTrade, T!settings, TradeRows
<1>2. ASSUME NEW r \in T!Row, T!AddPosition(r)
      PROVE  TradeRows'
  BY <1>2 DEF T!AddPosition, T!settings, TradeRows
<1>3. CASE UNCHANGED T!vars
  BY <1>3 DEF T!vars, T!settings, TradeRows
<1> QED BY <1>1, <1>2, <1>3 DEF T!Next

\* The buys with a known amount are finitely many, and their amounts numbers.
LEMMA KnownBuys ==
    ASSUME TradeRows, NEW t
    PROVE  /\ IsFiniteSet(T!Known(T!Buyers(t)))
           /\ \A b \in T!Known(T!Buyers(t)) : b.amount_usd \in Int
<1> DEFINE Rel == {r \in trades : T!Relevant(r)}
           f == [r \in Rel |-> T!Buy(r, r.amount_usd, "dex")]
<1>1. IsFiniteSet(Rel)
  BY FS_Subset DEF TradeRows
<1>2. f \in Surjection(Rel, T!DexBuys)
  BY DEF Surjection, T!DexBuys
<1>3. IsFiniteSet(T!DexBuys)
  <2> HIDE DEF f, Rel
  <2> QED BY <1>1, <1>2, FS_Surjection
<1>4. \A b \in T!PositionBuys : b.amount_usd = None
  BY DEF T!PositionBuys, T!Buy
<1>5. T!Known(T!Buyers(t)) \subseteq T!DexBuys
  BY <1>4 DEF T!Known, T!Buyers, T!Merged
<1>6. \A b \in T!DexBuys : b.amount_usd \in Amounts \cup {None}
  BY DEF T!DexBuys, T!Buy, TradeRows, T!Trade
<1>7. ASSUME NEW b \in T!Known(T!Buyers(t))
      PROVE  b.amount_usd \in Int
  <2>1. b \in T!DexBuys /\ b.amount_usd # None
    BY <1>5 DEF T!Known
  <2>2. b.amount_usd \in Amounts
    BY <1>6, <2>1
  <2>3. Amounts \subseteq Int
    BY TradeBounds
  <2> QED BY <2>2, <2>3
<1>8. IsFiniteSet(T!Known(T!Buyers(t)))
  BY <1>3, <1>5, FS_Subset
<1> QED BY <1>7, <1>8

\* MapThenSumSet of the amounts, its fold written out.
Spent(X) ==
    (CHOOSE iter : iter =
        [s \in SUBSET X |->
            IF s = {} THEN 0
            ELSE (CHOOSE x \in s : TRUE).amount_usd
                    + iter[s \ {CHOOSE x \in s : TRUE}]])[X]

LEMMA SpentIsNumber ==
    ASSUME NEW X, IsFiniteSet(X), \A b \in X : b.amount_usd \in Int
    PROVE  Spent(X) \in Int
<1> DEFINE g == [b \in X |-> b.amount_usd]
           Right(iter) == iter = [s \in SUBSET X |->
                IF s = {} THEN 0
                ELSE (CHOOSE x \in s : TRUE).amount_usd
                        + iter[s \ {CHOOSE x \in s : TRUE}]]
<1>1. g \in [X -> Int]
  OBVIOUS
<1>2. \A s \in SUBSET X : s # {} => g[Pick(s)] = (CHOOSE x \in s : TRUE).amount_usd
  <2>1. ASSUME NEW s \in SUBSET X, s # {}
        PROVE  g[Pick(s)] = (CHOOSE x \in s : TRUE).amount_usd
    <3>1. Pick(s) \in X
      BY <2>1, PickIsMember
    <3> QED BY <3>1 DEF Pick
  <2> QED BY <2>1
<1> HIDE DEF g
<1>3. PICK it \in PartialSums(SUBSET X, g) : TRUE
  BY <1>1, PartialSumsExist
<1>4. Right(it)
  <2>1. \A s \in SUBSET X : it[s] = IF s = {} THEN 0
                                    ELSE (CHOOSE x \in s : TRUE).amount_usd
                                           + it[s \ {CHOOSE x \in s : TRUE}]
    BY <1>2, <1>3 DEF PartialSums, Pick
  <2>2. it = [s \in SUBSET X |-> it[s]]
    BY <1>3 DEF PartialSums
  <2> QED BY <2>1, <2>2
<1>5. PICK any : any = (CHOOSE iter : Right(iter)) /\ Right(any)
  <2> HIDE DEF Right
  <2>1. Right(CHOOSE iter : Right(iter))
    BY <1>4
  <2> QED BY <2>1
<1>6. any = [s \in SUBSET X |->
                IF s = {} THEN 0
                ELSE (CHOOSE x \in s : TRUE).amount_usd
                        + any[s \ {CHOOSE x \in s : TRUE}]]
  BY <1>5
<1>7. any \in PartialSums(SUBSET X, g)
  <2>1. any = [s \in SUBSET X |->
                 IF s = {} THEN 0 ELSE g[Pick(s)] + any[s \ {Pick(s)}]]
    BY <1>2, <1>6 DEF Pick
  <2> QED BY <1>1, <2>1, SolutionIsSum
<1>8. any[X] \in Int
  BY <1>7 DEF PartialSums
<1> QED BY <1>5, <1>8 DEF Spent

\* A trade becomes a buy of its wallet, and so does a position that no trade
\* overrides.
LEMMA BuysOfRows ==
    ASSUME TradeRows, NEW t
    PROVE  /\ \A b \in T!DexBuys : \E r \in trades :
                 /\ r.wallet \in Watched /\ r.token \notin Ignored
                 /\ b = T!Buy(r, r.amount_usd, "dex")
           /\ \A r \in trades : r.wallet \in Watched /\ r.token \notin Ignored
                 => T!Buy(r, r.amount_usd, "dex") \in T!DexBuys
           /\ \A b \in T!PositionBuys : \E r \in positions :
                 /\ r.wallet \in Watched /\ r.token \notin Ignored
                 /\ b = T!Buy(r, None, "balance")
           /\ \A r \in positions : r.wallet \in Watched /\ r.token \notin Ignored
                 => T!Buy(r, None, "balance") \in T!PositionBuys
BY DEF T!DexBuys, T!PositionBuys, T!Relevant

LEMMA BuyFields ==
    ASSUME NEW r, NEW usd, NEW via
    PROVE  /\ T!Buy(r, usd, via).wallet = r.wallet
           /\ T!Buy(r, usd, via).token = r.token
           /\ T!Buy(r, usd, via).amount_usd = usd
           /\ T!Buy(r, usd, via).via = via
BY DEF T!Buy

\* Every buyer bought.
LEMMA BuyersBought ==
    ASSUME TradeRows, NEW t, NEW b \in T!Buyers(t)
    PROVE  t \notin Ignored /\ b.wallet \in Watched /\ T!Bought(b.wallet, t)
<1>1. b \in T!Merged /\ b.token = t /\ T!Passes(b)
  BY DEF T!Buyers
<1>2. CASE b \in T!DexBuys
  <2>1. PICK r \in trades : /\ r.wallet \in Watched /\ r.token \notin Ignored
                            /\ b = T!Buy(r, r.amount_usd, "dex")
    BY <1>2, BuysOfRows
  <2>2. b.wallet = r.wallet /\ b.token = r.token /\ b.amount_usd = r.amount_usd
    BY <2>1, BuyFields
  <2> QED BY <1>1, <2>1, <2>2 DEF T!Bought, T!Passes
<1>3. CASE b \in T!PositionBuys /\ ~ \E d \in T!DexBuys : T!SamePair(d, b)
  <2>1. PICK r \in positions : /\ r.wallet \in Watched /\ r.token \notin Ignored
                               /\ b = T!Buy(r, None, "balance")
    BY <1>3, BuysOfRows
  <2>2. b.wallet = r.wallet /\ b.token = r.token
    BY <2>1, BuyFields
  <2>3. r = [wallet |-> b.wallet, token |-> t]
    BY <1>1, <2>2 DEF TradeRows, T!Row
  <2>4. ASSUME NEW q \in trades, q.wallet = b.wallet, q.token = t
        PROVE  FALSE
    <3>1. PICK d \in T!DexBuys : d = T!Buy(q, q.amount_usd, "dex")
      BY <1>1, <2>1, <2>2, <2>4, BuysOfRows
    <3>2. d.wallet = b.wallet /\ d.token = b.token
      BY <1>1, <2>4, <3>1, BuyFields
    <3> QED BY <1>3, <3>2 DEF T!SamePair
  <2> QED BY <1>1, <2>1, <2>2, <2>3, <2>4 DEF T!Bought
<1> QED BY <1>1, <1>2, <1>3 DEF T!Merged

\* Everyone who bought is a buyer.
LEMMA BoughtAreBuyers ==
    ASSUME TradeRows, NEW t, t \notin Ignored, NEW w \in Watched, T!Bought(w, t)
    PROVE  \E b \in T!Buyers(t) : b.wallet = w
<1>1. CASE \E r \in trades : /\ r.wallet = w /\ r.token = t
                             /\ r.amount_usd = None \/ r.amount_usd >= min_buy_usd
  <2>1. PICK r \in trades : /\ r.wallet = w /\ r.token = t
                            /\ r.amount_usd = None \/ r.amount_usd >= min_buy_usd
    BY <1>1
  <2>2. PICK b \in T!DexBuys : b = T!Buy(r, r.amount_usd, "dex")
    BY <2>1, BuysOfRows
  <2>3. b.wallet = w /\ b.token = t /\ b.amount_usd = r.amount_usd
    BY <2>1, <2>2, BuyFields
  <2>4. b \in T!Buyers(t)
    BY <2>1, <2>3 DEF T!Buyers, T!Merged, T!Passes
  <2> QED BY <2>3, <2>4
<1>2. CASE /\ [wallet |-> w, token |-> t] \in positions
           /\ ~ \E r \in trades : r.wallet = w /\ r.token = t
  <2>1. PICK r \in positions : r = [wallet |-> w, token |-> t]
    BY <1>2
  <2>2. PICK b \in T!PositionBuys : b = T!Buy(r, None, "balance")
    BY <2>1, BuysOfRows
  <2>3. b.wallet = w /\ b.token = t /\ b.amount_usd = None
    BY <2>1, <2>2, BuyFields
  <2>4. ASSUME NEW d \in T!DexBuys, T!SamePair(d, b)
        PROVE  FALSE
    <3>1. PICK q \in trades : d = T!Buy(q, q.amount_usd, "dex")
      BY BuysOfRows
    <3>2. q.wallet = w /\ q.token = t
      BY <2>3, <2>4, <3>1, BuyFields DEF T!SamePair
    <3> QED BY <1>2, <3>2
  <2>5. b \in T!Buyers(t)
    BY <2>3, <2>4 DEF T!Buyers, T!Merged, T!Passes
  <2> QED BY <2>3, <2>5
<1> QED BY <1>1, <1>2 DEF T!Bought

\* The wallets of the buyers are the watched wallets that bought.
LEMMA WalletsBought ==
    ASSUME TradeRows, NEW t
    PROVE  /\ t \notin Ignored => T!WalletsOf(T!Buyers(t)) =
                                    {w \in Watched : T!Bought(w, t)}
           /\ t \in Ignored => T!WalletsOf(T!Buyers(t)) = {}
           /\ T!WalletsOf(T!Buyers(t)) \subseteq Watched
<1>1. \A b \in T!Buyers(t) : /\ t \notin Ignored /\ b.wallet \in Watched
                             /\ T!Bought(b.wallet, t)
  BY BuyersBought
<1>2. t \notin Ignored => \A w \in Watched : T!Bought(w, t) =>
                             \E b \in T!Buyers(t) : b.wallet = w
  BY BoughtAreBuyers
<1> QED BY <1>1, <1>2 DEF T!WalletsOf

\* effective_min_wallets is the least number that is 2, min_wallets and the
\* percentage of the watchlist at least.
LEMMA RequiredIsLeast ==
    ASSUME TradeRows
    PROVE  /\ T!Required \in Nat /\ T!Required >= 2
           /\ \A n \in Nat : n >= T!Required <=>
                 /\ n >= 2 /\ n >= MinWallets
                 /\ 100 * n >= min_wallets_pct * Cardinality(Watched)
<1> DEFINE size == Cardinality(Watched)
           share == (min_wallets_pct * size + 99) \div 100
<1>1. size \in Nat /\ min_wallets_pct \in Nat /\ MinWallets \in Nat
  BY TradeBounds, FS_CardinalityType DEF TradeRows
<1> HIDE DEF size
<1>2. PICK part0 \in Nat : part0 = min_wallets_pct * size
  BY <1>1, SMTT(10)
<1>3. share \in Nat /\ \A n \in Nat : n >= share <=> 100 * n >= part0
  BY <1>2
<1>4. T!CeilDiv(min_wallets_pct * T!Cardinality(Watched), 100) = share
  <2>1. T!Cardinality(Watched) = size
    BY TradeCards DEF size
  <2>2. part0 + 100 - 1 = part0 + 99
    BY <1>2
  <2> QED BY <1>2, <2>1, <2>2 DEF T!CeilDiv
<1> HIDE DEF share
<1>5. T!Required = T!Max({2, MinWallets, share})
  BY <1>4 DEF T!Required
<1>6. \E x \in {2, MinWallets, share} : \A y \in {2, MinWallets, share} : x >= y
  BY <1>1, <1>3
<1>7. /\ T!Required \in {2, MinWallets, share}
      /\ \A y \in {2, MinWallets, share} : T!Required >= y
  BY <1>5, <1>6 DEF T!Max
<1>8. \A n \in Nat : n >= T!Required <=> n >= 2 /\ n >= MinWallets /\ n >= share
  BY <1>1, <1>3, <1>7
<1>9. T!Required \in Nat /\ T!Required >= 2
  BY <1>1, <1>3, <1>7
<1> QED BY <1>2, <1>3, <1>8, <1>9 DEF size

\* What a candidate says, the library's sum written out.
LEMMA CandidateIs ==
    ASSUME NEW t
    PROVE  T!Candidate(t) =
              [token_address |-> t,
               wallet_count |-> T!Cardinality(T!WalletsOf(T!Buyers(t))),
               dex_wallet_count |->
                  T!Cardinality(T!WalletsOf({b \in T!Buyers(t) : b.via = "dex"})),
               total_usd |-> IF T!Known(T!Buyers(t)) = {} THEN None
                             ELSE Spent(T!Known(T!Buyers(t)))]
BY DEF T!Candidate, T!MapThenSumSet, T!MapThenFoldSet, Spent

LEMMA CandidateFields ==
    ASSUME TradeRows, NEW t
    PROVE  /\ T!Candidate(t).token_address = t
           /\ T!Candidate(t).wallet_count = Cardinality(T!WalletsOf(T!Buyers(t)))
           /\ T!Candidate(t).wallet_count \in 0 .. Cardinality(Watched)
           /\ T!Candidate(t).dex_wallet_count =
                 Cardinality(T!WalletsOf({b \in T!Buyers(t) : b.via = "dex"}))
           /\ T!Candidate(t).dex_wallet_count \in 0 .. T!Candidate(t).wallet_count
           /\ T!OrZero(T!Candidate(t).total_usd) \in Int
           /\ (T!Candidate(t).total_usd = None) <=> T!Known(T!Buyers(t)) = {}
<1> DEFINE all == T!WalletsOf(T!Buyers(t))
           dex == T!WalletsOf({b \in T!Buyers(t) : b.via = "dex"})
           known == T!Known(T!Buyers(t))
<1>1. /\ T!Candidate(t).token_address = t
      /\ T!Candidate(t).wallet_count = Cardinality(all)
      /\ T!Candidate(t).dex_wallet_count = Cardinality(dex)
      /\ T!Candidate(t).total_usd = IF known = {} THEN None ELSE Spent(known)
  BY CandidateIs, TradeCards
<1>2. dex \subseteq all /\ all \subseteq Watched
  BY WalletsBought DEF T!WalletsOf
<1>3. Spent(known) \in Int
  BY KnownBuys, SpentIsNumber
<1> HIDE DEF all, dex, known
<1>4. /\ Cardinality(all) \in Nat /\ Cardinality(all) <= Cardinality(Watched)
      /\ Cardinality(dex) \in Nat /\ Cardinality(dex) <= Cardinality(all)
      /\ Cardinality(Watched) \in Nat
  <2>1. /\ IsFiniteSet(all) /\ Cardinality(all) \in Nat
        /\ Cardinality(all) <= Cardinality(Watched) /\ Cardinality(Watched) \in Nat
    BY <1>2, TradeBounds, SmallerSet
  <2>2. Cardinality(dex) \in Nat /\ Cardinality(dex) <= Cardinality(all)
    BY <1>2, <2>1, SmallerSet
  <2> QED BY <2>1, <2>2
<1>5. (T!Candidate(t).total_usd = None) <=> known = {}
  BY <1>1, <1>3, TradeBounds
<1>6. T!OrZero(T!Candidate(t).total_usd) \in Int
  BY <1>1, <1>3, <1>5 DEF T!OrZero
<1>7. /\ T!Candidate(t).wallet_count \in 0 .. Cardinality(Watched)
      /\ T!Candidate(t).dex_wallet_count \in 0 .. T!Candidate(t).wallet_count
  BY <1>1, <1>4
<1> QED BY <1>1, <1>5, <1>6, <1>7 DEF all, dex, known

\* Not being behind is a total and transitive order of the candidates.
LEMMA AheadIsOrder ==
    ASSUME TradeRows, NEW X, \A c \in X : \E t : c = T!Candidate(t)
    PROVE  /\ \A c, d \in X : ~T!Ahead(d, c) \/ ~T!Ahead(c, d)
           /\ \A c, d, e \in X : ~T!Ahead(d, c) /\ ~T!Ahead(e, d) => ~T!Ahead(e, c)
<1>1. \A c \in X : c.wallet_count \in Int /\ T!OrZero(c.total_usd) \in Int
  <2>1. ASSUME NEW c \in X
        PROVE  c.wallet_count \in Int /\ T!OrZero(c.total_usd) \in Int
    <3>1. PICK t : c = T!Candidate(t)
      OBVIOUS
    <3>2. Cardinality(Watched) \in Nat
      BY TradeBounds, FS_CardinalityType
    <3>3. /\ T!Candidate(t).wallet_count \in 0 .. Cardinality(Watched)
          /\ T!OrZero(T!Candidate(t).total_usd) \in Int
      BY CandidateFields
    <3>4. T!Candidate(t).wallet_count \in Int
      BY <3>2, <3>3
    <3> QED BY <3>1, <3>3, <3>4
  <2> QED BY <2>1
<1>2. ASSUME NEW c \in X, NEW d \in X
      PROVE  ~T!Ahead(d, c) \/ ~T!Ahead(c, d)
  BY <1>1 DEF T!Ahead
<1>3. ASSUME NEW c \in X, NEW d \in X, NEW e \in X,
             ~T!Ahead(d, c), ~T!Ahead(e, d)
      PROVE  ~T!Ahead(e, c)
  BY <1>1, <1>3 DEF T!Ahead
<1> QED BY <1>2, <1>3

\* The candidates are those of the tokens found, each once.
LEMMA CandidatesAreFound ==
    ASSUME TradeRows
    PROVE  /\ DOMAIN T!Candidates = 1 .. Cardinality(T!Found)
           /\ \A i \in DOMAIN T!Candidates : \E t \in T!Found :
                 T!Candidates[i] = T!Candidate(t)
           /\ \A t \in T!Found : \E i \in DOMAIN T!Candidates :
                 T!Candidates[i] = T!Candidate(t)
<1> DEFINE X == {T!Candidate(t) : t \in T!Found}
           R == {cd \in X \X X : ~T!Ahead(cd[2], cd[1])}
           f == [t \in T!Found |-> T!Candidate(t)]
           Good(s) == \A i, j \in DOMAIN s : i < j => ~T!Ahead(s[j], s[i])
<1>1. IsFiniteSet(T!Found)
  BY TradeBounds, FS_Subset DEF T!Found
<1>2. f \in Bijection(T!Found, X)
  <2>1. \A t : T!Candidate(t).token_address = t
    BY CandidateFields
  <2>2. \A t, u \in T!Found : f[t] = f[u] => t = u
    BY <2>1
  <2>3. f \in [T!Found -> X] /\ \A x \in X : \E t \in T!Found : f[t] = x
    OBVIOUS
  <2> HIDE DEF f, X
  <2> QED BY <2>2, <2>3 DEF Bijection, Injection, Surjection, IsInjective
<1>3. IsFiniteSet(X) /\ Cardinality(X) = Cardinality(T!Found)
  <2> HIDE DEF f, X
  <2>1. ExistsBijection(T!Found, X)
    BY <1>2 DEF ExistsBijection
  <2> QED BY <1>1, <2>1, FS_Bijection
<1>4. /\ \A a, b \in X : <<a, b>> \in R \/ <<b, a>> \in R
      /\ \A a, b, c \in X : <<a, b>> \in R /\ <<b, c>> \in R => <<a, c>> \in R
  <2>1. \A c \in X : \E t : c = T!Candidate(t)
    OBVIOUS
  <2> HIDE DEF X
  <2> QED BY <2>1, AheadIsOrder
<1> HIDE DEF R, X, f
<1>5. PICK s \in Arranged(X, R) : TRUE
  BY <1>3, <1>4, ArrangedExist
<1>6. s \in T!SetToSeqs(X) /\ Good(s)
  <2>1. /\ s \in [1 .. Cardinality(X) -> X] /\ Cardinality(X) \in Nat
        /\ \A i, j \in 1 .. Cardinality(X) :
              i < j => s[i] # s[j] /\ <<s[i], s[j]>> \in R
    BY <1>3, <1>5, FS_CardinalityType DEF Arranged
  <2>2. Good(s)
    BY <2>1 DEF R
  <2>3. \A i, j \in 1 .. Cardinality(X) : i # j => s[i] # s[j]
    <3>1. ASSUME NEW i \in 1 .. Cardinality(X), NEW j \in 1 .. Cardinality(X),
                 i # j
          PROVE  s[i] # s[j]
      <4>1. i < j \/ j < i
        BY <2>1, <3>1
      <4> QED BY <2>1, <4>1
    <3> QED BY <3>1
  <2> HIDE DEF Good
  <2> QED BY <2>1, <2>2, <2>3, TradeCards DEF T!SetToSeqs
<1>7. T!Candidates = CHOOSE z \in T!SetToSeqs(X) : Good(z)
  BY DEF T!Candidates, X
<1> HIDE DEF Good
<1>8. T!Candidates \in T!SetToSeqs(X)
  BY <1>6, <1>7
<1>9. T!Candidates \in Arranged(X, X \X X)
  <2>1. /\ T!Candidates \in [1 .. Cardinality(X) -> X]
        /\ \A i, j \in 1 .. Cardinality(X) :
              i # j => T!Candidates[i] # T!Candidates[j]
    BY <1>8, TradeCards DEF T!SetToSeqs
  <2>2. Cardinality(X) \in Nat
    BY <1>3, FS_CardinalityType
  <2> QED BY <2>1, <2>2 DEF Arranged
<1>10. /\ T!Candidates \in [1 .. Cardinality(X) -> X]
       /\ \A x \in X : \E i \in 1 .. Cardinality(X) : T!Candidates[i] = x
  <2>1. T!Candidates \in [1 .. Cardinality(X) -> X]
    BY <1>9 DEF Arranged
  <2> DEFINE any == X \X X
  <2>2. T!Candidates \in Arranged(X, any)
    BY <1>9
  <2> HIDE DEF any
  <2>3. \A x \in X : \E i \in 1 .. Cardinality(X) : T!Candidates[i] = x
    BY <1>3, <2>2, ArrangedCovers
  <2> QED BY <2>1, <2>3
<1>11. DOMAIN T!Candidates = 1 .. Cardinality(T!Found)
  BY <1>3, <1>10
<1>12. \A i \in DOMAIN T!Candidates : T!Candidates[i] \in X
  BY <1>10
<1> QED BY <1>3, <1>10, <1>11, <1>12 DEF X

\* The properties of the analysis.
LEMMA TradeProperties ==
    ASSUME TradeRows
    PROVE  T!CandidatesAreExact /\ T!TypeOK
<1> DEFINE size == Cardinality(Watched)
<1>1. \A t : /\ T!Candidate(t).token_address = t
             /\ T!Candidate(t).wallet_count = Cardinality(T!WalletsOf(T!Buyers(t)))
  BY CandidateFields
<1>2. {T!Candidates[i].token_address : i \in DOMAIN T!Candidates} = T!Found
  BY <1>1, CandidatesAreFound
<1>3. \A t : Cardinality(T!WalletsOf(T!Buyers(t))) \in Nat
  <2>1. ASSUME NEW t
        PROVE  Cardinality(T!WalletsOf(T!Buyers(t))) \in Nat
    BY WalletsBought, TradeBounds, SmallerSet
  <2> QED BY <2>1
<1>4. T!Found = {t \in Tokens \ Ignored :
            /\ T!Cardinality({w \in Watched : T!Bought(w, t)}) >= 2
            /\ T!Cardinality({w \in Watched : T!Bought(w, t)}) >= MinWallets
            /\ 100 * T!Cardinality({w \in Watched : T!Bought(w, t)})
                  >= min_wallets_pct * T!Cardinality(Watched)}
  <2>1. ASSUME NEW t \in Tokens
        PROVE  t \in T!Found <=>
            /\ t \notin Ignored
            /\ T!Cardinality({w \in Watched : T!Bought(w, t)}) >= 2
            /\ T!Cardinality({w \in Watched : T!Bought(w, t)}) >= MinWallets
            /\ 100 * T!Cardinality({w \in Watched : T!Bought(w, t)})
                  >= min_wallets_pct * T!Cardinality(Watched)
    <3>1. PICK n \in Nat : n = Cardinality(T!WalletsOf(T!Buyers(t)))
      BY <1>3
    <3>2. t \in T!Found <=> n >= T!Required
      BY <3>1, TradeCards DEF T!Found
    <3>3. CASE t \in Ignored
      <4>1. n = 0
        BY <3>1, <3>3, WalletsBought, FS_EmptySet
      <4> QED BY <3>2, <3>3, <4>1, RequiredIsLeast
    <3>4. CASE t \notin Ignored
      <4>1. T!Cardinality({w \in Watched : T!Bought(w, t)}) = n
        BY <3>1, <3>4, WalletsBought, TradeCards
      <4>2. n >= T!Required <=> /\ n >= 2 /\ n >= MinWallets
                /\ 100 * n >= min_wallets_pct * Cardinality(Watched)
        BY RequiredIsLeast
      <4>3. T!Cardinality(Watched) = Cardinality(Watched)
        BY TradeCards
      <4> QED BY <3>2, <3>4, <4>1, <4>2, <4>3
    <3> QED BY <3>3, <3>4
  <2> QED BY <2>1 DEF T!Found
<1>5. T!CandidatesAreExact
  BY <1>2, <1>4 DEF T!CandidatesAreExact
<1>6. ASSUME NEW i \in DOMAIN T!Candidates
      PROVE  LET c == T!Candidates[i] IN
             /\ c.wallet_count \in T!Required .. T!Cardinality(Watched)
             /\ c.dex_wallet_count \in 0 .. c.wallet_count
             /\ (c.total_usd = None) => c.dex_wallet_count < c.wallet_count
                                        \/ \E r \in trades : r.amount_usd = None
  <2>1. PICK t \in T!Found : T!Candidates[i] = T!Candidate(t)
    BY CandidatesAreFound
  <2> DEFINE c == T!Candidate(t)
             dex == T!WalletsOf({b \in T!Buyers(t) : b.via = "dex"})
  <2>2. /\ c.wallet_count = Cardinality(T!WalletsOf(T!Buyers(t)))
        /\ c.wallet_count \in 0 .. size
        /\ c.dex_wallet_count = Cardinality(dex)
        /\ c.dex_wallet_count \in 0 .. c.wallet_count
        /\ (c.total_usd = None) <=> T!Known(T!Buyers(t)) = {}
    BY CandidateFields
  <2>3. size \in Nat /\ T!Cardinality(Watched) = size
    BY TradeBounds, FS_CardinalityType, TradeCards
  <2>4. T!Required \in Nat /\ T!Required >= 2
    BY RequiredIsLeast
  <2>5. c.wallet_count >= T!Required
    BY <2>2, TradeCards DEF T!Found
  <2>6. ASSUME c.total_usd = None, \A r \in trades : r.amount_usd # None
        PROVE  c.dex_wallet_count < c.wallet_count
    <3>1. \A b \in T!DexBuys : b.amount_usd # None
      BY <2>6, BuysOfRows, BuyFields
    <3>2. \A b \in T!PositionBuys : b.via = "balance"
      BY DEF T!PositionBuys, T!Buy
    <3>3. {b \in T!Buyers(t) : b.via = "dex"} = {}
      BY <2>2, <2>6, <3>1, <3>2 DEF T!Known, T!Buyers, T!Merged
    <3>4. dex = {}
      BY <3>3 DEF T!WalletsOf
    <3>5. Cardinality(dex) = 0
      BY <3>4, FS_EmptySet
    <3> HIDE DEF c, dex, size
    <3> QED BY <2>2, <2>3, <2>4, <2>5, <3>5
  <2> HIDE DEF c, size, dex
  <2>7. c.wallet_count \in T!Required .. T!Cardinality(Watched)
    BY <2>2, <2>3, <2>4, <2>5
  <2>8. T!Candidates[i] = c
    BY <2>1 DEF c
  <2> QED BY <2>2, <2>6, <2>7, <2>8
<1>7. T!TypeOK
  BY <1>6 DEF T!TypeOK, TradeRows
<1> QED BY <1>5, <1>7

-----------------------------------------------------------------------------
(* The holders request. *)

\* it adds up the rises g of b, which are on the days R.
AddsUp(n, b, R, g, it) ==
    /\ n \in Nat /\ b \in [0 .. n -> Nat]
    /\ \A d : d \in R <=> d \in 1 .. n /\ b[d] > b[d - 1]
    /\ g \in [R -> Int] /\ \A d \in R : g[d] = b[d] - b[d - 1]
    /\ it \in [SUBSET R -> Int] /\ it[{}] = 0
    /\ \A s \in SUBSET R : \A x \in s : it[s] = g[x] + it[s \ {x}]
    /\ \A s \in SUBSET R : it[s] <= it[R]

\* The rises of b between two days add up to the difference at least.
LEMMA RisesCoverDifference ==
    ASSUME NEW n, NEW b, NEW R, NEW g, NEW it, AddsUp(n, b, R, g, it)
    PROVE  \A d, e \in 0 .. n : d < e => it[R] >= b[e] - b[d]
<1>0. /\ n \in Nat /\ b \in [0 .. n -> Nat] /\ it[{}] = 0
      /\ \A d \in R : d \in 1 .. n /\ g[d] = b[d] - b[d - 1]
      /\ \A d \in 1 .. n : b[d] > b[d - 1] => d \in R
      /\ \A s \in SUBSET R : \A x \in s : it[s] = g[x] + it[s \ {x}]
  BY DEF AddsUp
<1>1. \A d \in R : d \in Nat
  BY <1>0
<1>2. \A s \in SUBSET R : it[s] <= it[R] /\ it[s] \in Int
  BY DEF AddsUp
<1>3. it[R] \in Int
  BY DEF AddsUp
<1>4. ASSUME NEW d \in 0 .. n
      PROVE  \A e \in 0 .. n : d < e => it[R] >= b[e] - b[d]
  <2> DEFINE Between(e) == {k \in R : d < k /\ k <= e}
             Bad == {e \in Nat : d <= e /\ e <= n /\ ~(it[Between(e)] >= b[e] - b[d])}
  <2>1. ASSUME Bad # {} PROVE FALSE
    <3> HIDE DEF Bad
    <3>1. PICK e \in Bad : \A k \in Bad : e <= k
      <4>1. Bad \in SUBSET Nat
        BY DEF Bad
      <4> QED BY <2>1, <4>1, LeastExists
    <3>2. /\ e \in Nat /\ d <= e /\ e <= n /\ d \in Nat
          /\ ~(it[Between(e)] >= b[e] - b[d])
      BY <1>0, <1>4 DEF Bad
    <3>3. CASE d = e
      <4>1. Between(e) = {}
        BY <3>2, <3>3, <1>1
      <4>2. b[d] \in Nat
        BY <1>0, <1>4
      <4> HIDE DEF Between
      <4> QED BY <1>0, <3>2, <3>3, <4>1, <4>2
    <3>4. CASE d < e
      <4>1. e - 1 \in Nat /\ d <= e - 1 /\ e - 1 <= n /\ e - 1 \notin Bad
        BY <1>0, <3>1, <3>2, <3>4
      <4>2. it[Between(e - 1)] >= b[e - 1] - b[d]
        BY <4>1 DEF Bad
      <4>3. b[e] \in Nat /\ b[e - 1] \in Nat /\ b[d] \in Nat /\ e \in 1 .. n
        BY <1>0, <3>2, <4>1
      <4>4. Between(e) \in SUBSET R /\ Between(e - 1) \in SUBSET R
        OBVIOUS
      <4>5. it[Between(e)] \in Int /\ it[Between(e - 1)] \in Int
        BY <1>2, <4>4
      <4>6. CASE e \in R
        <5>1. e \in Between(e)
          BY <3>2, <3>4, <4>6
        <5>2. Between(e) \ {e} = Between(e - 1)
          BY <3>2, <1>1
        <5> HIDE DEF Between
        <5>3. g[e] = b[e] - b[e - 1]
          BY <1>0, <4>6
        <5>4. it[Between(e)] = g[e] + it[Between(e - 1)]
          BY <1>0, <4>4, <5>1, <5>2
        <5> QED BY <3>2, <4>2, <4>3, <4>5, <5>3, <5>4
      <4>7. CASE e \notin R
        <5>1. Between(e) = Between(e - 1)
          <6>1. \A k \in R : k <= e <=> k <= e - 1
            BY <3>2, <1>1, <4>7
          <6> QED BY <6>1
        <5>2. ~(b[e] > b[e - 1])
          BY <1>0, <4>3, <4>7
        <5>3. b[e] <= b[e - 1]
          BY <4>3, <5>2
        <5> HIDE DEF Between
        <5> QED BY <3>2, <4>2, <4>3, <4>5, <5>1, <5>3
      <4> QED BY <4>6, <4>7
    <3> QED BY <3>2, <3>3, <3>4
  <2>2. ASSUME NEW e \in 0 .. n, d < e
        PROVE  it[R] >= b[e] - b[d]
    <3>1. e \in Nat /\ d <= e /\ e <= n /\ b[e] \in Nat /\ b[d] \in Nat
      BY <1>0, <1>4, <2>2
    <3>2. it[Between(e)] >= b[e] - b[d]
      BY <2>1, <3>1
    <3>3. Between(e) \in SUBSET R
      OBVIOUS
    <3> HIDE DEF Between
    <3>4. it[Between(e)] <= it[R] /\ it[Between(e)] \in Int
      BY <1>2, <3>3
    <3> QED BY <1>3, <3>1, <3>2, <3>4
  <2> QED BY <2>2
<1> QED BY <1>4

LEMMA HolderBounds ==
    MaxBalance \in Nat \ {0} /\ LastDay \in Nat \ {0}
BY PartsAssumption DEF H!HoldersAssumption

\* The rows are those of the days asked for, a wallet's day twice at most, and
\* then the second time with less.
HolderRows ==
    /\ truth \in [Owners -> [H!Days -> 0 .. MaxBalance]]
    /\ today \in H!Days \ {0}
    /\ req \in [min : 0 .. MaxBalance, mode : H!Modes, filter : H!Filters,
                end : H!Days \ {0}]
    /\ stage \in {"asked", "querying", "answered"}
    /\ stage = "asked" => upto = None
    /\ stage # "asked" => upto \in 1 .. H!EffectiveEnd
    /\ stage # "answered" => balances = {}
    /\ stage = "answered" =>
          /\ H!Source(upto) \subseteq balances /\ balances \subseteq H!Snapshot
          /\ \A s \in balances : \E q \in H!Source(upto) :
                q.wallet = s.wallet /\ q.day = s.day /\ s.balance <= q.balance

\* The end of the range is a day, and never moves back.
LEMMA EndIsDay ==
    ASSUME today \in H!Days \ {0}, req.end \in H!Days \ {0}
    PROVE  /\ H!EffectiveEnd \in 1 .. LastDay
           /\ H!EffectiveEnd <= today /\ H!EffectiveEnd <= req.end
           /\ \A d \in Int : d <= today /\ d <= req.end => d <= H!EffectiveEnd
BY HolderBounds DEF H!EffectiveEnd, H!EarlierOf, H!Days

LEMMA HolderInit == H!Init => HolderRows
<1>1. {0, 1} \subseteq 0 .. MaxBalance
  BY HolderBounds
<1> QED BY <1>1 DEF H!Init, HolderRows

LEMMA HolderAsk ==
    ASSUME HolderRows, H!Ask
    PROVE  HolderRows'
<1>1. H!EffectiveEnd \in 1 .. LastDay
  BY EndIsDay DEF HolderRows
<1>2. H!EffectiveEnd' = H!EffectiveEnd
  BY DEF H!Ask, H!EffectiveEnd, H!EarlierOf
<1>3. upto' \in 1 .. H!EffectiveEnd'
  BY <1>1, <1>2 DEF H!Ask
<1> QED BY <1>3 DEF H!Ask, HolderRows

LEMMA HolderAnswer ==
    ASSUME HolderRows, H!Answer
    PROVE  HolderRows'
<1>1. H!EffectiveEnd' = H!EffectiveEnd /\ H!Source(upto)' = H!Source(upto)
  BY DEF H!Answer, H!EffectiveEnd, H!EarlierOf, H!Source, H!Snapshot, H!Days
<1>2. H!Source(upto) \subseteq H!Snapshot
  BY DEF H!Source
<1>3. \A s \in H!Snapshot : s.balance \in Int
  BY HolderBounds DEF H!Snapshot
<1>4. CASE balances' = H!Source(upto)
  <2>1. \A s \in balances' : \E q \in H!Source(upto)' :
           q.wallet = s.wallet /\ q.day = s.day /\ s.balance <= q.balance
    BY <1>1, <1>2, <1>3, <1>4
  <2> QED BY <1>1, <1>2, <1>4, <2>1 DEF H!Answer, HolderRows
<1>5. ASSUME NEW s \in H!Source(upto), NEW b \in 1 .. s.balance - 1,
             balances' = H!Source(upto) \cup {[s EXCEPT !.balance = b]}
      PROVE  HolderRows'
  <2> DEFINE less == [s EXCEPT !.balance = b]
  <2>1. /\ s \in [wallet : Owners, day : H!Days, balance : 1 .. MaxBalance]
        /\ s.balance \in Int /\ s.balance <= MaxBalance
    BY <1>2, HolderBounds DEF H!Snapshot
  <2>2. b \in 1 .. MaxBalance /\ b <= s.balance
    BY <2>1, HolderBounds
  <2>3. /\ less \in H!Snapshot
        /\ less.wallet = s.wallet /\ less.day = s.day /\ less.balance = b
    BY <2>1, <2>2 DEF H!Snapshot
  <2>4. balances' = H!Source(upto) \cup {less}
    BY <1>5
  <2> HIDE DEF less
  <2>5. ASSUME NEW z \in balances'
        PROVE  \E q \in H!Source(upto)' :
                  q.wallet = z.wallet /\ q.day = z.day /\ z.balance <= q.balance
    <3>1. CASE z \in H!Source(upto)
      <4>1. z.balance <= z.balance
        BY <1>2, <1>3, <3>1
      <4> QED BY <1>1, <3>1, <4>1
    <3>2. CASE z = less
      BY <1>1, <2>2, <2>3, <3>2
    <3> QED BY <2>4, <2>5, <3>1, <3>2
  <2>6. balances' \subseteq H!Snapshot
    BY <1>2, <2>3, <2>4
  <2> QED BY <1>1, <2>4, <2>5, <2>6 DEF H!Answer, HolderRows
<1> QED BY <1>4, <1>5 DEF H!Answer

LEMMA HolderMidnight ==
    ASSUME HolderRows, H!Midnight
    PROVE  HolderRows'
<1>1. today \in Int /\ today' = today + 1 /\ today' \in H!Days \ {0}
  BY HolderBounds DEF HolderRows, H!Midnight, H!Days
<1>2. req' = req /\ req.end \in H!Days \ {0} /\ H!Days' = H!Days
  BY DEF HolderRows, H!Midnight, H!Days
<1>3. H!EffectiveEnd <= H!EffectiveEnd'
  BY <1>1, <1>2, HolderBounds DEF H!EffectiveEnd, H!EarlierOf, H!Days
<1>4. H!EffectiveEnd \in 1 .. LastDay
  BY EndIsDay DEF HolderRows
<1>5. H!EffectiveEnd' \in Int
  BY <1>1, <1>2, HolderBounds DEF H!EffectiveEnd, H!EarlierOf, H!Days
<1>6. stage # "asked" => upto \in 1 .. H!EffectiveEnd'
  BY <1>3, <1>4, <1>5, HolderBounds DEF HolderRows
<1> QED BY <1>1, <1>2, <1>6 DEF HolderRows, H!Midnight

LEMMA HolderNext ==
    ASSUME HolderRows, [H!Next]_H!vars
    PROVE  HolderRows'
<1>1. CASE UNCHANGED H!vars
  BY <1>1 DEF H!vars, HolderRows, H!EffectiveEnd, H!EarlierOf, H!Source,
       H!Snapshot, H!Days
<1> QED BY <1>1, HolderAsk, HolderAnswer, HolderMidnight DEF H!Next

\* The types an answer relies on.
LEMMA Answered ==
    ASSUME HolderRows, stage = "answered"
    PROVE  /\ H!EffectiveEnd \in 1 .. LastDay /\ upto \in 1 .. H!EffectiveEnd
           /\ upto \in Nat /\ H!EffectiveEnd \in Nat
           /\ 0 .. upto \subseteq H!Days /\ 0 .. H!EffectiveEnd \subseteq H!Days
           /\ req.min \in 0 .. MaxBalance /\ req.min \in Nat
           /\ \A w \in Owners : \A d \in H!Days : truth[w][d] \in 0 .. MaxBalance
<1>1. H!EffectiveEnd \in 1 .. LastDay
  BY EndIsDay DEF HolderRows
<1>2. upto \in 1 .. H!EffectiveEnd
  BY DEF HolderRows
<1>3. req.min \in 0 .. MaxBalance
  BY DEF HolderRows
<1>4. \A w \in Owners : \A d \in H!Days : truth[w][d] \in 0 .. MaxBalance
  BY DEF HolderRows
<1>5. req.min \in Nat
  BY <1>3, HolderBounds
<1>6. /\ upto \in Nat /\ H!EffectiveEnd \in Nat
      /\ 0 .. upto \subseteq H!Days /\ 0 .. H!EffectiveEnd \subseteq H!Days
  BY <1>1, <1>2, HolderBounds DEF H!Days
<1> QED BY <1>1, <1>2, <1>3, <1>4, <1>5, <1>6

LEMMA HeldIs ==
    ASSUME HolderRows, stage = "answered", NEW w \in Owners, NEW d \in H!Days
    PROVE  /\ H!Held(w, d) \in Nat
           /\ H!Held(w, d) > 0 <=> truth[w][d] > req.min
           /\ truth[w][d] > req.min => H!Held(w, d) = truth[w][d]
           /\ ~(truth[w][d] > req.min) => H!Held(w, d) = 0
<1>1. truth[w][d] \in 0 .. MaxBalance /\ req.min \in Nat
  BY Answered
<1>2. truth[w][d] \in Nat
  BY <1>1, HolderBounds
<1> QED BY <1>1, <1>2 DEF H!Held

\* A row that survives the parser is of a day the wallet held on.
LEMMA ParsedRows ==
    ASSUME HolderRows, stage = "answered", NEW s \in H!Parsed
    PROVE  /\ s \in H!Snapshot /\ s.wallet \in Owners /\ s.day \in 0 .. upto
           /\ s.balance \in Nat /\ s.balance > req.min
           /\ s.balance <= truth[s.wallet][s.day]
           /\ truth[s.wallet][s.day] > req.min
<1>1. s \in balances /\ s.balance > req.min /\ s.day \in 0 .. H!EffectiveEnd
  BY DEF H!Parsed
<1>2. s \in H!Snapshot
  BY <1>1 DEF HolderRows
<1>3. PICK q \in H!Source(upto) :
         q.wallet = s.wallet /\ q.day = s.day /\ s.balance <= q.balance
  BY <1>1 DEF HolderRows
<1>4. /\ q \in H!Snapshot /\ q.day <= upto /\ q.balance = truth[q.wallet][q.day]
      /\ q.balance > req.min
  BY DEF H!Source
<1>5. s.wallet \in Owners /\ s.balance \in Nat
  BY <1>2, HolderBounds DEF H!Snapshot
<1>6. s.day \in 0 .. upto
  BY <1>1, <1>3, <1>4, Answered
<1> QED BY <1>1, <1>2, <1>3, <1>4, <1>5, <1>6

\* Every day the wallet held on has its row.
LEMMA HeldIsParsed ==
    ASSUME HolderRows, stage = "answered", NEW w \in Owners, NEW d \in 0 .. upto,
           truth[w][d] > req.min
    PROVE  [wallet |-> w, day |-> d, balance |-> truth[w][d]] \in H!Parsed
<1> DEFINE s == [wallet |-> w, day |-> d, balance |-> truth[w][d]]
<1>1. d \in H!Days /\ d <= upto /\ d \in 0 .. H!EffectiveEnd
  BY Answered
<1>2. truth[w][d] \in 1 .. MaxBalance
  BY <1>1, Answered
<1>3. s \in H!Source(upto)
  BY <1>1, <1>2 DEF H!Source, H!Snapshot
<1>4. s \in balances
  BY <1>3 DEF HolderRows
<1> QED BY <1>1, <1>4 DEF H!Parsed

\* The largest of a set of integers.
LEMMA MaxIs ==
    ASSUME NEW X \in SUBSET Int, NEW m \in X, \A y \in X : m >= y
    PROVE  H!Max(X) = m
<1>1. H!Max(X) \in X /\ \A y \in X : H!Max(X) >= y
  BY DEF H!Max
<1>2. PICK k \in Int : k = H!Max(X)
  BY <1>1
<1>3. k >= m /\ m >= k /\ m \in Int
  BY <1>1, <1>2
<1> QED BY <1>2, <1>3

\* The analysis sees what was held, and nothing on the days not asked for.
LEMMA BalanceIsHeld ==
    ASSUME HolderRows, stage = "answered", NEW w \in Owners,
           NEW d \in 0 .. H!EffectiveEnd
    PROVE  H!Balance(w, d) = IF d <= upto THEN H!Held(w, d) ELSE 0
<1> DEFINE X == {0} \cup {s.balance : s \in {s \in H!Parsed : s.wallet = w /\ s.day = d}}
<1>1. H!Balance(w, d) = H!Max(X)
  BY DEF H!Balance
<1>2. d \in H!Days /\ d \in Nat
  BY Answered
<1>3. \A x \in X : x = 0 \/ \E s \in H!Parsed :
         x = s.balance /\ s.wallet = w /\ s.day = d
  OBVIOUS
<1>4. \A s \in H!Parsed : s.wallet = w /\ s.day = d => s.balance \in X
  OBVIOUS
<1>5. 0 \in X
  OBVIOUS
<1> HIDE DEF X
<1>6. X \in SUBSET Int
  BY <1>3, ParsedRows
<1>7. CASE d <= upto /\ truth[w][d] > req.min
  <2>1. truth[w][d] \in X
    <3>1. d \in 0 .. upto
      BY <1>2, <1>7, Answered
    <3> QED BY <1>4, <1>7, <3>1, HeldIsParsed
  <2>2. truth[w][d] \in Nat
    BY <1>2, Answered, HolderBounds
  <2>3. \A x \in X : truth[w][d] >= x
    BY <1>3, <2>2, ParsedRows
  <2>4. H!Max(X) = truth[w][d]
    BY <1>6, <2>1, <2>3, MaxIs
  <2> QED BY <1>1, <1>2, <1>7, <2>4, HeldIs
<1>8. CASE ~(d <= upto /\ truth[w][d] > req.min)
  <2>1. \A x \in X : x = 0
    <3>1. ASSUME NEW s \in H!Parsed, s.wallet = w, s.day = d
          PROVE  FALSE
      <4>1. s.day \in 0 .. upto /\ truth[s.wallet][s.day] > req.min
        BY ParsedRows
      <4> QED BY <1>8, <3>1, <4>1, Answered
    <3> QED BY <1>3, <3>1
  <2>2. H!Max(X) = 0
    BY <1>5, <1>6, <2>1, MaxIs
  <2> QED BY <1>1, <1>2, <1>8, <2>2, HeldIs
<1> QED BY <1>7, <1>8

Gain(w, d) == H!Balance(w, d) - H!Balance(w, d - 1)

\* MapThenSumSet of the differences, its fold written out.
Gained(w, X) ==
    (CHOOSE iter : iter =
        [s \in SUBSET X |->
            IF s = {} THEN 0
            ELSE Gain(w, CHOOSE x \in s : TRUE)
                    + iter[s \ {CHOOSE x \in s : TRUE}]])[X]

LEMMA BoughtIsGained ==
    ASSUME NEW w
    PROVE  H!BoughtAmount(w) = Gained(w, H!Rises(w))
BY DEF H!BoughtAmount, H!MapThenSumSet, H!MapThenFoldSet, Gained, Gain

\* What a wallet gained is a sum of its rises.
LEMMA GainedIsSum ==
    ASSUME NEW w, NEW X, IsFiniteSet(X), NEW g \in [X -> Int],
           \A d \in X : g[d] = Gain(w, d)
    PROVE  \E it \in PartialSums(SUBSET X, g) : it[X] = Gained(w, X)
<1> DEFINE Right(iter) == iter =
              [s \in SUBSET X |->
                 IF s = {} THEN 0
                 ELSE Gain(w, CHOOSE x \in s : TRUE)
                         + iter[s \ {CHOOSE x \in s : TRUE}]]
<1>1. ASSUME NEW s \in SUBSET X, s # {}
      PROVE  g[Pick(s)] = Gain(w, CHOOSE x \in s : TRUE)
  <2>1. Pick(s) \in X
    BY <1>1, PickIsMember
  <2> QED BY <2>1 DEF Pick
<1>2. PICK it \in PartialSums(SUBSET X, g) : TRUE
  BY PartialSumsExist
<1>3. Right(it)
  <2>1. \A s \in SUBSET X : it[s] =
           IF s = {} THEN 0
           ELSE Gain(w, CHOOSE x \in s : TRUE)
                   + it[s \ {CHOOSE x \in s : TRUE}]
    BY <1>1, <1>2 DEF PartialSums, Pick
  <2>2. it = [s \in SUBSET X |-> it[s]]
    BY <1>2 DEF PartialSums
  <2> QED BY <2>1, <2>2
<1>4. PICK any : any = (CHOOSE iter : Right(iter)) /\ Right(any)
  <2> HIDE DEF Right
  <2>1. Right(CHOOSE iter : Right(iter))
    BY <1>3
  <2> QED BY <2>1
<1>5. any = [s \in SUBSET X |->
                 IF s = {} THEN 0
                 ELSE Gain(w, CHOOSE x \in s : TRUE)
                         + any[s \ {CHOOSE x \in s : TRUE}]]
  BY <1>4
<1>6. any \in PartialSums(SUBSET X, g)
  <2>1. any = [s \in SUBSET X |->
                 IF s = {} THEN 0 ELSE g[Pick(s)] + any[s \ {Pick(s)}]]
    BY <1>1, <1>5, ZenonT(30) DEF Pick
  <2> QED BY <2>1, SolutionIsSum
<1> QED BY <1>4, <1>6 DEF Gained

\* The days a wallet rose on are those of the range its holdings did.
LEMMA RisesAreHeld ==
    ASSUME HolderRows, stage = "answered", NEW w \in Owners
    PROVE  \A d : d \in H!Rises(w) <=>
              d \in 1 .. upto /\ H!Held(w, d) > H!Held(w, d - 1)
<1>1. \A d \in 1 .. H!EffectiveEnd :
         H!Balance(w, d) > H!Balance(w, d - 1) <=>
             d <= upto /\ H!Held(w, d) > H!Held(w, d - 1)
  <2>1. ASSUME NEW d \in 1 .. H!EffectiveEnd
        PROVE  H!Balance(w, d) > H!Balance(w, d - 1) <=>
                  d <= upto /\ H!Held(w, d) > H!Held(w, d - 1)
    <3>1. d \in 0 .. H!EffectiveEnd /\ d - 1 \in 0 .. H!EffectiveEnd /\ d \in Nat
      BY Answered
    <3>2. d \in H!Days /\ d - 1 \in H!Days
      BY <3>1, Answered
    <3>3. H!Held(w, d) \in Nat /\ H!Held(w, d - 1) \in Nat
      BY <3>2, HeldIs
    <3>4. /\ H!Balance(w, d) = IF d <= upto THEN H!Held(w, d) ELSE 0
          /\ H!Balance(w, d - 1) = IF d - 1 <= upto THEN H!Held(w, d - 1) ELSE 0
      BY <3>1, BalanceIsHeld
    <3>5. upto \in Nat
      BY Answered
    <3> QED BY <3>1, <3>3, <3>4, <3>5
  <2> QED BY <2>1
<1>2. \A d : d \in 1 .. H!EffectiveEnd /\ d <= upto <=> d \in 1 .. upto
  BY Answered
<1> QED BY <1>1, <1>2 DEF H!Rises, H!DaysCovered

\* What a wallet bought covers any rise from one day to a later one, and is
\* nothing if its holdings never rose.
LEMMA BoughtCoversRise ==
    ASSUME HolderRows, stage = "answered", NEW w \in Owners
    PROVE  /\ H!BoughtAmount(w) \in Nat
           /\ \A d, e \in 0 .. upto :
                 d < e => H!BoughtAmount(w) >= H!Held(w, e) - H!Held(w, d)
           /\ H!BoughtAmount(w) > 0 <=> H!Rose(w)
<1> DEFINE R == H!Rises(w)
           b == [d \in 0 .. upto |-> H!Held(w, d)]
           g == [d \in R |-> Gain(w, d)]
<1>0. upto \in Nat /\ H!EffectiveEnd \in Nat /\ upto <= H!EffectiveEnd
  BY Answered
<1>1. \A d \in 0 .. upto : H!Held(w, d) \in Nat /\ H!Balance(w, d) = H!Held(w, d)
  <2>1. ASSUME NEW d \in 0 .. upto
        PROVE  H!Held(w, d) \in Nat /\ H!Balance(w, d) = H!Held(w, d)
    <3>1. d \in H!Days /\ d \in 0 .. H!EffectiveEnd /\ d <= upto
      BY <1>0, Answered
    <3> QED BY <3>1, HeldIs, BalanceIsHeld
  <2> QED BY <2>1
<1>2. b \in [0 .. upto -> Nat]
  BY <1>1
<1>3. \A d : d \in R <=> d \in 1 .. upto /\ b[d] > b[d - 1]
  <2>1. \A d \in 1 .. upto : b[d] = H!Held(w, d) /\ b[d - 1] = H!Held(w, d - 1)
    BY <1>0
  <2> HIDE DEF b
  <2> QED BY <2>1, RisesAreHeld
<1>4. \A d \in R : /\ g[d] = Gain(w, d)
                   /\ g[d] = b[d] - b[d - 1] /\ g[d] \in Nat
  <2>1. ASSUME NEW d \in R
        PROVE  g[d] = b[d] - b[d - 1] /\ g[d] \in Nat
    <3>1. d \in 1 .. upto /\ b[d] > b[d - 1]
      BY <1>3
    <3>2. d \in 0 .. upto /\ d - 1 \in 0 .. upto
      BY <1>0, <3>1
    <3>3. g[d] = b[d] - b[d - 1]
      BY <1>1, <3>2 DEF Gain
    <3> HIDE DEF g, b, R
    <3>4. b[d] \in Nat /\ b[d - 1] \in Nat
      BY <1>2, <3>2
    <3> QED BY <3>1, <3>3, <3>4
  <2> QED BY <2>1
<1>5. DOMAIN g = R /\ g = [d \in R |-> g[d]]
  OBVIOUS
<1> HIDE DEF g, b
<1>6. g \in [R -> Nat] /\ g \in [R -> Int]
  BY <1>4, <1>5
<1>7. IsFiniteSet(R)
  <2>1. IsFiniteSet(1 .. upto)
    BY FS_Interval, <1>0
  <2>2. R \subseteq 1 .. upto
    BY <1>3
  <2> HIDE DEF R
  <2> QED BY <2>1, <2>2, FS_Subset
<1>8. H!BoughtAmount(w) = Gained(w, R)
  BY BoughtIsGained
<1> HIDE DEF R
<1>9. PICK it \in PartialSums(SUBSET R, g) : it[R] = H!BoughtAmount(w)
  BY <1>4, <1>6, <1>7, <1>8, GainedIsSum
<1>10. it \in [SUBSET R -> Int] /\ it[{}] = 0
  BY DEF PartialSums
<1>11. \A s \in SUBSET R : \A x \in s : it[s] = g[x] + it[s \ {x}]
  <2>1. ASSUME NEW s \in SUBSET R, NEW x \in s
        PROVE  it[s] = g[x] + it[s \ {x}]
    BY <1>6, <1>7, SumRemoves
  <2> QED BY <2>1
<1>12. \A s \in SUBSET R : it[s] <= it[R]
  <2>1. ASSUME NEW s \in SUBSET R
        PROVE  it[s] <= it[R]
    BY <1>6, <1>7, SumGrows
  <2> QED BY <2>1
<1>13. \A d, e \in 0 .. upto : d < e => it[R] >= b[e] - b[d]
  <2>1. \A d \in R : g[d] = b[d] - b[d - 1]
    BY <1>4
  <2>2. it \in [SUBSET R -> Int] /\ it[{}] = 0 /\ g \in [R -> Int] /\ upto \in Nat
    BY <1>0, <1>6, <1>10
  <2>3. AddsUp(upto, b, R, g, it)
    BY <1>2, <1>3, <1>11, <1>12, <2>1, <2>2 DEF AddsUp
  <2> QED BY <2>3, RisesCoverDifference
<1>14. it[R] \in Nat
  <2>1. {} \in SUBSET R /\ R \in SUBSET R
    OBVIOUS
  <2>2. it[{}] <= it[R] /\ it[R] \in Int
    BY <1>10, <1>12, <2>1
  <2> QED BY <1>10, <2>2
<1>15. \A d \in 0 .. upto : b[d] = H!Held(w, d)
  BY DEF b
<1>16. H!Rose(w) <=> R # {}
  BY RisesAreHeld DEF H!Rose, R
<1>17. CASE R = {}
  BY <1>9, <1>10, <1>13, <1>14, <1>15, <1>16, <1>17
<1>18. CASE R # {}
  <2>1. PICK d \in R : TRUE
    BY <1>18
  <2>2. /\ d \in 0 .. upto /\ d - 1 \in 0 .. upto /\ d - 1 < d
        /\ b[d] > b[d - 1]
    BY <1>0, <1>3
  <2>3. it[R] >= b[d] - b[d - 1] /\ b[d] \in Nat /\ b[d - 1] \in Nat
    BY <1>2, <1>13, <2>2
  <2>4. it[R] > 0
    BY <1>14, <2>2, <2>3
  <2> QED BY <1>9, <1>13, <1>14, <1>15, <1>16, <1>18, <2>4
<1> QED BY <1>17, <1>18

\* The filter wants the wallet's kind.
Wanted(w) ==
    /\ (req.filter = "buyers") => H!Rose(w)
    /\ (req.filter = "holders") => ~H!Rose(w)

LEMMA FilterWants ==
    ASSUME HolderRows, stage = "answered", NEW s \in H!InRange
    PROVE  s \in H!Filtered <=> Wanted(s.wallet)
<1>1. s.wallet \in Owners
  BY ParsedRows DEF H!InRange
<1>2. /\ H!BoughtAmount(s.wallet) > 0 <=> H!Rose(s.wallet)
      /\ H!WalletType(s.wallet) =
            IF H!BoughtAmount(s.wallet) > 0 THEN "buyer" ELSE "holder"
  BY <1>1, BoughtCoversRise DEF H!WalletType
<1>3. /\ H!WalletType(s.wallet) = "buyer" <=> H!Rose(s.wallet)
      /\ H!WalletType(s.wallet) = "holder" <=> ~H!Rose(s.wallet)
  BY <1>2
<1>4. req.filter \in {"all", "buyers", "holders"}
  BY DEF HolderRows, H!Filters
<1>5. CASE req.filter = "all"
  BY <1>5 DEF H!Filtered, Wanted
<1>6. CASE req.filter = "buyers"
  BY <1>3, <1>6 DEF H!Filtered, Wanted
<1>7. CASE req.filter = "holders"
  BY <1>3, <1>7 DEF H!Filtered, Wanted
<1> QED BY <1>4, <1>5, <1>6, <1>7

\* The rows left are those of the days a wanted wallet held on.
LEMMA FilteredDays ==
    ASSUME HolderRows, stage = "answered", NEW w \in Owners
    PROVE  \A d : d \in H!DaysOf(w) <=>
              d \in 1 .. upto /\ H!Held(w, d) > 0 /\ Wanted(w)
<1>1. ASSUME NEW d \in H!DaysOf(w)
      PROVE  d \in 1 .. upto /\ H!Held(w, d) > 0 /\ Wanted(w)
  <2>1. PICK s \in H!Filtered : s.wallet = w /\ s.day = d
    BY DEF H!DaysOf
  <2>2. s \in H!InRange /\ s \in H!Parsed /\ s.day >= 1
    BY DEF H!Filtered, H!InRange
  <2>3. s.day \in 0 .. upto /\ truth[w][d] > req.min
    BY <2>1, <2>2, ParsedRows
  <2>4. d \in 1 .. upto /\ d \in H!Days
    BY <2>1, <2>2, <2>3, Answered
  <2>5. H!Held(w, d) > 0
    BY <2>3, <2>4, HeldIs
  <2>6. Wanted(w)
    BY <2>1, <2>2, FilterWants
  <2> QED BY <2>4, <2>5, <2>6
<1>2. ASSUME NEW d \in 1 .. upto, H!Held(w, d) > 0, Wanted(w)
      PROVE  d \in H!DaysOf(w)
  <2>1. d \in 0 .. upto /\ d \in H!Days /\ d >= 1
    BY Answered
  <2>2. truth[w][d] > req.min
    BY <1>2, <2>1, HeldIs
  <2>3. PICK s \in H!Parsed :
           s = [wallet |-> w, day |-> d, balance |-> truth[w][d]]
    BY <2>1, <2>2, HeldIsParsed
  <2>4. s \in H!InRange /\ s.wallet = w /\ s.day = d
    BY <2>1, <2>3 DEF H!InRange
  <2>5. s \in H!Filtered
    BY <1>2, <2>4, FilterWants
  <2> QED BY <2>4, <2>5 DEF H!DaysOf
<1> QED BY <1>1, <1>2

LEMMA ShownAreOwners ==
    ASSUME HolderRows, stage = "answered"
    PROVE  /\ H!Shown \subseteq Owners
           /\ \A w : (\E s \in H!Filtered : s.wallet = w) <=>
                 w \in Owners /\ \E d : d \in H!DaysOf(w)
<1>1. H!Snapshots \subseteq H!Filtered
  BY DEF H!Snapshots
<1>2. \A s \in H!Filtered : s.wallet \in Owners
  BY ParsedRows DEF H!Filtered, H!InRange
<1>3. \A w : (\E s \in H!Filtered : s.wallet = w) <=> \E d : d \in H!DaysOf(w)
  BY DEF H!DaysOf
<1> QED BY <1>1, <1>2, <1>3 DEF H!Shown

\* What a request that is not in continuous mode shows.
LEMMA ShownBuyers ==
    ASSUME HolderRows
    PROVE  H!BuyersRose
<1> SUFFICES ASSUME stage = "answered", req.mode # "continuous"
             PROVE  H!BuyersRose
  BY DEF H!BuyersRose
<1>1. H!Snapshots = H!Filtered
  BY DEF H!Snapshots
<1>2. \A w : w \in H!Shown <=> \E s \in H!Filtered : s.wallet = w
  BY <1>1 DEF H!Shown
<1>3. ASSUME NEW w
      PROVE  w \in H!Shown <=>
                /\ w \in Owners /\ \E d \in 1 .. upto : H!Held(w, d) > 0
                /\ Wanted(w)
  BY <1>2, ShownAreOwners, FilteredDays
<1>4. H!Shown = {w \in Owners :
                   /\ \E d \in 1 .. upto : H!Held(w, d) > 0
                   /\ (req.filter = "buyers") => H!Rose(w)
                   /\ (req.filter = "holders") => ~H!Rose(w)}
  BY <1>3 DEF Wanted
<1>5. \A w \in H!Shown : \A d, e \in 0 .. upto :
         d < e => H!BoughtAmount(w) >= H!Held(w, e) - H!Held(w, d)
  BY ShownAreOwners, BoughtCoversRise
<1> QED BY <1>4, <1>5 DEF H!BuyersRose

\* What a request in continuous mode shows.
LEMMA ShownContinuous ==
    ASSUME HolderRows
    PROVE  H!ContinuousMeansEveryDay
<1> SUFFICES ASSUME stage = "answered", req.mode = "continuous"
             PROVE  H!ContinuousMeansEveryDay
  BY DEF H!ContinuousMeansEveryDay
<1> DEFINE end == H!EffectiveEnd
<1>1. end \in Nat /\ upto \in Nat /\ 1 <= upto /\ upto <= end
  BY Answered
<1> HIDE DEF end
<1>2. H!DaysCovered = 1 .. end
  BY DEF H!DaysCovered, end
<1>3. H!Snapshots = {s \in H!Filtered : H!Continuous(s.wallet)}
  <2>1. 1 \in H!DaysCovered
    BY <1>1, <1>2
  <2> QED BY <2>1 DEF H!Snapshots
<1>4. \A w : w \in H!Shown <=>
         H!Continuous(w) /\ \E s \in H!Filtered : s.wallet = w
  BY <1>3 DEF H!Shown
<1>5. ASSUME NEW w
      PROVE  w \in H!Shown <=>
                /\ w \in Owners /\ end = upto
                /\ \A d \in 1 .. upto : H!Held(w, d) > 0
                /\ Wanted(w)
  <2>1. CASE w \in Owners
    <3>1. ASSUME w \in H!Shown
          PROVE  /\ end = upto /\ \A d \in 1 .. upto : H!Held(w, d) > 0
                 /\ Wanted(w)
      <4>1. 1 .. end \subseteq H!DaysOf(w)
        BY <1>2, <1>4, <3>1 DEF H!Continuous
      <4>2. 1 \in 1 .. end /\ end \in 1 .. end /\ 1 .. upto \subseteq 1 .. end
        BY <1>1
      <4>3. Wanted(w) /\ end \in 1 .. upto
        BY <2>1, <4>1, <4>2, FilteredDays
      <4>4. \A d \in 1 .. upto : H!Held(w, d) > 0
        BY <2>1, <4>1, <4>2, FilteredDays
      <4> QED BY <1>1, <4>3, <4>4
    <3>2. ASSUME end = upto, \A d \in 1 .. upto : H!Held(w, d) > 0, Wanted(w)
          PROVE  w \in H!Shown
      <4>1. H!Continuous(w)
        BY <1>2, <2>1, <3>2, FilteredDays DEF H!Continuous
      <4>2. 1 \in 1 .. upto
        BY <1>1
      <4>3. 1 \in H!DaysOf(w)
        BY <2>1, <3>2, <4>2, FilteredDays
      <4> QED BY <1>4, <2>1, <4>1, <4>3, ShownAreOwners
    <3> QED BY <2>1, <3>1, <3>2
  <2>2. CASE w \notin Owners
    BY <2>2, ShownAreOwners
  <2> QED BY <2>1, <2>2
<1>6. upto > 0
  BY <1>1
<1>7. H!Shown = {w \in Owners :
                   /\ end = upto /\ upto > 0
                   /\ \A d \in 1 .. upto : H!Held(w, d) > 0
                   /\ (req.filter = "buyers") => H!Rose(w)
                   /\ (req.filter = "holders") => ~H!Rose(w)}
  BY <1>5, <1>6 DEF Wanted
<1> QED BY <1>7 DEF H!ContinuousMeansEveryDay, end

\* A set of integers between two bounds has a least and a greatest member.
LEMMA Extremes ==
    ASSUME NEW lo \in Nat, NEW hi \in Nat, NEW X \in SUBSET (lo .. hi), X # {}
    PROVE  /\ H!Min(X) \in X /\ H!Max(X) \in X
           /\ \A x \in X : H!Min(X) <= x /\ x <= H!Max(X)
<1>1. \E m \in X : \A k \in X : m <= k
  BY LeastExists
<1>2. \E m \in X : \A k \in X : m >= k
  <2> DEFINE Y == {k \in Nat : k <= hi /\ hi - k \in X}
  <2>1. Y \in SUBSET Nat /\ Y # {}
    <3>1. PICK x \in X : TRUE
      OBVIOUS
    <3>2. hi - x \in Nat /\ hi - x <= hi /\ hi - (hi - x) = x
      OBVIOUS
    <3> QED BY <3>1, <3>2
  <2> HIDE DEF Y
  <2>2. PICK n \in Y : \A k \in Y : n <= k
    BY <2>1, LeastExists
  <2>3. n \in Nat /\ n <= hi /\ hi - n \in X
    BY DEF Y
  <2>4. ASSUME NEW k \in X
        PROVE  hi - n >= k
    <3>1. k \in Nat /\ hi - k \in Nat /\ hi - k <= hi /\ hi - (hi - k) = k
      OBVIOUS
    <3>2. hi - k \in Y
      BY <3>1 DEF Y
    <3> QED BY <2>2, <2>3, <3>1, <3>2
  <2> QED BY <2>3, <2>4
<1>3. H!Min(X) \in X /\ \A k \in X : H!Min(X) <= k
  BY <1>1 DEF H!Min
<1>4. H!Max(X) \in X /\ \A k \in X : H!Max(X) >= k
  BY <1>2 DEF H!Max
<1>5. \A x \in X : x <= H!Max(X)
  <2>1. \A x \in X : x \in Int
    OBVIOUS
  <2>2. PICK m \in X : m = H!Max(X)
    BY <1>4
  <2> QED BY <1>4, <2>1, <2>2
<1> QED BY <1>3, <1>4, <1>5

\* The summaries of an answer.
LEMMA HolderTypes ==
    ASSUME HolderRows
    PROVE  H!TypeOK
<1>1. ASSUME stage = "answered", NEW w \in H!Shown
      PROVE  LET s == H!Summary(w) IN
             /\ 1 <= s.first_date /\ s.first_date <= s.last_date
             /\ s.last_date <= H!EffectiveEnd
             /\ s.days_held \in 1 .. s.last_date - s.first_date + 1
             /\ req.min < s.min_balance /\ s.min_balance <= s.max_balance
             /\ s.opening + s.bought_amount \in Nat
  <2> DEFINE own == {s \in H!Snapshots : s.wallet = w}
             days == {s.day : s \in own}
             held == {s.balance : s \in own}
             z == H!Summary(w)
  <2>1. /\ z.first_date = H!Min(days) /\ z.last_date = H!Max(days)
        /\ z.days_held = H!Cardinality(days)
        /\ z.min_balance = H!Min(held) /\ z.max_balance = H!Max(held)
        /\ z.opening = H!Balance(w, 0) /\ z.bought_amount = H!BoughtAmount(w)
    BY DEF H!Summary
  <2>2. own # {}
    BY DEF H!Shown
  <2>3. \A s \in own : s \in H!Parsed /\ s.day >= 1
    BY DEF H!Snapshots, H!Filtered, H!InRange
  <2>4. upto \in Nat /\ H!EffectiveEnd \in Nat /\ upto <= H!EffectiveEnd
        /\ req.min \in Nat /\ w \in Owners
    BY <1>1, Answered, ShownAreOwners
  <2>5. \A s \in own : s.day \in 1 .. upto /\ s.balance \in req.min + 1 .. MaxBalance
    <3>1. ASSUME NEW s \in own
          PROVE  s.day \in 1 .. upto /\ s.balance \in req.min + 1 .. MaxBalance
      <4>1. s \in H!Parsed /\ s.day >= 1
        BY <2>3
      <4>2. /\ s \in H!Snapshot /\ s.day \in 0 .. upto
            /\ s.balance \in Nat /\ s.balance > req.min
        BY <1>1, <4>1, ParsedRows
      <4>3. s.balance <= MaxBalance
        BY <4>2 DEF H!Snapshot
      <4> QED BY <2>4, <4>1, <4>2, <4>3, HolderBounds
    <3> QED BY <3>1
  <2> HIDE DEF own
  <2>6. days \in SUBSET (1 .. upto) /\ days # {}
    BY <2>2, <2>5
  <2>7. held \in SUBSET (req.min + 1 .. MaxBalance) /\ held # {}
    BY <2>2, <2>5
  <2> HIDE DEF days, held, z
  <2>8. /\ H!Min(days) \in 1 .. upto /\ H!Max(days) \in 1 .. upto
        /\ \A x \in days : H!Min(days) <= x /\ x <= H!Max(days)
    BY <2>4, <2>6, Extremes
  <2>9. H!Min(days) <= H!Max(days)
    BY <2>4, <2>6, <2>8, Extremes
  <2>10. /\ H!Min(held) \in req.min + 1 .. MaxBalance
         /\ H!Min(held) <= H!Max(held)
    <3>1. req.min + 1 \in Nat /\ MaxBalance \in Nat
      BY <2>4, HolderBounds
    <3>2. /\ H!Min(held) \in held /\ H!Max(held) \in held
          /\ \A x \in held : H!Min(held) <= x /\ x <= H!Max(held)
      BY <2>7, <3>1, Extremes
    <3> QED BY <2>7, <3>2
  <2>11. req.min < H!Min(held)
    BY <2>4, <2>10, HolderBounds
  <2>12. H!Cardinality(days) \in 1 .. H!Max(days) - H!Min(days) + 1
    <3>1. PICK lo \in 1 .. upto, hi \in 1 .. upto :
             lo = H!Min(days) /\ hi = H!Max(days)
      BY <2>8
    <3>2. days \subseteq lo .. hi /\ lo <= hi
      BY <2>4, <2>6, <2>8, <2>9, <3>1
    <3>3. IsFiniteSet(lo .. hi) /\ Cardinality(lo .. hi) = hi - lo + 1
      <4>1. lo \in Int /\ hi \in Int
        BY <2>4
      <4>2. IsFiniteSet(lo .. hi) /\
            Cardinality(lo .. hi) = IF lo > hi THEN 0 ELSE hi - lo + 1
        BY <4>1, FS_Interval
      <4> QED BY <3>2, <4>1, <4>2
    <3>4. /\ IsFiniteSet(days) /\ Cardinality(days) \in Nat
          /\ Cardinality(days) <= hi - lo + 1
      BY <3>2, <3>3, SmallerSet
    <3>5. Cardinality(days) # 0
      BY <2>6, <3>4, FS_EmptySet
    <3>6. H!Cardinality(days) = Cardinality(days)
      BY DEF H!Cardinality, Cardinality
    <3> QED BY <2>4, <3>1, <3>4, <3>5, <3>6
  <2>13. H!Balance(w, 0) \in Nat /\ H!BoughtAmount(w) \in Nat
    <3>1. 0 \in 0 .. H!EffectiveEnd /\ 0 \in H!Days /\ 0 <= upto
      BY <2>4, HolderBounds DEF H!Days
    <3> QED BY <1>1, <2>4, <3>1, BalanceIsHeld, HeldIs, BoughtCoversRise
  <2>14. /\ 1 <= z.first_date /\ z.first_date <= z.last_date
         /\ z.last_date <= H!EffectiveEnd
    BY <2>1, <2>4, <2>8, <2>9
  <2>15. z.days_held \in 1 .. z.last_date - z.first_date + 1
    BY <2>1, <2>12
  <2>16. req.min < z.min_balance /\ z.min_balance <= z.max_balance
    BY <2>1, <2>10, <2>11
  <2>17. z.opening + z.bought_amount \in Nat
    BY <2>1, <2>13
  <2> QED BY <2>14, <2>15, <2>16, <2>17 DEF z
<1>2. req \in [min : 0 .. MaxBalance, mode : H!Modes, filter : H!Filters,
               end : H!Days]
  BY DEF HolderRows
<1>3. upto \in H!Days \cup {None}
  BY Answered, EndIsDay, HolderBounds DEF HolderRows, H!Days
<1>4. balances \subseteq H!Snapshot
  BY DEF HolderRows
<1> QED BY <1>1, <1>2, <1>3, <1>4 DEF HolderRows, H!TypeOK

-----------------------------------------------------------------------------
(* The theorems.  A behaviour is about one part and stays with it, so the    *)
(* inductive invariant is that part's, and each property follows from it.    *)

PartsInv ==
    /\ part = "events"    => StoreInv
    /\ part = "cohorts"   => CohortInv
    /\ part = "files"     => FileInv
    /\ part = "screening" => ScreenInv
    /\ part = "trades"    => TradeRows
    /\ part = "holders"   => HolderRows

\* A step is one of the part the behaviour is about.
LEMMA PartStep ==
    [Next]_vars =>
        /\ part' = part
        /\ part = "events"    => [L!Next]_L!vars
        /\ part = "cohorts"   => [C!Next]_C!vars
        /\ part = "files"     => [F!Next]_F!vars
        /\ part = "screening" => [S!Next]_S!vars
        /\ part = "trades"    => [T!Next]_T!vars
        /\ part = "holders"   => [H!Next]_H!vars
<1> SUFFICES ASSUME [Next]_vars
             PROVE  /\ part' = part
                    /\ part = "events"    => [L!Next]_L!vars
                    /\ part = "cohorts"   => [C!Next]_C!vars
                    /\ part = "files"     => [F!Next]_F!vars
                    /\ part = "screening" => [S!Next]_S!vars
                    /\ part = "trades"    => [T!Next]_T!vars
                    /\ part = "holders"   => [H!Next]_H!vars
  OBVIOUS
<1>1. CASE UNCHANGED vars
  <2>1. /\ UNCHANGED part /\ UNCHANGED LVars /\ UNCHANGED CVars
        /\ UNCHANGED FVars /\ UNCHANGED SVars /\ UNCHANGED TVars
        /\ UNCHANGED HVars
    BY <1>1 DEF vars
  <2>2. UNCHANGED L!vars
    BY <2>1 DEF LVars, L!vars
  <2>3. UNCHANGED C!vars
    BY <2>1 DEF CVars, C!vars, C!locals, C!notes
  <2>4. UNCHANGED F!vars
    BY <2>1 DEF FVars, F!vars, F!disk, F!own
  <2>5. UNCHANGED S!vars
    BY <2>1 DEF SVars, S!vars, S!screenVars
  <2>6. UNCHANGED T!vars
    BY <2>1 DEF TVars, T!vars, T!settings
  <2>7. UNCHANGED H!vars
    BY <2>1 DEF HVars, H!vars
  <2> QED BY <2>1, <2>2, <2>3, <2>4, <2>5, <2>6, <2>7
<1>2. CASE part = "events" /\ L!Next /\ part' = part
  BY <1>2
<1>3. CASE part = "cohorts" /\ C!Next /\ part' = part
  BY <1>3
<1>4. CASE part = "files" /\ F!Next /\ part' = part
  BY <1>4
<1>5. CASE part = "screening" /\ S!Next /\ part' = part
  BY <1>5
<1>6. CASE part = "trades" /\ T!Next /\ part' = part
  BY <1>6
<1>7. CASE part = "holders" /\ H!Next /\ part' = part
  BY <1>7
<1> QED BY <1>1, <1>2, <1>3, <1>4, <1>5, <1>6, <1>7 DEF Next

LEMMA PartsInit == Init => PartsInv
<1> SUFFICES ASSUME Init PROVE PartsInv
  OBVIOUS
<1>1. CASE part = "events" /\ L!Init
  BY <1>1, StoreInitInv DEF PartsInv
<1>2. CASE part = "cohorts" /\ C!Init
  BY <1>2, CohortInit DEF PartsInv
<1>3. CASE part = "files" /\ F!Init
  BY <1>3, FileInit DEF PartsInv
<1>4. CASE part = "screening" /\ S!Init
  BY <1>4, ScreenInit DEF PartsInv
<1>5. CASE part = "trades" /\ T!Init
  BY <1>5, TradeInit DEF PartsInv
<1>6. CASE part = "holders" /\ H!Init
  BY <1>6, HolderInit DEF PartsInv
<1> QED BY <1>1, <1>2, <1>3, <1>4, <1>5, <1>6 DEF Init

LEMMA PartsNext == PartsInv /\ [Next]_vars => PartsInv'
<1> SUFFICES ASSUME PartsInv, [Next]_vars PROVE PartsInv'
  OBVIOUS
<1>0. part' = part
  BY PartStep
<1>1. CASE part = "events"
  <2>1. StoreInv /\ [L!Next]_L!vars
    BY <1>1, PartStep DEF PartsInv
  <2> QED BY <1>0, <1>1, <2>1, StoreNextInv DEF PartsInv
<1>2. CASE part = "cohorts"
  <2>1. CohortInv /\ [C!Next]_C!vars
    BY <1>2, PartStep DEF PartsInv
  <2> QED BY <1>0, <1>2, <2>1, CohortNext DEF PartsInv
<1>3. CASE part = "files"
  <2>1. FileInv /\ [F!Next]_F!vars
    BY <1>3, PartStep DEF PartsInv
  <2> QED BY <1>0, <1>3, <2>1, FileNext DEF PartsInv
<1>4. CASE part = "screening"
  <2>1. ScreenInv /\ [S!Next]_S!vars
    BY <1>4, PartStep DEF PartsInv
  <2> QED BY <1>0, <1>4, <2>1, ScreenNext DEF PartsInv
<1>5. CASE part = "trades"
  <2>1. TradeRows /\ [T!Next]_T!vars
    BY <1>5, PartStep DEF PartsInv
  <2> QED BY <1>0, <1>5, <2>1, TradeNext DEF PartsInv
<1>6. CASE part = "holders"
  <2>1. HolderRows /\ [H!Next]_H!vars
    BY <1>6, PartStep DEF PartsInv
  <2> QED BY <1>0, <1>6, <2>1, HolderNext DEF PartsInv
<1>7. CASE part \notin {"events", "cohorts", "files", "screening", "trades",
                        "holders"}
  BY <1>0, <1>7 DEF PartsInv
<1> QED BY <1>1, <1>2, <1>3, <1>4, <1>5, <1>6, <1>7

\* Type correctness: the six states keep their types, and so do the candidates
\* of a monitor run (aggregate_candidates) and the summaries of a holders
\* request (build_summary), whatever rows they are computed from.
THEOREM TypeCorrect == Spec => []TypeOK
<1>1. PartsInv => TypeOK
  <2> SUFFICES ASSUME PartsInv PROVE TypeOK
    OBVIOUS
  <2>1. CASE part = "events"
    BY <2>1 DEF PartsInv, TypeOK, StoreInv, StoreTyped
  <2>2. CASE part = "cohorts"
    BY <2>2 DEF PartsInv, TypeOK, CohortInv, CohortTyped
  <2>3. CASE part = "files"
    BY <2>3 DEF PartsInv, TypeOK, FileInv, FileTyped
  <2>4. CASE part = "screening"
    BY <2>4 DEF PartsInv, TypeOK, ScreenInv, ScreenTyped
  <2>5. CASE part = "trades"
    BY <2>5, TradeProperties DEF PartsInv, TypeOK
  <2>6. CASE part = "holders"
    BY <2>6, HolderTypes DEF PartsInv, TypeOK
  <2>7. CASE part \notin {"events", "cohorts", "files", "screening", "trades",
                          "holders"}
    BY <2>7 DEF TypeOK
  <2> QED BY <2>1, <2>2, <2>3, <2>4, <2>5, <2>6, <2>7
<1> QED BY PartsInit, PartsNext, <1>1, PTL DEF Spec

\* Who the live counts call a buyer or a seller is one, and nobody seen within
\* the window is missing (record_events, prune_events, the counting queries).
THEOREM CountsExact == Spec => []CountsAreExact
<1>1. PartsInv => CountsAreExact
  BY StoreInvCounts DEF PartsInv, CountsAreExact
<1> QED BY PartsInit, PartsNext, <1>1, PTL DEF Spec

\* A redelivered event makes no stored row younger (record_events).
THEOREM RedeliveryIsFree == Spec => NeverRejuvenated
<1>1. PartsInv /\ [Next]_vars => [part = "events" => L!RowsAge]_vars
  <2> SUFFICES ASSUME PartsInv, [Next]_vars, part = "events"
               PROVE  L!RowsAge
    OBVIOUS
  <2>1. StoreTyped /\ [L!Next]_L!vars
    BY PartStep DEF PartsInv, StoreInv
  <2> QED BY <2>1, StoreStepAges DEF L!RowsAge
<1> QED BY PartsInit, PartsNext, <1>1, PTL DEF Spec, NeverRejuvenated

\* Until two rebuilds overlap, a chain has one derived watchlist at most
\* (refresh_derived: find_derived and create_watchlist are apart).
THEOREM OneDerivedHolds == Spec => []OneDerivedUnlessLapped
<1>1. PartsInv => OneDerivedUnlessLapped
  BY CohortProperties DEF PartsInv, OneDerivedUnlessLapped
<1> QED BY PartsInit, PartsNext, <1>1, PTL DEF Spec

\* Outside a PATCH a watchlist of the user's is within the cap, unless two
\* PATCHes overlapped or one failed halfway (_enforce_wallet_cap).
THEOREM CapKeeps == Spec => []CapHolds
<1>1. PartsInv => CapHolds
  BY CohortProperties DEF PartsInv, CapHolds
<1> QED BY PartsInit, PartsNext, <1>1, PTL DEF Spec

\* A rebuild that nobody wrote under leaves the repeat wallets, no more and no
\* fewer (repeat_wallets, refresh_derived).
THEOREM RebuildsExact == Spec => SoloRebuildIsExact
<1>1. PartsInv /\ [Next]_vars => [part = "cohorts" => C!RebuildIsExact]_vars
  <2> SUFFICES ASSUME PartsInv, [Next]_vars, part = "cohorts"
               PROVE  C!RebuildIsExact
    OBVIOUS
  <2>1. CohortInv /\ [C!Next]_C!vars
    BY PartStep DEF PartsInv
  <2> QED BY <2>1, CohortStepExact DEF CohortInv
<1> QED BY PartsInit, PartsNext, <1>1, PTL DEF Spec, SoloRebuildIsExact

\* No crash and no interleaving of puts leaves half a file where a result is
\* read, and a cache entry is whole unless two puts shared its .partial file
\* (JobStore.put, DiskCache.put).
THEOREM WholeFiles == Spec => []FilesAreWhole
<1>1. PartsInv => FilesAreWhole
  BY FileProperties DEF PartsInv, FilesAreWhole
<1> QED BY PartsInit, PartsNext, <1>1, PTL DEF Spec

\* Prunes that overlap with puts and with each other delete no fresh result
\* that is among the newest, and leave no more than the cap (JobStore._prune).
THEOREM NewestSurvive == Spec => []NewestAreKept
<1>1. PartsInv => NewestAreKept
  BY FileProperties DEF PartsInv, NewestAreKept
<1> QED BY PartsInit, PartsNext, <1>1, PTL DEF Spec

\* An old honeypot passes only after a recent failure or an overlapping screen,
\* and what is blocked was a honeypot within the time to live (security.screen).
THEOREM VerdictsFresh == Spec => []VerdictsAreCurrent
<1>1. PartsInv => VerdictsAreCurrent
  BY ScreenVerdicts DEF PartsInv, VerdictsAreCurrent
<1> QED BY PartsInit, PartsNext, <1>1, PTL DEF Spec

\* For any rows, watchlist, floor and threshold, the candidates are the tokens
\* that enough watched wallets bought, each wallet counted once (merge_buys,
\* effective_min_wallets, aggregate_candidates).
THEOREM CandidatesExact == Spec => []CandidatesAreExact
<1>1. PartsInv => CandidatesAreExact
  BY TradeProperties DEF PartsInv, CandidatesAreExact
<1> QED BY PartsInit, PartsNext, <1>1, PTL DEF Spec

\* For any balances, range and minimum, a holders request shows the wallets it
\* was asked for, although midnight may move the end of the range under it, and
\* what it says a wallet bought covers any rise (classify_wallets,
\* apply_wallet_filter, apply_holder_mode).
THEOREM ShownExactly == Spec => []ShownAsAsked
<1>1. PartsInv => ShownAsAsked
  BY ShownBuyers, ShownContinuous DEF PartsInv, ShownAsAsked
<1> QED BY PartsInit, PartsNext, <1>1, PTL DEF Spec
=============================================================================
