---------------------------- MODULE SumTheorems ----------------------------
(***************************************************************************)
(* What SumTo computes, for tables of every size, what a sum over a finite *)
(* set does when the set changes, and the least of some naturals.  The     *)
(* library's induction theorems take the predicate as an operator; here it *)
(* is given as a set, and induction rests on finite sets being well        *)
(* founded under inclusion.                                                *)
(***************************************************************************)
EXTENDS Sums, FiniteSetsExt, FiniteSetTheorems, WellFoundedInduction, TLAPS

IsPrefixSum(s, f, n) ==
  s = [i \in 0 .. n |-> IF i = 0 THEN 0 ELSE s[i - 1] + f[i]]

-----------------------------------------------------------------------------
(***************************************************************************)
(* Induction over the naturals with the predicate given as a set.          *)
(***************************************************************************)
LEMMA SetInduction ==
  ASSUME NEW S \in SUBSET Nat, 0 \in S, \A k \in S : k + 1 \in S
  PROVE  S = Nat
<1>1. SUFFICES ASSUME NEW b \in Nat, b \notin S PROVE FALSE
  OBVIOUS
<1> DEFINE F == {0 .. k : k \in Nat \ S}
<1>2. F \subseteq FiniteSubsetsOf(Nat)
  <2>1. \A k \in Nat : IsFiniteSet(0 .. k)
    BY FS_Interval
  <2>2. \A k \in Nat : 0 .. k \in SUBSET Nat
    OBVIOUS
  <2>3. QED
    BY <2>1, <2>2 DEF FiniteSubsetsOf
<1>3. F # {}
  BY <1>1
<1>4. PICK x \in F : \A y \in F : ~ (<<y, x>> \in StrictSubsetOrdering(Nat))
  <2> HIDE DEF F
  <2>1. IsWellFoundedOn(StrictSubsetOrdering(Nat), FiniteSubsetsOf(Nat))
    BY FS_StrictSubsetOrderingWellFounded
  <2>2. QED
    BY <1>2, <1>3, <2>1, WFMin
<1>5. PICK m \in Nat \ S : x = 0 .. m
  OBVIOUS
<1>6. m - 1 \in Nat \ S
  BY <1>5
<1>7. 0 .. (m - 1) \in F
  BY <1>6
<1>8. /\ 0 .. (m - 1) \subseteq 0 .. m
      /\ m \in 0 .. m
      /\ m \notin 0 .. (m - 1)
  BY <1>5
<1>9. <<0 .. (m - 1), x>> \in StrictSubsetOrdering(Nat)
  <2>1. 0 .. (m - 1) \in SUBSET Nat /\ 0 .. m \in SUBSET Nat
    BY <1>5
  <2>2. 0 .. (m - 1) # 0 .. m
    BY <1>8
  <2>3. QED
    BY <1>5, <1>8, <2>1, <2>2 DEF StrictSubsetOrdering
<1>10. QED
  BY <1>4, <1>7, <1>9

-----------------------------------------------------------------------------
(***************************************************************************)
(* Every table has prefix sums, so the recursive definition is well        *)
(* founded.                                                                *)
(***************************************************************************)
LEMMA PrefixSumExists ==
  ASSUME NEW n \in Nat, NEW f \in [1 .. n -> Int]
  PROVE  \E s \in [0 .. n -> Int] : IsPrefixSum(s, f, n)
<1> DEFINE Summed(k) == \E s \in [0 .. k -> Int] :
                          \A i \in 0 .. k :
                            s[i] = IF i = 0 THEN 0 ELSE s[i - 1] + f[i]
           S == {k \in Nat : k <= n => Summed(k)}
<1>1. Summed(0)
  <2>1. [i \in 0 .. 0 |-> 0] \in [0 .. 0 -> Int]
    OBVIOUS
  <2>2. \A i \in 0 .. 0 : [j \in 0 .. 0 |-> 0][i] = 0 /\ i = 0
    OBVIOUS
  <2>3. QED
    BY <2>1, <2>2
<1>2. ASSUME NEW k \in Nat, k + 1 <= n, Summed(k) PROVE Summed(k + 1)
  <2>1. PICK s \in [0 .. k -> Int] :
          \A i \in 0 .. k : s[i] = IF i = 0 THEN 0 ELSE s[i - 1] + f[i]
    BY <1>2
  <2> DEFINE t == [i \in 0 .. (k + 1) |-> IF i <= k THEN s[i] ELSE s[k] + f[k + 1]]
  <2>2. t \in [0 .. (k + 1) -> Int]
    BY <1>2
  <2>3. ASSUME NEW i \in 0 .. (k + 1)
        PROVE  t[i] = IF i = 0 THEN 0 ELSE t[i - 1] + f[i]
    <3>1. CASE i = k + 1
      BY <3>1
    <3>2. CASE i <= k
      BY <3>2, <2>1
    <3>3. QED
      BY <3>1, <3>2
  <2>4. QED
    BY <2>2, <2>3
<1>3. S = Nat
  <2> HIDE DEF Summed
  <2>1. 0 \in S
    BY <1>1
  <2>2. ASSUME NEW k \in S PROVE k + 1 \in S
    BY <1>2
  <2> HIDE DEF S
  <2>3. S \in SUBSET Nat
    BY DEF S
  <2>4. QED
    BY <2>1, <2>2, <2>3, SetInduction
<1>4. Summed(n)
  <2> HIDE DEF Summed
  <2>1. n \in S
    BY <1>3
  <2>2. QED
    BY <2>1
<1>5. PICK s \in [0 .. n -> Int] :
        \A i \in 0 .. n : s[i] = IF i = 0 THEN 0 ELSE s[i - 1] + f[i]
  BY <1>4
<1>6. QED
  BY <1>5 DEF IsPrefixSum

LEMMA PrefixSumFact ==
  ASSUME NEW n \in Nat, NEW f \in [1 .. n -> Int]
  PROVE  IsPrefixSum(PrefixSum(f, n), f, n)
BY PrefixSumExists DEF PrefixSum, IsPrefixSum

LEMMA PrefixSumStep ==
  ASSUME NEW n \in Nat, NEW f \in [1 .. n -> Int]
  PROVE  /\ PrefixSum(f, n)[0] = 0
         /\ \A i \in 1 .. n :
              PrefixSum(f, n)[i] = PrefixSum(f, n)[i - 1] + f[i]
<1> DEFINE s == PrefixSum(f, n)
<1>1. s = [i \in 0 .. n |-> IF i = 0 THEN 0 ELSE s[i - 1] + f[i]]
  BY PrefixSumFact DEF IsPrefixSum
<1> HIDE DEF s
<1>2. \A i \in 0 .. n : s[i] = IF i = 0 THEN 0 ELSE s[i - 1] + f[i]
  BY <1>1
<1>3. s[0] = 0 /\ \A i \in 1 .. n : s[i] = s[i - 1] + f[i]
  BY <1>2
<1>4. QED
  BY <1>3 DEF s

(***************************************************************************)
(* Induction up to a bound, again with the predicate given as a set.       *)
(***************************************************************************)
LEMMA BoundedInduction ==
  ASSUME NEW n \in Nat, NEW S, 0 \in S,
         \A k \in 0 .. (n - 1) : k \in S => k + 1 \in S
  PROVE  \A k \in 0 .. n : k \in S
<1> DEFINE T == {k \in Nat : k <= n => k \in S}
<1>1. 0 \in T
  OBVIOUS
<1>2. ASSUME NEW k \in T PROVE k + 1 \in T
  BY <1>2
<1>3. T = Nat
  <2> HIDE DEF T
  <2>1. T \in SUBSET Nat
    BY DEF T
  <2>2. QED
    BY <1>1, <1>2, <2>1, SetInduction
<1>4. QED
  BY <1>3

LEMMA PrefixSumType ==
  ASSUME NEW n \in Nat, NEW f \in [1 .. n -> Int]
  PROVE  \A i \in 0 .. n : PrefixSum(f, n)[i] \in Int
<1> DEFINE s == PrefixSum(f, n)
           S == {i \in 0 .. n : s[i] \in Int}
<1>1. s[0] = 0 /\ \A i \in 1 .. n : s[i] = s[i - 1] + f[i]
  BY PrefixSumStep
<1> HIDE DEF s
<1>2. 0 \in S
  BY <1>1
<1>3. \A k \in 0 .. (n - 1) : k \in S => k + 1 \in S
  BY <1>1
<1>4. \A i \in 0 .. n : i \in S
  <2> HIDE DEF S
  <2>1. QED
    BY <1>2, <1>3, BoundedInduction
<1>5. QED
  BY <1>4 DEF s

(***************************************************************************)
(* The sum of a table of integers is an integer.                           *)
(***************************************************************************)
LEMMA SumType ==
  ASSUME NEW n \in Nat, NEW f \in [1 .. n -> Int]
  PROVE  SumTo(f, n) \in Int
BY PrefixSumType DEF SumTo

(***************************************************************************)
(* Two tables that differ by d[i] in every entry have sums that differ by  *)
(* the sum of d.                                                           *)
(***************************************************************************)
LEMMA SumAdd ==
  ASSUME NEW n \in Nat, NEW f \in [1 .. n -> Int], NEW d \in [1 .. n -> Int],
         NEW g \in [1 .. n -> Int], \A i \in 1 .. n : g[i] = f[i] + d[i]
  PROVE  SumTo(g, n) = SumTo(f, n) + SumTo(d, n)
<1> DEFINE sf == PrefixSum(f, n)
           sd == PrefixSum(d, n)
           sg == PrefixSum(g, n)
           S == {i \in 0 .. n : sg[i] = sf[i] + sd[i]}
<1>1. sf[0] = 0 /\ \A i \in 1 .. n : sf[i] = sf[i - 1] + f[i]
  BY PrefixSumStep
<1>2. sd[0] = 0 /\ \A i \in 1 .. n : sd[i] = sd[i - 1] + d[i]
  BY PrefixSumStep
<1>3. sg[0] = 0 /\ \A i \in 1 .. n : sg[i] = sg[i - 1] + g[i]
  BY PrefixSumStep
<1>4. \A i \in 0 .. n : sf[i] \in Int /\ sd[i] \in Int /\ sg[i] \in Int
  BY PrefixSumType
<1> HIDE DEF sf, sd, sg
<1>5. 0 \in S
  BY <1>1, <1>2, <1>3
<1>6. ASSUME NEW k \in 0 .. (n - 1), k \in S PROVE k + 1 \in S
  <2>1. k + 1 \in 1 .. n /\ (k + 1) - 1 = k
    OBVIOUS
  <2>2. /\ sf[k + 1] = sf[k] + f[k + 1]
        /\ sd[k + 1] = sd[k] + d[k + 1]
        /\ sg[k + 1] = sg[k] + g[k + 1]
    BY <1>1, <1>2, <1>3, <2>1
  <2>3. sg[k] = sf[k] + sd[k]
    BY <1>6
  <2>4. sg[k + 1] = sf[k + 1] + sd[k + 1]
    BY <1>4, <2>1, <2>2, <2>3
  <2>5. QED
    BY <2>1, <2>4
<1>7. \A i \in 0 .. n : i \in S
  <2> HIDE DEF S
  <2>1. QED
    BY <1>5, <1>6, BoundedInduction
<1>8. sg[n] = sf[n] + sd[n]
  BY <1>7
<1>9. QED
  BY <1>8 DEF SumTo, sf, sd, sg

(***************************************************************************)
(* A table without negative entries has a sum that is not negative, and no *)
(* entry above it.                                                         *)
(***************************************************************************)
LEMMA SumNonNegative ==
  ASSUME NEW n \in Nat, NEW f \in [1 .. n -> Int], \A i \in 1 .. n : f[i] >= 0
  PROVE  /\ SumTo(f, n) >= 0
         /\ \A j \in 1 .. n : f[j] <= SumTo(f, n)
<1> DEFINE s == PrefixSum(f, n)
           S == {i \in 0 .. n : s[i] >= 0 /\ \A j \in 1 .. i : f[j] <= s[i]}
<1>1. s[0] = 0 /\ \A i \in 1 .. n : s[i] = s[i - 1] + f[i]
  BY PrefixSumStep
<1>2. \A i \in 0 .. n : s[i] \in Int
  BY PrefixSumType
<1> HIDE DEF s
<1>3. 0 \in S
  BY <1>1
<1>4. ASSUME NEW k \in 0 .. (n - 1), k \in S PROVE k + 1 \in S
  <2>1. k + 1 \in 1 .. n /\ (k + 1) - 1 = k
    OBVIOUS
  <2>2. s[k + 1] = s[k] + f[k + 1]
    BY <1>1, <2>1
  <2>3. s[k] >= 0 /\ \A j \in 1 .. k : f[j] <= s[k]
    BY <1>4
  <2>4. \A j \in 1 .. (k + 1) : f[j] <= s[k + 1]
    BY <1>2, <2>1, <2>2, <2>3
  <2>5. QED
    BY <1>2, <2>1, <2>2, <2>3, <2>4
<1>5. \A i \in 0 .. n : i \in S
  <2> HIDE DEF S
  <2>1. QED
    BY <1>3, <1>4, BoundedInduction
<1>6. QED
  BY <1>5 DEF SumTo, s

(***************************************************************************)
(* A table of zeros sums to zero.                                          *)
(***************************************************************************)
LEMMA SumZero ==
  ASSUME NEW n \in Nat, NEW f \in [1 .. n -> Int], \A i \in 1 .. n : f[i] = 0
  PROVE  SumTo(f, n) = 0
<1>1. SumTo(f, n) = SumTo(f, n) + SumTo(f, n)
  BY SumAdd
<1>2. QED
  BY <1>1, SumType

(***************************************************************************)
(* Changing one entry changes the sum by the difference.                   *)
(***************************************************************************)
LEMMA SumUpdate ==
  ASSUME NEW n \in Nat, NEW f \in [1 .. n -> Int], NEW j \in 1 .. n, NEW v \in Int
  PROVE  SumTo([f EXCEPT ![j] = v], n) = SumTo(f, n) - f[j] + v
<1> DEFINE g == [f EXCEPT ![j] = v]
           sf == PrefixSum(f, n)
           sg == PrefixSum(g, n)
           S == {i \in 0 .. n : sg[i] = sf[i] + (IF i >= j THEN v - f[j] ELSE 0)}
<1>1. /\ g \in [1 .. n -> Int]
      /\ \A i \in 1 .. n : g[i] = IF i = j THEN v ELSE f[i]
  OBVIOUS
<1> HIDE DEF g
<1>2. sf[0] = 0 /\ \A i \in 1 .. n : sf[i] = sf[i - 1] + f[i]
  BY PrefixSumStep
<1>3. sg[0] = 0 /\ \A i \in 1 .. n : sg[i] = sg[i - 1] + g[i]
  BY <1>1, PrefixSumStep
<1>4. \A i \in 0 .. n : sf[i] \in Int /\ sg[i] \in Int
  BY <1>1, PrefixSumType
<1> HIDE DEF sf, sg
<1>5. 0 \in S
  BY <1>2, <1>3
<1>6. ASSUME NEW k \in 0 .. (n - 1), k \in S PROVE k + 1 \in S
  <2>1. k + 1 \in 1 .. n /\ (k + 1) - 1 = k
    OBVIOUS
  <2>2. sf[k + 1] = sf[k] + f[k + 1] /\ sg[k + 1] = sg[k] + g[k + 1]
    BY <1>2, <1>3, <2>1
  <2>3. sg[k] = sf[k] + (IF k >= j THEN v - f[j] ELSE 0)
    BY <1>6
  <2>4. sg[k + 1] = sf[k + 1] + (IF k + 1 >= j THEN v - f[j] ELSE 0)
    <3>1. /\ sf[k] \in Int /\ sg[k] \in Int /\ f[k + 1] \in Int /\ f[j] \in Int
          /\ g[k + 1] = IF k + 1 = j THEN v ELSE f[k + 1]
      BY <1>1, <1>4, <2>1
    <3>2. CASE k + 1 = j
      <4>1. ~ (k >= j) /\ k + 1 >= j /\ f[k + 1] = f[j] /\ g[k + 1] = v
        BY <3>1, <3>2
      <4>2. sg[k] = sf[k]
        BY <2>3, <3>1, <4>1
      <4>3. QED
        BY <2>2, <3>1, <4>1, <4>2
    <3>3. CASE k + 1 # j
      BY <2>2, <2>3, <3>1, <3>3
    <3>4. QED
      BY <3>2, <3>3
  <2>5. QED
    BY <2>1, <2>4
<1>7. \A i \in 0 .. n : i \in S
  <2> HIDE DEF S
  <2>1. QED
    BY <1>5, <1>6, BoundedInduction
<1>8. sg[n] = sf[n] + v - f[j]
  BY <1>4, <1>7
<1>9. QED
  BY <1>4, <1>8 DEF SumTo, sf, sg, g

-----------------------------------------------------------------------------
(***************************************************************************)
(* The sum over a finite set, taken in whatever order its elements are     *)
(* chosen (MapThenSumSet of the community modules).                        *)
(***************************************************************************)
SetSum(w, S) == MapThenSumSet(LAMBDA x : w[x], S)

Chosen(s) == CHOOSE x \in s : TRUE

IsSubsetSum(h, w, S) ==
  h = [s \in SUBSET S |-> IF s = {} THEN 0 ELSE w[Chosen(s)] + h[s \ {Chosen(s)}]]

SubsetSum(w, S) == CHOOSE h : IsSubsetSum(h, w, S)

LEMMA SetSumIsSubsetSum ==
  ASSUME NEW w, NEW S
  PROVE  SetSum(w, S) = SubsetSum(w, S)[S]
BY DEF SetSum, SubsetSum, IsSubsetSum, Chosen, MapThenSumSet, MapThenFoldSet

LEMMA ChosenIn == ASSUME NEW s, s # {} PROVE Chosen(s) \in s
BY DEF Chosen

\* Induction over the subsets of a finite set, the predicate given as a set.
LEMMA SubsetInduction ==
  ASSUME NEW S, IsFiniteSet(S), NEW P,
         \A s \in SUBSET S : (\A t \in SUBSET s : t # s => t \in P) => s \in P
  PROVE  SUBSET S \subseteq P
<1> SUFFICES ASSUME ~ (SUBSET S \subseteq P) PROVE FALSE
  OBVIOUS
<1> DEFINE F == (SUBSET S) \ P
<1>1. F \subseteq FiniteSubsetsOf(S) /\ F # {}
  <2>1. \A s \in SUBSET S : IsFiniteSet(s)
    BY FS_Subset
  <2> QED BY <2>1 DEF FiniteSubsetsOf
<1>2. PICK s \in F : \A t \in F : ~ (<<t, s>> \in StrictSubsetOrdering(S))
  <2> HIDE DEF F
  <2> QED BY <1>1, FS_StrictSubsetOrderingWellFounded, WFMin
<1>3. ASSUME NEW t \in SUBSET s, t # s PROVE t \in P
  BY <1>2, <1>3 DEF StrictSubsetOrdering
<1>4. s \in SUBSET S /\ s \notin P
  BY <1>2
<1>5. \A t \in SUBSET s : t # s => t \in P
  BY <1>3
<1> HIDE DEF F
<1> QED BY <1>4, <1>5, Zenon

\* Sums of subsets, up to a size: the recursion is well founded.
LEMMA SubsetSumExists ==
  ASSUME NEW S, IsFiniteSet(S), NEW w, \A x \in S : w[x] \in Int
  PROVE  \E h \in [SUBSET S -> Int] : IsSubsetSum(h, w, S)
<1> DEFINE UpTo(k) == {s \in SUBSET S : Cardinality(s) <= k}
           Adds(h, k) == \A s \in UpTo(k) :
              h[s] = IF s = {} THEN 0 ELSE w[Chosen(s)] + h[s \ {Chosen(s)}]
           Summed(k) == \E h \in [SUBSET S -> Int] : Adds(h, k)
           T == {k \in Nat : Summed(k)}
<1>1. \A s \in SUBSET S : IsFiniteSet(s) /\ Cardinality(s) \in Nat
  BY FS_Subset, FS_CardinalityType
<1>2. ASSUME NEW s \in SUBSET S, s # {}
      PROVE  /\ Chosen(s) \in S /\ s \ {Chosen(s)} \in SUBSET S
             /\ Cardinality(s \ {Chosen(s)}) = Cardinality(s) - 1
  BY <1>1, <1>2, ChosenIn, FS_RemoveElement
<1>3. Summed(0)
  <2> DEFINE zero == [s \in SUBSET S |-> 0]
  <2>1. zero \in [SUBSET S -> Int]
    OBVIOUS
  <2>2. ASSUME NEW s \in UpTo(0) PROVE s = {}
    BY <1>1, FS_EmptySet
  <2>3. Adds(zero, 0)
    BY <2>2
  <2> QED BY <2>1, <2>3
<1>4. ASSUME NEW k \in Nat, Summed(k) PROVE Summed(k + 1)
  <2>1. PICK h \in [SUBSET S -> Int] : Adds(h, k)
    BY <1>4
  <2> DEFINE more(s) == IF Cardinality(s) <= k THEN h[s] ELSE w[Chosen(s)] + h[s \ {Chosen(s)}]
             g == [s \in SUBSET S |-> IF s = {} THEN 0 ELSE more(s)]
  <2>2. g \in [SUBSET S -> Int]
    <3>1. ASSUME NEW s \in SUBSET S, s # {} PROVE more(s) \in Int
      BY <1>2, <3>1
    <3> HIDE DEF more
    <3> QED BY <3>1
  <2>3. ASSUME NEW s \in UpTo(k) PROVE g[s] = h[s]
    BY <2>1, <2>3
  <2>4. ASSUME NEW s \in UpTo(k + 1)
        PROVE  g[s] = IF s = {} THEN 0 ELSE w[Chosen(s)] + g[s \ {Chosen(s)}]
    <3>1. CASE s = {}
      BY <3>1
    <3>2. CASE s # {}
      <4>1. s \ {Chosen(s)} \in UpTo(k)
        BY <1>1, <1>2, <3>2
      <4>2. g[s \ {Chosen(s)}] = h[s \ {Chosen(s)}]
        BY <2>3, <4>1
      <4>3. g[s] = w[Chosen(s)] + h[s \ {Chosen(s)}]
        <5>1. CASE Cardinality(s) <= k
          BY <2>1, <3>2, <5>1
        <5>2. CASE ~ (Cardinality(s) <= k)
          BY <3>2, <5>2
        <5> QED BY <5>1, <5>2
      <4> HIDE DEF g
      <4> QED BY <3>2, <4>2, <4>3
    <3> QED BY <3>1, <3>2
  <2>5. Adds(g, k + 1)
    <3> HIDE DEF g, UpTo
    <3> QED BY <2>4
  <2> HIDE DEF g, Adds
  <2> QED BY <2>2, <2>5
<1>5. T = Nat
  <2> HIDE DEF Summed
  <2>1. T \in SUBSET Nat /\ 0 \in T /\ \A k \in T : k + 1 \in T
    BY <1>3, <1>4
  <2> HIDE DEF T
  <2> QED BY <2>1, SetInduction
<1>6. Summed(Cardinality(S))
  <2> HIDE DEF Summed
  <2> QED BY <1>1, <1>5
<1>7. PICK h \in [SUBSET S -> Int] : Adds(h, Cardinality(S))
  BY <1>6
<1>8. \A s \in SUBSET S : s \in UpTo(Cardinality(S))
  BY FS_Subset
<1>9. \A s \in SUBSET S :
        h[s] = IF s = {} THEN 0 ELSE w[Chosen(s)] + h[s \ {Chosen(s)}]
  <2> HIDE DEF UpTo
  <2> QED BY <1>7, <1>8
<1> QED BY <1>9 DEF IsSubsetSum

LEMMA SubsetSumStep ==
  ASSUME NEW S, IsFiniteSet(S), NEW w, \A x \in S : w[x] \in Int
  PROVE  /\ SubsetSum(w, S)[{}] = 0
         /\ \A s \in SUBSET S : s # {} =>
              SubsetSum(w, S)[s] = w[Chosen(s)] + SubsetSum(w, S)[s \ {Chosen(s)}]
         /\ \A s \in SUBSET S : SubsetSum(w, S)[s] \in Int
<1> DEFINE h == SubsetSum(w, S)
           P == {s \in SUBSET S : h[s] \in Int}
<1>1. h = [s \in SUBSET S |-> IF s = {} THEN 0 ELSE w[Chosen(s)] + h[s \ {Chosen(s)}]]
  <2>1. \E g : IsSubsetSum(g, w, S)
    BY SubsetSumExists
  <2>2. IsSubsetSum(h, w, S)
    BY <2>1 DEF SubsetSum
  <2> HIDE DEF h
  <2> QED BY <2>2 DEF IsSubsetSum
<1> HIDE DEF h
<1>2. /\ h[{}] = 0
      /\ \A s \in SUBSET S : s # {} => h[s] = w[Chosen(s)] + h[s \ {Chosen(s)}]
  BY <1>1
<1>3. ASSUME NEW s \in SUBSET S, \A t \in SUBSET s : t # s => t \in P PROVE s \in P
  <2>1. CASE s = {}
    BY <1>2, <2>1
  <2>2. CASE s # {}
    <3>1. Chosen(s) \in s
      BY <2>2, ChosenIn
    <3>2. h[s \ {Chosen(s)}] \in Int /\ w[Chosen(s)] \in Int
      BY <1>3, <3>1
    <3> QED BY <1>2, <2>2, <3>2
  <2> QED BY <2>1, <2>2
<1>4. SUBSET S \subseteq P
  <2> HIDE DEF P
  <2> QED BY <1>3, SubsetInduction
<1> QED BY <1>2, <1>4 DEF h

\* The sum of a subset does not depend on the set it is taken within.
LEMMA SubsetSumWithin ==
  ASSUME NEW S, IsFiniteSet(S), NEW w, \A x \in S : w[x] \in Int, NEW R \in SUBSET S,
         NEW v, \A x \in R : v[x] = w[x]
  PROVE  SubsetSum(v, R)[R] = SubsetSum(w, S)[R]
<1> DEFINE h == SubsetSum(w, S)
           g == SubsetSum(v, R)
           P == {s \in SUBSET R : g[s] = h[s]}
<1>1. IsFiniteSet(R)
  BY FS_Subset
<1>2. h[{}] = 0 /\ \A s \in SUBSET S : s # {} => h[s] = w[Chosen(s)] + h[s \ {Chosen(s)}]
  BY SubsetSumStep
<1>3. g[{}] = 0 /\ \A s \in SUBSET R : s # {} => g[s] = v[Chosen(s)] + g[s \ {Chosen(s)}]
  BY <1>1, SubsetSumStep
<1> HIDE DEF h, g
<1>4. ASSUME NEW s \in SUBSET R, \A t \in SUBSET s : t # s => t \in P PROVE s \in P
  <2>1. CASE s = {}
    BY <1>2, <1>3, <2>1
  <2>2. CASE s # {}
    <3>1. Chosen(s) \in s
      BY <2>2, ChosenIn
    <3>2. g[s \ {Chosen(s)}] = h[s \ {Chosen(s)}] /\ v[Chosen(s)] = w[Chosen(s)]
      BY <1>4, <3>1
    <3>3. s \in SUBSET S
      OBVIOUS
    <3> QED BY <1>2, <1>3, <2>2, <3>2, <3>3
  <2> QED BY <2>1, <2>2
<1>5. SUBSET R \subseteq P
  <2> HIDE DEF P
  <2> QED BY <1>1, <1>4, SubsetInduction
<1> QED BY <1>5 DEF h, g

LEMMA SubsetSumRemove ==
  ASSUME NEW S, IsFiniteSet(S), NEW w, \A x \in S : w[x] \in Int
  PROVE  \A s \in SUBSET S : \A x \in s :
           SubsetSum(w, S)[s] = w[x] + SubsetSum(w, S)[s \ {x}]
<1> DEFINE h == SubsetSum(w, S)
           P == {s \in SUBSET S : \A x \in s : h[s] = w[x] + h[s \ {x}]}
<1>1. /\ h[{}] = 0
      /\ \A s \in SUBSET S : s # {} => h[s] = w[Chosen(s)] + h[s \ {Chosen(s)}]
      /\ \A s \in SUBSET S : h[s] \in Int
  BY SubsetSumStep
<1> HIDE DEF h
<1>2. ASSUME NEW s \in SUBSET S, \A t \in SUBSET s : t # s => t \in P PROVE s \in P
  <2>1. ASSUME NEW x \in s PROVE h[s] = w[x] + h[s \ {x}]
    <3>1. PICK c : c = Chosen(s)
      OBVIOUS
    <3>2. c \in s
      BY <2>1, <3>1, ChosenIn
    <3>3. CASE c = x
      BY <1>1, <2>1, <3>1, <3>3
    <3>4. CASE c # x
      <4>1. PICK r : r = (s \ {c}) \ {x} /\ r \in SUBSET S
        OBVIOUS
      <4>2. s \ {c} \in P /\ s \ {x} \in P
        BY <1>2, <2>1, <3>2
      <4>3. h[s \ {c}] = w[x] + h[r]
        BY <2>1, <3>4, <4>1, <4>2
      <4>4. (s \ {x}) \ {c} = r /\ c \in s \ {x}
        BY <3>2, <3>4, <4>1
      <4>5. h[s \ {x}] = w[c] + h[r]
        BY <4>2, <4>4
      <4>6. h[s] = w[c] + h[s \ {c}]
        BY <1>1, <2>1, <3>1
      <4>7. w[c] \in Int /\ w[x] \in Int /\ h[r] \in Int
        BY <1>1, <2>1, <3>2, <4>1
      <4> QED BY <4>3, <4>5, <4>6, <4>7
    <3> QED BY <3>3, <3>4
  <2> QED BY <2>1
<1>3. SUBSET S \subseteq P
  <2> HIDE DEF P
  <2> QED BY <1>2, SubsetInduction
<1> QED BY <1>3 DEF h

(***************************************************************************)
(* The sum over the empty set; with one element more; over a larger set.   *)
(***************************************************************************)
LEMMA SetSumEmpty == ASSUME NEW w PROVE SetSum(w, {}) = 0
<1>1. IsFiniteSet({}) /\ \A x \in {} : w[x] \in Int
  BY FS_EmptySet
<1>2. SubsetSum(w, {})[{}] = 0
  BY <1>1, SubsetSumStep
<1> QED BY <1>2, SetSumIsSubsetSum

LEMMA SetSumType ==
  ASSUME NEW S, IsFiniteSet(S), NEW w, \A x \in S : w[x] \in Int
  PROVE  SetSum(w, S) \in Int
BY SubsetSumStep, SetSumIsSubsetSum

LEMMA SetSumRemove ==
  ASSUME NEW S, IsFiniteSet(S), NEW w, \A x \in S : w[x] \in Int, NEW x \in S
  PROVE  SetSum(w, S) = w[x] + SetSum(w, S \ {x})
<1>1. S \ {x} \in SUBSET S
  OBVIOUS
<1>2. SubsetSum(w, S)[S] = w[x] + SubsetSum(w, S)[S \ {x}]
  BY SubsetSumRemove
<1>3. SubsetSum(w, S \ {x})[S \ {x}] = SubsetSum(w, S)[S \ {x}]
  BY <1>1, SubsetSumWithin
<1> QED BY <1>2, <1>3, SetSumIsSubsetSum

LEMMA SetSumAdd ==
  ASSUME NEW S, IsFiniteSet(S), NEW w, \A y \in S : w[y] \in Int,
         NEW x, x \notin S, w[x] \in Int
  PROVE  SetSum(w, S \cup {x}) = SetSum(w, S) + w[x]
<1>1. PICK T : T = S \cup {x}
  OBVIOUS
<1>2. IsFiniteSet(T) /\ x \in T /\ \A y \in T : w[y] \in Int
  BY <1>1, FS_AddElement
<1>3. T \ {x} = S
  BY <1>1
<1>4. SetSum(w, T) = w[x] + SetSum(w, T \ {x})
  BY <1>2, SetSumRemove
<1>5. SetSum(w, S) \in Int
  BY SetSumType
<1>6. SetSum(w, T) = w[x] + SetSum(w, S)
  BY <1>3, <1>4
<1>7. w[x] + SetSum(w, S) = SetSum(w, S) + w[x]
  BY <1>5
<1> QED BY <1>1, <1>6, <1>7

LEMMA SetSumSame ==
  ASSUME NEW S, IsFiniteSet(S), NEW w, NEW v,
         \A x \in S : w[x] \in Int /\ v[x] = w[x]
  PROVE  SetSum(v, S) = SetSum(w, S)
<1>1. SubsetSum(v, S)[S] = SubsetSum(w, S)[S]
  BY SubsetSumWithin
<1> QED BY <1>1, SetSumIsSubsetSum

LEMMA SetSumMonotone ==
  ASSUME NEW S, IsFiniteSet(S), NEW w, \A x \in S : w[x] \in Nat, NEW R \in SUBSET S
  PROVE  SetSum(w, R) <= SetSum(w, S)
<1> DEFINE P == {s \in SUBSET S : R \subseteq s => SetSum(w, R) <= SetSum(w, s)}
<1>1. ASSUME NEW s \in SUBSET S, \A t \in SUBSET s : t # s => t \in P PROVE s \in P
  <2> SUFFICES ASSUME R \subseteq s PROVE SetSum(w, R) <= SetSum(w, s)
    OBVIOUS
  <2>1. IsFiniteSet(s) /\ \A x \in s : w[x] \in Int
    BY FS_Subset
  <2>2. SetSum(w, s) \in Int
    BY <2>1, SetSumType
  <2>3. CASE R = s
    BY <2>2, <2>3
  <2>4. CASE R # s
    <3>1. PICK x \in s : x \notin R
      BY <2>4
    <3>2. PICK t : t = s \ {x} /\ t \in SUBSET S /\ R \subseteq t
      BY <3>1
    <3>3. SetSum(w, R) <= SetSum(w, t)
      BY <1>1, <3>1, <3>2
    <3>4. SetSum(w, s) = w[x] + SetSum(w, t)
      BY <2>1, <3>2, SetSumRemove
    <3>5. SetSum(w, t) \in Int /\ SetSum(w, R) \in Int
      <4>1. /\ IsFiniteSet(t) /\ \A y \in t : w[y] \in Int
            /\ IsFiniteSet(R) /\ \A y \in R : w[y] \in Int
        BY <3>2, FS_Subset
      <4> QED BY <4>1, SetSumType
    <3> QED BY <3>3, <3>4, <3>5
  <2> QED BY <2>3, <2>4
<1>2. SUBSET S \subseteq P
  <2> HIDE DEF P
  <2> QED BY <1>1, SubsetInduction
<1> QED BY <1>2

-----------------------------------------------------------------------------
\* The least of a set of numbers.
LEMMA LeastIn ==
  ASSUME NEW S \in SUBSET Nat, S # {}
  PROVE  Min(S) \in S /\ \A k \in S : Min(S) <= k
<1>1. PICK m \in S : \A k \in S : ~ (<<k, m>> \in OpToRel(<, Nat))
  BY NatLessThanWellFounded, WFMin
<1>2. ASSUME NEW k \in S PROVE m <= k
  <2>1. k \in Nat /\ m \in Nat /\ <<k, m>> \in Nat \X Nat
    OBVIOUS
  <2>2. ~(k < m)
    BY <1>1, <2>1 DEF OpToRel
  <2> QED BY <2>1, <2>2
<1>3. \E x \in S : \A y \in S : x =< y
  BY <1>2
<1> QED BY <1>3 DEF Min
=============================================================================
