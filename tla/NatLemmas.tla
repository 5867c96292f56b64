----------------------------- MODULE NatLemmas -----------------------------
(***************************************************************************)
(* Induction and arithmetic for the proofs of the other modules.  Sets and *)
(* functions are in the place of predicates and operators: a predicate is  *)
(* proved of all naturals as the set of those that satisfy it.             *)
(***************************************************************************)
EXTENDS Integers, FiniteSetTheorems, WellFoundedInduction, TLAPS

(* A set of naturals has a least element.                                  *)
LEMMA LeastNat ==
  ASSUME NEW S \in SUBSET Nat, S # {}
  PROVE  \E m \in S : \A n \in S : m <= n
<1>1. PICK m \in S : \A n \in S : <<n, m>> \notin OpToRel(<, Nat)
  BY NatLessThanWellFounded, WFMin
<1>2. \A n \in S : ~(n < m)
  BY <1>1 DEF OpToRel
<1> QED BY <1>2

(* A set with zero and the successors of its members has every natural.    *)
LEMMA SetInduction ==
  ASSUME NEW S, 0 \in S, \A n \in Nat : n \in S => n + 1 \in S
  PROVE  \A n \in Nat : n \in S
<1> DEFINE Rest == {n \in Nat : n \notin S}
<1> SUFFICES ASSUME Rest # {} PROVE FALSE
  OBVIOUS
<1>1. PICK m \in Rest : \A n \in Rest : m <= n
  BY LeastNat, Rest \in SUBSET Nat
<1>2. m \in Nat /\ m # 0 /\ m \notin S
  OBVIOUS
<1>3. m - 1 \in Nat /\ (m - 1) + 1 = m
  BY <1>2
<1>4. m - 1 \notin Rest
  BY <1>1, <1>3
<1>5. m - 1 \in S
  BY <1>3, <1>4
<1> QED BY <1>2, <1>3, <1>5

(* The functions on 0 .. n that start with start and go on by step.        *)
Recursions(V, start, n, step) ==
  {f \in [0 .. n -> V] : f[0] = start /\ \A k \in 1 .. n : f[k] = step[k][f[k - 1]]}

(* There is one, as a recursive definition needs.                          *)
LEMMA PrefixRecursion ==
  ASSUME NEW V, NEW start \in V, NEW n \in Nat, NEW step \in [1 .. n -> [V -> V]]
  PROVE  Recursions(V, start, n, step) # {}
<1> DEFINE Runs(f, m) == f[0] = start /\ \A k \in 1 .. m : f[k] = step[k][f[k - 1]]
           S == {m \in Nat : m <= n => \E f \in [0 .. m -> V] : Runs(f, m)}
<1>1. 0 \in S
  <2> DEFINE f == [k \in 0 .. 0 |-> start]
  <2>1. f \in [0 .. 0 -> V] /\ Runs(f, 0)
    OBVIOUS
  <2> QED BY <2>1
<1>2. ASSUME NEW m \in Nat, m \in S PROVE m + 1 \in S
  <2> SUFFICES ASSUME m + 1 <= n
               PROVE  \E f \in [0 .. m + 1 -> V] : Runs(f, m + 1)
    OBVIOUS
  <2>1. PICK f \in [0 .. m -> V] : Runs(f, m)
    BY <1>2
  <2>2. f[m] \in V /\ step[m + 1] \in [V -> V]
    OBVIOUS
  <2> DEFINE g == [k \in 0 .. m + 1 |-> IF k = m + 1 THEN step[m + 1][f[m]] ELSE f[k]]
  <2>3. g \in [0 .. m + 1 -> V]
    BY <2>2
  <2>4. g[m + 1] = step[m + 1][f[m]] /\ \A k \in 0 .. m : g[k] = f[k]
    OBVIOUS
  <2> HIDE DEF g
  <2>5. g[0] = start
    BY <2>1, <2>4
  <2>6. ASSUME NEW k \in 1 .. m + 1 PROVE g[k] = step[k][g[k - 1]]
    <3>1. CASE k = m + 1
      BY <2>4, <3>1
    <3>2. CASE k \in 1 .. m
      BY <2>1, <2>4, <3>2
    <3> QED BY <3>1, <3>2
  <2> QED BY <2>3, <2>5, <2>6
<1>3. n \in S
  <2> HIDE DEF S
  <2> QED BY <1>1, <1>2, SetInduction
<1>4. \E f \in [0 .. n -> V] : Runs(f, n)
  BY <1>3
<1> QED BY <1>4 DEF Recursions

(* In a finite set some member has the largest value.                      *)
LEMMA LargestValue ==
  ASSUME NEW S, IsFiniteSet(S), S # {}, NEW f \in [S -> Int]
  PROVE  \E m \in S : \A i \in S : f[i] <= f[m]
<1> DEFINE Has(T) == \E m \in T : \A i \in T : f[i] <= f[m]
           N == {n \in Nat : \A T \in SUBSET S : Cardinality(T) = n + 1 => Has(T)}
<1>1. \A T \in SUBSET S : IsFiniteSet(T) /\ Cardinality(T) \in Nat
  BY FS_Subset, FS_CardinalityType
<1>2. 0 \in N
  <2> SUFFICES ASSUME NEW T \in SUBSET S, Cardinality(T) = 1
               PROVE  Has(T)
    OBVIOUS
  <2>1. PICK m : T = {m}
    BY <1>1, FS_Singleton
  <2> QED BY <2>1
<1>3. ASSUME NEW n \in Nat, n \in N PROVE n + 1 \in N
  <2> SUFFICES ASSUME NEW T \in SUBSET S, Cardinality(T) = (n + 1) + 1
               PROVE  Has(T)
    OBVIOUS
  <2>1. PICK x \in T : TRUE
    BY FS_EmptySet
  <2>2. Cardinality(T \ {x}) = n + 1
    BY <1>1, <2>1, FS_RemoveElement
  <2>3. Has(T \ {x})
    BY <1>3, <2>2
  <2>4. PICK m \in T \ {x} : \A i \in T \ {x} : f[i] <= f[m]
    BY <2>3
  <2>5. CASE f[x] <= f[m]
    BY <2>4, <2>5
  <2>6. CASE ~(f[x] <= f[m])
    BY <2>4, <2>6
  <2> QED BY <2>5, <2>6
<1>4. \A n \in Nat : n \in N
  <2> HIDE DEF N
  <2> QED BY <1>2, <1>3, SetInduction
<1>5. Cardinality(S) \in Nat /\ Cardinality(S) # 0
  BY FS_CardinalityType, FS_EmptySet
<1>6. Cardinality(S) - 1 \in Nat /\ Cardinality(S) = (Cardinality(S) - 1) + 1
  BY <1>5
<1> QED BY <1>4, <1>6

(* A finite set can be enumerated in the order of its values.              *)
LEMMA SortedEnumeration ==
  ASSUME NEW S, IsFiniteSet(S), NEW f \in [S -> Int]
  PROVE  \E b \in [1 .. Cardinality(S) -> S] :
           \A k \in 1 .. Cardinality(S) : \A j \in 1 .. k - 1 :
             b[j] # b[k] /\ f[b[j]] <= f[b[k]]
<1> DEFINE Sorts(b, n) == \A k \in 1 .. n : \A j \in 1 .. k - 1 :
                            b[j] # b[k] /\ f[b[j]] <= f[b[k]]
           N == {n \in Nat : \A T \in SUBSET S : Cardinality(T) = n =>
                   \E b \in [1 .. n -> T] : Sorts(b, n)}
<1>1. \A T \in SUBSET S : IsFiniteSet(T) /\ Cardinality(T) \in Nat
  BY FS_Subset, FS_CardinalityType
<1>2. 0 \in N
  <2> SUFFICES ASSUME NEW T \in SUBSET S
               PROVE  \E b \in [1 .. 0 -> T] : Sorts(b, 0)
    OBVIOUS
  <2> DEFINE b == [k \in 1 .. 0 |-> k]
  <2>1. b \in [1 .. 0 -> T] /\ Sorts(b, 0)
    OBVIOUS
  <2> QED BY <2>1
<1>3. ASSUME NEW n \in Nat, n \in N PROVE n + 1 \in N
  <2> SUFFICES ASSUME NEW T \in SUBSET S, Cardinality(T) = n + 1
               PROVE  \E b \in [1 .. n + 1 -> T] : Sorts(b, n + 1)
    OBVIOUS
  <2>1. T # {} /\ IsFiniteSet(T)
    BY <1>1, FS_EmptySet
  <2>2. [i \in T |-> f[i]] \in [T -> Int]
    OBVIOUS
  <2>3. PICK m \in T : \A i \in T : f[i] <= f[m]
    BY <2>1, <2>2, LargestValue
  <2>4. Cardinality(T \ {m}) = n
    <3>1. Cardinality(T \ {m}) = Cardinality(T) - 1
      BY <2>1, FS_RemoveElement
    <3> QED BY <3>1
  <2>5. PICK b \in [1 .. n -> T \ {m}] : Sorts(b, n)
    BY <1>3, <2>4
  <2> DEFINE c == [k \in 1 .. n + 1 |-> IF k = n + 1 THEN m ELSE b[k]]
  <2>6. c \in [1 .. n + 1 -> T]
    OBVIOUS
  <2>7. c[n + 1] = m /\ \A k \in 1 .. n : c[k] = b[k] /\ b[k] \in T \ {m}
    OBVIOUS
  <2> HIDE DEF c
  <2>8. ASSUME NEW k \in 1 .. n + 1, NEW j \in 1 .. k - 1
        PROVE  c[j] # c[k] /\ f[c[j]] <= f[c[k]]
    <3>1. j \in 1 .. n
      OBVIOUS
    <3>2. CASE k = n + 1
      BY <2>3, <2>7, <3>1, <3>2
    <3>3. CASE k \in 1 .. n
      BY <2>5, <2>7, <3>1, <3>3
    <3> QED BY <3>2, <3>3
  <2> QED BY <2>6, <2>8
<1>4. \A n \in Nat : n \in N
  <2> HIDE DEF N
  <2> QED BY <1>2, <1>3, SetInduction
<1> QED BY <1>1, <1>4

-----------------------------------------------------------------------------
(* Multiplying keeps the order.                                            *)
LEMMA Monotone ==
  ASSUME NEW s \in Nat, NEW a \in Nat, NEW b \in Nat, a <= b
  PROVE  s * a <= s * b
<1>1. PICK c \in Nat : b = a + c
  <2>1. b - a \in Nat /\ b = a + (b - a)
    OBVIOUS
  <2> QED BY <2>1
<1>2. s * b = s * a + s * c
  BY <1>1
<1>3. s * c \in Nat /\ s * a \in Nat
  OBVIOUS
<1> QED BY <1>2, <1>3

=============================================================================
