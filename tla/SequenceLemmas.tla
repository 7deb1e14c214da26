--------------------------- MODULE SequenceLemmas ---------------------------
(***************************************************************************)
(* What the proofs of several components need of numbers, folds and orders: *)
(* a set of naturals has a least element, a fold over a sequence takes one *)
(* step per element, and a finite set can be put in order.                 *)
(***************************************************************************)
EXTENDS Ordering, SequencesExt, FiniteSetTheorems, FunctionTheorems,
        WellFoundedInduction, TLAPS

(* Every nonempty set of naturals has a least element. *)
LEMMA LeastNatural ==
    ASSUME NEW T \in SUBSET Nat, T # {}
    PROVE  \E n \in T : \A m \in T : n <= m
<1> DEFINE R == OpToRel(<, Nat)
<1>1. IsWellFoundedOn(R, Nat)
  BY NatLessThanWellFounded
<1>2. \A a, b \in Nat : a < b => <<a, b>> \in R
  BY DEF OpToRel
<1> HIDE DEF R
<1>3. PICK n \in T : \A m \in T : ~(<<m, n>> \in R)
  BY <1>1, WFMin
<1>4. ASSUME NEW m \in T PROVE n <= m
  <2>1. m \in Nat /\ n \in Nat /\ ~(m < n)
    BY <1>2, <1>3
  <2> QED
    BY <2>1
<1> QED
  BY <1>4

(* Counting up: what holds of 0 and goes on holding, holds up to n.  The   *)
(* property is given as the set of the numbers that have it.               *)
LEMMA CountUp ==
    ASSUME NEW n \in Nat, NEW G, 0 \in G,
           \A i \in 0 .. n - 1 : i \in G => i + 1 \in G
    PROVE  \A i \in 0 .. n : i \in G
<1> DEFINE T == {i \in Nat : i <= n /\ i \notin G}
<1>1. SUFFICES ASSUME T # {} PROVE FALSE
  OBVIOUS
<1>2. PICK m \in T : \A k \in T : m <= k
  <2>1. T \subseteq Nat
    OBVIOUS
  <2> HIDE DEF T
  <2> QED
    BY <1>1, <2>1, LeastNatural
<1>3. m \in Nat /\ m <= n /\ m \notin G
  BY <1>2
<1>4. m # 0
  BY <1>3
<1>5. m - 1 \in 0 .. n - 1 /\ m - 1 \notin T
  BY <1>2, <1>3, <1>4
<1>6. m - 1 \in G
  BY <1>5
<1> QED
  BY <1>3, <1>5, <1>6

-----------------------------------------------------------------------------
(* Folds *)

(* The greatest of some of the numbers from 1 to n. *)
LEMMA MaxIsGreatest ==
    ASSUME NEW n \in Nat, NEW s \in SUBSET (1 .. n), s # {}
    PROVE  Max(s) \in s /\ \A x \in s : Max(s) >= x
<1> DEFINE T == {k \in Nat : n - k \in s}
<1>1. T # {}
  <2>1. PICK x \in s : TRUE
    OBVIOUS
  <2>2. n - x \in Nat /\ n - (n - x) = x
    OBVIOUS
  <2> QED
    BY <2>1, <2>2
<1>2. PICK k \in T : \A m \in T : k <= m
  <2>1. T \subseteq Nat
    OBVIOUS
  <2> HIDE DEF T
  <2> QED
    BY <1>1, <2>1, LeastNatural
<1>3. n - k \in s
  BY <1>2
<1>4. ASSUME NEW x \in s PROVE n - k >= x
  <2>1. n - x \in Nat /\ n - (n - x) = x
    OBVIOUS
  <2>2. n - x \in T
    BY <2>1
  <2> QED
    BY <1>2, <2>2
<1> QED
  BY <1>3, <1>4 DEF Max

LEMMA MaxIsLast ==
    ASSUME NEW n \in Nat, NEW s \in SUBSET (1 .. n), n \in s
    PROVE  Max(s) = n
<1>1. Max(s) \in 1 .. n /\ Max(s) >= n
  BY MaxIsGreatest
<1> QED
  BY <1>1

(* A fold whose steps are functions: F[i] is applied at place i. *)
FoldStep(g, F, base, s) == IF s = {} THEN base ELSE F[Max(s)][g[s \ {Max(s)}]]
IsFold(g, F, base, n) == g = [s \in SUBSET (1 .. n) |-> FoldStep(g, F, base, s)]

(* Steps that stay in a set A have a fold, and it stays in A. *)
LEMMA FoldExists ==
    ASSUME NEW A, NEW base \in A, NEW n \in Nat, NEW F, \A i \in 1 .. n : F[i] \in [A -> A]
    PROVE  \E g : IsFold(g, F, base, n) /\ \A s \in SUBSET (1 .. n) : g[s] \in A
<1> DEFINE E(m) == \E g : IsFold(g, F, base, m) /\ \A s \in SUBSET (1 .. m) : g[s] \in A
           G == {m \in 0 .. n : E(m)}
<1>1. 0 \in G
  <2>1. PICK g : g = [s \in SUBSET (1 .. 0) |-> base]
    OBVIOUS
  <2>2. \A s \in SUBSET (1 .. 0) : s = {}
    OBVIOUS
  <2>3. IsFold(g, F, base, 0)
    BY <2>1, <2>2 DEF IsFold, FoldStep
  <2>4. \A s \in SUBSET (1 .. 0) : g[s] \in A
    BY <2>1
  <2>5. E(0)
    BY <2>3, <2>4
  <2> HIDE DEF E
  <2> QED
    BY <2>5
<1>2. ASSUME NEW m \in 0 .. n - 1, m \in G PROVE m + 1 \in G
  <2>1. m \in Nat /\ m + 1 \in 0 .. n /\ m + 1 \in 1 .. n /\ m + 1 \in Nat
    OBVIOUS
  <2>2. PICK g : IsFold(g, F, base, m) /\ \A s \in SUBSET (1 .. m) : g[s] \in A
    BY <1>2
  <2>3. PICK f : f = [s \in SUBSET (1 .. m + 1) |->
                        IF m + 1 \in s THEN F[m + 1][g[s \ {m + 1}]] ELSE g[s]]
    OBVIOUS
  <2>4. ASSUME NEW s \in SUBSET (1 .. m) PROVE s \in SUBSET (1 .. m + 1) /\ f[s] = g[s]
    <3>1. s \in SUBSET (1 .. m + 1) /\ m + 1 \notin s
      BY <2>1
    <3> QED
      BY <2>3, <3>1
  <2>5. ASSUME NEW s \in SUBSET (1 .. m + 1)
        PROVE  f[s] = FoldStep(f, F, base, s) /\ f[s] \in A
    <3>1. CASE m + 1 \in s
      <4>1. Max(s) = m + 1 /\ s # {}
        BY <2>1, <3>1, MaxIsLast
      <4>2. s \ {m + 1} \in SUBSET (1 .. m)
        BY <2>1
      <4>3. f[s] = F[m + 1][g[s \ {m + 1}]]
        BY <2>3, <3>1
      <4>4. f[s \ {m + 1}] = g[s \ {m + 1}] /\ g[s \ {m + 1}] \in A
        BY <2>2, <2>4, <4>2
      <4>5. F[m + 1] \in [A -> A]
        BY <2>1
      <4> QED
        BY <4>1, <4>3, <4>4, <4>5 DEF FoldStep
    <3>2. CASE m + 1 \notin s
      <4>1. s \in SUBSET (1 .. m)
        BY <2>1, <3>2
      <4>2. f[s] = g[s] /\ g[s] \in A /\ g[s] = FoldStep(g, F, base, s)
        BY <2>2, <2>4, <4>1 DEF IsFold
      <4>3. s \ {Max(s)} \in SUBSET (1 .. m)
        BY <4>1
      <4>4. f[s \ {Max(s)}] = g[s \ {Max(s)}]
        BY <2>4, <4>3
      <4> QED
        BY <4>2, <4>4 DEF FoldStep
    <3> QED
      BY <3>1, <3>2
  <2>6. f = [s \in SUBSET (1 .. m + 1) |-> f[s]]
    BY <2>3
  <2>7. IsFold(f, F, base, m + 1)
    BY <2>5, <2>6 DEF IsFold
  <2> QED
    BY <2>1, <2>5, <2>7
<1> HIDE DEF E
<1>3. n \in G
  <2> HIDE DEF G
  <2>1. \A i \in 0 .. n : i \in G
    BY <1>1, <1>2, CountUp
  <2> QED
    BY <2>1
<1>4. E(n)
  BY <1>3
<1> QED
  BY <1>4 DEF E

(* A fold takes the places one after the other. *)
LEMMA PlacesInTurn ==
    ASSUME NEW i \in Nat
    PROVE  /\ 1 .. 0 = {}
           /\ 1 .. i + 1 # {} /\ Max(1 .. i + 1) = i + 1
           /\ (1 .. i + 1) \ {i + 1} = 1 .. i
<1>1. i + 1 \in Nat /\ i + 1 \in 1 .. i + 1
  OBVIOUS
<1>2. Max(1 .. i + 1) = i + 1
  BY <1>1, MaxIsLast
<1>3. \A k : k \in (1 .. i + 1) \ {i + 1} <=> k \in 1 .. i
  OBVIOUS
<1>4. (1 .. i + 1) \ {i + 1} = 1 .. i
  BY <1>3, Zenon
<1>5. 1 .. 0 = {}
  OBVIOUS
<1>6. 1 .. i + 1 # {}
  BY <1>1
<1> QED
  BY <1>2, <1>4, <1>5, <1>6

(* Whatever function goes the way of these steps, goes it place by place. *)
FoldsOver(iter, F, base, A, n) ==
    /\ iter[{}] = base
    /\ \A s \in SUBSET (1 .. n) : s # {} /\ iter[s \ {Max(s)}] \in A =>
          iter[s] = F[Max(s)][iter[s \ {Max(s)}]]
IsRun(h, F, base, A, n) ==
    /\ h[0] = base
    /\ \A i \in 1 .. n : h[i] = F[i][h[i - 1]]
    /\ \A i \in 0 .. n : h[i] \in A

LEMMA FoldUnwinds ==
    ASSUME NEW A, NEW base, NEW n, NEW F, NEW iter,
           base \in A, n \in Nat, \A i \in 1 .. n : F[i] \in [A -> A],
           FoldsOver(iter, F, base, A, n)
    PROVE  \E h : IsRun(h, F, base, A, n) /\ iter[1 .. n] = h[n]
<1> USE DEF FoldsOver
<1>1. PICK h : h = [i \in 0 .. n |-> iter[1 .. i]]
  OBVIOUS
<1>2. h[0] = base
  <2>1. 1 .. 0 = {} /\ 0 \in 0 .. n
    OBVIOUS
  <2> QED
    BY <1>1, <2>1
<1>3. ASSUME NEW i \in 1 .. n, h[i - 1] \in A
      PROVE  h[i] = F[i][h[i - 1]] /\ h[i] \in A
  <2>1. i - 1 \in Nat /\ (i - 1) + 1 = i
    OBVIOUS
  <2>2. 1 .. i # {} /\ Max(1 .. i) = i /\ (1 .. i) \ {i} = 1 .. i - 1
    BY <2>1, PlacesInTurn
  <2>3. 1 .. i \in SUBSET (1 .. n)
    OBVIOUS
  <2>4. i \in 0 .. n /\ i - 1 \in 0 .. n
    OBVIOUS
  <2>5. h[i] = iter[1 .. i] /\ h[i - 1] = iter[1 .. i - 1]
    BY <1>1, <2>4
  <2>6. iter[1 .. i] = F[i][iter[1 .. i - 1]]
    BY <1>3, <2>2, <2>3, <2>5
  <2>7. F[i] \in [A -> A]
    OBVIOUS
  <2> QED
    BY <1>3, <2>5, <2>6, <2>7
<1>4. \A i \in 0 .. n : h[i] \in A
  <2> DEFINE G == {i \in 0 .. n : h[i] \in A}
  <2>1. 0 \in G
    BY <1>2
  <2>2. ASSUME NEW i \in 0 .. n - 1, i \in G PROVE i + 1 \in G
    <3>1. i + 1 \in 1 .. n /\ (i + 1) - 1 = i
      OBVIOUS
    <3> QED
      BY <1>3, <2>2, <3>1
  <2> HIDE DEF G
  <2>3. \A i \in 0 .. n : i \in G
    BY <2>1, <2>2, CountUp
  <2> QED
    BY <2>3 DEF G
<1>5. \A i \in 1 .. n : h[i] = F[i][h[i - 1]]
  <2>1. \A i \in 1 .. n : i - 1 \in 0 .. n
    OBVIOUS
  <2> QED
    BY <1>3, <1>4, <2>1
<1>6. iter[1 .. n] = h[n]
  BY <1>1
<1> QED
  BY <1>2, <1>4, <1>5, <1>6 DEF IsRun

-----------------------------------------------------------------------------
(* Orders *)

(* A relation that tells any two elements of S apart. *)
IsStrictOrder(R, S) ==
    /\ \A x \in S : <<x, x>> \notin R
    /\ \A x, y, z \in S : <<x, y>> \in R /\ <<y, z>> \in R => <<x, z>> \in R
    /\ \A x, y \in S : x # y => <<x, y>> \in R \/ <<y, x>> \in R

Below(R, S, x) == {y \in S : <<y, x>> \in R}
Rank(R, S, x) == Cardinality(Below(R, S, x))

(* Of two elements the earlier one has the smaller rank. *)
LEMMA RanksGrow ==
    ASSUME NEW S, IsFiniteSet(S), NEW R, IsStrictOrder(R, S),
           NEW x \in S, NEW y \in S, <<x, y>> \in R
    PROVE  Rank(R, S, x) < Rank(R, S, y)
<1>1. /\ IsFiniteSet(Below(R, S, x)) /\ Cardinality(Below(R, S, x)) \in Nat
      /\ IsFiniteSet(Below(R, S, y)) /\ Cardinality(Below(R, S, y)) \in Nat
  BY FS_Subset, FS_CardinalityType DEF Below
<1>2. Below(R, S, x) \cup {x} \subseteq Below(R, S, y) /\ x \notin Below(R, S, x)
  BY DEF IsStrictOrder, Below
<1>3. Cardinality(Below(R, S, x) \cup {x}) = Cardinality(Below(R, S, x)) + 1
  BY <1>1, <1>2, FS_AddElement
<1>4. Cardinality(Below(R, S, x) \cup {x}) <= Cardinality(Below(R, S, y))
  BY <1>1, <1>2, FS_Subset
<1> QED
  BY <1>1, <1>3, <1>4 DEF Rank

LEMMA RanksAreBelowTheNumber ==
    ASSUME NEW S, IsFiniteSet(S), NEW R, IsStrictOrder(R, S), NEW x \in S
    PROVE  Rank(R, S, x) \in 0 .. Cardinality(S) - 1
<1>1. Below(R, S, x) \in SUBSET (S \ {x})
  BY DEF IsStrictOrder, Below
<1>2. IsFiniteSet(S \ {x}) /\ Cardinality(S \ {x}) = Cardinality(S) - 1
  BY FS_RemoveElement
<1>3. Cardinality(Below(R, S, x)) <= Cardinality(S \ {x})
  BY <1>1, <1>2, FS_Subset
<1>4. Cardinality(Below(R, S, x)) \in Nat /\ Cardinality(S) \in Nat
  BY <1>1, <1>2, FS_Subset, FS_CardinalityType
<1> QED
  BY <1>2, <1>3, <1>4 DEF Rank

(* Every rank up to the number of elements is that of some element. *)
LEMMA RanksAreTaken ==
    ASSUME NEW S, IsFiniteSet(S), NEW R, IsStrictOrder(R, S), NEW i \in 1 .. Cardinality(S)
    PROVE  \E x \in S : Rank(R, S, x) = i - 1
<1> DEFINE T == 0 .. Cardinality(S) - 1
           f == [x \in S |-> Rank(R, S, x)]
<1>1. Cardinality(S) \in Nat
  BY FS_CardinalityType
<1>2. IsFiniteSet(T) /\ Cardinality(T) = Cardinality(S)
  <2>1. PICK n \in Nat : n = Cardinality(S)
    BY <1>1
  <2>2. n - 1 \in Int /\ 0 \in Int
    OBVIOUS
  <2>3. IsFiniteSet(0 .. n - 1) /\ Cardinality(0 .. n - 1) = IF 0 > n - 1 THEN 0 ELSE n - 1 - 0 + 1
    BY <2>2, FS_Interval
  <2>4. (IF 0 > n - 1 THEN 0 ELSE n - 1 - 0 + 1) = n
    OBVIOUS
  <2> QED
    BY <2>1, <2>3, <2>4
<1>3. f \in [S -> T]
  BY RanksAreBelowTheNumber
<1>4. ASSUME NEW x \in S, NEW y \in S, f[x] = f[y] PROVE x = y
  <2>1. \A a, b \in S : <<a, b>> \in R => Rank(R, S, a) < Rank(R, S, b)
    BY RanksGrow
  <2>2. Rank(R, S, x) = Rank(R, S, y) /\ Rank(R, S, x) \in Int
    BY <1>4, RanksAreBelowTheNumber
  <2>3. <<x, y>> \notin R /\ <<y, x>> \notin R
    BY <2>1, <2>2
  <2> QED
    BY <2>3 DEF IsStrictOrder
<1>5. f \in Injection(S, T)
  BY <1>3, <1>4, Fun_IsInj
<1>6. f \in Surjection(S, T)
  BY <1>2, <1>5, FS_Injection
<1>7. i - 1 \in T
  BY <1>1
<1>8. \E x \in S : f[x] = i - 1
  <2> HIDE DEF f, T
  <2> QED
    BY <1>6, <1>7, Fun_SurjectionProperties
<1> QED
  BY <1>8

(* So a finite set can be put in order: every element once, each before the *)
(* elements that are to come after it.  InOrder has the element of a rank    *)
(* at the place of that rank.                                              *)
IsInOrder(q, R, S) ==
    /\ q \in [1 .. Cardinality(S) -> S]
    /\ \A x \in S : \E i \in 1 .. Cardinality(S) : q[i] = x
    /\ \A i, j \in 1 .. Cardinality(S) : i < j => <<q[i], q[j]>> \in R

LEMMA OrderIsReached ==
    ASSUME NEW S, IsFiniteSet(S), NEW R, IsStrictOrder(R, S),
           NEW q, q = [i \in 1 .. Cardinality(S) |-> q[i]],
           \A i \in 1 .. Cardinality(S) : \A x \in S :
              Rank(R, S, x) = i - 1 => q[i] \in S /\ Rank(R, S, q[i]) = i - 1
    PROVE  IsInOrder(q, R, S)
<1> DEFINE n == Cardinality(S)
<1>1. n \in Nat
  BY FS_CardinalityType
<1>2. \A i \in 1 .. n : q[i] \in S /\ Rank(R, S, q[i]) = i - 1
  BY RanksAreTaken
<1>3. \A x, y \in S : <<x, y>> \in R => Rank(R, S, x) < Rank(R, S, y)
  BY RanksGrow
<1>4. \A x \in S : Rank(R, S, x) \in 0 .. n - 1
  BY RanksAreBelowTheNumber
<1>5. ASSUME NEW x \in S, NEW y \in S, Rank(R, S, x) <= Rank(R, S, y), x # y
      PROVE  <<x, y>> \in R
  <2>1. Rank(R, S, x) \in Int /\ Rank(R, S, y) \in Int
    BY <1>4
  <2>2. ~(<<y, x>> \in R)
    BY <1>3, <1>5, <2>1
  <2> QED
    BY <1>5, <2>2 DEF IsStrictOrder
<1>6. q \in [1 .. n -> S]
  BY <1>2
<1>7. ASSUME NEW x \in S PROVE \E i \in 1 .. n : q[i] = x
  <2> DEFINE i == Rank(R, S, x) + 1
  <2>1. i \in 1 .. n /\ i - 1 = Rank(R, S, x)
    BY <1>1, <1>4
  <2>2. q[i] \in S /\ Rank(R, S, q[i]) = Rank(R, S, x)
    BY <1>2, <2>1
  <2>3. Rank(R, S, x) \in Int
    BY <1>4
  <2>4. q[i] = x
    <3> SUFFICES ASSUME q[i] # x PROVE FALSE
      OBVIOUS
    <3>1. <<q[i], x>> \in R
      BY <1>5, <2>2, <2>3
    <3>2. PICK y \in S : y = q[i]
      BY <2>2
    <3>3. Rank(R, S, y) < Rank(R, S, x) /\ Rank(R, S, y) = Rank(R, S, x)
      BY <1>3, <2>2, <3>1, <3>2
    <3> QED
      BY <2>3, <3>3
  <2> QED
    BY <2>1, <2>4
<1>8. ASSUME NEW i \in 1 .. n, NEW j \in 1 .. n, i < j PROVE <<q[i], q[j]>> \in R
  <2>1. Rank(R, S, q[i]) = i - 1 /\ Rank(R, S, q[j]) = j - 1 /\ q[i] \in S /\ q[j] \in S
    BY <1>2
  <2>2. i - 1 <= j - 1 /\ i - 1 # j - 1
    BY <1>1, <1>8
  <2>3. q[i] # q[j]
    BY <2>1, <2>2
  <2> QED
    BY <1>5, <2>1, <2>2, <2>3
<1> QED
  BY <1>6, <1>7, <1>8 DEF IsInOrder

(* There is one order of a set. *)
LEMMA OrderIsUnique ==
    ASSUME NEW S, IsFiniteSet(S), NEW R, IsStrictOrder(R, S), NEW q, IsInOrder(q, R, S),
           NEW r, IsInOrder(r, R, S)
    PROVE  q = r
<1> DEFINE n == Cardinality(S)
           T == {i \in 1 .. n : q[i] # r[i]}
<1>1. n \in Nat
  BY FS_CardinalityType
<1>2. q \in [1 .. n -> S] /\ r \in [1 .. n -> S]
  BY DEF IsInOrder
<1>3. ASSUME NEW i \in T, \A j \in T : i <= j PROVE FALSE
  <2>1. i \in 1 .. n /\ q[i] \in S /\ r[i] \in S
    BY <1>2
  <2>2. PICK j \in 1 .. n : r[j] = q[i]
    BY <2>1 DEF IsInOrder
  <2>3. PICK k \in 1 .. n : q[k] = r[i]
    BY <2>1 DEF IsInOrder
  <2>4. \A a, b \in 1 .. n : (a < b => <<q[a], q[b]>> \in R /\ <<r[a], r[b]>> \in R)
    BY DEF IsInOrder
  <2>5. q[i] # r[i]
    BY <1>3
  <2>6. ~(j < i)
    <3> SUFFICES ASSUME j < i PROVE FALSE
      OBVIOUS
    <3>1. j \notin T
      BY <1>1, <1>3
    <3>2. q[j] = q[i] /\ <<q[j], q[i]>> \in R
      BY <2>1, <2>2, <2>4, <3>1
    <3> QED
      BY <2>1, <3>2 DEF IsStrictOrder
  <2>7. ~(k < i)
    <3> SUFFICES ASSUME k < i PROVE FALSE
      OBVIOUS
    <3>1. k \notin T
      BY <1>1, <1>3
    <3>2. r[k] = r[i] /\ <<r[k], r[i]>> \in R
      BY <2>1, <2>3, <2>4, <3>1
    <3> QED
      BY <2>1, <3>2 DEF IsStrictOrder
  <2>8. i < j /\ i < k
    BY <1>1, <2>1, <2>2, <2>3, <2>5, <2>6, <2>7
  <2>9. <<r[i], q[i]>> \in R /\ <<q[i], r[i]>> \in R
    BY <2>1, <2>2, <2>3, <2>4, <2>8
  <2> QED
    BY <2>1, <2>9 DEF IsStrictOrder
<1>4. T = {}
  <2> SUFFICES ASSUME T # {} PROVE FALSE
    OBVIOUS
  <2>1. T \in SUBSET Nat
    BY <1>1
  <2> HIDE DEF T
  <2>2. PICK i \in T : \A j \in T : i <= j
    BY <2>1, LeastNatural
  <2> QED
    BY <1>3, <2>2
<1>5. \A i \in 1 .. n : q[i] = r[i]
  BY <1>4
<1> HIDE DEF n, T
<1>6. q = [i \in 1 .. n |-> q[i]] /\ r = [i \in 1 .. n |-> r[i]]
  BY <1>2
<1>7. [i \in 1 .. n |-> q[i]] = [i \in 1 .. n |-> r[i]]
  BY <1>5
<1> QED
  BY <1>6, <1>7

(* Two sets in order, the second behind the first. *)
LEMMA OrdersJoin ==
    ASSUME NEW A, IsFiniteSet(A), NEW B, IsFiniteSet(B), NEW R,
           \A x \in A, y \in B : <<x, y>> \in R /\ x # y,
           NEW q, IsInOrder(q, R, A), NEW r, IsInOrder(r, R, B)
    PROVE  IsFiniteSet(A \cup B) /\ IsInOrder(q \o r, R, A \cup B)
<1> DEFINE m == Cardinality(A)
           n == Cardinality(B)
           S == A \cup B
<1>1. m \in Nat /\ n \in Nat
  BY FS_CardinalityType
<1>2. IsFiniteSet(S) /\ Cardinality(S) = m + n
  <2>1. A \cap B = {}
    OBVIOUS
  <2>2. Cardinality({}) = 0
    BY FS_EmptySet
  <2>3. IsFiniteSet(A \cup B)
        /\ Cardinality(A \cup B) = Cardinality(A) + Cardinality(B) - Cardinality(A \cap B)
    BY FS_Union
  <2>4. Cardinality(A \cap B) = 0
    BY <2>1, <2>2
  <2> QED
    BY <1>1, <2>3, <2>4
<1>3. q \in [1 .. m -> A] /\ r \in [1 .. n -> B]
  BY DEF IsInOrder
<1>4. q \in Seq(A) /\ Len(q) = m /\ r \in Seq(B) /\ Len(r) = n
  BY <1>1, <1>3
<1> HIDE DEF m, n, S
<1> DEFINE t == q \o r
<1>5. /\ t = [i \in 1 .. m + n |-> t[i]]
      /\ \A i \in 1 .. m + n : t[i] = IF i <= m THEN q[i] ELSE r[i - m]
  <2>1. q \in Seq(A \cup B) /\ r \in Seq(A \cup B)
    BY <1>4
  <2>2. t \in Seq(A \cup B) /\ Len(t) = m + n
    BY <1>4, <2>1
  <2>3. \A i \in 1 .. m + n : t[i] = IF i <= m THEN q[i] ELSE r[i - m]
    BY <1>1, <1>4, <2>1
  <2> HIDE DEF t
  <2>4. t = [i \in 1 .. m + n |-> t[i]]
    BY <2>2
  <2> QED
    BY <2>3, <2>4
<1> HIDE DEF t
<1>6. \A i \in 1 .. m + n : IF i <= m THEN i \in 1 .. m /\ t[i] = q[i]
                            ELSE i - m \in 1 .. n /\ t[i] = r[i - m]
  BY <1>1, <1>5
<1>7. t \in [1 .. m + n -> S]
  BY <1>3, <1>5, <1>6 DEF S
<1>8. ASSUME NEW x \in S PROVE \E i \in 1 .. m + n : t[i] = x
  <2>1. CASE x \in A
    <3>1. PICK i \in 1 .. m : q[i] = x
      BY <2>1 DEF IsInOrder, m
    <3>2. i \in 1 .. m + n /\ i <= m
      BY <1>1
    <3> QED
      BY <1>5, <3>1, <3>2
  <2>2. CASE x \in B
    <3>1. PICK i \in 1 .. n : r[i] = x
      BY <2>2 DEF IsInOrder, n
    <3>2. m + i \in 1 .. m + n /\ ~(m + i <= m) /\ (m + i) - m = i
      BY <1>1
    <3> QED
      BY <1>5, <3>1, <3>2
  <2> QED
    BY <2>1, <2>2 DEF S
<1>9. ASSUME NEW i \in 1 .. m + n, NEW j \in 1 .. m + n, i < j PROVE <<t[i], t[j]>> \in R
  <2>1. CASE j <= m
    <3>1. i \in 1 .. m /\ j \in 1 .. m /\ i <= m
      BY <1>1, <1>9, <2>1
    <3>2. <<q[i], q[j]>> \in R
      BY <1>9, <3>1 DEF IsInOrder, m
    <3> QED
      BY <1>5, <2>1, <3>1, <3>2
  <2>2. CASE ~(j <= m) /\ i <= m
    <3>1. i \in 1 .. m /\ j - m \in 1 .. n
      BY <1>1, <2>2
    <3>2. q[i] \in A /\ r[j - m] \in B
      BY <1>3, <3>1
    <3> QED
      BY <1>5, <2>2, <3>2
  <2>3. CASE ~(i <= m)
    <3>1. i - m \in 1 .. n /\ j - m \in 1 .. n /\ i - m < j - m /\ ~(j <= m)
      BY <1>1, <1>9, <2>3
    <3>2. <<r[i - m], r[j - m]>> \in R
      BY <3>1 DEF IsInOrder, n
    <3> QED
      BY <1>5, <2>3, <3>1, <3>2
  <2> QED
    BY <2>1, <2>2, <2>3
<1>10. IsInOrder(t, R, S)
  BY <1>2, <1>7, <1>8, <1>9 DEF IsInOrder
<1> QED
  BY <1>2, <1>10 DEF S, t
=============================================================================
