---------------------------- MODULE Lists_proofs ----------------------------
(***************************************************************************)
(* What the other proofs need of numbers and lists: induction over the     *)
(* natural numbers, what a filter keeps, how a left fold unfolds, and that *)
(* a recursion on a number, such as that of its digits, has a solution.    *)
(*                                                                         *)
(* The library states induction of an operator; here it is of a set, that  *)
(* of the numbers with the property.  A fold's operation is an operator    *)
(* too, so FoldIsDefined has it as a function of functions: whoever uses a *)
(* fold gives that function and gets the recursion of the definition.      *)
(***************************************************************************)
EXTENDS Filters, SequencesExt, FiniteSetTheorems, SequenceTheorems, WellFoundedInduction, TLAPS

-----------------------------------------------------------------------------
(* Numbers.                                                                *)

LEMMA LeastNat ==
  ASSUME NEW S \in SUBSET Nat, S # {}
  PROVE  \E n \in S : \A m \in S : n <= m
<1>1. PICK n \in S : \A m \in S : <<m, n>> \notin OpToRel(<, Nat)
  BY WFMin, NatLessThanWellFounded
<1>2. \A m \in S : ~(m < n)
  BY <1>1 DEF OpToRel
<1> QED
  BY <1>2

\* A set of natural numbers with zero and every successor has them all.
LEMMA Induction ==
  ASSUME NEW S \in SUBSET Nat, 0 \in S, \A n \in S : n + 1 \in S
  PROVE  S = Nat
<1> SUFFICES ASSUME Nat \ S # {} PROVE FALSE
  OBVIOUS
<1>1. PICK n \in Nat \ S : \A m \in Nat \ S : n <= m
  BY LeastNat
<1>2. n - 1 \in Nat /\ n - 1 \in S
  BY <1>1
<1> QED
  BY <1>1, <1>2

-----------------------------------------------------------------------------
(* What a filter keeps: each kept place once, in its order.                 *)

\* The numbers up to a larger member of a set are more.
LEMMA RanksDiffer ==
  ASSUME NEW I, IsFiniteSet(I), I \subseteq Nat, NEW a \in I, NEW b \in I, a < b
  PROVE  Cardinality({j \in I : j <= a}) < Cardinality({j \in I : j <= b})
<1> DEFINE A == {j \in I : j <= a}  B == {j \in I : j <= b}
<1>1. IsFiniteSet(A) /\ IsFiniteSet(B)
  BY FS_Subset
<1>2. A \subseteq B /\ b \in B /\ b \notin A
  <2>1. a \in Nat /\ b \in Nat /\ \A j \in I : j \in Nat
    OBVIOUS
  <2>2. ASSUME NEW j \in I, j <= a PROVE j <= b
    BY <2>1, <2>2
  <2>3. A \subseteq B
    BY <2>2
  <2> QED
    BY <2>1, <2>3
<1>3. Cardinality(A) \in Nat /\ Cardinality(B) \in Nat
  BY <1>1, FS_CardinalityType
<1>4. Cardinality(A) <= Cardinality(B) /\ Cardinality(A) # Cardinality(B)
  BY <1>1, <1>2, FS_Subset
<1> QED
  BY <1>3, <1>4

\* Nth counts a finite set of numbers: every member once.
LEMMA NthIs ==
  ASSUME NEW I, IsFiniteSet(I), I \subseteq Nat
  PROVE  /\ Cardinality(I) \in Nat
         /\ \A k \in 1..Cardinality(I) : Nth(I, k) \in I
         /\ \A j, k \in 1..Cardinality(I) : Nth(I, j) = Nth(I, k) => j = k
         /\ \A i \in I : \E k \in 1..Cardinality(I) : Nth(I, k) = i
<1> DEFINE n == Cardinality(I)
           Rank(i) == Cardinality({j \in I : j <= i})
           r == [i \in I |-> Rank(i)]
<1>1. n \in Nat
  BY FS_CardinalityType
<1>2. ASSUME NEW i \in I PROVE Rank(i) \in 1..n
  <2> DEFINE B == {j \in I : j <= i}
  <2>1. IsFiniteSet(B) /\ Cardinality(B) <= n
    BY FS_Subset
  <2>2. Cardinality(B) \in Nat /\ Cardinality(B) # 0
    BY <2>1, FS_CardinalityType, FS_EmptySet
  <2> QED
    BY <1>1, <2>1, <2>2
<1>3. ASSUME NEW a \in I, NEW b \in I, Rank(a) = Rank(b) PROVE a = b
  <2>1. a \in Nat /\ b \in Nat /\ Rank(a) \in Nat
    BY <1>2
  <2>2. ASSUME a < b PROVE FALSE
    <3>1. Rank(a) < Rank(b)
      BY <2>2, RanksDiffer
    <3> QED
      BY <3>1, <1>3, <2>1
  <2>3. ASSUME b < a PROVE FALSE
    <3>1. Rank(b) < Rank(a)
      BY <2>3, RanksDiffer
    <3> QED
      BY <3>1, <1>3, <2>1
  <2> QED
    BY <2>1, <2>2, <2>3
<1>4. ASSUME NEW k PROVE Nth(I, k) = CHOOSE i \in I : Rank(i) = k
  BY DEF Nth
<1> HIDE DEF Rank
<1>5. r \in Injection(I, 1..n)
  BY <1>2, <1>3 DEF Injection, IsInjective
<1>6. IsFiniteSet(1..n) /\ Cardinality(1..n) = n
  BY <1>1, FS_Interval
<1>7. r \in Surjection(I, 1..n)
  BY <1>5, <1>6, FS_Injection
<1>8. ASSUME NEW k \in 1..n PROVE Nth(I, k) \in I /\ Rank(Nth(I, k)) = k
  <2>1. \E i \in I : Rank(i) = k
    BY <1>7 DEF Surjection
  <2> QED
    BY <1>4, <2>1
<1>9. \A j, k \in 1..n : Nth(I, j) = Nth(I, k) => j = k
  BY <1>8
<1>10. ASSUME NEW i \in I PROVE Nth(I, Rank(i)) = i
  BY <1>2, <1>3, <1>8
<1> QED
  BY <1>1, <1>2, <1>8, <1>9, <1>10

\* A filtered list holds the entries at the kept places and no others, each place once.
LEMMA FilteredIs ==
  ASSUME NEW S, NEW s \in Seq(S), NEW I \in SUBSET (1..Len(s))
  PROVE  /\ IsFiniteSet(I) /\ Cardinality(I) \in Nat
         /\ Filtered(s, I) \in Seq(S) /\ Len(Filtered(s, I)) = Cardinality(I)
         /\ \A k \in 1..Cardinality(I) : Nth(I, k) \in I /\ Filtered(s, I)[k] = s[Nth(I, k)]
         /\ \A j, k \in 1..Cardinality(I) : Nth(I, j) = Nth(I, k) => j = k
         /\ \A i \in I : \E k \in 1..Cardinality(I) : Nth(I, k) = i
<1> DEFINE n == Cardinality(I)
<1>1. Len(s) \in Nat /\ \A i \in I : s[i] \in S
  BY LenProperties
<1>2. IsFiniteSet(I) /\ I \subseteq Nat
  <2>1. IsFiniteSet(1..Len(s))
    BY <1>1, FS_Interval
  <2>2. IsFiniteSet(I)
    BY <2>1, FS_Subset
  <2> QED
    BY <1>1, <2>2
<1>3. /\ n \in Nat /\ \A k \in 1..n : Nth(I, k) \in I
      /\ \A j, k \in 1..n : Nth(I, j) = Nth(I, k) => j = k
      /\ \A i \in I : \E k \in 1..n : Nth(I, k) = i
  BY <1>2, NthIs
<1>4. Filtered(s, I) = [k \in 1..n |-> s[Nth(I, k)]]
  BY DEF Filtered
<1> HIDE DEF n
<1>5. \A k \in 1..n : Filtered(s, I)[k] = s[Nth(I, k)]
  BY <1>4
<1>6. Filtered(s, I) \in [1..n -> S]
  BY <1>1, <1>3, <1>4
<1>7. Filtered(s, I) \in Seq(S)
  BY <1>3, <1>6, SeqDef
<1>8. Len(Filtered(s, I)) = n
  BY <1>3, <1>6, <1>7, LenProperties
<1> QED
  BY <1>2, <1>3, <1>5, <1>7, <1>8 DEF n

\* What a step keeps is kept up to the end.
LEMMA StepsKeep ==
  ASSUME NEW L \in Nat, NEW T, NEW r, r[0] \in T, \A k \in 0..L - 1 : r[k] \in T => r[k + 1] \in T
  PROVE  \A k \in 0..L : r[k] \in T
<1> DEFINE S == {k \in Nat : k <= L => r[k] \in T}
<1>1. 0 \in S
  OBVIOUS
<1>2. ASSUME NEW n \in S PROVE n + 1 \in S
  OBVIOUS
<1> HIDE DEF S
<1>3. S = Nat
  <2>1. S \in SUBSET Nat
    BY DEF S
  <2> QED
    BY <1>1, <1>2, <2>1, Induction
<1> QED
  BY <1>3 DEF S

-----------------------------------------------------------------------------
(* Folds.                                                                  *)

LEMMA MaxOfInterval ==
  ASSUME NEW n \in Nat
  PROVE  Max(1..n + 1) = n + 1 /\ (1..n + 1) \ {n + 1} = 1..n
<1>1. n + 1 \in 1..n + 1 /\ \A y \in 1..n + 1 : n + 1 >= y
  OBVIOUS
<1>2. \A x \in 1..n + 1 : (\A y \in 1..n + 1 : x >= y) => x = n + 1
  BY <1>1
<1>3. Max(1..n + 1) = n + 1
  BY <1>1, <1>2 DEF Max
<1> QED
  BY <1>3

\* The largest of some numbers up to n + 1, if n + 1 is not or is among them.
LEMMA MaxUpTo ==
  ASSUME NEW n \in Nat, NEW s \in SUBSET (1..n + 1), s # {}
  PROVE  /\ Max(s) \in s
         /\ n + 1 \in s => Max(s) = n + 1
         /\ s \ {Max(s)} \in SUBSET (1..n)
<1>1. PICK m \in s : \A y \in s : m >= y
  <2> DEFINE Bounds == {k \in Nat : \A y \in s : k >= y}
  <2>1. Bounds \in SUBSET Nat /\ n + 1 \in Bounds
    OBVIOUS
  <2>2. PICK k \in Bounds : \A m \in Bounds : k <= m
    BY <2>1, LeastNat
  <2>3. CASE k \in s
    BY <2>3
  <2>4. CASE k \notin s
    <3>1. \A y \in s : k > y
      BY <2>4
    <3>2. k - 1 \in Nat
      <4>1. PICK y \in s : y \in 1..n + 1 /\ k > y
        BY <3>1
      <4> QED
        BY <4>1
    <3>3. k - 1 \in Bounds
      BY <3>1, <3>2
    <3> QED
      BY <2>2, <3>3
  <2> QED
    BY <2>3, <2>4
<1>2. Max(s) \in s /\ \A y \in s : Max(s) >= y
  BY <1>1 DEF Max
<1> DEFINE top == Max(s)
<1> HIDE DEF top
<1>3. top \in 1..n + 1 /\ \A y \in s : y \in 1..n + 1 /\ top >= y
  BY <1>2 DEF top
<1>4. n + 1 \in s => top = n + 1
  BY <1>3
<1>5. \A y \in s \ {top} : y \in 1..n
  BY <1>3
<1> QED
  BY <1>2, <1>4, <1>5 DEF top

\* f is defined by recursion: step G[i] at the largest number i of a set.
Unfolds(f, base, L, G) ==
  /\ f[{}] = base
  /\ \A s \in SUBSET (1..L) : s # {} =>
       /\ Max(s) \in 1..L /\ s \ {Max(s)} \in SUBSET (1..L)
       /\ f[s] = G[Max(s)][f[s \ {Max(s)}]]

\* The recursion of a fold has a solution, whatever a step does with what there is.
LEMMA FoldIsDefined ==
  ASSUME NEW T, NEW base \in T, NEW L \in Nat, NEW G \in [1..L -> [T -> T]]
  PROVE  \E f \in [SUBSET (1..L) -> T] : Unfolds(f, base, L, G)
<1> DEFINE Solves(f, n) == \A s \in SUBSET (1..n) :
             f[s] = IF s = {} THEN base ELSE G[Max(s)][f[s \ {Max(s)}]]
           P(n) == \E f \in [SUBSET (1..n) -> T] : Solves(f, n)
           S == {n \in Nat : n <= L => P(n)}
<1>1. 0 \in S
  <2> DEFINE f == [s \in SUBSET (1..0) |-> base]
  <2>1. 1..0 = {}
    OBVIOUS
  <2>2. f \in [SUBSET (1..0) -> T] /\ \A s \in SUBSET (1..0) : s = {}
    BY <2>1
  <2>3. Solves(f, 0)
    BY <2>2
  <2>4. P(0)
    BY <2>2, <2>3
  <2> QED
    BY <2>4
<1>2. ASSUME NEW n \in S PROVE n + 1 \in S
  <2> HIDE DEF P
  <2> SUFFICES ASSUME n + 1 <= L PROVE P(n + 1)
    OBVIOUS
  <2>1. n \in Nat /\ n <= L /\ P(n)
    OBVIOUS
  <2> USE DEF P
  <2>2. PICK g \in [SUBSET (1..n) -> T] : Solves(g, n)
    BY <2>1
  <2> DEFINE f == [s \in SUBSET (1..n + 1) |->
                     IF n + 1 \in s THEN G[n + 1][g[s \ {n + 1}]] ELSE g[s]]
  <2>3. ASSUME NEW s \in SUBSET (1..n + 1)
         PROVE  /\ n + 1 \in s => s \ {n + 1} \in SUBSET (1..n) /\ f[s] = G[n + 1][g[s \ {n + 1}]]
                /\ n + 1 \notin s => s \in SUBSET (1..n) /\ f[s] = g[s]
    BY <2>1
  <2>4. f \in [SUBSET (1..n + 1) -> T]
    <3>1. G[n + 1] \in [T -> T]
      BY <2>1
    <3>2. ASSUME NEW s \in SUBSET (1..n + 1) PROVE f[s] \in T
      <4> HIDE DEF f
      <4>1. CASE n + 1 \in s
        BY <2>3, <3>1, <4>1
      <4>2. CASE n + 1 \notin s
        BY <2>3, <4>2
      <4> QED
        BY <4>1, <4>2
    <3> QED
      BY <3>2
  <2>5. ASSUME NEW s \in SUBSET (1..n + 1), s # {} PROVE f[s] = G[Max(s)][f[s \ {Max(s)}]]
    <3> HIDE DEF f
    <3>1. Max(s) \in s /\ s \ {Max(s)} \in SUBSET (1..n) /\ (n + 1 \in s => Max(s) = n + 1)
      BY <2>1, <2>5, MaxUpTo
    <3>2. s \ {Max(s)} \in SUBSET (1..n + 1) /\ n + 1 \notin s \ {Max(s)}
      BY <2>1, <3>1
    <3>3. f[s \ {Max(s)}] = g[s \ {Max(s)}]
      BY <2>3, <3>2
    <3>4. CASE n + 1 \in s
      BY <2>3, <3>1, <3>3, <3>4
    <3>5. CASE n + 1 \notin s
      <4>1. s \in SUBSET (1..n) /\ f[s] = g[s]
        BY <2>3, <3>5
      <4>2. g[s] = G[Max(s)][g[s \ {Max(s)}]]
        BY <2>2, <2>5, <4>1
      <4> QED
        BY <3>3, <4>1, <4>2
    <3> QED
      BY <3>4, <3>5
  <2>6. f[{}] = base
    <3>1. n + 1 \notin {} /\ {} \in SUBSET (1..n + 1) /\ {} \in SUBSET (1..n)
      OBVIOUS
    <3>2. f[{}] = g[{}]
      BY <2>3, <3>1
    <3> QED
      BY <2>2, <3>1, <3>2
  <2> HIDE DEF f
  <2>7. Solves(f, n + 1)
    BY <2>5, <2>6
  <2> QED
    BY <2>4, <2>7
<1> HIDE DEF P
<1>3. S = Nat
  BY <1>1, <1>2, Induction
<1>4. P(L)
  BY <1>3
<1>5. PICK f \in [SUBSET (1..L) -> T] : Solves(f, L)
  BY <1>4 DEF P
<1>6. ASSUME NEW s \in SUBSET (1..L), s # {}
      PROVE  Max(s) \in 1..L /\ s \ {Max(s)} \in SUBSET (1..L)
  <2>1. L - 1 \in Nat /\ s \in SUBSET (1..(L - 1) + 1)
    <3>1. ASSUME L = 0 PROVE FALSE
      <4>1. 1..L = {}
        BY <3>1
      <4> QED
        BY <1>6, <4>1
    <3> QED
      BY <3>1
  <2> QED
    BY <1>6, <2>1, MaxUpTo
<1>7. f[{}] = base
  BY <1>5
<1> QED
  BY <1>5, <1>6, <1>7 DEF Unfolds

-----------------------------------------------------------------------------
(* Recursion on a number.                                                  *)

\* f is base on the numbers in Small, and elsewhere what G makes of f at prev[n].
Recurs(f, Small, base, prev, G) ==
  \A n \in Nat : f[n] = IF n \in Small THEN base[n] ELSE G[n][f[prev[n]]]

\* The recursion of a function on numbers has a solution, if prev is smaller.
LEMMA RecursionIsDefined ==
  ASSUME NEW T, NEW Small \in SUBSET Nat, NEW base \in [Small -> T],
         NEW prev \in [Nat -> Nat], \A n \in Nat \ Small : prev[n] < n,
         NEW G \in [Nat -> [T -> T]]
  PROVE  \E f \in [Nat -> T] : Recurs(f, Small, base, prev, G)
<1> DEFINE Value(f, n) == IF n \in Small THEN base[n] ELSE G[n][f[prev[n]]]
           Solves(f, n) == \A k \in 0..n : f[k] = Value(f, k)
           P(n) == \E f \in [0..n -> T] : Solves(f, n)
           S == {n \in Nat : P(n)}
<1>1. 0 \in S
  <2>1. ASSUME 0 \notin Small PROVE FALSE
    <3>1. prev[0] < 0 /\ prev[0] \in Nat
      BY <2>1
    <3> QED
      BY <3>1
  <2> DEFINE f == [k \in 0..0 |-> base[0]]
  <2>2. f \in [0..0 -> T] /\ Solves(f, 0)
    BY <2>1
  <2>3. P(0)
    BY <2>2
  <2> QED
    BY <2>3
<1>2. ASSUME NEW n \in S PROVE n + 1 \in S
  <2>1. n \in Nat /\ P(n)
    OBVIOUS
  <2>2. PICK f \in [0..n -> T] : Solves(f, n)
    BY <2>1
  <2> DEFINE g == [k \in 0..n + 1 |-> IF k = n + 1 THEN Value(f, k) ELSE f[k]]
  <2>3. \A k \in 0..n + 1 : k \notin Small => prev[k] \in 0..n
    BY <2>1
  <2>4. Value(f, n + 1) \in T
    BY <2>1, <2>3
  <2> HIDE DEF Value
  <2>5. g \in [0..n + 1 -> T] /\ (\A k \in 0..n : g[k] = f[k]) /\ g[n + 1] = Value(f, n + 1)
    BY <2>1, <2>4
  <2> HIDE DEF g
  <2>6. ASSUME NEW k \in 0..n + 1 PROVE Value(g, k) = Value(f, k)
    BY <2>3, <2>5 DEF Value
  <2>7. Solves(g, n + 1)
    BY <2>1, <2>2, <2>5, <2>6
  <2>8. P(n + 1)
    BY <2>5, <2>7
  <2> HIDE DEF P
  <2> QED
    BY <2>1, <2>8
<1> HIDE DEF P
<1>3. S = Nat
  <2>1. S \in SUBSET Nat
    OBVIOUS
  <2> HIDE DEF S
  <2> QED
    BY <1>1, <1>2, <2>1, Induction
<1>4. \A n \in Nat : P(n)
  BY <1>3
<1> DEFINE F(n) == CHOOSE f \in [0..n -> T] : Solves(f, n)
<1>5. ASSUME NEW n \in Nat PROVE F(n) \in [0..n -> T] /\ Solves(F(n), n)
  <2> HIDE DEF Solves
  <2> QED
    BY <1>4 DEF P
<1> HIDE DEF F, S
\* Two solutions agree where both are defined.
<1>6. ASSUME NEW m \in Nat, NEW n \in Nat, m <= n PROVE F(m)[m] = F(n)[m]
  <2> DEFINE D == {k \in 0..m : F(m)[k] # F(n)[k]}
  <2> SUFFICES ASSUME D # {} PROVE FALSE
    <3>1. m \in 0..m
      OBVIOUS
    <3> QED
      BY <3>1
  <2>1. D \in SUBSET Nat
    OBVIOUS
  <2>2. PICK k \in D : \A j \in D : k <= j
    <3> HIDE DEF D
    <3> QED
      BY <2>1, LeastNat
  <2>3. k \in 0..m /\ k \in 0..n /\ k \in Nat /\ F(m)[k] # F(n)[k]
    BY <1>6
  <2>4. F(m)[k] = Value(F(m), k) /\ F(n)[k] = Value(F(n), k)
    BY <1>5, <2>3
  <2>5. ASSUME k \notin Small PROVE F(m)[prev[k]] = F(n)[prev[k]]
    <3>1. prev[k] < k /\ prev[k] \in 0..m
      BY <2>3, <2>5
    <3>2. prev[k] \notin D
      BY <2>2, <2>3, <3>1
    <3> QED
      BY <3>1, <3>2
  <2> QED
    BY <2>3, <2>4, <2>5
<1> DEFINE h == [n \in Nat |-> F(n)[n]]
<1>7. h \in [Nat -> T]
  <2>1. ASSUME NEW n \in Nat PROVE F(n)[n] \in T
    BY <1>5
  <2> QED
    BY <2>1
<1>8. ASSUME NEW n \in Nat PROVE h[n] = Value(h, n)
  <2>1. F(n)[n] = Value(F(n), n)
    BY <1>5
  <2>2. ASSUME n \notin Small PROVE h[prev[n]] = F(n)[prev[n]]
    <3>1. prev[n] < n /\ prev[n] \in Nat /\ prev[n] <= n
      BY <2>2
    <3> QED
      BY <1>6, <3>1
  <2> QED
    BY <2>1, <2>2
<1>9. Recurs(h, Small, base, prev, G)
  BY <1>8 DEF Recurs
<1> HIDE DEF h
<1> QED
  BY <1>7, <1>9
=============================================================================
