----------------------------- MODULE FoldProofs -----------------------------
(***************************************************************************)
(* What the models' folds and enumerations compute.  The community modules *)
(* define them by recursive functions over the subsets of a set; that such *)
(* a function exists, and what holds all along it, follows by taking a     *)
(* smallest counterexample.                                                *)
(***************************************************************************)
EXTENDS Integers, SequencesExt, FiniteSetTheorems, WellFoundedInduction, TLAPS

-----------------------------------------------------------------------------
(* Induction *)

LEMMA LeastNatural ==
  ASSUME NEW T \in SUBSET Nat, T # {}
  PROVE  \E n \in T : \A m \in T : n <= m
<1> DEFINE R == {ss \in Nat \X Nat : ss[1] < ss[2]}
<1>1. IsWellFoundedOn(R, Nat)
  BY NatLessThanWellFounded DEF OpToRel
<1>2. PICK n \in T : \A m \in T : <<m, n>> \notin R
  <2> HIDE DEF R
  <2> QED
    BY <1>1, WFMin
<1>3. \A m \in T : m \in Nat /\ n \in Nat /\ ~(m < n)
  BY <1>2
<1> QED
  BY <1>3

(* A set of numbers that has 0 and the successor of each of its numbers    *)
(* below n has all of them up to n.                                        *)
LEMMA UpTo ==
  ASSUME NEW n \in Nat, NEW G, 0 \in G, \A k \in 0..(n - 1) : k \in G => k + 1 \in G
  PROVE  0..n \subseteq G
<1> SUFFICES ASSUME (0..n) \ G # {} PROVE FALSE
  OBVIOUS
<1>1. PICK m \in (0..n) \ G : \A k \in (0..n) \ G : m <= k
  <2> DEFINE T == (0..n) \ G
  <2>1. T \in SUBSET Nat /\ T # {}
    OBVIOUS
  <2> HIDE DEF T
  <2>2. \E m \in T : \A k \in T : m <= k
    BY <2>1, LeastNatural
  <2> QED
    BY <2>2 DEF T
<1>2. m \in 1..n
  BY <1>1
<1>3. m - 1 \in 0..(n - 1) /\ m - 1 \in G
  BY <1>1, <1>2
<1> QED
  BY <1>1, <1>2, <1>3

-----------------------------------------------------------------------------
(* Folds *)

(* The sets that a recursion over the subsets of S has done after k turns. *)
UpToSize(S, k) == {s \in SUBSET S : Cardinality(s) <= k}

Recursion(g, D, base, step, pick) ==
  \A s \in D : g[s] = IF s = {} THEN base ELSE step[<<pick[s], g[s \ {pick[s]}]>>]

LEMMA SmallerSet ==
  ASSUME NEW S, IsFiniteSet(S), NEW k \in Nat, NEW s \in UpToSize(S, k + 1), NEW x \in s
  PROVE  s \ {x} \in UpToSize(S, k) /\ x \in S
<1>1. IsFiniteSet(s) /\ Cardinality(s) \in Nat
  BY FS_Subset, FS_CardinalityType DEF UpToSize
<1>2. Cardinality(s \ {x}) = Cardinality(s) - 1
  BY <1>1, FS_RemoveElement
<1> QED
  BY <1>1, <1>2 DEF UpToSize

LEMMA RecursionExists ==
  ASSUME NEW S, IsFiniteSet(S), NEW V, NEW base \in V, NEW step \in [S \X V -> V],
         NEW pick, \A s \in SUBSET S : s # {} => pick[s] \in s
  PROVE  \E g \in [SUBSET S -> V] : Recursion(g, SUBSET S, base, step, pick)
<1> DEFINE n == Cardinality(S)
           G == {k \in Nat : \E g \in [UpToSize(S, k) -> V] : Recursion(g, UpToSize(S, k), base, step, pick)}
<1>1. n \in Nat
  BY FS_CardinalityType
<1>2. 0 \in G
  <2> DEFINE g == [s \in UpToSize(S, 0) |-> base]
  <2>1. \A s \in UpToSize(S, 0) : s = {}
    BY FS_Subset, FS_CardinalityType, FS_EmptySet DEF UpToSize
  <2>2. g \in [UpToSize(S, 0) -> V] /\ Recursion(g, UpToSize(S, 0), base, step, pick)
    BY <2>1 DEF Recursion
  <2> QED
    BY <2>2
<1>3. ASSUME NEW k \in Nat, k \in G
      PROVE  k + 1 \in G
  <2>1. PICK g \in [UpToSize(S, k) -> V] : Recursion(g, UpToSize(S, k), base, step, pick)
    BY <1>3
  <2> DEFINE h == [s \in UpToSize(S, k + 1) |-> IF s = {} THEN base ELSE step[<<pick[s], g[s \ {pick[s]}]>>]]
  <2>2. ASSUME NEW s \in UpToSize(S, k + 1), s # {}
        PROVE  s \ {pick[s]} \in UpToSize(S, k) /\ pick[s] \in S /\ g[s \ {pick[s]}] \in V
    <3>1. pick[s] \in s
      BY <2>2 DEF UpToSize
    <3>2. \A x \in s : s \ {x} \in UpToSize(S, k) /\ x \in S
      BY SmallerSet
    <3> QED
      BY <2>1, <3>1, <3>2
  <2>3. h \in [UpToSize(S, k + 1) -> V]
    BY <2>2
  <2>4. \A s \in UpToSize(S, k) : s \in UpToSize(S, k + 1) /\ h[s] = g[s]
    <3> SUFFICES ASSUME NEW s \in UpToSize(S, k)
                 PROVE  s \in UpToSize(S, k + 1) /\ h[s] = g[s]
      OBVIOUS
    <3>1. s \in UpToSize(S, k + 1)
      BY FS_Subset, FS_CardinalityType DEF UpToSize
    <3> QED
      BY <2>1, <3>1 DEF Recursion
  <2>5. Recursion(h, UpToSize(S, k + 1), base, step, pick)
    BY <2>2, <2>4 DEF Recursion
  <2> HIDE DEF h
  <2>6. \E f \in [UpToSize(S, k + 1) -> V] : Recursion(f, UpToSize(S, k + 1), base, step, pick)
    BY <2>3, <2>5
  <2> QED
    BY <2>6
<1>4. n \in G
  <2> HIDE DEF G, n
  <2>1. 0..n \subseteq G
    BY <1>1, <1>2, <1>3, UpTo
  <2> QED
    BY <1>1, <2>1
<1>5. UpToSize(S, n) = SUBSET S
  BY FS_Subset DEF UpToSize
<1>6. \E g \in [UpToSize(S, n) -> V] : Recursion(g, UpToSize(S, n), base, step, pick)
  BY <1>4
<1> HIDE DEF n
<1> QED
  BY <1>5, <1>6

(* FoldLeft takes the greatest index off the domain each time.             *)
LEMMA MaxIsIn ==
  ASSUME NEW n \in Nat, NEW s \in SUBSET (1..n), s # {}
  PROVE  Max(s) \in s /\ \A i \in s : i <= Max(s)
<1> DEFINE T == {n - i : i \in s}
<1>1. \A i \in s : i \in 1..n
  OBVIOUS
<1>2. \A i \in s : i \in Nat /\ n - i \in Nat
  BY <1>1
<1>3. \A i \in s : n - i \in T
  OBVIOUS
<1>4. T \in SUBSET Nat /\ T # {}
  BY <1>2, Zenon
<1>5. PICK t \in T : \A u \in T : t <= u
  <2> HIDE DEF T
  <2> QED
    BY <1>4, LeastNatural
<1>6. PICK x \in s : t = n - x
  BY Zenon
<1>7. \A i \in s : n - x <= n - i
  BY <1>3, <1>5, <1>6, Zenon
<1> HIDE DEF T
<1>8. \A i \in s : x >= i
  BY <1>2, <1>7
<1>9. \E j \in s : \A i \in s : j >= i
  BY <1>8, Zenon
<1>10. Max(s) \in s /\ \A i \in s : Max(s) >= i
  BY <1>9, Zenon DEF Max
<1> QED
  BY <1>2, <1>10

LEMMA MaxOfPrefix ==
  ASSUME NEW k \in Nat \ {0}
  PROVE  Max(1..k) = k /\ (1..k) \ {k} = 1..(k - 1) /\ 1..k # {}
<1>2. k \in 1..k
  OBVIOUS
<1>1. Max(1..k) \in 1..k /\ \A i \in 1..k : i <= Max(1..k)
  <2>1. k \in Nat /\ 1..k \in SUBSET (1..k) /\ 1..k # {}
    BY <1>2
  <2> HIDE <1>2
  <2> QED
    BY <2>1, MaxIsIn, Zenon
<1>3. Max(1..k) = k
  BY <1>1, <1>2
<1> QED
  BY <1>2, <1>3

LeftRecursion(g, n, base, step) ==
  \A s \in SUBSET (1..n) : g[s] = IF s = {} THEN base ELSE step[<<Max(s), g[s \ {Max(s)}]>>]

(* The recursion behind FoldLeft over a sequence of length n, for a step   *)
(* that takes an index and a value of V to a value of V.                   *)
LEMMA LeftRecursionExists ==
  ASSUME NEW n \in Nat, NEW V, NEW base \in V, NEW step \in [(1..n) \X V -> V]
  PROVE  \E g \in [SUBSET (1..n) -> V] : LeftRecursion(g, n, base, step)
<1> DEFINE pick == [s \in SUBSET (1..n) |-> Max(s)]
<1>1. \A s \in SUBSET (1..n) : s # {} => pick[s] \in s
  BY MaxIsIn
<1>2. IsFiniteSet(1..n)
  BY FS_Interval
<1>3. PICK g \in [SUBSET (1..n) -> V] : Recursion(g, SUBSET (1..n), base, step, pick)
  <2> HIDE DEF pick
  <2> QED
    BY <1>1, <1>2, RecursionExists
<1>4. \A s \in SUBSET (1..n) : pick[s] = Max(s)
  OBVIOUS
<1> QED
  BY <1>3, <1>4 DEF Recursion, LeftRecursion

(* A function that follows the step as long as it is in V.                 *)
FollowsIn(V, g, n, base, step) ==
  /\ g[{}] = base
  /\ \A s \in SUBSET (1..n) :
       s # {} /\ g[s \ {Max(s)}] \in V => g[s] = step[<<Max(s), g[s \ {Max(s)}]>>]

(* The values of h after each turn, from base to result.                   *)
Turns(h, n, base, step, result) ==
  h[0] = base /\ (\A k \in 1..n : h[k] = step[<<k, h[k - 1]>>]) /\ h[n] = result

(* What such a recursion gives for 1..k is the value after k turns.        *)
LEMMA LeftTurns ==
  ASSUME NEW n \in Nat, NEW V, NEW base \in V, NEW step \in [(1..n) \X V -> V],
         NEW g, FollowsIn(V, g, n, base, step)
  PROVE  \E h \in [0..n -> V] : Turns(h, n, base, step, g[1..n])
<1> DEFINE G == {k \in 0..n : g[1..k] \in V}
           h == [k \in 0..n |-> g[1..k]]
<1>1. 1..0 = {}
  OBVIOUS
<1>2. ASSUME NEW k \in 1..n, g[1..(k - 1)] \in V
      PROVE  g[1..k] = step[<<k, g[1..(k - 1)]>>] /\ g[1..k] \in V
  <2>0. k \in Nat \ {0}
    OBVIOUS
  <2>1. Max(1..k) = k /\ (1..k) \ {k} = 1..(k - 1) /\ 1..k # {}
    BY <2>0, MaxOfPrefix, Zenon
  <2>2. 1..k \in SUBSET (1..n)
    OBVIOUS
  <2>3. g[1..k] = step[<<k, g[1..(k - 1)]>>]
    BY <1>2, <2>1, <2>2, Zenon DEF FollowsIn
  <2> QED
    BY <1>2, <2>3
<1>3. 0..n \subseteq G
  <2>1. 0 \in G
    BY <1>1 DEF FollowsIn
  <2>2. \A k \in 0..(n - 1) : k \in G => k + 1 \in G
    <3> SUFFICES ASSUME NEW k \in 0..(n - 1), g[1..k] \in V
                 PROVE  k + 1 \in 0..n /\ g[1..(k + 1)] \in V
      OBVIOUS
    <3>1. k + 1 \in 1..n /\ (k + 1) - 1 = k
      OBVIOUS
    <3>2. \A j \in 1..n : j - 1 = k => g[1..j] \in V
      BY <1>2
    <3> QED
      BY <3>1, <3>2
  <2> HIDE DEF G
  <2> QED
    BY <2>1, <2>2, UpTo
<1>4. h \in [0..n -> V]
  BY <1>3
<1>5. h[0] = base /\ h[n] = g[1..n]
  BY <1>1 DEF FollowsIn
<1>6. \A k \in 1..n : h[k] = step[<<k, h[k - 1]>>]
  <2> SUFFICES ASSUME NEW k \in 1..n PROVE h[k] = step[<<k, h[k - 1]>>]
    OBVIOUS
  <2>1. k \in 0..n /\ k - 1 \in 0..n
    OBVIOUS
  <2>2. h[k] = g[1..k] /\ h[k - 1] = g[1..(k - 1)] /\ g[1..(k - 1)] \in V
    BY <1>3, <2>1
  <2> HIDE DEF h
  <2> QED
    BY <1>2, <2>2
<1> HIDE DEF h
<1> QED
  BY <1>4, <1>5, <1>6 DEF Turns

-----------------------------------------------------------------------------
(* Sums *)

(* A sum takes the elements of a set in the order of pick; it is the same  *)
(* in any order (Adds).                                                    *)
SumsUp(g, S, w) ==
  \A s \in SUBSET S :
    g[s] = IF s = {} THEN 0 ELSE LET x == CHOOSE y \in s : TRUE IN w[x] + g[s \ {x}]

Adds(g, S, w) ==
  /\ g[{}] = 0
  /\ \A s \in SUBSET S : g[s] \in Nat /\ \A x \in s : g[s] = w[x] + g[s \ {x}]

LEMMA SumExists ==
  ASSUME NEW S, IsFiniteSet(S), NEW w \in [S -> Nat]
  PROVE  \E g \in [SUBSET S -> Nat] : SumsUp(g, S, w)
<1> DEFINE pick == [s \in SUBSET S |-> CHOOSE y \in s : TRUE]
           step == [p \in S \X Nat |-> w[p[1]] + p[2]]
<1>1. \A s \in SUBSET S : s # {} => pick[s] \in s
  OBVIOUS
<1>2. step \in [S \X Nat -> Nat] /\ \A x \in S, m \in Nat : step[<<x, m>>] = w[x] + m
  OBVIOUS
<1>3. PICK g \in [SUBSET S -> Nat] : Recursion(g, SUBSET S, 0, step, pick)
  <2> HIDE DEF pick, step
  <2> QED
    BY <1>1, <1>2, RecursionExists
<1>4. ASSUME NEW s \in SUBSET S
      PROVE  g[s] = IF s = {} THEN 0 ELSE LET x == CHOOSE y \in s : TRUE IN w[x] + g[s \ {x}]
  <2>1. CASE s = {}
    BY <1>3, <2>1 DEF Recursion
  <2>2. CASE s # {}
    <3> DEFINE x == CHOOSE y \in s : TRUE
    <3>1. pick[s] = x /\ x \in s
      BY <2>2
    <3> HIDE DEF pick, step, x
    <3>2. x \in S /\ s \ {x} \in SUBSET S
      BY <3>1
    <3>3. g[s] = step[<<x, g[s \ {x}]>>] /\ g[s \ {x}] \in Nat
      BY <1>3, <2>2, <3>1, <3>2 DEF Recursion
    <3>4. g[s] = w[x] + g[s \ {x}]
      BY <1>2, <3>2, <3>3
    <3> QED
      BY <2>2, <3>4 DEF x
  <2> QED
    BY <2>1, <2>2
<1> QED
  BY <1>4 DEF SumsUp

LEMMA SumAdds ==
  ASSUME NEW S, IsFiniteSet(S), NEW w \in [S -> Nat], NEW g, SumsUp(g, S, w)
  PROVE  Adds(g, S, w)
<1> DEFINE n == Cardinality(S)
           Fine(s) == g[s] \in Nat /\ \A x \in s : g[s] = w[x] + g[s \ {x}]
           G == {k \in Nat : \A s \in UpToSize(S, k) : Fine(s)}
<1>1. n \in Nat
  BY FS_CardinalityType
<1>2. g[{}] = 0 /\ Fine({})
  <2>1. {} \in SUBSET S
    OBVIOUS
  <2>2. g[{}] = 0
    BY <2>1, Zenon DEF SumsUp
  <2> QED
    BY <2>2
<1>3. 0 \in G
  <2>1. \A s \in UpToSize(S, 0) : s = {}
    BY FS_Subset, FS_CardinalityType, FS_EmptySet DEF UpToSize
  <2> QED
    BY <1>2, <2>1
<1>4. ASSUME NEW k \in Nat, k \in G
      PROVE  k + 1 \in G
  <2> SUFFICES ASSUME NEW s \in UpToSize(S, k + 1), s # {}
               PROVE  Fine(s)
    <3>1. \A s \in UpToSize(S, k + 1) : s = {} => Fine(s)
      BY <1>2
    <3> HIDE DEF Fine
    <3> QED
      BY <3>1
  <2> DEFINE y == CHOOSE x \in s : TRUE
  <2>1. y \in s
    OBVIOUS
  <2>2. \A x \in s : s \ {x} \in UpToSize(S, k) /\ x \in S /\ w[x] \in Nat
    BY SmallerSet
  <2>3. \A u \in UpToSize(S, k) : Fine(u)
    BY <1>4
  <2>4. g[s] = w[y] + g[s \ {y}]
    BY DEF SumsUp, UpToSize
  <2> HIDE DEF y, G
  <2>5. g[s] \in Nat
    BY <2>1, <2>2, <2>3, <2>4
  <2>6. ASSUME NEW x \in s, x # y
        PROVE  g[s] = w[x] + g[s \ {x}]
    <3> DEFINE r == (s \ {x}) \ {y}
    <3>1. r = (s \ {y}) \ {x} /\ x \in s \ {y} /\ y \in s \ {x}
      BY <2>1, <2>6
    <3>2. g[s \ {y}] = w[x] + g[r]
      BY <2>1, <2>2, <2>3, <3>1
    <3>3. g[s \ {x}] = w[y] + g[r]
      BY <2>2, <2>3, <3>1
    <3>4. r \in UpToSize(S, k)
      <4>1. s \ {x} \in UpToSize(S, k) /\ IsFiniteSet(s \ {x}) /\ Cardinality(s \ {x}) \in Nat
        BY <2>2, FS_Subset, FS_CardinalityType DEF UpToSize
      <4>2. r \subseteq s \ {x}
        OBVIOUS
      <4>3. Cardinality(r) \in Nat /\ Cardinality(r) <= Cardinality(s \ {x})
        BY <4>1, <4>2, FS_Subset, FS_CardinalityType
      <4> HIDE DEF r
      <4> QED
        BY <4>1, <4>2, <4>3 DEF UpToSize
    <3>5. g[r] \in Nat /\ w[x] \in Nat /\ w[y] \in Nat
      BY <2>1, <2>2, <2>3, <3>4
    <3> HIDE DEF r
    <3> QED
      BY <2>4, <3>2, <3>3, <3>5
  <2> QED
    BY <2>4, <2>5, <2>6
<1>5. n \in G
  <2> HIDE DEF G, n
  <2>1. 0..n \subseteq G
    BY <1>1, <1>3, <1>4, UpTo
  <2> QED
    BY <1>1, <2>1
<1>6. UpToSize(S, n) = SUBSET S
  BY FS_Subset DEF UpToSize
<1> QED
  BY <1>2, <1>5, <1>6 DEF Adds

(* The sum over a set does not depend on the set it was begun with.        *)
LEMMA SumsAgree ==
  ASSUME NEW S, IsFiniteSet(S), NEW w, NEW v, NEW g, Adds(g, S, w), NEW T \in SUBSET S, NEW h, Adds(h, T, v),
         \A x \in T : w[x] = v[x]
  PROVE  g[T] = h[T]
<1> DEFINE n == Cardinality(T)
           G == {k \in Nat : \A s \in UpToSize(T, k) : g[s] = h[s]}
<1>1. n \in Nat /\ IsFiniteSet(T)
  BY FS_Subset, FS_CardinalityType
<1>2. 0 \in G
  <2>1. \A s \in UpToSize(T, 0) : s = {}
    BY <1>1, FS_Subset, FS_CardinalityType, FS_EmptySet DEF UpToSize
  <2> QED
    BY <2>1 DEF Adds
<1>3. ASSUME NEW k \in Nat, k \in G
      PROVE  k + 1 \in G
  <2> SUFFICES ASSUME NEW s \in UpToSize(T, k + 1), s # {}
               PROVE  g[s] = h[s]
    <3>1. g[{}] = h[{}] /\ k + 1 \in Nat
      BY DEF Adds
    <3> QED
      BY <3>1
  <2>1. PICK x \in s : TRUE
    OBVIOUS
  <2>2. s \ {x} \in UpToSize(T, k) /\ x \in T
    BY <1>1, SmallerSet
  <2>3. g[s \ {x}] = h[s \ {x}]
    BY <1>3, <2>2
  <2>4. s \in SUBSET T /\ s \in SUBSET S
    BY DEF UpToSize
  <2> HIDE DEF G
  <2>5. g[s] = w[x] + g[s \ {x}]
    BY <2>1, <2>4 DEF Adds
  <2>6. h[s] = w[x] + h[s \ {x}]
    BY <2>1, <2>4 DEF Adds
  <2> QED
    BY <2>3, <2>5, <2>6
<1>4. n \in G
  <2> HIDE DEF G, n
  <2>1. 0..n \subseteq G
    BY <1>1, <1>2, <1>3, UpTo
  <2> QED
    BY <1>1, <2>1
<1>5. T \in UpToSize(T, n)
  BY <1>1 DEF UpToSize
<1> QED
  BY <1>4, <1>5

LEMMA SumGrows ==
  ASSUME NEW S, IsFiniteSet(S), NEW w \in [S -> Nat], NEW g, Adds(g, S, w), NEW T \in SUBSET S
  PROVE  g[T] <= g[S]
<1> DEFINE n == Cardinality(S)
           G == {k \in Nat : \A s \in UpToSize(S, k) : T \subseteq s => g[T] <= g[s]}
<1>1. n \in Nat /\ g[T] \in Nat
  BY FS_CardinalityType DEF Adds
<1>2. ASSUME NEW s \in SUBSET S, s = T
      PROVE  g[T] <= g[s]
  BY <1>1, <1>2
<1>3. 0 \in G
  <2>1. \A s \in UpToSize(S, 0) : s = {} /\ s \in SUBSET S
    BY FS_Subset, FS_CardinalityType, FS_EmptySet DEF UpToSize
  <2> QED
    BY <1>2, <2>1
<1>4. ASSUME NEW k \in Nat, k \in G
      PROVE  k + 1 \in G
  <2> SUFFICES ASSUME NEW s \in UpToSize(S, k + 1), T \subseteq s, s # T
               PROVE  g[T] <= g[s]
    <3>1. \A s \in UpToSize(S, k + 1) : s = T => g[T] <= g[s]
      BY <1>2 DEF UpToSize
    <3> QED
      BY <3>1
  <2>1. PICK x \in s : x \notin T
    OBVIOUS
  <2>2. s \ {x} \in UpToSize(S, k) /\ x \in S /\ T \subseteq s \ {x}
    BY <2>1, SmallerSet
  <2>3. g[T] <= g[s \ {x}]
    BY <1>4, <2>2
  <2>4. g[s] = w[x] + g[s \ {x}] /\ g[s \ {x}] \in Nat /\ w[x] \in Nat
    BY <2>2 DEF Adds, UpToSize
  <2> HIDE DEF G
  <2> QED
    BY <1>1, <2>3, <2>4
<1>5. n \in G
  <2> HIDE DEF G, n
  <2>1. 0..n \subseteq G
    BY <1>1, <1>3, <1>4, UpTo
  <2> QED
    BY <1>1, <2>1
<1>6. S \in UpToSize(S, n)
  BY <1>1 DEF UpToSize
<1> QED
  BY <1>5, <1>6

(* When an element's weight is how many of I are at it, the sum over S is  *)
(* how many of I are in S.                                                 *)
Placed(I, at, s) == {i \in I : at[i] \in s}
Counts(w, S, I, at) == IsFiniteSet(I) /\ \A x \in S : w[x] = Cardinality(Placed(I, at, {x}))

LEMMA SumCounts ==
  ASSUME NEW S, IsFiniteSet(S), NEW w, NEW g, Adds(g, S, w), NEW I, NEW at, Counts(w, S, I, at)
  PROVE  g[S] = Cardinality(Placed(I, at, S))
<1> DEFINE n == Cardinality(S)
           In(s) == Placed(I, at, s)
           At(x) == Placed(I, at, {x})
           G == {k \in Nat : \A s \in UpToSize(S, k) : g[s] = Cardinality(In(s))}
<1>1. n \in Nat
  BY FS_CardinalityType
<1>2. g[{}] = Cardinality(In({}))
  <2>1. In({}) = {}
    BY DEF Placed
  <2>2. g[{}] = 0
    BY DEF Adds
  <2> HIDE DEF In
  <2> QED
    BY <2>1, <2>2, FS_EmptySet
<1>3. 0 \in G
  <2>1. \A s \in UpToSize(S, 0) : s = {}
    BY FS_Subset, FS_CardinalityType, FS_EmptySet DEF UpToSize
  <2> HIDE DEF In
  <2> QED
    BY <1>2, <2>1
<1>4. ASSUME NEW k \in Nat, k \in G
      PROVE  k + 1 \in G
  <2> SUFFICES ASSUME NEW s \in UpToSize(S, k + 1), s # {}
               PROVE  g[s] = Cardinality(In(s))
    <3>1. \A s \in UpToSize(S, k + 1) : s = {} => g[s] = Cardinality(In(s))
      BY <1>2
    <3> HIDE DEF In
    <3> QED
      BY <3>1
  <2>1. PICK x \in s : TRUE
    OBVIOUS
  <2> DEFINE r == s \ {x}
  <2>2. r \in UpToSize(S, k) /\ x \in S
    BY SmallerSet
  <2>3. g[r] = Cardinality(In(r))
    BY <1>4, <2>2
  <2>4. g[s] = w[x] + g[r] /\ w[x] = Cardinality(At(x))
    BY <2>2 DEF Adds, UpToSize, Counts
  <2>5. In(s) = In(r) \cup At(x) /\ In(r) \cap At(x) = {} /\ In(r) \subseteq I /\ At(x) \subseteq I
    BY DEF Placed
  <2> HIDE DEF In, At, r
  <2>6. IsFiniteSet(In(r)) /\ IsFiniteSet(At(x)) /\ Cardinality(In(r)) \in Nat /\ Cardinality(At(x)) \in Nat
    BY <2>5, FS_Subset, FS_CardinalityType DEF Counts
  <2>7. Cardinality(In(r) \cup At(x)) = Cardinality(In(r)) + Cardinality(At(x)) - Cardinality({})
    BY <2>5, <2>6, FS_Union
  <2>8. Cardinality({}) = 0
    BY FS_EmptySet
  <2> QED
    BY <2>3, <2>4, <2>5, <2>6, <2>7, <2>8
<1>5. n \in G
  <2> HIDE DEF G, n
  <2>1. 0..n \subseteq G
    BY <1>1, <1>3, <1>4, UpTo
  <2> QED
    BY <1>1, <2>1
<1>6. S \in UpToSize(S, n)
  BY <1>1 DEF UpToSize
<1>7. g[S] = Cardinality(In(S))
  <2> HIDE DEF n, In
  <2> QED
    BY <1>5, <1>6
<1> QED
  BY <1>7

-----------------------------------------------------------------------------
(* Enumerations *)

StrictlyOrders(R, C) ==
  /\ \A a \in C : <<a, a>> \notin R
  /\ \A a, b, c \in C : <<a, b>> \in R /\ <<b, c>> \in R => <<a, c>> \in R
  /\ \A a, b \in C : a # b => <<a, b>> \in R \/ <<b, a>> \in R

(* A finite set can be listed in any order: the place of an element is the *)
(* number of elements before it.                                           *)
LEMMA Enumerable ==
  ASSUME NEW C, IsFiniteSet(C), NEW R, StrictlyOrders(R, C)
  PROVE  \E s \in [1..Cardinality(C) -> C] :
           /\ \A a \in C : \E i \in 1..Cardinality(C) : s[i] = a
           /\ \A i, j \in 1..Cardinality(C) : i < j => <<s[i], s[j]>> \in R
<1> DEFINE n == Cardinality(C)
           Before(b) == {a \in C : <<a, b>> \in R}
           place == [b \in C |-> Cardinality(Before(b)) + 1]
<1>1. n \in Nat /\ IsFiniteSet(1..n) /\ Cardinality(1..n) = n
  BY FS_CardinalityType, FS_Interval
<1>2. ASSUME NEW b \in C
      PROVE  IsFiniteSet(Before(b)) /\ Cardinality(Before(b)) \in Nat /\ Cardinality(Before(b)) < n
  <2>1. Before(b) \in SUBSET C /\ b \notin Before(b) /\ b \in C
    BY DEF StrictlyOrders
  <2> HIDE DEF Before
  <2>2. IsFiniteSet(Before(b)) /\ Cardinality(Before(b)) <= n /\ Cardinality(Before(b)) # n
    BY <2>1, FS_Subset
  <2> QED
    BY <1>1, <2>2, FS_CardinalityType
<1>3. place \in [C -> 1..n]
  <2> HIDE DEF Before, n
  <2> QED
    BY <1>1, <1>2
<1>4. ASSUME NEW a \in C, NEW b \in C, <<a, b>> \in R
      PROVE  place[a] < place[b]
  <2>1. Before(a) \in SUBSET Before(b) /\ Before(a) # Before(b)
    BY <1>4 DEF StrictlyOrders
  <2>2. IsFiniteSet(Before(b)) /\ Cardinality(Before(b)) \in Nat /\ Cardinality(Before(a)) \in Nat
    BY <1>2
  <2> HIDE DEF Before
  <2>3. Cardinality(Before(a)) <= Cardinality(Before(b)) /\ Cardinality(Before(a)) # Cardinality(Before(b))
    BY <2>1, <2>2, FS_Subset
  <2> QED
    BY <2>2, <2>3
<1>5. \A a, b \in C : place[a] = place[b] => a = b
  <2> SUFFICES ASSUME NEW a \in C, NEW b \in C, a # b PROVE place[a] # place[b]
    OBVIOUS
  <2>1. place[a] \in Nat /\ place[b] \in Nat
    BY <1>3
  <2>2. place[a] < place[b] \/ place[b] < place[a]
    BY <1>4 DEF StrictlyOrders
  <2> HIDE DEF place
  <2> QED
    BY <2>1, <2>2
<1>6. place \in Surjection(C, 1..n)
  <2> HIDE DEF place, n
  <2>1. place \in Injection(C, 1..n)
    BY <1>3, <1>5 DEF Injection, IsInjective
  <2> QED
    BY <1>1, <2>1, FS_Injection DEF n
<1> DEFINE s == [i \in 1..n |-> CHOOSE b \in C : place[b] = i]
<1>7. ASSUME NEW i \in 1..n
      PROVE  s[i] \in C /\ place[s[i]] = i
  <2> HIDE DEF place
  <2>1. \E b \in C : place[b] = i
    BY <1>6 DEF Surjection
  <2> QED
    BY <2>1
<1>8. ASSUME NEW i \in 1..n, NEW j \in 1..n, i < j
      PROVE  <<s[i], s[j]>> \in R
  <2>1. s[i] \in C /\ s[j] \in C /\ place[s[i]] = i /\ place[s[j]] = j
    BY <1>7
  <2> HIDE DEF place, s
  <2>2. ~(place[s[j]] < place[s[i]]) /\ s[i] # s[j]
    BY <1>1, <1>8, <2>1
  <2> QED
    BY <1>4, <2>1, <2>2 DEF StrictlyOrders
<1>9. ASSUME NEW a \in C
      PROVE  \E i \in 1..n : s[i] = a
  <2>1. place[a] \in 1..n
    BY <1>3
  <2>2. s[place[a]] \in C /\ place[s[place[a]]] = place[a]
    BY <1>7, <2>1
  <2> HIDE DEF place, s
  <2> QED
    BY <1>5, <2>1, <2>2
<1>10. s \in [1..n -> C]
  BY <1>7
<1> HIDE DEF s, n
<1> QED
  BY <1>8, <1>9, <1>10 DEF n

(* A finite set has a first element.                                       *)
LEMMA FirstExists ==
  ASSUME NEW C, IsFiniteSet(C), C # {}, NEW R, StrictlyOrders(R, C)
  PROVE  \E a \in C : \A b \in C \ {a} : <<a, b>> \in R
<1>1. PICK s \in [1..Cardinality(C) -> C] :
        /\ \A a \in C : \E i \in 1..Cardinality(C) : s[i] = a
        /\ \A i, j \in 1..Cardinality(C) : i < j => <<s[i], s[j]>> \in R
  BY Enumerable
<1>2. Cardinality(C) \in Nat \ {0}
  BY FS_CardinalityType, FS_EmptySet
<1>3. 1 \in 1..Cardinality(C) /\ \A i \in 1..Cardinality(C) : i # 1 => 1 < i
  BY <1>2
<1>4. s[1] \in C
  BY <1>1, <1>3
<1> WITNESS s[1] \in C
<1> QED
  BY <1>1, <1>3
=============================================================================
