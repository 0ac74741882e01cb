----------------------- MODULE ContextResidencyProofs -----------------------
(***************************************************************************)
(* What a rebuild of the working set chooses, and that the manager is a    *)
(* ContextSpace.  The choice is a fold over the ranked candidates: the     *)
(* lemmas follow it turn by turn.                                          *)
(***************************************************************************)
EXTENDS ContextResidency, FoldProofs

-----------------------------------------------------------------------------
(* Lists of blocks *)

LEMMA BlocksOf ==
  ASSUME NEW S, NEW s \in Seq(S)
  PROVE  /\ Len(s) \in Nat /\ DOMAIN s = 1..Len(s)
         /\ \A i \in 1..Len(s) : s[i] \in S
         /\ ToSet(s) = {s[i] : i \in 1..Len(s)}
         /\ ToSet(s) \subseteq S
  BY DEF ToSet

(* A list without repeats has as many blocks as places.                    *)
LEMMA ListedOnce ==
  ASSUME NEW S, NEW s \in Seq(S), IsInjective(s)
  PROVE  IsFiniteSet(ToSet(s)) /\ Cardinality(ToSet(s)) = Len(s)
<1>1. Len(s) \in Nat /\ DOMAIN s = 1..Len(s) /\ ToSet(s) = {s[i] : i \in 1..Len(s)}
  BY BlocksOf
<1>2. IsFiniteSet(1..Len(s)) /\ Cardinality(1..Len(s)) = Len(s)
  <2> DEFINE l == Len(s)
  <2>1. l \in Nat
    BY <1>1
  <2> HIDE DEF l
  <2>2. IsFiniteSet(1..l) /\ Cardinality(1..l) = l
    BY <2>1, FS_Interval
  <2> QED
    BY <2>2 DEF l
<1>3. s \in [1..Len(s) -> ToSet(s)]
  BY <1>1
<1>4. s \in Injection(1..Len(s), ToSet(s)) /\ s \in Surjection(1..Len(s), ToSet(s))
  BY <1>1, <1>3 DEF Injection, Surjection, IsInjective
<1>5. s \in Bijection(1..Len(s), ToSet(s))
  BY <1>4 DEF Bijection
<1>6. ExistsBijection(1..Len(s), ToSet(s))
  BY <1>5 DEF ExistsBijection
<1>7. s \in Surjection(1..Len(s), ToSet(s))
  BY <1>4
<1>8. IsFiniteSet(ToSet(s))
  BY <1>2, <1>7, FS_Surjection
<1> QED
  BY <1>2, <1>6, <1>8, FS_Bijection

LEMMA Appended ==
  ASSUME NEW S, NEW s \in Seq(S), NEW b \in S
  PROVE  /\ Append(s, b) \in Seq(S) /\ Len(Append(s, b)) = Len(s) + 1
         /\ ToSet(Append(s, b)) = ToSet(s) \cup {b}
         /\ IsInjective(s) /\ b \notin ToSet(s) => IsInjective(Append(s, b))
<1> DEFINE t == Append(s, b)
<1>1. Len(s) \in Nat /\ DOMAIN s = 1..Len(s) /\ ToSet(s) = {s[i] : i \in 1..Len(s)}
  BY BlocksOf
<1>2. t \in Seq(S) /\ Len(t) = Len(s) + 1 /\ DOMAIN t = 1..(Len(s) + 1)
  OBVIOUS
<1>3. \A i \in 1..Len(s) : t[i] = s[i]
  OBVIOUS
<1>4. t[Len(s) + 1] = b
  OBVIOUS
<1>5. \A i \in DOMAIN t : i \in 1..Len(s) \/ i = Len(s) + 1
  BY <1>1, <1>2
<1>6. \A i \in 1..Len(s) : i \in DOMAIN t
  BY <1>1, <1>2
<1>7. Len(s) + 1 \in DOMAIN t
  BY <1>1, <1>2
<1> HIDE DEF t
<1>8. ToSet(t) = ToSet(s) \cup {b}
  BY <1>1, <1>3, <1>4, <1>5, <1>6, <1>7, Zenon DEF ToSet
<1>9. IsInjective(s) /\ b \notin ToSet(s) => IsInjective(t)
  BY <1>1, <1>3, <1>4, <1>5 DEF IsInjective
<1> QED
  BY <1>2, <1>8, <1>9 DEF t

LEMMA NothingListed == \A S : <<>> \in Seq(S) /\ ToSet(<<>>) = {} /\ IsInjective(<<>>) /\ Len(<<>>) = 0
  BY DEF ToSet, IsInjective

-----------------------------------------------------------------------------
(* Only *)

Kept(K, kept, b) == IF b \in K THEN Append(kept, b) ELSE kept

(* The lists that the fold of Only has after each turn.                    *)
OnlyLists(h, s, K) ==
  /\ h[0] = <<>>
  /\ \A k \in 1..Len(s) : h[k] = Kept(K, h[k - 1], s[k])
  /\ Only(s, K) = h[Len(s)]

LEMMA OnlyTurns ==
  ASSUME NEW S, NEW s \in Seq(S), NEW K
  PROVE  \E h \in [0..Len(s) -> Seq(S)] : OnlyLists(h, s, K)
<1> DEFINE n == Len(s)
           step == [p \in (1..n) \X Seq(S) |-> Kept(K, p[2], s[p[1]])]
           Follows(g) == g = [t \in SUBSET (1..n) |-> IF t = {} THEN <<>> ELSE Kept(K, g[t \ {Max(t)}], s[Max(t)])]
           it == CHOOSE g : Follows(g)
<1>1. n \in Nat /\ DOMAIN s = 1..n /\ \A i \in 1..n : s[i] \in S
  BY BlocksOf
<1>2. step \in [(1..n) \X Seq(S) -> Seq(S)]
  <2> SUFFICES ASSUME NEW i \in 1..n, NEW q \in Seq(S)
               PROVE  Kept(K, q, s[i]) \in Seq(S)
    OBVIOUS
  <2> QED
    BY <1>1, Appended DEF Kept
<1>3. PICK g \in [SUBSET (1..n) -> Seq(S)] : LeftRecursion(g, n, <<>>, step)
  <2>1. n \in Nat /\ <<>> \in Seq(S)
    BY <1>1
  <2> HIDE DEF step, n
  <2> QED
    BY <2>1, <1>2, LeftRecursionExists
<1>4. Follows(g)
  <2>1. ASSUME NEW t \in SUBSET (1..n), t # {}
        PROVE  step[<<Max(t), g[t \ {Max(t)}]>>] = Kept(K, g[t \ {Max(t)}], s[Max(t)])
    <3>1. Max(t) \in 1..n
      BY <1>1, <2>1, MaxIsIn
    <3> QED
      BY <1>3, <3>1
  <2> HIDE DEF step
  <2> QED
    BY <1>3, <2>1 DEF LeftRecursion
<1>5. Follows(it)
  BY <1>4
<1>6. Only(s, K) = it[1..n]
  BY <1>1 DEF Only, FoldLeft, MapThenFoldSet, Kept
<1> HIDE DEF it
<1>7. it[{}] = <<>>
  BY <1>5
<1>8. ASSUME NEW t \in SUBSET (1..n), t # {}, it[t \ {Max(t)}] \in Seq(S)
      PROVE  it[t] = step[<<Max(t), it[t \ {Max(t)}]>>]
  <2>1. Max(t) \in 1..n
    BY <1>1, <1>8, MaxIsIn
  <2>2. it[t] = Kept(K, it[t \ {Max(t)}], s[Max(t)])
    BY <1>5, <1>8
  <2> QED
    BY <1>8, <2>1, <2>2
<1>9. FollowsIn(Seq(S), it, n, <<>>, step)
  <2> HIDE DEF step
  <2> QED
    BY <1>7, <1>8 DEF FollowsIn
<1>10. PICK h \in [0..n -> Seq(S)] : Turns(h, n, <<>>, step, it[1..n])
  <2>1. n \in Nat /\ <<>> \in Seq(S)
    BY <1>1
  <2> HIDE DEF step, n
  <2> QED
    BY <1>2, <1>9, <2>1, LeftTurns
<1>11. ASSUME NEW k \in 1..n
       PROVE  h[k] = Kept(K, h[k - 1], s[k])
  <2>1. k - 1 \in 0..n
    BY <1>1
  <2> QED
    BY <1>10, <2>1 DEF Turns
<1> QED
  BY <1>6, <1>10, <1>11 DEF Turns, OnlyLists

(* Only keeps the blocks of K, and repeats none.                           *)
LEMMA OnlyKeeps ==
  ASSUME NEW S, NEW s \in Seq(S), NEW K
  PROVE  /\ Only(s, K) \in Seq(S)
         /\ ToSet(Only(s, K)) = ToSet(s) \cap K
         /\ Len(Only(s, K)) <= Len(s)
         /\ IsInjective(s) => IsInjective(Only(s, K))
<1>1. Len(s) \in Nat /\ DOMAIN s = 1..Len(s) /\ ToSet(s) = {s[i] : i \in 1..Len(s)}
  BY BlocksOf
<1>2. \A i \in 1..Len(s) : s[i] \in S
  BY BlocksOf
<1>3. PICK h \in [0..Len(s) -> Seq(S)] : OnlyLists(h, s, K)
  BY OnlyTurns
<1> DEFINE Good(k) == /\ ToSet(h[k]) = {s[i] : i \in 1..k} \cap K
                      /\ Len(h[k]) <= k
                      /\ IsInjective(s) => IsInjective(h[k])
           G == {k \in 0..Len(s) : Good(k)}
<1>4. 0 \in G
  <2>1. {s[i] : i \in 1..0} = {} /\ 0 \in 0..Len(s) /\ 0 <= 0
    BY <1>1
  <2>2. ToSet(<<>>) = {} /\ IsInjective(<<>>) /\ Len(<<>>) = 0
    BY NothingListed
  <2>3. Good(0)
    BY <1>3, <2>1, <2>2 DEF OnlyLists
  <2> QED
    BY <2>1, <2>3
<1>5. ASSUME NEW k \in 0..(Len(s) - 1), k \in G
      PROVE  k + 1 \in G
  <2>1. /\ k \in 0..Len(s) /\ k + 1 \in 1..Len(s) /\ k + 1 \in 0..Len(s) /\ (k + 1) - 1 = k
        /\ k + 1 \notin 1..k /\ k \in Nat
    BY <1>1
  <2>2. s[k + 1] \in S /\ h[k] \in Seq(S) /\ Len(h[k]) \in Nat
    BY <1>2, <1>3, <2>1
  <2>3. h[k + 1] = Kept(K, h[k], s[k + 1])
    BY <1>3, <2>1 DEF OnlyLists
  <2>4. \A j : j \in 1..(k + 1) <=> j \in 1..k \/ j = k + 1
    BY <2>1
  <2>5. {s[i] : i \in 1..(k + 1)} = {s[i] : i \in 1..k} \cup {s[k + 1]}
    BY <2>4, Zenon
  <2>6. Good(k)
    BY <1>5
  <2>7. CASE s[k + 1] \notin K
    <3>1. h[k + 1] = h[k]
      BY <2>3, <2>7 DEF Kept
    <3>2. ToSet(h[k + 1]) = {s[i] : i \in 1..(k + 1)} \cap K
      BY <2>5, <2>6, <2>7, <3>1
    <3>3. Len(h[k + 1]) <= k + 1
      BY <2>1, <2>2, <2>6, <3>1
    <3> QED
      BY <2>1, <2>6, <3>1, <3>2, <3>3
  <2>8. CASE s[k + 1] \in K
    <3>1. h[k + 1] = Append(h[k], s[k + 1])
      BY <2>3, <2>8 DEF Kept
    <3>2. /\ ToSet(h[k + 1]) = ToSet(h[k]) \cup {s[k + 1]} /\ Len(h[k + 1]) = Len(h[k]) + 1
          /\ IsInjective(h[k]) /\ s[k + 1] \notin ToSet(h[k]) => IsInjective(h[k + 1])
      BY <2>2, <3>1, Appended
    <3>3. ToSet(h[k + 1]) = {s[i] : i \in 1..(k + 1)} \cap K
      BY <2>5, <2>6, <2>8, <3>2
    <3>4. Len(h[k + 1]) <= k + 1
      BY <2>1, <2>2, <2>6, <3>2
    <3>5. IsInjective(s) => s[k + 1] \notin ToSet(h[k])
      <4>1. \A i \in 1..k : i \in DOMAIN s /\ k + 1 \in DOMAIN s /\ i # k + 1
        BY <1>1, <2>1
      <4> QED
        BY <2>6, <4>1 DEF IsInjective
    <3> QED
      BY <2>1, <2>6, <3>2, <3>3, <3>4, <3>5
  <2> QED
    BY <2>7, <2>8
<1>6. 0..Len(s) \subseteq G
  <2> HIDE DEF G
  <2> QED
    BY <1>1, <1>4, <1>5, UpTo
<1>7. Good(Len(s)) /\ h[Len(s)] \in Seq(S)
  BY <1>1, <1>3, <1>6
<1> QED
  BY <1>1, <1>3, <1>7 DEF OnlyLists

-----------------------------------------------------------------------------
(* One turn of the selection *)

Lists == {q \in Seq(Block) : Len(q) <= MaxWorking /\ IsInjective(q)}

LEMMA ReplacedKeeps ==
  ASSUME NEW S, NEW q \in Seq(S), NEW b \in S, NEW i
  PROVE  /\ [q EXCEPT ![i] = b] \in Seq(S) /\ Len([q EXCEPT ![i] = b]) = Len(q)
         /\ IsInjective(q) /\ b \notin ToSet(q) => IsInjective([q EXCEPT ![i] = b])
<1> DEFINE t == [q EXCEPT ![i] = b]
<1>1. Len(q) \in Nat /\ DOMAIN q = 1..Len(q) /\ ToSet(q) = {q[j] : j \in 1..Len(q)}
  BY BlocksOf
<1>2. DOMAIN t = DOMAIN q /\ \A j \in DOMAIN q : t[j] = IF j = i THEN b ELSE q[j]
  OBVIOUS
<1>3. t \in [1..Len(q) -> S]
  <2>1. t = [j \in 1..Len(q) |-> IF j = i THEN b ELSE q[j]]
    BY <1>1
  <2>2. \A j \in 1..Len(q) : q[j] \in S
    BY BlocksOf
  <2> HIDE DEF t
  <2> QED
    BY <2>1, <2>2
<1>4. t \in Seq(S) /\ Len(t) = Len(q)
  BY <1>1, <1>3
<1>5. IsInjective(q) /\ b \notin ToSet(q) => IsInjective(t)
  <2> HIDE DEF t
  <2> QED
    BY <1>2, Zenon DEF IsInjective, ToSet
<1> QED
  BY <1>4, <1>5

LEMMA ConsiderKeeps ==
  ASSUME NEW score, NEW protected, NEW q \in Lists, NEW b \in Block
  PROVE  Consider(score, protected, q, b) \in Lists
<1>1. q \in Seq(Block) /\ Len(q) \in Nat /\ Len(q) <= MaxWorking /\ IsInjective(q) /\ MaxWorking \in Nat
  BY ResidencyAssumption DEF Lists, ResidencyAssumption
<1>2. CASE b \in ToSet(q)
  BY <1>2 DEF Consider
<1>3. CASE b \notin ToSet(q) /\ Len(q) < MaxWorking
  <2>1. Append(q, b) \in Seq(Block) /\ Len(Append(q, b)) = Len(q) + 1 /\ IsInjective(Append(q, b))
    BY <1>1, <1>3, Appended
  <2>2. Len(q) + 1 <= MaxWorking
    BY <1>1, <1>3
  <2>3. Consider(score, protected, q, b) = Append(q, b)
    BY <1>3 DEF Consider
  <2> QED
    BY <2>1, <2>2, <2>3 DEF Lists
<1>4. CASE b \notin ToSet(q) /\ ~(Len(q) < MaxWorking)
  <2>1. \/ Consider(score, protected, q, b) = q
        \/ \E i : Consider(score, protected, q, b) = [q EXCEPT ![i] = b]
    BY <1>4 DEF Consider
  <2>2. \A i : [q EXCEPT ![i] = b] \in Lists
    BY <1>1, <1>4, ReplacedKeeps DEF Lists
  <2> QED
    BY <2>1, <2>2
<1> QED
  BY <1>2, <1>3, <1>4

(* The lists that the fold of SelectWorking has after each turn.           *)
SelectLists(h, n, score, protected, C) ==
  /\ h[0] = protected
  /\ \A k \in 1..n : h[k] = Consider(score, ToSet(protected), h[k - 1], Ranked(score, C)[k])
  /\ SelectWorking(score, protected, C) = h[n]

LEMMA SelectTurns ==
  ASSUME NEW score, NEW protected \in Lists, NEW C, NEW n \in Nat,
         Ranked(score, C) \in [1..n -> Block]
  PROVE  \E h \in [0..n -> Lists] : SelectLists(h, n, score, protected, C)
<1> DEFINE s == Ranked(score, C)
           P == ToSet(protected)
           step == [p \in (1..n) \X Lists |-> Consider(score, P, p[2], s[p[1]])]
           Follows(g) == g = [t \in SUBSET (1..n) |-> IF t = {} THEN protected
                                                     ELSE Consider(score, P, g[t \ {Max(t)}], s[Max(t)])]
           it == CHOOSE g : Follows(g)
<1>2. step \in [(1..n) \X Lists -> Lists]
  BY ConsiderKeeps
<1>3. PICK g \in [SUBSET (1..n) -> Lists] : LeftRecursion(g, n, protected, step)
  <2> HIDE DEF step
  <2> QED
    BY <1>2, LeftRecursionExists
<1>4. Follows(g)
  <2>1. ASSUME NEW t \in SUBSET (1..n), t # {}
        PROVE  step[<<Max(t), g[t \ {Max(t)}]>>] = Consider(score, P, g[t \ {Max(t)}], s[Max(t)])
    <3>1. Max(t) \in 1..n
      BY <2>1, MaxIsIn
    <3> QED
      BY <1>3, <3>1
  <2> HIDE DEF step, P
  <2> QED
    BY <1>3, <2>1 DEF LeftRecursion
<1>5. Follows(it)
  <2> HIDE DEF Follows
  <2> QED
    BY <1>4
<1>6. SelectWorking(score, protected, C) = it[1..n]
  <2>1. DOMAIN s = 1..n
    OBVIOUS
  <2> QED
    BY <2>1 DEF SelectWorking, FoldLeft, MapThenFoldSet
<1> HIDE DEF it, P
<1>7. it[{}] = protected
  BY <1>5
<1>8. ASSUME NEW t \in SUBSET (1..n), t # {}, it[t \ {Max(t)}] \in Lists
      PROVE  it[t] = step[<<Max(t), it[t \ {Max(t)}]>>]
  <2>1. Max(t) \in 1..n
    BY <1>8, MaxIsIn
  <2>2. it[t] = Consider(score, P, it[t \ {Max(t)}], s[Max(t)])
    BY <1>5, <1>8
  <2> QED
    BY <1>8, <2>1, <2>2
<1>9. FollowsIn(Lists, it, n, protected, step)
  <2> HIDE DEF step
  <2> QED
    BY <1>7, <1>8 DEF FollowsIn
<1>10. PICK h \in [0..n -> Lists] : Turns(h, n, protected, step, it[1..n])
  <2> HIDE DEF step
  <2> QED
    BY <1>2, <1>9, LeftTurns
<1>11. ASSUME NEW k \in 1..n
       PROVE  h[k] = Consider(score, P, h[k - 1], s[k])
  <2>1. k - 1 \in 0..n
    OBVIOUS
  <2> QED
    BY <1>10, <2>1 DEF Turns
<1> QED
  BY <1>6, <1>10, <1>11 DEF Turns, P, SelectLists

-----------------------------------------------------------------------------
(* The order of the candidates *)

Scored(score, C) == \A b \in C : score[b] \in Int

LEMMA RankedInOrder ==
  ASSUME NEW C \in SUBSET Block, NEW score, Scored(score, C)
  PROVE  /\ Cardinality(C) \in Nat
         /\ Ranked(score, C) \in [1..Cardinality(C) -> C]
         /\ \A a \in C : \E i \in 1..Cardinality(C) : Ranked(score, C)[i] = a
         /\ \A i, j \in 1..Cardinality(C) :
              i < j => Ahead(score, Ranked(score, C)[i], Ranked(score, C)[j])
<1> DEFINE R == {p \in C \X C : Ahead(score, p[1], p[2])}
           n == Cardinality(C)
           InOrder(s) == \A i, j \in DOMAIN s : i < j => Ahead(score, s[i], s[j])
           r == Ranked(score, C)
<1>1. \A b \in C : Position[b] \in Nat /\ score[b] \in Int
  BY ResidencyAssumption DEF ResidencyAssumption, Scored
<1>2. \A a, b \in C : Position[a] = Position[b] => a = b
  BY ResidencyAssumption DEF ResidencyAssumption
<1>3. \A a, b \in C : <<a, b>> \in R <=> Ahead(score, a, b)
  OBVIOUS
<1>4. StrictlyOrders(R, C)
  <2>1. \A a \in C : ~Ahead(score, a, a)
    BY <1>1 DEF Ahead
  <2>2. \A a, b, c \in C : Ahead(score, a, b) /\ Ahead(score, b, c) => Ahead(score, a, c)
    BY <1>1 DEF Ahead
  <2>3. \A a, b \in C : a # b => Ahead(score, a, b) \/ Ahead(score, b, a)
    BY <1>1, <1>2 DEF Ahead
  <2> HIDE DEF R
  <2> QED
    BY <1>3, <2>1, <2>2, <2>3, Zenon DEF StrictlyOrders
<1>5. IsFiniteSet(C) /\ n \in Nat /\ IsFiniteSet(1..n) /\ Cardinality(1..n) = n
  <2>1. IsFiniteSet(C) /\ n \in Nat
    BY ResidencyAssumption, FS_Subset, FS_CardinalityType DEF ResidencyAssumption
  <2> HIDE DEF n
  <2> QED
    BY <2>1, FS_Interval
<1>6. PICK s \in [1..n -> C] : \A i, j \in 1..n : i < j => <<s[i], s[j]>> \in R
  <2> HIDE DEF R, n
  <2> QED
    BY <1>4, <1>5, Enumerable DEF n
<1>7. \A i, j \in 1..n : i < j => Ahead(score, s[i], s[j])
  BY <1>3, <1>6
<1>8. r \in [1..n -> C] /\ InOrder(r)
  <2>1. \E q \in [1..n -> C] : InOrder(q)
    BY <1>7
  <2> QED
    BY <2>1 DEF Ranked
<1>9. \A i, j \in 1..n : i < j => Ahead(score, r[i], r[j])
  BY <1>8
<1>10. r \in [1..n -> C] /\ \A i, j \in 1..n : i # j => r[i] # r[j]
  <2> HIDE DEF r
  <2> SUFFICES ASSUME NEW i \in 1..n, NEW j \in 1..n, i # j PROVE r[i] # r[j]
    BY <1>8
  <2>1. i < j \/ j < i
    BY <1>5
  <2>2. Ahead(score, r[i], r[j]) \/ Ahead(score, r[j], r[i])
    BY <1>9, <2>1
  <2>3. r[i] \in C
    BY <1>8
  <2> QED
    BY <1>1, <2>2, <2>3 DEF Ahead
<1> HIDE DEF r
<1>11. r \in Injection(1..n, C)
  BY <1>10 DEF Injection, IsInjective
<1>12. r \in Surjection(1..n, C)
  <2> HIDE DEF n
  <2> QED
    BY <1>5, <1>11, FS_Injection DEF n
<1> QED
  BY <1>5, <1>9, <1>10, <1>12 DEF Surjection, r

(* The worst of the places P is one of them.                               *)
LEMMA WorstIsIn ==
  ASSUME NEW q \in Lists, NEW score, Scored(score, ToSet(q)), NEW P \in SUBSET DOMAIN q, P # {}
  PROVE  Worst(score, q, P) \in P
<1> DEFINE Under(i, j) == \/ score[q[i]] < score[q[j]]
                          \/ score[q[i]] = score[q[j]] /\ Position[q[i]] < Position[q[j]]
           R == {p \in P \X P : Under(p[1], p[2])}
<1>1. q \in Seq(Block) /\ IsInjective(q) /\ Len(q) \in Nat /\ DOMAIN q = 1..Len(q)
  BY BlocksOf DEF Lists
<1>2. \A i \in P : q[i] \in Block /\ Position[q[i]] \in Nat /\ score[q[i]] \in Int
  BY <1>1, ResidencyAssumption DEF ResidencyAssumption, Scored, ToSet
<1>3. \A i, j \in P : Position[q[i]] = Position[q[j]] => i = j
  BY <1>1, <1>2, ResidencyAssumption DEF ResidencyAssumption, IsInjective
<1>4. \A i, j \in P : <<i, j>> \in R <=> Under(i, j)
  OBVIOUS
<1>5. StrictlyOrders(R, P)
  <2>1. \A i \in P : ~Under(i, i)
    BY <1>2
  <2>2. \A i, j, k \in P : Under(i, j) /\ Under(j, k) => Under(i, k)
    BY <1>2
  <2>3. \A i, j \in P : i # j => Under(i, j) \/ Under(j, i)
    BY <1>2, <1>3
  <2> HIDE DEF R, Under
  <2> QED
    BY <1>4, <2>1, <2>2, <2>3, Zenon DEF StrictlyOrders
<1>6. IsFiniteSet(P)
  <2>1. IsFiniteSet(1..Len(q)) /\ P \in SUBSET (1..Len(q))
    BY <1>1, FS_Interval
  <2> QED
    BY <2>1, FS_Subset
<1>7. PICK i \in P : \A j \in P \ {i} : <<i, j>> \in R
  <2> HIDE DEF R
  <2> QED
    BY <1>5, <1>6, FirstExists
<1>8. \E k \in P : \A j \in P \ {k} : Under(k, j)
  <2>1. \A j \in P \ {i} : Under(i, j)
    <3> HIDE DEF R, Under
    <3> QED
      BY <1>4, <1>7
  <2> HIDE DEF Under
  <2> QED
    BY <2>1
<1> QED
  BY <1>8 DEF Worst

-----------------------------------------------------------------------------
(* The selection *)

(* What the list q is after the first k candidates of s, when the blocks   *)
(* of P are protected.                                                     *)
Chosen(score, P, s, k, q) ==
  /\ P \subseteq ToSet(q)
  /\ \A a \in ToSet(q) \ P : \E j \in 1..k : a = s[j]
  /\ \A j \in 1..k : s[j] \notin ToSet(q) =>
       Len(q) = MaxWorking /\ \A a \in ToSet(q) \ P : Ahead(score, a, s[j])

LEMMA ConsiderChooses ==
  ASSUME NEW score, NEW n \in Nat, NEW s \in [1..n -> Block], NEW P, NEW k \in 0..(n - 1), NEW q \in Lists,
         Scored(score, {s[i] : i \in 1..n} \cup ToSet(q)),
         \A i, j \in 1..n : i < j => Ahead(score, s[i], s[j]),
         Chosen(score, P, s, k, q)
  PROVE  Chosen(score, P, s, k + 1, Consider(score, P, q, s[k + 1]))
<1> DEFINE b == s[k + 1]
           new == Consider(score, P, q, b)
           places == {i \in DOMAIN q : q[i] \notin P}
           worst == Worst(score, q, places)
<1>1. k + 1 \in 1..n /\ k \in Nat /\ \A j \in 1..(k + 1) : j \in 1..k \/ j = k + 1
  OBVIOUS
<1>2. \A j \in 1..k : j \in 1..(k + 1) /\ j \in 1..n /\ j < k + 1
  OBVIOUS
<1>3. q \in Seq(Block) /\ Len(q) \in Nat /\ Len(q) <= MaxWorking /\ MaxWorking \in Nat /\ b \in Block
  BY <1>1, ResidencyAssumption DEF Lists, ResidencyAssumption
<1>4. \A a \in ToSet(q) \ P : Ahead(score, a, b)
  BY <1>1, <1>2 DEF Chosen
<1>5. CASE b \in ToSet(q)
  <2>1. new = q
    BY <1>5 DEF Consider
  <2> HIDE DEF new
  <2> QED
    BY <1>1, <1>2, <1>5, <2>1, Zenon DEF Chosen, new
<1>6. CASE b \notin ToSet(q) /\ Len(q) < MaxWorking
  <2>1. new = Append(q, b)
    BY <1>6 DEF Consider
  <2>2. ToSet(new) = ToSet(q) \cup {b}
    BY <1>3, <2>1, Appended
  <2>3. Len(q) # MaxWorking
    BY <1>3, <1>6
  <2> HIDE DEF new
  <2>4. \A j \in 1..(k + 1) : s[j] \in ToSet(new)
    BY <1>1, <2>2, <2>3 DEF Chosen
  <2>5. k + 1 \in 1..(k + 1)
    BY <1>1
  <2>6. \A a \in ToSet(new) \ P : \E j \in 1..(k + 1) : a = s[j]
    <3> SUFFICES ASSUME NEW a \in ToSet(new) \ P PROVE \E j \in 1..(k + 1) : a = s[j]
      OBVIOUS
    <3>1. CASE a = b
      BY <2>5, <3>1
    <3>2. CASE a \in ToSet(q) \ P
      BY <1>2, <3>2 DEF Chosen
    <3> QED
      BY <2>2, <3>1, <3>2
  <2>7. Chosen(score, P, s, k + 1, new)
    BY <2>2, <2>4, <2>6 DEF Chosen
  <2> QED
    BY <2>7 DEF new
<1>7. CASE b \notin ToSet(q) /\ ~(Len(q) < MaxWorking)
  <2>1. Len(q) = MaxWorking
    BY <1>3, <1>7
  <2>2. ASSUME places # {}
        PROVE  score[b] <= score[q[worst]] + Hysteresis
    <3>1. worst \in places
      <4>1. Scored(score, ToSet(q))
        BY DEF Scored
      <4> QED
        BY <2>2, <4>1, WorstIsIn
    <3>2. q[worst] \in ToSet(q) \ P
      BY <3>1 DEF ToSet
    <3>3. Ahead(score, q[worst], b)
      BY <1>4, <3>2
    <3>4. score[q[worst]] \in Int /\ score[b] \in Int
      BY <1>1, <3>2 DEF Scored
    <3>5. Hysteresis \in Nat
      BY ResidencyAssumption DEF ResidencyAssumption
    <3> HIDE DEF worst
    <3> QED
      BY <3>3, <3>4, <3>5 DEF Ahead
  <2>3. new = q
    BY <1>7, <2>2 DEF Consider
  <2> HIDE DEF new
  <2>4. Chosen(score, P, s, k + 1, new)
    BY <1>1, <1>2, <1>4, <2>1, <2>3, Zenon DEF Chosen
  <2> QED
    BY <2>4 DEF new
<1> QED
  BY <1>5, <1>6, <1>7

(* A selection keeps what is protected, and fills the space that is left   *)
(* with the candidates that are ahead of the others.                       *)
LEMMA SelectionTakesBest ==
  ASSUME NEW C \in SUBSET Block, NEW score, NEW protected \in Lists,
         Scored(score, C \cup ToSet(protected))
  PROVE  LET q == SelectWorking(score, protected, C)
         IN  /\ q \in Lists
             /\ ToSet(protected) \subseteq ToSet(q)
             /\ ToSet(q) \ ToSet(protected) \subseteq C
             /\ \A b \in C \ ToSet(q) :
                  /\ Len(q) = MaxWorking
                  /\ \A a \in ToSet(q) \ ToSet(protected) : Ahead(score, a, b)
<1> DEFINE s == Ranked(score, C)
           n == Cardinality(C)
           P == ToSet(protected)
<1>1. /\ n \in Nat /\ s \in [1..n -> C] /\ \A a \in C : \E i \in 1..n : s[i] = a
      /\ \A i, j \in 1..n : i < j => Ahead(score, s[i], s[j])
  <2>1. Scored(score, C)
    BY DEF Scored
  <2> QED
    BY <2>1, RankedInOrder
<1>2. s \in [1..n -> Block]
  BY <1>1
<1>3. PICK h \in [0..n -> Lists] : SelectLists(h, n, score, protected, C)
  <2> HIDE DEF n
  <2> QED
    BY <1>1, <1>2, SelectTurns
<1> HIDE DEF s, n
<1> DEFINE G == {k \in 0..n : Chosen(score, P, s, k, h[k])}
<1>4. 0 \in G
  <2>1. 0 \in 0..n /\ 1..0 = {}
    BY <1>1
  <2>2. Chosen(score, P, s, 0, h[0])
    BY <1>3, <2>1 DEF Chosen, SelectLists
  <2> QED
    BY <2>1, <2>2
<1>5. ASSUME NEW k \in 0..(n - 1), k \in G
      PROVE  k + 1 \in G
  <2>1. k \in 0..n /\ k + 1 \in 1..n /\ k + 1 \in 0..n /\ (k + 1) - 1 = k /\ \A j \in 1..k : j \in 1..n
    BY <1>1
  <2>2. h[k + 1] = Consider(score, P, h[k], s[k + 1])
    BY <1>3, <2>1 DEF SelectLists, s
  <2>3. h[k] \in Lists /\ Chosen(score, P, s, k, h[k])
    BY <1>3, <1>5, <2>1
  <2>4. Scored(score, {s[i] : i \in 1..n} \cup ToSet(h[k]))
    <3>1. \A a \in ToSet(h[k]) : a \in C \cup P
      BY <1>1, <2>1, <2>3 DEF Chosen
    <3> QED
      BY <1>1, <3>1 DEF Scored
  <2>5. Chosen(score, P, s, k + 1, h[k + 1])
    <3> HIDE DEF P, G
    <3>1. k \in 0..(n - 1) /\ \A i, j \in 1..n : i < j => Ahead(score, s[i], s[j])
      BY <1>1
    <3>2. \A q \in Lists : Scored(score, {s[i] : i \in 1..n} \cup ToSet(q)) /\ Chosen(score, P, s, k, q)
                        => Chosen(score, P, s, k + 1, Consider(score, P, q, s[k + 1]))
      BY <1>1, <1>2, <3>1, ConsiderChooses
    <3> QED
      BY <2>2, <2>3, <2>4, <3>2
  <2> QED
    BY <2>1, <2>5
<1>6. 0..n \subseteq G
  <2> HIDE DEF G
  <2> QED
    BY <1>1, <1>4, <1>5, UpTo
<1>7. Chosen(score, P, s, n, h[n]) /\ h[n] \in Lists
  BY <1>1, <1>3, <1>6
<1> HIDE DEF G, P
<1>8. ToSet(h[n]) \ P \subseteq C
  BY <1>1, <1>7 DEF Chosen
<1>9. ASSUME NEW b \in C \ ToSet(h[n])
      PROVE  Len(h[n]) = MaxWorking /\ \A a \in ToSet(h[n]) \ P : Ahead(score, a, b)
  <2>1. PICK i \in 1..n : s[i] = b
    BY <1>1
  <2> QED
    BY <1>7, <2>1 DEF Chosen
<1> QED
  BY <1>3, <1>7, <1>8, <1>9 DEF Chosen, P, SelectLists

-----------------------------------------------------------------------------
(* The invariant *)

ResidencyInv ==
  /\ blockRevision \in [Block -> 0..MaxBlockRevision]
  /\ blockStale \subseteq Known
  /\ order \in Lists
  /\ working \subseteq Eligible
  /\ residence \in [working -> Nat]

(* Capping an age at the minimum does not change on which side of the      *)
(* minimum it is.                                                          *)
LEMMA AgedTyped ==
  ASSUME ResidencyInv, NEW n \in {0, 1}
  PROVE  /\ Aged(n) \in [working -> Nat]
         /\ \A b \in working : Aged(n)[b] < MinResidency <=> residence[b] + n < MinResidency
<1>1. DOMAIN residence = working /\ \A b \in working : residence[b] \in Nat
  BY DEF ResidencyInv
<1>2. MinResidency \in Nat /\ n \in Nat
  BY ResidencyAssumption DEF ResidencyAssumption
<1>3. \A b \in working : Capped(residence[b] + n) \in Nat
  BY <1>1, <1>2 DEF Capped
<1>4. \A b \in working : Capped(residence[b] + n) < MinResidency <=> residence[b] + n < MinResidency
  BY <1>1, <1>2 DEF Capped
<1>5. Aged(n) = [b \in working |-> Capped(residence[b] + n)]
  BY <1>1 DEF Aged
<1> HIDE DEF working
<1> QED
  BY <1>3, <1>4, <1>5

(* What a rebuild from the blocks of old makes of the working set.         *)
LEMMA RebuiltSound ==
  ASSUME ResidencyInv, NEW old \in Lists, ToSet(old) \subseteq working,
         NEW C \in SUBSET (Block \ Pinned), NEW score \in Scores(C), NEW n \in {0, 1}
  PROVE  LET q == Rebuilt(old, score, C, n)
             P == {b \in ToSet(old) : residence[b] + n < MinResidency}
         IN  /\ q \in Lists
             /\ P \subseteq ToSet(q)
             /\ ToSet(q) \ P \subseteq C
             /\ \A b \in C \ ToSet(q) :
                  Len(q) = MaxWorking /\ \A a \in ToSet(q) \ P : Ahead(score, a, b)
<1> DEFINE ages == Aged(n)
           P == {b \in ToSet(old) : residence[b] + n < MinResidency}
           K == {b \in ToSet(old) : ages[b] < MinResidency}
           protected == Protected(ages, old)
<1>1. old \in Seq(Block) /\ Len(old) \in Nat /\ Len(old) <= MaxWorking /\ IsInjective(old) /\ MaxWorking \in Nat
  BY ResidencyAssumption DEF Lists, ResidencyAssumption
<1>2. K = P
  BY AgedTyped
<1>3. protected = Only(old, P)
  BY <1>2 DEF Protected
<1>4. /\ protected \in Seq(Block) /\ Len(protected) <= Len(old) /\ IsInjective(protected)
      /\ ToSet(protected) = P
  <2>1. ToSet(old) \cap P = P
    OBVIOUS
  <2> HIDE DEF P, protected
  <2> QED
    BY <1>1, <1>3, <2>1, OnlyKeeps
<1>5. protected \in Lists
  <2>1. Len(protected) \in Nat
    BY <1>4
  <2> HIDE DEF protected
  <2> QED
    BY <1>1, <1>4, <2>1 DEF Lists
<1>6. Scored(score, C \cup P)
  <2>1. P \subseteq working
    OBVIOUS
  <2>2. \A b \in C \cup working : score[b] \in Int
    BY ResidencyAssumption DEF ResidencyAssumption, Scores
  <2> QED
    BY <2>1, <2>2 DEF Scored
<1>7. Rebuilt(old, score, C, n) = SelectWorking(score, protected, C)
  BY DEF Rebuilt
<1>8. C \in SUBSET Block
  OBVIOUS
<1> HIDE DEF protected, P
<1>9. Scored(score, C \cup ToSet(protected))
  BY <1>4, <1>6
<1>10. LET q == SelectWorking(score, protected, C)
       IN  /\ q \in Lists
           /\ ToSet(protected) \subseteq ToSet(q)
           /\ ToSet(q) \ ToSet(protected) \subseteq C
           /\ \A b \in C \ ToSet(q) :
                /\ Len(q) = MaxWorking
                /\ \A a \in ToSet(q) \ ToSet(protected) : Ahead(score, a, b)
  BY <1>5, <1>8, <1>9, SelectionTakesBest
<1> QED
  BY <1>4, <1>7, <1>10, Zenon DEF P

(* A block is loaded at one step, whatever list is installed.              *)
LEMMA InstallTyped ==
  ASSUME NEW ages, NEW old, NEW new, \A b \in ToSet(old) : ages[b] \in Nat, Install(ages, old, new)
  PROVE  order' = new /\ working' = ToSet(new) /\ residence' \in [working' -> Nat]
<1>1. order' = new /\ residence' = [b \in ToSet(new) |-> IF b \in ToSet(old) THEN ages[b] ELSE 0]
  BY DEF Install
<1>2. working' = ToSet(new)
  BY <1>1 DEF working
<1>3. \A b \in ToSet(new) : (IF b \in ToSet(old) THEN ages[b] ELSE 0) \in Nat
  OBVIOUS
<1> QED
  BY <1>1, <1>2, <1>3, Zenon

LEMMA RegisteringGives ==
  ASSUME ResidencyInv, NEW U \in SUBSET Block, Registering(U)
  PROVE  /\ blockRevision' \in [Block -> 0..MaxBlockRevision]
         /\ blockStale' = blockStale \ U
         /\ Known' = Known \cup U
         /\ blockStale' \subseteq Known'
<1>1. \A b \in Block : blockRevision[b] \in 0..MaxBlockRevision
  BY DEF ResidencyInv
<1>2. MaxBlockRevision \in Nat
  BY ResidencyAssumption DEF ResidencyAssumption
<1>3. \A b \in Block : blockRevision'[b] = IF b \in U THEN blockRevision[b] + 1 ELSE blockRevision[b]
  BY DEF Registering
<1>4. \A b \in U : blockRevision[b] < MaxBlockRevision
  BY DEF Registering
<1>5. blockRevision' \in [Block -> 0..MaxBlockRevision]
  BY <1>1, <1>2, <1>4 DEF Registering
<1>6. Known' = Known \cup U
  BY <1>1, <1>3 DEF Known
<1> QED
  BY <1>5, <1>6 DEF Registering, ResidencyInv

LEMMA WithoutGives ==
  ASSUME ResidencyInv, NEW U
  PROVE  Without(U) \in Lists /\ ToSet(Without(U)) = working \ U
<1>1. order \in Seq(Block) /\ Len(order) \in Nat /\ Len(order) <= MaxWorking /\ IsInjective(order) /\ MaxWorking \in Nat
  BY ResidencyAssumption DEF ResidencyInv, Lists, ResidencyAssumption
<1>2. ToSet(order) \subseteq Block
  BY <1>1, BlocksOf
<1>3. /\ Without(U) \in Seq(Block) /\ Len(Without(U)) <= Len(order) /\ IsInjective(Without(U))
      /\ ToSet(Without(U)) = ToSet(order) \cap (Block \ U)
  BY <1>1, OnlyKeeps DEF Without
<1>4. Len(Without(U)) \in Nat
  BY <1>3
<1> QED
  BY <1>1, <1>2, <1>3, <1>4 DEF Lists, working

LEMMA DropGives ==
  ASSUME ResidencyInv, NEW U, Drop(U)
  PROVE  order' \in Lists /\ working' = working \ U /\ residence' \in [working' -> Nat]
<1>1. Install(residence, order, Without(U)) /\ \A b \in ToSet(order) : residence[b] \in Nat
  BY DEF Drop, ResidencyInv, working
<1> QED
  BY <1>1, WithoutGives, InstallTyped

-----------------------------------------------------------------------------
(* The operations *)

LEMMA SameCardinality == \A S : Space!Cardinality(S) = Cardinality(S)
  BY DEF Space!Cardinality, Cardinality

LEMMA RegisterBlocksKeeps ==
  ASSUME ResidencyInv, NEW U \in SUBSET Block, RegisterBlocks(U)
  PROVE  ResidencyInv' /\ Space!RegisterBlocks(U)
<1>1. Registering(U) /\ Drop(U)
  BY DEF RegisterBlocks
<1>2. /\ blockRevision' \in [Block -> 0..MaxBlockRevision] /\ blockStale' = blockStale \ U
      /\ Known' = Known \cup U /\ blockStale' \subseteq Known'
  BY <1>1, RegisteringGives
<1>3. order' \in Lists /\ working' = working \ U /\ residence' \in [working' -> Nat]
  BY <1>1, DropGives
<1>4. working' \subseteq Eligible'
  BY <1>2, <1>3 DEF ResidencyInv, Eligible
<1>5. Space!RegisterBlocks(U)
  BY <1>1, <1>3 DEF Space!RegisterBlocks, Space!Registering, Registering
<1> QED
  BY <1>2, <1>3, <1>4, <1>5 DEF ResidencyInv, Lists

(* Rebuilding from old, once the directory is as it should be, installs a  *)
(* working set that ContextSpace allows.                                   *)
LEMMA RebuildGives ==
  ASSUME ResidencyInv, NEW old \in Lists, ToSet(old) \subseteq working,
         NEW C \in SUBSET (Block \ Pinned), NEW score \in Scores(C), NEW n \in {0, 1},
         RebuildFrom(old, score, C, n),
         C \subseteq Eligible', ToSet(old) \subseteq Eligible'
  PROVE  /\ order' \in Lists /\ working' \subseteq Eligible' /\ residence' \in [working' -> Nat]
         /\ Cardinality(working') <= MaxWorking
<1> DEFINE q == Rebuilt(old, score, C, n)
           P == {b \in ToSet(old) : residence[b] + n < MinResidency}
<1>1. q \in Lists /\ ToSet(q) \ P \subseteq C
  BY RebuiltSound
<1>2. Install(Aged(n), old, q)
  BY DEF RebuildFrom
<1>3. \A b \in ToSet(old) : Aged(n)[b] \in Nat
  BY AgedTyped
<1> HIDE DEF q
<1>4. order' = q /\ working' = ToSet(q) /\ residence' \in [working' -> Nat]
  BY <1>2, <1>3, InstallTyped
<1>5. Cardinality(working') <= MaxWorking
  BY <1>1, <1>4, ListedOnce DEF Lists
<1> QED
  BY <1>1, <1>4, <1>5

LEMMA RefreshKeeps ==
  ASSUME ResidencyInv, NEW U \in SUBSET Block, NEW C \in SUBSET (Block \ Pinned),
         NEW score \in Scores(C), Refresh(U, score, C)
  PROVE  ResidencyInv' /\ Space!Refresh(U)
<1>1. Registering(U) /\ C \subseteq Eligible' /\ RebuildFrom(Without(U), score, C, 1)
  BY DEF Refresh
<1>2. /\ blockRevision' \in [Block -> 0..MaxBlockRevision] /\ blockStale' = blockStale \ U
      /\ Known' = Known \cup U /\ blockStale' \subseteq Known'
  BY <1>1, RegisteringGives
<1>3. Without(U) \in Lists /\ ToSet(Without(U)) = working \ U
  BY WithoutGives
<1>4. ToSet(Without(U)) \subseteq Eligible'
  BY <1>2, <1>3 DEF ResidencyInv, Eligible
<1>5. /\ order' \in Lists /\ working' \subseteq Eligible' /\ residence' \in [working' -> Nat]
      /\ Cardinality(working') <= MaxWorking
  BY <1>1, <1>3, <1>4, RebuildGives
<1>6. Space!Refresh(U)
  BY <1>1, <1>5, SameCardinality
     DEF Space!Refresh, Space!Registering, Registering, Space!Live, Space!Known, Known, Eligible
<1> QED
  BY <1>2, <1>5, <1>6 DEF ResidencyInv, Lists

(* A rebuild alone is a refresh with no updates.                           *)
LEMMA RebuildKeeps ==
  ASSUME ResidencyInv, NEW C \in SUBSET Eligible, NEW score \in Scores(C), NEW n \in {0, 1},
         Rebuild(score, C, n)
  PROVE  ResidencyInv' /\ Space!Refresh({})
<1>1. blockRevision' = blockRevision /\ blockStale' = blockStale /\ RebuildFrom(order, score, C, n)
  BY DEF Rebuild
<1>2. Eligible' = Eligible /\ Known' = Known /\ C \in SUBSET (Block \ Pinned)
  BY <1>1 DEF Eligible, Known
<1>3. order \in Lists /\ ToSet(order) = working /\ working \subseteq Eligible'
  BY <1>2 DEF ResidencyInv, working
<1>4. /\ order' \in Lists /\ working' \subseteq Eligible' /\ residence' \in [working' -> Nat]
      /\ Cardinality(working') <= MaxWorking
  BY <1>1, <1>2, <1>3, RebuildGives
<1>5. blockRevision = [b \in Block |-> blockRevision[b]]
  BY DEF ResidencyInv
<1>6. blockRevision' = [b \in Block |-> IF b \in {} THEN blockRevision[b] + 1 ELSE blockRevision[b]]
  BY <1>1, <1>5
<1>7. Space!Refresh({})
  BY <1>1, <1>4, <1>6, SameCardinality DEF Space!Refresh, Space!Registering, Space!Live, Space!Known, Known, Eligible
<1> QED
  BY <1>1, <1>2, <1>4, <1>7 DEF ResidencyInv, Lists

LEMMA CommitSelectedKeeps ==
  ASSUME ResidencyInv, NEW requested \in SeqOf(Block, MaxWorking + 1),
         CommitSelected(requested, blockRevision)
  PROVE  ResidencyInv' /\ Space!CommitSelected(ToSet(requested), blockRevision) /\ ToSet(requested) \subseteq Block
<1>1. /\ Len(requested) <= MaxWorking /\ IsInjective(requested) /\ ToSet(requested) \subseteq Eligible
      /\ Install(Aged(1), order, requested)
      /\ blockRevision' = blockRevision /\ blockStale' = blockStale
  BY DEF CommitSelected
<1>2. requested \in Seq(Block)
  <2>1. PICK m \in 0..(MaxWorking + 1) : requested \in [1..m -> Block]
    BY DEF SeqOf
  <2> QED
    BY <2>1
<1>3. requested \in Lists
  BY <1>1, <1>2 DEF Lists
<1>4. Cardinality(ToSet(requested)) <= MaxWorking
  BY <1>1, <1>2, ListedOnce
<1>5. \A b \in ToSet(order) : Aged(1)[b] \in Nat
  BY AgedTyped DEF working
<1>6. order' = requested /\ working' = ToSet(requested) /\ residence' \in [working' -> Nat]
  BY <1>1, <1>5, InstallTyped
<1>7. Eligible' = Eligible /\ Known' = Known
  BY <1>1 DEF Eligible, Known
<1>8. Space!CommitSelected(ToSet(requested), blockRevision)
  BY <1>1, <1>4, <1>6, SameCardinality DEF Space!CommitSelected, Space!Live, Space!Known, Known, Eligible
<1>9. ToSet(requested) \subseteq Block
  BY <1>1 DEF Eligible, Known
<1> QED
  BY <1>1, <1>3, <1>6, <1>7, <1>8, <1>9 DEF ResidencyInv, Lists

LEMMA InvalidateBlocksKeeps ==
  ASSUME ResidencyInv, NEW S \in SUBSET Known, InvalidateBlocks(S)
  PROVE  ResidencyInv' /\ Space!InvalidateBlocks(S)
<1>1. blockStale' = blockStale \cup S /\ Drop(S) /\ blockRevision' = blockRevision
  BY DEF InvalidateBlocks
<1>2. order' \in Lists /\ working' = working \ S /\ residence' \in [working' -> Nat]
  BY <1>1, DropGives
<1>3. Known' = Known
  BY <1>1 DEF Known
<1>4. working' \subseteq Eligible'
  BY <1>1, <1>2, <1>3 DEF ResidencyInv, Eligible
<1>5. blockStale' \subseteq Known'
  BY <1>1, <1>3 DEF ResidencyInv
<1>6. Space!InvalidateBlocks(S)
  BY <1>1, <1>2 DEF Space!InvalidateBlocks
<1> QED
  BY <1>1, <1>2, <1>4, <1>5, <1>6 DEF ResidencyInv, Lists

(* Every step keeps the invariant and is a step of ContextSpace.           *)
LEMMA ResidencyStep ==
  ResidencyInv /\ [ResidencyNext]_residencyVars
    => ResidencyInv' /\ [Space!ContextNext]_Space!contextVars
<1> SUFFICES ASSUME ResidencyInv, [ResidencyNext]_residencyVars
             PROVE  ResidencyInv' /\ [Space!ContextNext]_Space!contextVars
  OBVIOUS
<1>1. CASE UNCHANGED residencyVars
  <2>1. working' = working
    BY <1>1 DEF residencyVars, working
  <2> QED
    BY <1>1, <2>1 DEF residencyVars, ResidencyInv, Eligible, Known, Lists, Space!contextVars
<1>2. ASSUME NEW U \in (SUBSET Block) \ {{}}, RegisterBlocks(U)
      PROVE  ResidencyInv' /\ Space!ContextNext
  BY <1>2, RegisterBlocksKeeps DEF Space!ContextNext
<1>3. ASSUME NEW U \in (SUBSET Block) \ {{}}, NEW C \in SUBSET (Block \ Pinned), NEW score \in Scores(C),
             Refresh(U, score, C)
      PROVE  ResidencyInv' /\ Space!ContextNext
  BY <1>3, RefreshKeeps DEF Space!ContextNext
<1>4. ASSUME NEW C \in SUBSET Eligible, NEW score \in Scores(C), NEW n \in {0, 1}, Rebuild(score, C, n)
      PROVE  ResidencyInv' /\ Space!ContextNext
  <2>1. ResidencyInv' /\ Space!Refresh({})
    BY <1>4, RebuildKeeps
  <2> QED
    BY <2>1 DEF Space!ContextNext
<1>5. ASSUME NEW requested \in SeqOf(Block, MaxWorking + 1), CommitSelected(requested, blockRevision)
      PROVE  ResidencyInv' /\ Space!ContextNext
  <2>1. ResidencyInv' /\ Space!CommitSelected(ToSet(requested), blockRevision) /\ ToSet(requested) \in SUBSET Block
    BY <1>5, CommitSelectedKeeps
  <2> QED
    BY <2>1 DEF Space!ContextNext
<1>6. ASSUME NEW b \in Block, InvalidateBlock(b)
      PROVE  ResidencyInv' /\ Space!ContextNext
  <2>1. b \in Known /\ InvalidateBlocks({b}) /\ {b} \in SUBSET Known
    BY <1>6 DEF InvalidateBlock
  <2>2. ResidencyInv' /\ Space!InvalidateBlock(b)
    BY <2>1, InvalidateBlocksKeeps DEF Space!InvalidateBlock, Space!Known, Known
  <2> QED
    BY <2>2 DEF Space!ContextNext
<1>7. ASSUME NEW D \in SUBSET UNION {BlockDeps[b] : b \in Block}, InvalidateDependencies(D)
      PROVE  ResidencyInv' /\ Space!ContextNext
  <2> DEFINE S == {b \in Known \ blockStale : BlockDeps[b] \cap D # {}}
  <2>1. InvalidateBlocks(S) /\ S \in SUBSET Known
    BY <1>7 DEF InvalidateDependencies
  <2>2. ResidencyInv' /\ Space!InvalidateBlocks(S)
    BY <2>1, InvalidateBlocksKeeps
  <2>3. Space!InvalidateDependencies(D)
    BY <2>2 DEF Space!InvalidateDependencies, Space!Live, Space!Known, Known
  <2> QED
    BY <2>2, <2>3 DEF Space!ContextNext
<1> QED
  BY <1>1, <1>2, <1>3, <1>4, <1>5, <1>6, <1>7 DEF ResidencyNext

LEMMA ResidencyStarts == ResidencyInit => ResidencyInv /\ Space!ContextInit
<1> SUFFICES ASSUME ResidencyInit PROVE ResidencyInv /\ Space!ContextInit
  OBVIOUS
<1>1. MaxBlockRevision \in Nat /\ MaxWorking \in Nat
  BY ResidencyAssumption DEF ResidencyAssumption
<1>2. order = <<>> /\ order \in Seq(Block) /\ Len(order) = 0 /\ IsInjective(order) /\ working = {}
  BY NothingListed DEF ResidencyInit, working
<1>3. residence \in [{} -> Nat]
  BY DEF ResidencyInit
<1> QED
  BY <1>1, <1>2, <1>3 DEF ResidencyInit, ResidencyInv, Lists, Space!ContextInit

-----------------------------------------------------------------------------
(* Theorems *)

(* No block is listed twice in the working set.                            *)
THEOREM BlocksAreListedOnce == ResidencySpec => []WorkingOnce
<1>1. ResidencyInv => WorkingOnce
  BY DEF ResidencyInv, Lists, WorkingOnce
<1> QED
  BY <1>1, ResidencyStarts, ResidencyStep, PTL DEF ResidencySpec

(* No rebuild drops a block before its minimum residency is over.          *)
THEOREM ResidencyIsRespected == ResidencySpec => []MinimumResidency
<1>1. ResidencyInv => MinimumResidency
  <2> SUFFICES ASSUME ResidencyInv, NEW C \in SUBSET Eligible, NEW score \in Scores(C), NEW n \in {0, 1}
               PROVE  LoadedLately(n) \subseteq ToSet(Rebuilt(order, score, C, n))
    BY DEF MinimumResidency
  <2>1. order \in Lists /\ ToSet(order) = working /\ C \in SUBSET (Block \ Pinned)
    BY DEF ResidencyInv, working, Eligible, Known
  <2> QED
    BY <2>1, RebuiltSound DEF LoadedLately
<1> QED
  BY <1>1, ResidencyStarts, ResidencyStep, PTL DEF ResidencySpec

(* What a rebuild adds to the protected blocks are the best candidates,    *)
(* and it adds as many as there is space for.                              *)
THEOREM RebuildsTakeTheBest == ResidencySpec => []RebuildTakesBest
<1>1. ResidencyInv => RebuildTakesBest
  <2> SUFFICES ASSUME ResidencyInv, NEW C \in SUBSET Eligible, NEW score \in Scores(C), NEW n \in {0, 1}
               PROVE  LET new == ToSet(Rebuilt(order, score, C, n))
                          taken == new \ LoadedLately(n)
                      IN  /\ taken \subseteq C
                          /\ \A b \in C \ new, a \in taken : Ahead(score, a, b)
                          /\ C \ new # {} => Cardinality(new) = MaxWorking
    BY DEF RebuildTakesBest
  <2> DEFINE q == Rebuilt(order, score, C, n)
             taken == ToSet(q) \ LoadedLately(n)
  <2>1. order \in Lists /\ ToSet(order) = working /\ C \in SUBSET (Block \ Pinned)
    BY DEF ResidencyInv, working, Eligible, Known
  <2>2. /\ q \in Lists /\ taken \subseteq C
        /\ \A b \in C \ ToSet(q) : Len(q) = MaxWorking /\ \A a \in taken : Ahead(score, a, b)
    BY <2>1, RebuiltSound DEF LoadedLately
  <2>3. Cardinality(ToSet(q)) = Len(q)
    BY <2>2, ListedOnce DEF Lists
  <2> HIDE DEF q
  <2>4. C \ ToSet(q) # {} => Cardinality(ToSet(q)) = MaxWorking
    BY <2>2, <2>3
  <2> QED
    BY <2>2, <2>4 DEF q
<1> QED
  BY <1>1, ResidencyStarts, ResidencyStep, PTL DEF ResidencySpec

(* The manager is a ContextSpace.                                          *)
THEOREM ManagerKeepsContextSpec == ResidencySpec => ImplementsContextSpace
<1> QED
  BY ResidencyStarts, ResidencyStep, PTL DEF ResidencySpec, ImplementsContextSpace, Space!ContextSpec
=============================================================================
