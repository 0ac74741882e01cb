-------------------------- MODULE ContextResidency --------------------------
(***************************************************************************)
(* ContextResidencyManager (src/jev_agent/context_residency.py): which     *)
(* blocks of the context directory are in the working set, and how a       *)
(* rebuild replaces them.  It implements ContextSpace.                     *)
(*                                                                         *)
(* A score depends on the query, the words of a block, its utility and its *)
(* age.  None of that matters to the replacement rules, so every rebuild   *)
(* chooses its scores and its candidates freely; mark_useful and require,  *)
(* which only feed scores and counters, leave no trace here.               *)
(***************************************************************************)
EXTENDS Integers, SequencesExt

CONSTANTS
  Block, Pinned, BlockDeps, MaxWorking, MaxBlockRevision,  \* see ContextSpace
  Position,      \* block -> its place in the order of the block ids
  Score,         \* scores, as integers
  Hysteresis,    \* hysteresis
  MinResidency   \* minimum_residency_steps

ASSUME ResidencyAssumption ==
  /\ Pinned \subseteq Block
  /\ MaxWorking \in Nat \ {0}
  /\ MaxBlockRevision \in Nat \ {0}
  /\ DOMAIN BlockDeps = Block
  /\ IsFiniteSet(Block)
  /\ Position \in [Block -> Nat] /\ \A a, b \in Block : Position[a] = Position[b] => a = b
  /\ Score \subseteq Int
  /\ Hysteresis \in Nat /\ MinResidency \in Nat

VARIABLES
  blockRevision,  \* _blocks: id -> revision, 0 for a block never registered
  blockStale,     \* the blocks whose stale flag is set
  order,          \* _working
  residence       \* block of _working -> _step - last_loaded_step, up to MinResidency

residencyVars == <<blockRevision, blockStale, order, residence>>

working == ToSet(order)
Known == {b \in Block : blockRevision[b] > 0}
Eligible == (Known \ blockStale) \ Pinned

ResidencyInit ==
  /\ blockRevision = [b \in Block |-> 0]
  /\ blockStale = {}
  /\ order = <<>>
  /\ residence = <<>>

-----------------------------------------------------------------------------
(* rebuild *)

Ahead(score, a, b) == score[a] > score[b] \/ (score[a] = score[b] /\ Position[a] < Position[b])

(* ranked: the blocks of C, the best first.                                *)
Ranked(score, C) ==
  CHOOSE s \in [1..Cardinality(C) -> C] : \A i, j \in DOMAIN s : i < j => Ahead(score, s[i], s[j])

(* min(replaceable, key=(score, id)): the place of the worst of P.         *)
Worst(score, selected, P) ==
  CHOOSE i \in P : \A j \in P \ {i} :
    \/ score[selected[i]] < score[selected[j]]
    \/ score[selected[i]] = score[selected[j]] /\ Position[selected[i]] < Position[selected[j]]

\* Mutant: the newcomer replaces the worst block unless it is better.
ConsiderReplaces(score, protected, selected, b) ==
  LET replaceable == {i \in DOMAIN selected : selected[i] \notin protected}
      worst == Worst(score, selected, replaceable)
  IN  IF b \in ToSet(selected) THEN selected
      ELSE IF Len(selected) < MaxWorking THEN Append(selected, b)
      ELSE IF replaceable = {} \/ score[b] > score[selected[worst]] + Hysteresis THEN selected
      ELSE [selected EXCEPT ![worst] = b]

(* One turn of the selection loop.  The break of the code is a turn that   *)
(* changes nothing, as are all that follow it.                             *)
Consider(score, protected, selected, b) ==
  LET replaceable == {i \in DOMAIN selected : selected[i] \notin protected}
      worst == Worst(score, selected, replaceable)
  IN  IF b \in ToSet(selected) THEN selected
      ELSE IF Len(selected) < MaxWorking THEN Append(selected, b)
      ELSE IF replaceable = {} \/ score[b] <= score[selected[worst]] + Hysteresis THEN selected
      ELSE [selected EXCEPT ![worst] = b]

\* Mutant: protected blocks compete with the others.
SelectUnprotected(score, protected, C) ==
  FoldLeft(LAMBDA selected, b : Consider(score, ToSet(protected), selected, b),
           <<>>,
           Ranked(score, C))

SelectWorking(score, protected, C) ==
  FoldLeft(LAMBDA selected, b : Consider(score, ToSet(protected), selected, b),
           protected,
           Ranked(score, C))

(* The blocks of s that are in K, in their order.                          *)
Only(s, K) == FoldLeft(LAMBDA kept, b : IF b \in K THEN Append(kept, b) ELSE kept, <<>>, s)

Capped(n) == IF n > MinResidency THEN MinResidency ELSE n

(* Working blocks that were loaded less than MinResidency steps ago.       *)
Protected(ages, old) == Only(old, {b \in ToSet(old) : ages[b] < MinResidency})

Install(ages, old, new) ==
  /\ order' = new
  /\ residence' = [b \in ToSet(new) |-> IF b \in ToSet(old) THEN ages[b] ELSE 0]

Aged(n) == [b \in DOMAIN residence |-> Capped(residence[b] + n)]

(* rebuild from the working blocks old, with candidates C; n is 1 when the *)
(* step advances.                                                          *)
Rebuilt(old, score, C, n) == SelectWorking(score, Protected(Aged(n), old), C)
RebuildFrom(old, score, C, n) == Install(Aged(n), old, Rebuilt(old, score, C, n))

-----------------------------------------------------------------------------
(* Operations *)

(* register a newer revision of the blocks of U.                           *)
Registering(U) ==
  /\ \A b \in U : blockRevision[b] < MaxBlockRevision
  /\ blockRevision' = [b \in Block |-> IF b \in U THEN blockRevision[b] + 1 ELSE blockRevision[b]]
  /\ blockStale' = blockStale \ U

Without(U) == Only(order, Block \ U)
Drop(U) == Install(residence, order, Without(U))

RegisterBlocks(U) == Registering(U) /\ Drop(U)

Refresh(U, score, C) ==
  /\ Registering(U)
  /\ C \subseteq Eligible'
  /\ RebuildFrom(Without(U), score, C, 1)

(* rebuild without a refresh; advance_step may be false.                   *)
Rebuild(score, C, n) ==
  /\ C \subseteq Eligible
  /\ UNCHANGED <<blockRevision, blockStale>>
  /\ RebuildFrom(order, score, C, n)

\* Mutant: an id may be requested twice.
CommitRepeated(requested, expected) ==
  /\ Len(requested) <= MaxWorking
  /\ ToSet(requested) \subseteq Eligible
  /\ \A b \in ToSet(requested) : expected[b] = blockRevision[b]
  /\ Install(Aged(1), order, requested)
  /\ UNCHANGED <<blockRevision, blockStale>>

(* commit_selected with the revisions expected of requested's blocks.      *)
CommitSelected(requested, expected) ==
  /\ Len(requested) <= MaxWorking
  /\ IsInjective(requested)
  /\ ToSet(requested) \subseteq Eligible
  /\ \A b \in ToSet(requested) : expected[b] = blockRevision[b]
  /\ Install(Aged(1), order, requested)
  /\ UNCHANGED <<blockRevision, blockStale>>

\* Mutant: stale blocks stay in the working set.
InvalidateKeepsOrder(S) ==
  /\ blockStale' = blockStale \cup S
  /\ UNCHANGED <<blockRevision, order, residence>>

InvalidateBlocks(S) ==
  /\ blockStale' = blockStale \cup S
  /\ Drop(S)
  /\ UNCHANGED blockRevision

InvalidateBlock(b) == b \in Known /\ InvalidateBlocks({b})
InvalidateDependencies(D) ==
  InvalidateBlocks({b \in Known \ blockStale : BlockDeps[b] \cap D # {}})

(* Scores matter for the candidates C and for what they may replace.       *)
Scores(C) == [C \cup working -> Score]

(* A refresh without updates is a rebuild.                                 *)
ResidencyNext ==
  \/ \E U \in (SUBSET Block) \ {{}} :
       \/ RegisterBlocks(U)
       \/ \E C \in SUBSET (Block \ Pinned) : \E score \in Scores(C) : Refresh(U, score, C)
  \/ \E C \in SUBSET Eligible, n \in {0, 1} : \E score \in Scores(C) : Rebuild(score, C, n)
  \/ \E requested \in SeqOf(Block, MaxWorking + 1) : CommitSelected(requested, blockRevision)
  \/ \E b \in Block : InvalidateBlock(b)
  \/ \E D \in SUBSET UNION {BlockDeps[b] : b \in Block} : InvalidateDependencies(D)

ResidencySpec == ResidencyInit /\ [][ResidencyNext]_residencyVars

-----------------------------------------------------------------------------
(* Properties *)

(* The manager does what its callers rely on: every operation is one of    *)
(* ContextSpace, whose working set is bounded and free of stale blocks.    *)
Space == INSTANCE ContextSpace
ImplementsContextSpace == Space!ContextSpec

(* A block is listed once in the working set, so the list never grows past *)
(* its bound by repeats of one id and a block is loaded at one step.       *)
WorkingOnce == IsInjective(order)

(* Whatever the next rebuild is asked for, in any state the replacement    *)
(* rules have led to, it keeps a block that was loaded less than           *)
(* minimum_residency_steps ago, however low its score for the new query.   *)
LoadedLately(n) == {b \in working : residence[b] + n < MinResidency}
MinimumResidency ==
  \A C \in SUBSET Eligible, n \in {0, 1} : \A score \in Scores(C) :
    LoadedLately(n) \subseteq ToSet(Rebuilt(order, score, C, n))

(* A rebuild fills the space that protected blocks leave with the best     *)
(* candidates: none that was left out is ahead of one that was taken, and  *)
(* none is left out while there is space.                                  *)
RebuildTakesBest ==
  \A C \in SUBSET Eligible, n \in {0, 1} : \A score \in Scores(C) :
    LET new == ToSet(Rebuilt(order, score, C, n))
        taken == new \ LoadedLately(n)
    IN  /\ taken \subseteq C
        /\ \A b \in C \ new, a \in taken : Ahead(score, a, b)
        /\ C \ new # {} => Cardinality(new) = MaxWorking
=============================================================================
