---------------------------- MODULE ContextSpace ----------------------------
(***************************************************************************)
(* What the context manager (ContextResidencyManager,                      *)
(* src/jev_agent/context_residency.py) promises its callers: a directory   *)
(* of versioned blocks, of which the pinned ones and a bounded working set *)
(* are resident.  Which blocks a rebuild chooses is left open: scoring,    *)
(* aging and minimum residency are the business of ContextResidency, which *)
(* implements this module.                                                 *)
(***************************************************************************)
EXTENDS Integers, FiniteSets

CONSTANTS
  Block,            \* block ids
  Pinned,           \* the blocks whose content says pinned
  BlockDeps,        \* block id -> the objects in its dependencies
  MaxWorking,       \* max_working
  MaxBlockRevision  \* bound on block revisions

ASSUME ContextAssumption ==
  /\ Pinned \subseteq Block
  /\ MaxWorking \in Nat \ {0}
  /\ MaxBlockRevision \in Nat \ {0}
  /\ DOMAIN BlockDeps = Block
  /\ IsFiniteSet(Block)

VARIABLES
  blockRevision,  \* _blocks: id -> revision, 0 for a block never registered
  blockStale,     \* the blocks whose stale flag is set
  working         \* _working, as a set

contextVars == <<blockRevision, blockStale, working>>

Known == {b \in Block : blockRevision[b] > 0}
Live == Known \ blockStale
ResidentBlocks == (Pinned \cup working) \cap Live

ContextInit ==
  /\ blockRevision = [b \in Block |-> 0]
  /\ blockStale = {}
  /\ working = {}

\* Mutant: a repeated revision clears the stale flag.
RegisteringAgain(U) ==
  \E new \in SUBSET U :
    /\ U \ new \subseteq Known
    /\ \A b \in new : blockRevision[b] < MaxBlockRevision
    /\ blockRevision' = [b \in Block |-> IF b \in new THEN blockRevision[b] + 1 ELSE blockRevision[b]]
    /\ blockStale' = blockStale \ U

(* register a newer revision of each block of U.  A repeated revision      *)
(* changes nothing, not even the stale flag.                               *)
Registering(U) ==
  /\ \A b \in U : blockRevision[b] < MaxBlockRevision
  /\ blockRevision' = [b \in Block |-> IF b \in U THEN blockRevision[b] + 1 ELSE blockRevision[b]]
  /\ blockStale' = blockStale \ U

RegisterBlocks(U) == Registering(U) /\ working' = working \ U

(* refresh: register the updates, then rebuild the working set from the    *)
(* blocks that are neither stale nor pinned.                               *)
Refresh(U) ==
  /\ Registering(U)
  /\ working' \in SUBSET (Live' \ Pinned)
  /\ Cardinality(working') <= MaxWorking

(* commit_selected: install a working set that was verified elsewhere,     *)
(* if every block still has the revision it was verified at.               *)
CommitSelected(W, expected) ==
  /\ W \subseteq Live \ Pinned
  /\ Cardinality(W) <= MaxWorking
  /\ \A b \in W : blockRevision[b] = expected[b]
  /\ working' = W
  /\ UNCHANGED <<blockRevision, blockStale>>

\* Mutant: stale blocks stay in the working set.
InvalidateKeepsWorking(S) ==
  /\ blockStale' = blockStale \cup S
  /\ UNCHANGED <<blockRevision, working>>

InvalidateBlocks(S) ==
  /\ blockStale' = blockStale \cup S
  /\ working' = working \ S
  /\ UNCHANGED blockRevision

InvalidateBlock(b) == b \in Known /\ InvalidateBlocks({b})

(* invalidate_dependencies: every block that names one of the objects.     *)
InvalidateDependencies(D) == InvalidateBlocks({b \in Live : BlockDeps[b] \cap D # {}})

ContextNext ==
  \/ \E U \in SUBSET Block : RegisterBlocks(U) \/ Refresh(U)
  \/ \E W \in SUBSET Block : CommitSelected(W, blockRevision)
  \/ \E b \in Block : InvalidateBlock(b)
  \/ \E D \in SUBSET UNION {BlockDeps[b] : b \in Block} : InvalidateDependencies(D)

ContextSpec == ContextInit /\ [][ContextNext]_contextVars

-----------------------------------------------------------------------------
ContextTypeOK ==
  /\ blockRevision \in [Block -> 0..MaxBlockRevision]
  /\ blockStale \subseteq Known
  /\ working \subseteq Block

(* The working set is bounded, holds no pinned block (pinned blocks do not *)
(* count against the bound) and no block that is stale or unknown.         *)
WorkingSound ==
  /\ Cardinality(working) <= MaxWorking
  /\ working \subseteq Live \ Pinned
=============================================================================
