------------------------- MODULE ContextSpaceProofs -------------------------
(***************************************************************************)
(* The working set of the context manager stays sound, whatever is         *)
(* registered, refreshed, committed or invalidated.  The runtime and the   *)
(* refresh coordinator, which use the manager, rest on these lemmas.       *)
(***************************************************************************)
EXTENDS ContextSpace, FiniteSetTheorems, TLAPS

ContextInv == ContextTypeOK /\ WorkingSound

(* Registering leaves no block stale that it does not name, makes none     *)
(* unknown, and revives a block only with a new revision.                  *)
LEMMA RegisteringKeeps ==
  ASSUME ContextTypeOK, NEW U \in SUBSET Block, Registering(U)
  PROVE  /\ ContextTypeOK' <=> working' \subseteq Block
         /\ Known' = Known \cup U
         /\ blockStale' = blockStale \ U
         /\ \A b \in U : blockRevision'[b] > blockRevision[b]
         /\ \A b \in Block : blockRevision'[b] >= blockRevision[b]
<1>1. \A b \in Block : blockRevision[b] \in 0..MaxBlockRevision
  BY DEF ContextTypeOK
<1>2. MaxBlockRevision \in Nat
  BY ContextAssumption DEF ContextAssumption
<1>3. \A b \in Block : blockRevision'[b] = IF b \in U THEN blockRevision[b] + 1 ELSE blockRevision[b]
  BY DEF Registering
<1>4. \A b \in U : blockRevision[b] < MaxBlockRevision
  BY DEF Registering
<1>5. blockRevision' \in [Block -> 0..MaxBlockRevision]
  BY <1>1, <1>2, <1>4 DEF Registering
<1>6. Known' = Known \cup U
  BY <1>1, <1>3 DEF Known
<1> QED
  BY <1>1, <1>3, <1>5, <1>6 DEF Registering, ContextTypeOK

(* A working set with fewer blocks is within its bound.                    *)
LEMMA WorkingShrinks ==
  ASSUME ContextInv, NEW W \in SUBSET working
  PROVE  Cardinality(W) <= MaxWorking
<1>1. IsFiniteSet(working)
  BY FS_Subset, ContextAssumption DEF ContextInv, ContextTypeOK, ContextAssumption
<1>2. /\ Cardinality(W) <= Cardinality(working)
      /\ Cardinality(W) \in Nat /\ Cardinality(working) \in Nat
  BY <1>1, FS_Subset, FS_CardinalityType
<1> QED
  BY <1>2, ContextAssumption DEF ContextInv, WorkingSound, ContextAssumption

LEMMA RegisterBlocksKeeps ==
  ASSUME ContextInv, NEW U \in SUBSET Block, RegisterBlocks(U)
  PROVE  ContextInv'
<1>1. Registering(U) /\ working' = working \ U
  BY DEF RegisterBlocks
<1>2. ContextTypeOK' /\ Known' = Known \cup U /\ blockStale' = blockStale \ U
  BY <1>1, RegisteringKeeps DEF ContextInv, ContextTypeOK
<1>3. Cardinality(working') <= MaxWorking
  BY <1>1, WorkingShrinks
<1> QED
  BY <1>1, <1>2, <1>3 DEF ContextInv, WorkingSound, Live

LEMMA RefreshKeeps ==
  ASSUME ContextInv, NEW U \in SUBSET Block, Refresh(U)
  PROVE  ContextInv'
<1>1. Registering(U) /\ working' \in SUBSET (Live' \ Pinned) /\ Cardinality(working') <= MaxWorking
  BY DEF Refresh
<1>2. ContextTypeOK'
  BY <1>1, RegisteringKeeps DEF ContextInv, Live, Known
<1> QED
  BY <1>1, <1>2 DEF ContextInv, WorkingSound

LEMMA InvalidateBlocksKeeps ==
  ASSUME ContextInv, NEW S \in SUBSET Known, InvalidateBlocks(S)
  PROVE  ContextInv'
<1>1. blockStale' = blockStale \cup S /\ working' = working \ S /\ blockRevision' = blockRevision
  BY DEF InvalidateBlocks
<1>2. Cardinality(working') <= MaxWorking
  BY <1>1, WorkingShrinks
<1> QED
  BY <1>1, <1>2 DEF ContextInv, ContextTypeOK, WorkingSound, Live, Known

(* The working set is sound after every operation of the context manager.  *)
LEMMA ContextStep == ContextInv /\ [ContextNext]_contextVars => ContextInv'
<1> SUFFICES ASSUME ContextInv, [ContextNext]_contextVars
             PROVE  ContextInv'
  OBVIOUS
<1>1. CASE UNCHANGED contextVars
  BY <1>1 DEF contextVars, ContextInv, ContextTypeOK, WorkingSound, Live, Known
<1>2. CASE \E U \in SUBSET Block : RegisterBlocks(U) \/ Refresh(U)
  BY <1>2, RegisterBlocksKeeps, RefreshKeeps
<1>3. ASSUME NEW W \in SUBSET Block, CommitSelected(W, blockRevision)
      PROVE  ContextInv'
  BY <1>3 DEF CommitSelected, ContextInv, ContextTypeOK, WorkingSound, Live, Known
<1>4. CASE \E b \in Block : InvalidateBlock(b)
  BY <1>4, InvalidateBlocksKeeps DEF InvalidateBlock
<1>5. CASE \E D \in SUBSET UNION {BlockDeps[b] : b \in Block} : InvalidateDependencies(D)
  BY <1>5, InvalidateBlocksKeeps DEF InvalidateDependencies, Live
<1> QED
  BY <1>1, <1>2, <1>3, <1>4, <1>5 DEF ContextNext

LEMMA ContextStarts == ContextInit => ContextInv
<1> SUFFICES ASSUME ContextInit PROVE ContextInv
  OBVIOUS
<1>1. MaxBlockRevision \in Nat /\ MaxWorking \in Nat
  BY ContextAssumption DEF ContextAssumption
<1>2. Cardinality(working) = 0
  BY FS_EmptySet DEF ContextInit
<1> QED
  BY <1>1, <1>2 DEF ContextInit, ContextInv, ContextTypeOK, WorkingSound

(* What the context manager promises holds for whoever uses it.            *)
THEOREM ContextIsSound == ContextSpec => []WorkingSound
<1>1. ContextInv => WorkingSound
  BY DEF ContextInv
<1> QED
  BY <1>1, ContextStarts, ContextStep, PTL DEF ContextSpec

(* Objects that no block names make no difference to what is invalidated.  *)
LEMMA InvalidateNamed ==
  ASSUME NEW D, InvalidateDependencies(D)
  PROVE  ContextNext
<1> DEFINE N == UNION {BlockDeps[b] : b \in Block}
<1>1. \A b \in Block : BlockDeps[b] \cap D = BlockDeps[b] \cap (D \cap N)
  OBVIOUS
<1>2. {b \in Live : BlockDeps[b] \cap D # {}} = {b \in Live : BlockDeps[b] \cap (D \cap N) # {}}
  BY <1>1 DEF Live, Known
<1>3. InvalidateDependencies(D \cap N)
  BY <1>2 DEF InvalidateDependencies
<1>4. D \cap N \in SUBSET N
  OBVIOUS
<1> QED
  BY <1>3, <1>4 DEF ContextNext

(* Only a registration takes a block's stale mark away.                    *)
LEMMA RevivedStep ==
  ASSUME ContextInv, [ContextNext]_contextVars, NEW b \in Block, b \in blockStale, b \notin blockStale'
  PROVE  blockRevision'[b] > blockRevision[b]
<1>1. PICK U \in SUBSET Block : Registering(U)
  BY DEF ContextNext, contextVars, CommitSelected, InvalidateBlock, InvalidateDependencies, InvalidateBlocks,
     RegisterBlocks, Refresh
<1>2. b \in U
  BY <1>1 DEF Registering
<1> QED
  BY <1>1, <1>2, RegisteringKeeps DEF ContextInv

LEMMA RevivedIsRevised ==
  ASSUME ContextInv, [ContextNext]_contextVars
  PROVE  \A b \in Known : b \in blockStale /\ b \in ResidentBlocks' => blockRevision'[b] > blockRevision[b]
  BY RevivedStep DEF ResidentBlocks, Live, Known

(* Whatever is done to the directory, no block goes back to an older       *)
(* revision.                                                               *)
LEMMA RevisionsAdvance ==
  ASSUME ContextInv, [ContextNext]_contextVars, NEW b \in Block
  PROVE  blockRevision'[b] >= blockRevision[b]
<1>1. blockRevision[b] \in Nat
  BY ContextAssumption DEF ContextInv, ContextTypeOK, ContextAssumption
<1>2. CASE \E U \in SUBSET Block : Registering(U)
  BY <1>2, RegisteringKeeps DEF ContextInv
<1>3. CASE blockRevision' = blockRevision
  BY <1>1, <1>3
<1> QED
  BY <1>2, <1>3 DEF ContextNext, contextVars, CommitSelected, InvalidateBlock, InvalidateDependencies,
     InvalidateBlocks, RegisterBlocks, Refresh
=============================================================================
