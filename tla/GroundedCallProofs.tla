------------------------- MODULE GroundedCallProofs -------------------------
(***************************************************************************)
(* The page table keeps its promise and the grounded agent calls its tool  *)
(* only on what the decision model was shown, for every instance.  The     *)
(* guard compares revisions; that equal revisions mean equal contents is   *)
(* what EvidenceSound keeps from the read of the evidence to the call.     *)
(***************************************************************************)
EXTENDS GroundedCall, ContextSpaceProofs

PageTyped == index \in [DOMAIN index -> IndexRecord]

(* What was read of page p, if it is still at that revision, still says    *)
(* what it said.                                                           *)
Sound(read) ==
  \A p \in DOMAIN read :
    /\ p \in DOMAIN index
    /\ read[p].revision \in Int
    /\ index[p].revision >= read[p].revision
    /\ index[p].revision = read[p].revision => index[p].payload = read[p].payload

EvidenceSound == InPhase("arguing") => Sound(call.evidence)

GroundedInv == PageTyped /\ EvidenceSound

-----------------------------------------------------------------------------
(* The page table *)

PageStep(p) ==
  /\ p \in DOMAIN index'
  /\ index'[p].revision \in Int
  /\ index'[p].revision >= index[p].revision
  /\ index'[p].revision = index[p].revision =>
       /\ index'[p].payload = index[p].payload
       /\ index[p].stale => index'[p].stale

IndexStep == PageTyped' /\ \A p \in DOMAIN index : PageStep(p)

(* A page is put in at a newer revision, or the same page as stale.        *)
LEMMA PutPageStep ==
  ASSUME PageTyped, NEW p, NEW payload \in Payload, NEW r \in 1..MaxMemoryRevision,
         NEW isStale \in BOOLEAN, PutPage(p, payload, r, isStale),
         p \in DOMAIN index =>
           \/ r > index[p].revision
           \/ r = index[p].revision /\ payload = index[p].payload /\ isStale = TRUE
  PROVE  IndexStep
<1> DEFINE new == [revision |-> r, payload |-> payload, stale |-> isStale]
<1>1. index' = [q \in DOMAIN index \cup {p} |-> IF q = p THEN new ELSE index[q]]
  BY DEF PutPage
<1>2. new \in IndexRecord
  BY DEF IndexRecord
<1>3. PageTyped'
  BY <1>1, <1>2 DEF PageTyped
<1>4. \A q \in DOMAIN index : PageStep(q)
  BY <1>1 DEF PageTyped, PageStep, IndexRecord
<1> QED
  BY <1>3, <1>4 DEF IndexStep

LEMMA IndexChange == PageTyped /\ [Next]_vars => IndexStep
<1> SUFFICES ASSUME PageTyped, [Next]_vars PROVE IndexStep
  OBVIOUS
<1>1. CASE UNCHANGED index
  BY <1>1 DEF IndexStep, PageTyped, PageStep, IndexRecord
<1>2. CASE \E p \in MemoryId, payload \in Payload, r \in 1..MaxMemoryRevision : Upsert(p, payload, r)
  BY <1>2, PutPageStep DEF Upsert
<1>3. CASE \E p \in MemoryId : MarkStale(p)
  <2>1. PICK p \in DOMAIN index : PutPage(p, index[p].payload, index[p].revision, TRUE)
    BY <1>3 DEF MarkStale
  <2>2. index[p].payload \in Payload /\ index[p].revision \in 1..MaxMemoryRevision
    BY DEF PageTyped, IndexRecord
  <2> QED
    BY <2>1, <2>2, PutPageStep
<1>4. CASE AgentStep
  BY <1>1, <1>4
  DEF AgentStep, BeginRun, BeginOrchestrated, AnswerSelection, ModelFailsOrDeclines,
      ChooseDraft, ChooseTopK, FinishTopK, ToolReturns
<1>5. CASE AgentEnvironment
  BY <1>1, <1>2, <1>3, <1>5 DEF AgentEnvironment, Propose
<1>6. CASE GroundedStep \/ GroundedEnvironment
  BY <1>1, <1>6
  DEF GroundedStep, GroundedEnvironment, BeginGrounded, BeginGroundedRaises, SelectEvidence,
      AcceptEvidence, GroundedStops, ConfirmCall, agentVars
<1> QED
  BY <1>1, <1>4, <1>5, <1>6 DEF Next, AgentNext, vars, agentVars

-----------------------------------------------------------------------------
(* The evidence *)

(* A change of the table leaves what was read sound.                       *)
LEMMA SoundStep ==
  ASSUME PageTyped, IndexStep, NEW read, Sound(read)
  PROVE  Sound(read)'
  BY DEF PageTyped, IndexStep, PageStep, Sound, IndexRecord

LEMMA ShownSound ==
  ASSUME PageTyped, NEW ids \in SUBSET DOMAIN index
  PROVE  Sound(Shown(ids))
  BY DEF PageTyped, Sound, Shown, IndexRecord

(* A read that succeeds finds every page as expected.                      *)
LEMMA ReadCurrent ==
  ASSUME NEW ids, NEW expected, NEW limits, ReadErrors(ids, expected, limits) = {}
  PROVE  \A p \in ids : p \in Visible /\ index[p].revision = expected[p]
<1>1. Cardinality(ids) <= limits.pages
  <2> SUFFICES ASSUME ~(Cardinality(ids) <= limits.pages) PROVE FALSE
    OBVIOUS
  <2>1. "read_budget_exceeded" \in ReadErrors(ids, expected, limits)
    BY Zenon DEF ReadErrors
  <2> QED
    BY <2>1
<1>2. AsExpected(ids, expected) = ids
  <2> SUFFICES ASSUME AsExpected(ids, expected) # ids PROVE FALSE
    OBVIOUS
  <2>1. "stale_selection" \in ReadErrors(ids, expected, limits)
    BY <1>1, Zenon DEF ReadErrors
  <2> QED
    BY <2>1
<1> QED
  BY <1>2 DEF AsExpected

(* The evidence the arguments are built on has just been read.             *)
LEMMA RecoveredSound ==
  ASSUME PageTyped, NEW read, Sound(read), NEW evidence \in {read} \cup Recovered(read)
  PROVE  Sound(evidence)
<1>1. CASE evidence = read
  BY <1>1
<1>2. CASE evidence # read
  <2>1. PICK ids \in SUBSET (Visible \ DOMAIN read) : evidence = Merge(read, Shown(ids))
    BY <1>2 DEF Recovered
  <2>2. Sound(Shown(ids))
    BY <2>1, ShownSound DEF Visible
  <2> QED
    BY <2>1, <2>2 DEF Sound, Merge
<1> QED
  BY <1>1, <1>2

LEMMA ReadCompleteShows ==
  ASSUME NEW selection, NEW answer \in AfterAnswer(selection),
         answer.stage = "ended", answer.status = "read_complete"
  PROVE  \E ids \in SUBSET DOMAIN index : answer.pages = Shown(ids)
<1> USE DEF Ended, Asking, ReadComplete
<1>1. answer \notin ControlAnswers
  BY DEF ControlAnswers
<1>2. answer \notin AfterRank(selection.seen)
  BY <1>1 DEF AfterRank, Requests
<1>3. answer \in AfterCount(selection.seen)
  BY <1>2 DEF AfterAnswer
<1>4. PICK ids : answer \in ReadResults(ids, selection.seen)
  BY <1>1, <1>3 DEF AfterCount
<1>5. ReadErrors(ids, selection.seen, ReadLimits) = {} /\ answer = ReadComplete(ids)
  <2>1. \A e \in ReadErrors(ids, selection.seen, ReadLimits) : e # "read_complete"
    BY DEF ReadErrors
  <2> QED
    BY <1>4, <2>1 DEF ReadResults
<1>6. ids \in SUBSET DOMAIN index
  BY <1>5, ReadCurrent DEF Visible
<1> QED
  BY <1>5, <1>6

LEMMA ReadCompleteSound ==
  ASSUME PageTyped, NEW selection, NEW answer \in AfterAnswer(selection),
         answer.stage = "ended", answer.status = "read_complete"
  PROVE  Sound(answer.pages)
  BY ReadCompleteShows, ShownSound

-----------------------------------------------------------------------------
(* The only step to the arguments is the one that accepts the evidence.    *)
LEMMA OnlyAcceptedEvidence ==
  [Next]_vars => AcceptEvidence \/ call' = call \/ call'.phase # "arguing"
<1> SUFFICES ASSUME [Next]_vars PROVE AcceptEvidence \/ call' = call \/ call'.phase # "arguing"
  OBVIOUS
<1>1. CASE UNCHANGED vars
  BY <1>1 DEF vars, agentVars, runVars
<1>2. CASE GroundedStep
  BY <1>2 DEF GroundedStep, BeginGrounded, BeginGroundedRaises, SelectEvidence, GroundedStops,
              ConfirmCall, Gathering, Executing, Return, Idle, agentVars, runVars
<1>3. CASE GroundedEnvironment
  BY <1>3 DEF GroundedEnvironment, agentVars, runVars
<1>4. CASE AgentStep
  BY <1>4 DEF AgentStep, BeginRun, BeginOrchestrated, AfterSelection, AnswerSelection,
              ModelFailsOrDeclines, ChooseDraft, ChooseTopK, FinishTopK, ToolReturns, Choosing,
              Executing, Return, Idle
<1>5. CASE AgentEnvironment
  BY <1>5 DEF AgentEnvironment, Propose, runVars
<1> QED
  BY <1>1, <1>2, <1>3, <1>4, <1>5 DEF Next, AgentNext

LEMMA InvStep == GroundedInv /\ [Next]_vars => GroundedInv'
<1> SUFFICES ASSUME GroundedInv, [Next]_vars PROVE GroundedInv'
  OBVIOUS
<1>1. IndexStep
  BY IndexChange DEF GroundedInv
<1>2. CASE AcceptEvidence
  <2>1. PICK selection \in AfterAnswer(call.selection) :
           /\ selection.stage = "ended" /\ selection.status = "read_complete"
           /\ \E evidence \in {selection.pages} \cup Recovered(selection.pages) : call' = Arguing(evidence)
    BY <1>2 DEF AcceptEvidence
  <2>2. PICK evidence \in {selection.pages} \cup Recovered(selection.pages) : call' = Arguing(evidence)
    BY <2>1
  <2>3. Sound(evidence)
    BY <2>1, ReadCompleteSound, RecoveredSound DEF GroundedInv
  <2>4. Sound(evidence)'
    BY <1>1, <2>3, SoundStep DEF GroundedInv
  <2> QED
    BY <1>1, <2>2, <2>4 DEF GroundedInv, EvidenceSound, IndexStep, Arguing
<1>3. CASE call' = call
  BY <1>1, <1>3, SoundStep DEF GroundedInv, EvidenceSound, IndexStep, InPhase
<1>4. CASE call'.phase # "arguing"
  BY <1>1, <1>4 DEF GroundedInv, EvidenceSound, IndexStep, InPhase
<1> QED
  BY <1>2, <1>3, <1>4, OnlyAcceptedEvidence

LEMMA InitInv == Init => GroundedInv
  BY DEF Init, AgentInit, IndexInit, GroundedInv, PageTyped, EvidenceSound, InPhase, Idle

(* A page that was shown is never replaced under its revision.             *)
THEOREM PagesKeepHistory == Spec => MemoryHistory
<1> DEFINE Step ==
      \A p \in DOMAIN index :
        /\ p \in DOMAIN index'
        /\ index'[p].revision >= index[p].revision
        /\ index'[p].revision = index[p].revision =>
             /\ index'[p].payload = index[p].payload
             /\ index[p].stale => index'[p].stale
<1>1. GroundedInv /\ [Next]_vars => [Step]_index
  <2>1. IndexStep => Step
    BY DEF IndexStep, PageStep
  <2> QED
    BY <2>1, IndexChange DEF GroundedInv
<1> QED
  BY <1>1, InitInv, InvStep, PTL DEF Spec, MemoryHistory

(* The only step from the arguments to the tool is the guarded one.        *)
LEMMA GuardedCall ==
  ASSUME [Next]_vars, InPhase("arguing"), call'.phase = "executing"
  PROVE  Guard
<1> USE DEF InPhase
<1>1. call' # call
  OBVIOUS
<1>2. CASE GroundedStep
  BY <1>2 DEF GroundedStep, BeginGrounded, BeginGroundedRaises, SelectEvidence, AcceptEvidence,
              GroundedStops, ConfirmCall, Return, Idle
<1>3. CASE GroundedEnvironment \/ UNCHANGED vars
  BY <1>1, <1>3 DEF GroundedEnvironment, vars, agentVars, runVars
<1>4. CASE AgentStep
  BY <1>4 DEF AgentStep, BeginRun, BeginOrchestrated, AnswerSelection, ModelFailsOrDeclines,
              ChooseDraft, ChooseTopK, FinishTopK, ToolReturns, Return, Idle
<1>5. CASE AgentEnvironment
  BY <1>1, <1>5 DEF AgentEnvironment, Propose, runVars
<1> QED
  BY <1>2, <1>3, <1>4, <1>5 DEF Next, AgentNext

(* Whatever changes while the model answers, the grounded agent calls the  *)
(* tool only if all that the model was shown is still so.                  *)
THEOREM GroundedCallsOnWhatWasShown == Spec => CallsOnWhatWasShown
<1>1. GroundedInv /\ [Next]_vars => [InPhase("arguing") /\ call'.phase = "executing" => StillAsShown]_vars
  <2> SUFFICES ASSUME GroundedInv, [Next]_vars, InPhase("arguing"), call'.phase = "executing"
               PROVE StillAsShown
    OBVIOUS
  <2>1. Guard
    BY GuardedCall
  <2>2. Sound(call.evidence)
    BY DEF GroundedInv, EvidenceSound
  <2>3. \A p \in EvidenceIds : p \in Visible /\ index[p].revision = EvidenceRevisions[p]
    BY <2>1, ReadCurrent DEF Guard
  <2>4. \A p \in DOMAIN call.evidence : index[p].payload = call.evidence[p].payload
    BY <2>2, <2>3 DEF EvidenceIds, EvidenceRevisions, Sound
  <2> QED
    BY <2>1, <2>3, <2>4 DEF Guard, EvidenceIds, StillAsShown
<1> QED
  BY <1>1, InitInv, InvStep, PTL DEF Spec, CallsOnWhatWasShown

-----------------------------------------------------------------------------
(* The agent *)

(* A run is given drafts of its own task, and offers those that were       *)
(* current when it began: a draft that declares nothing is of the revision *)
(* the run began with.                                                     *)
DraftsInv ==
  /\ InPhase("selecting") => \A d \in call.given : d.task = call.task
  /\ InPhase("choosing") =>
       \A d \in call.offered :
         /\ d.task = call.task
         /\ DOMAIN d.versions = {} => d.revision = call.revision

LEMMA ChoosingInv ==
  ASSUME NEW t, NEW view, NEW given, NEW D, NEW topk, \A d \in given : d.task = t,
         call' = Choosing(t, view, given, D, topk)
  PROVE  DraftsInv'
<1>1. /\ call'.phase = "choosing" /\ call'.task = t /\ call'.revision = revision[t]
      /\ call'.offered = {d \in given : IsCurrent(d, revision[t])}
  BY DEF Choosing
<1> QED
  BY <1>1 DEF DraftsInv, InPhase, IsCurrent

LEMMA SelectionInv ==
  ASSUME NEW selection, NEW t, NEW given, NEW D, NEW topk, \A d \in given : d.task = t,
         call' = AfterSelection(selection, t, given, D, topk)
  PROVE  DraftsInv'
<1>1. CASE selection.stage # "ended"
  BY <1>1 DEF AfterSelection, DraftsInv, InPhase
<1>2. CASE selection.stage = "ended" /\ selection.status \in Blocking
  BY <1>2 DEF AfterSelection, DraftsInv, InPhase, Idle
<1>3. CASE selection.stage = "ended" /\ selection.status \notin Blocking
  BY <1>3, ChoosingInv DEF AfterSelection
<1> QED
  BY <1>1, <1>2, <1>3

LEMMA DraftsStep == DraftsInv /\ [Next]_vars => DraftsInv'
<1> SUFFICES ASSUME DraftsInv, [Next]_vars PROVE DraftsInv'
  OBVIOUS
<1>1. CASE call' = call
  BY <1>1 DEF DraftsInv, InPhase
<1>2. CASE call'.phase \notin {"selecting", "choosing"}
  BY <1>2 DEF DraftsInv, InPhase
<1>3. CASE \E t \in TaskId : \E given \in SUBSET DraftsOf(t), D \in SUBSET Object, topk \in BOOLEAN :
             BeginRun(t, given, D, topk) \/ BeginOrchestrated(t, given, D, topk)
  BY <1>3, ChoosingInv, SelectionInv DEF BeginRun, BeginOrchestrated, DraftsOf
<1>4. CASE AnswerSelection
  BY <1>4, SelectionInv DEF AnswerSelection, DraftsInv
<1>5. CASE AgentStep
  BY <1>2, <1>3, <1>4, <1>5
  DEF AgentStep, ModelFailsOrDeclines, ChooseDraft, ChooseTopK, FinishTopK, ToolReturns,
      Executing, Return, Idle
<1>6. CASE GroundedStep
  BY <1>1, <1>2, <1>6
  DEF GroundedStep, BeginGrounded, BeginGroundedRaises, SelectEvidence, AcceptEvidence,
      GroundedStops, ConfirmCall, Gathering, Arguing, Executing, Return, Idle, agentVars, runVars
<1>7. CASE AgentEnvironment \/ GroundedEnvironment \/ UNCHANGED vars
  BY <1>1, <1>7 DEF AgentEnvironment, Propose, GroundedEnvironment, vars, agentVars, runVars
<1> QED
  BY <1>5, <1>6, <1>7 DEF Next, AgentNext

(* An agent calls its tool only while what the call declares to rest on is *)
(* unchanged, however the task is revised during the run.                  *)
THEOREM AgentCallsOnDeclaredVersions == Spec => CallsOnDeclaredVersions
<1>1. DraftsInv /\ [Next]_vars => [ToolCalled => RestsUnchanged]_agentVars
  <2> SUFFICES ASSUME DraftsInv, [Next]_vars, ToolCalled PROVE RestsUnchanged
    OBVIOUS
  <2>1. ASSUME NEW d \in drafts, ChooseDraft(d) PROVE RestsUnchanged
    <3>1. IsCurrent(d, SeenRevision) /\ call'.rests = d.versions
      BY <2>1 DEF ChooseDraft, ToolCalled, InPhase, Executing, Return, Idle
    <3>2. d.task = call.task /\ (DOMAIN d.versions = {} => d.revision = call.revision)
      BY <2>1 DEF ChooseDraft, DraftsInv
    <3> QED
      BY <3>1, <3>2 DEF IsCurrent, SeenRevision, RevisionIn, RestsUnchanged
  <2>2. CASE FinishTopK
    <3>1. ~DependenciesChanged /\ call'.rests = call.rests
      BY <2>2 DEF FinishTopK, ToolCalled, InPhase, Executing, Return, Idle
    <3> QED
      BY <3>1 DEF DependenciesChanged, SeenRevision, RevisionIn, RestsUnchanged
  <2>3. CASE GroundedStep
    BY <2>3
    DEF GroundedStep, BeginGrounded, BeginGroundedRaises, SelectEvidence, AcceptEvidence,
        GroundedStops, ConfirmCall, ToolCalled, InPhase, Gathering, Arguing, Return, Idle,
        agentVars, runVars
  <2>4. CASE AgentEnvironment \/ GroundedEnvironment \/ UNCHANGED vars
    BY <2>4 DEF AgentEnvironment, Propose, GroundedEnvironment, vars, agentVars, runVars,
                ToolCalled, InPhase
  <2>5. CASE AgentStep
    BY <2>1, <2>2, <2>5
    DEF AgentStep, BeginRun, BeginOrchestrated, AnswerSelection, ModelFailsOrDeclines,
        ChooseTopK, ToolReturns, ToolCalled, InPhase, Return, Idle
  <2> QED
    BY <2>3, <2>4, <2>5 DEF Next, AgentNext
<1>2. Init => DraftsInv
  BY DEF Init, AgentInit, DraftsInv, InPhase, Idle
<1> QED
  BY <1>1, <1>2, DraftsStep, PTL DEF Spec, CallsOnDeclaredVersions

-----------------------------------------------------------------------------
(* Types and bounds *)

EvidenceTyped == InPhase("arguing") => call.evidence \in Evidence /\ Fits(call.evidence, EvidenceLimits)

TypeInv == IndexTypeOK /\ TaskTypeOK /\ ContextInv /\ EvidenceTyped

(* A page that is put in where there is room leaves the table within its   *)
(* capacity.                                                               *)
LEMMA PutPageTyped ==
  ASSUME IndexTypeOK, NEW p \in MemoryId, NEW payload \in Payload, NEW r \in 1..MaxMemoryRevision,
         NEW isStale \in BOOLEAN, PutPage(p, payload, r, isStale), HasRoom(p)
  PROVE  IndexTypeOK'
<1> DEFINE new == [revision |-> r, payload |-> payload, stale |-> isStale]
<1>1. index' = [q \in DOMAIN index \cup {p} |-> IF q = p THEN new ELSE index[q]]
  BY DEF PutPage
<1>2. new \in IndexRecord
  BY DEF IndexRecord
<1> HIDE DEF new
<1>3. DOMAIN index' = DOMAIN index \cup {p} /\ \A q \in DOMAIN index' : index'[q] \in IndexRecord
  BY <1>1, <1>2 DEF IndexTypeOK
<1>4. IsFiniteSet(DOMAIN index) /\ Cardinality(DOMAIN index) \in Nat /\ Cardinality(DOMAIN index) <= MaxMemoryPages
  BY FS_CardinalityType DEF IndexTypeOK
<1>5. MaxMemoryPages \in Nat
  BY PagedMemoryAssumption DEF PagedMemoryAssumption
<1>6. IsFiniteSet(DOMAIN index') /\ Cardinality(DOMAIN index') <= MaxMemoryPages
  <2>1. CASE p \in DOMAIN index
    <3>1. DOMAIN index' = DOMAIN index
      BY <1>3, <2>1
    <3> QED
      BY <1>4, <3>1
  <2>2. CASE p \notin DOMAIN index
    <3>1. Cardinality(DOMAIN index) < MaxMemoryPages
      BY <2>2 DEF HasRoom
    <3>2. IsFiniteSet(DOMAIN index \cup {p}) /\ Cardinality(DOMAIN index \cup {p}) = Cardinality(DOMAIN index) + 1
      BY <1>4, <2>2, FS_AddElement
    <3> QED
      BY <1>3, <1>4, <1>5, <3>1, <3>2
  <2> QED
    BY <2>1, <2>2
<1> QED
  BY <1>3, <1>6 DEF IndexTypeOK

LEMMA ReviseTyped ==
  ASSUME TaskTypeOK, NEW t \in TaskId, NEW x \in Object, Revise(t, x)
  PROVE  TaskTypeOK'
<1>1. Cardinality({x}) = 1
  BY FS_Singleton
<1>2. /\ revision[t] + 1 <= MaxTaskRevision /\ revision' = [revision EXCEPT ![t] = @ + 1]
      /\ version' = [version EXCEPT ![t] = Bumped(@, {x})] /\ memory' = memory
  BY <1>1 DEF Revise, ReviseAll
<1>3. \A y \in Object : Cardinality({d \in {x} : y \in Affected({d})}) \in Nat
  <2> SUFFICES ASSUME NEW y \in Object
               PROVE  Cardinality({d \in {x} : y \in Affected({d})}) \in Nat
    OBVIOUS
  <2>1. IsFiniteSet({x}) /\ {d \in {x} : y \in Affected({d})} \in SUBSET {x}
    BY FS_Singleton
  <2> QED
    BY <2>1, FS_Subset, FS_CardinalityType
<1>4. \A versions \in [Object -> Nat] : Bumped(versions, {x}) \in [Object -> Nat]
  <2> SUFFICES ASSUME NEW versions \in [Object -> Nat]
               PROVE  Bumped(versions, {x}) \in [Object -> Nat]
    OBVIOUS
  <2> DEFINE bump == [y \in Object |-> Cardinality({d \in {x} : y \in Affected({d})})]
  <2>1. bump \in [Object -> Nat]
    BY <1>3
  <2>2. Bumped(versions, {x}) = [y \in Object |-> versions[y] + bump[y]]
    BY DEF Bumped
  <2> HIDE DEF bump
  <2>3. ASSUME NEW y \in Object PROVE versions[y] + bump[y] \in Nat
    <3>1. versions[y] \in Nat /\ bump[y] \in Nat
      BY <2>1
    <3> QED
      BY <3>1
  <2> QED
    BY <2>2, <2>3
<1>5. version' \in [TaskId -> [Object -> Nat]]
  <2>1. version[t] \in [Object -> Nat]
    BY DEF TaskTypeOK
  <2>2. Bumped(version[t], {x}) \in [Object -> Nat]
    BY <1>4, <2>1
  <2> QED
    BY <1>2, <2>2 DEF TaskTypeOK
<1>6. revision' \in [TaskId -> 1..MaxTaskRevision]
  <2>1. revision[t] \in 1..MaxTaskRevision
    BY DEF TaskTypeOK
  <2>2. MaxTaskRevision \in Nat
    BY TaskMemoryAssumption DEF TaskMemoryAssumption
  <2>3. revision[t] + 1 \in 1..MaxTaskRevision
    BY <1>2, <2>1, <2>2
  <2> QED
    BY <1>2, <2>3 DEF TaskTypeOK
<1> QED
  BY <1>2, <1>5, <1>6 DEF TaskTypeOK

LEMMA MemoryTyped ==
  ASSUME TaskTypeOK, revision' = revision, version' = version,
         \/ \E t \in TaskId, r \in Record : AddRecord(t, r)
         \/ \E t \in TaskId : InvalidateRecords(version[t], {})
         \/ memory' = memory
  PROVE  TaskTypeOK'
<1>1. ASSUME NEW t \in TaskId, NEW r \in Record, AddRecord(t, r)
      PROVE  TaskTypeOK'
  <2> DEFINE new == [versions |-> [x \in RecordDeps[r] |-> version[t][x]], current |-> TRUE]
  <2>1. memory' = [s \in DOMAIN memory \cup {r} |-> IF s = r THEN new ELSE memory[s]]
    BY <1>1 DEF AddRecord
  <2>2. new \in [versions : [RecordDeps[r] -> Nat], current : BOOLEAN]
    BY TaskMemoryAssumption DEF TaskMemoryAssumption, TaskTypeOK
  <2> HIDE DEF new
  <2> QED
    BY <2>1, <2>2 DEF TaskTypeOK
<1>2. ASSUME NEW t \in TaskId, InvalidateRecords(version[t], {})
      PROVE  TaskTypeOK'
  <2>1. /\ DOMAIN memory' = DOMAIN memory
        /\ \A r \in DOMAIN memory :
             memory'[r] = [memory[r] EXCEPT !.current = FALSE] \/ memory'[r] = memory[r]
    BY <1>2 DEF InvalidateRecords
  <2>2. \A r \in DOMAIN memory : memory'[r] \in [versions : [RecordDeps[r] -> Nat], current : BOOLEAN]
    BY <2>1 DEF TaskTypeOK
  <2> QED
    BY <2>1, <2>2 DEF TaskTypeOK
<1>3. CASE memory' = memory
  BY <1>3 DEF TaskTypeOK
<1> QED
  BY <1>1, <1>2, <1>3

(* A read has a revision and a payload of each of its pages.               *)
LEMMA ShownTyped ==
  ASSUME IndexTypeOK, NEW ids \in SUBSET DOMAIN index
  PROVE  Shown(ids) \in Evidence
<1>1. Shown(ids) \in [ids -> [revision : 1..MaxMemoryRevision, payload : Payload]]
  BY DEF IndexTypeOK, Shown, IndexRecord
<1>2. ids \in SUBSET MemoryId
  BY DEF IndexTypeOK
<1> QED
  BY <1>1, <1>2 DEF Evidence

LEMMA RecoveredTyped ==
  ASSUME IndexTypeOK, NEW read \in Evidence, NEW evidence \in {read} \cup Recovered(read)
  PROVE  evidence \in Evidence
<1>1. CASE evidence = read
  BY <1>1
<1>2. CASE evidence # read
  <2> DEFINE Shape == [revision : 1..MaxMemoryRevision, payload : Payload]
  <2>1. PICK ids \in SUBSET (Visible \ DOMAIN read) : evidence = Merge(read, Shown(ids))
    BY <1>2 DEF Recovered
  <2>2. Shown(ids) \in Evidence /\ DOMAIN Shown(ids) = ids
    BY <2>1, ShownTyped DEF Visible, Shown
  <2>3. PICK D \in SUBSET MemoryId : read \in [D -> Shape]
    BY DEF Evidence
  <2>4. ids \in SUBSET MemoryId /\ Shown(ids) \in [ids -> Shape]
    BY <2>2 DEF Evidence
  <2>5. Merge(read, Shown(ids)) \in [D \cup ids -> Shape]
    <3> HIDE DEF Shape
    <3> QED
      BY <2>3, <2>4 DEF Merge
  <2> HIDE DEF Shape
  <2>6. D \cup ids \in SUBSET MemoryId
    BY <2>4
  <2> QED
    BY <2>1, <2>5, <2>6 DEF Evidence, Shape
<1> QED
  BY <1>1, <1>2

LEMMA IndexTyped == IndexTypeOK /\ [Next]_vars => IndexTypeOK'
<1> SUFFICES ASSUME IndexTypeOK, [Next]_vars PROVE IndexTypeOK'
  OBVIOUS
<1>1. CASE UNCHANGED index
  BY <1>1 DEF IndexTypeOK
<1>2. CASE \E p \in MemoryId, payload \in Payload, r \in 1..MaxMemoryRevision : Upsert(p, payload, r)
  BY <1>2, PutPageTyped DEF Upsert
<1>3. CASE \E p \in MemoryId : MarkStale(p)
  <2>1. PICK p \in MemoryId : p \in DOMAIN index /\ PutPage(p, index[p].payload, index[p].revision, TRUE)
    BY <1>3 DEF MarkStale
  <2>2. index[p].payload \in Payload /\ index[p].revision \in 1..MaxMemoryRevision /\ HasRoom(p)
    BY <2>1 DEF IndexTypeOK, IndexRecord, HasRoom
  <2> QED
    BY <2>1, <2>2, PutPageTyped
<1>4. CASE AgentStep
  BY <1>1, <1>4
  DEF AgentStep, BeginRun, BeginOrchestrated, AnswerSelection, ModelFailsOrDeclines,
      ChooseDraft, ChooseTopK, FinishTopK, ToolReturns
<1>5. CASE AgentEnvironment
  BY <1>1, <1>2, <1>3, <1>5 DEF AgentEnvironment, Propose
<1>6. CASE GroundedStep \/ GroundedEnvironment
  BY <1>1, <1>6
  DEF GroundedStep, GroundedEnvironment, BeginGrounded, BeginGroundedRaises, SelectEvidence,
      AcceptEvidence, GroundedStops, ConfirmCall, agentVars
<1> QED
  BY <1>1, <1>4, <1>5, <1>6 DEF Next, AgentNext, vars, agentVars

LEMMA TaskTyped == TaskTypeOK /\ [Next]_vars => TaskTypeOK'
<1> SUFFICES ASSUME TaskTypeOK, [Next]_vars PROVE TaskTypeOK'
  OBVIOUS
<1>1. CASE UNCHANGED taskVars
  BY <1>1, MemoryTyped DEF taskVars
<1>2. CASE \E t \in TaskId, x \in Object : Revise(t, x)
  BY <1>2, ReviseTyped
<1>3. CASE \E t \in TaskId, r \in Record : AddRecord(t, r)
  BY <1>3, MemoryTyped DEF AddRecord
<1>4. CASE \E t \in TaskId : \E given, D, topk : BeginRun(t, given, D, topk)
  BY <1>4, MemoryTyped DEF BeginRun
<1>5. CASE AgentStep
  BY <1>1, <1>4, <1>5
  DEF AgentStep, BeginOrchestrated, AnswerSelection, ModelFailsOrDeclines, ChooseDraft, ChooseTopK,
      FinishTopK, ToolReturns
<1>6. CASE AgentEnvironment
  BY <1>1, <1>2, <1>3, <1>6 DEF AgentEnvironment, Propose
<1>7. CASE GroundedStep \/ GroundedEnvironment
  BY <1>1, <1>7
  DEF GroundedStep, GroundedEnvironment, BeginGrounded, BeginGroundedRaises, SelectEvidence,
      AcceptEvidence, GroundedStops, ConfirmCall, agentVars
<1> QED
  BY <1>1, <1>5, <1>6, <1>7 DEF Next, AgentNext, vars, agentVars

(* What the grounded agent does to the context are operations of the       *)
(* context manager.                                                        *)
LEMMA GroundedContextStep == [Next]_vars => [ContextNext]_contextVars
<1> SUFFICES ASSUME [Next]_vars PROVE [ContextNext]_contextVars
  OBVIOUS
<1>1. CASE UNCHANGED contextVars
  BY <1>1
<1>2. CASE GroundedStep
  BY <1>1, <1>2
  DEF GroundedStep, BeginGrounded, BeginGroundedRaises, SelectEvidence, AcceptEvidence, GroundedStops,
      ConfirmCall, ContextNext
<1>3. CASE GroundedEnvironment
  <2>1. CASE \E b \in Block : RegisterBlocks({b})
    <3>1. \A b \in Block : {b} \in SUBSET Block
      OBVIOUS
    <3> QED
      BY <2>1, <3>1 DEF ContextNext
  <2> QED
    BY <1>3, <2>1 DEF GroundedEnvironment, ContextNext
<1> QED
  BY <1>1, <1>2, <1>3 DEF Next, vars

LEMMA EvidenceStep == IndexTypeOK /\ EvidenceTyped /\ [Next]_vars => EvidenceTyped'
<1> SUFFICES ASSUME IndexTypeOK, EvidenceTyped, [Next]_vars PROVE EvidenceTyped'
  OBVIOUS
<1>1. CASE call' = call
  BY <1>1 DEF EvidenceTyped, InPhase, Evidence
<1>2. CASE call'.phase # "arguing"
  BY <1>2 DEF EvidenceTyped, InPhase
<1>3. CASE AcceptEvidence
  <2>1. PICK selection \in AfterAnswer(call.selection) :
           /\ selection.stage = "ended" /\ selection.status = "read_complete"
           /\ \E evidence \in {selection.pages} \cup Recovered(selection.pages) :
                Fits(evidence, EvidenceLimits) /\ call' = Arguing(evidence)
    BY <1>3 DEF AcceptEvidence
  <2>2. PICK evidence \in {selection.pages} \cup Recovered(selection.pages) :
           Fits(evidence, EvidenceLimits) /\ call' = Arguing(evidence)
    BY <2>1
  <2>3. selection.pages \in Evidence
    BY <2>1, ReadCompleteShows, ShownTyped
  <2>4. evidence \in Evidence
    BY <2>3, RecoveredTyped
  <2>5. call'.evidence = evidence
    BY <2>2 DEF Arguing
  <2> QED
    BY <2>2, <2>4, <2>5 DEF EvidenceTyped, Evidence
<1> QED
  BY <1>1, <1>2, <1>3, OnlyAcceptedEvidence

LEMMA TypeStep == TypeInv /\ [Next]_vars => TypeInv'
  BY IndexTyped, TaskTyped, GroundedContextStep, ContextStep, EvidenceStep DEF TypeInv

LEMMA TypeInit == Init => TypeInv
<1> SUFFICES ASSUME Init PROVE TypeInv
  OBVIOUS
<1>1. IndexTypeOK
  BY FS_EmptySet, PagedMemoryAssumption DEF Init, AgentInit, IndexInit, IndexTypeOK, PagedMemoryAssumption
<1>2. TaskTypeOK
  BY TaskMemoryAssumption DEF Init, AgentInit, TaskInit, TaskTypeOK, TaskMemoryAssumption
<1>3. ContextInv
  BY ContextStarts DEF Init
<1> QED
  BY <1>1, <1>2, <1>3 DEF TypeInv, EvidenceTyped, Init, AgentInit, InPhase, Idle

(* The page table stays within its capacity, the evidence within its       *)
(* budgets, and every variable keeps its type.                             *)
THEOREM GroundedTypes == Spec => []GroundedTypeOK
<1>1. TypeInv => GroundedTypeOK
  BY DEF TypeInv, GroundedTypeOK, EvidenceTyped, ContextInv
<1> QED
  BY <1>1, TypeInit, TypeStep, PTL DEF Spec
=============================================================================
