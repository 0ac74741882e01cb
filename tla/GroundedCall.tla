---------------------------- MODULE GroundedCall ----------------------------
(***************************************************************************)
(* One run of the grounded argument agent (GroundedArgumentAgent.run,      *)
(* src/jev_agent/grounded.py): refresh the context, select memory pages as *)
(* evidence, recover missing evidence, let the decision model fill in the  *)
(* arguments and confirm the call, and check everything that it was shown  *)
(* once more before the tool is called.  The runs of AgentRun go on beside *)
(* it; one run is in progress at a time, and others may change what it     *)
(* works on while it waits for an answer.                                  *)
(***************************************************************************)
EXTENDS AgentRun, ContextSpace

CONSTANT EvidenceLimits  \* max_evidence_pages, max_evidence_bytes, max_page_bytes

ASSUME GroundedAssumption == EvidenceLimits \in Limits

vars == <<agentVars, contextVars>>

(* The run after a selection: all that was shown is kept for the check.    *)
Gathering(t, rev, blocks, selection) ==
  [phase |-> "gathering", task |-> t, revision |-> rev, blocks |-> blocks, selection |-> selection]

Arguing(evidence) ==
  [phase |-> "arguing", task |-> call.task, revision |-> call.revision,
   blocks |-> call.blocks, evidence |-> evidence]

(* refresh, the required blocks, and the first question of the selection.  *)
(* The run is over when a requirement or the selection fails.              *)
BeginGrounded(t, U) ==
  /\ InPhase("idle")
  /\ Refresh(U)
  /\ \/ Return
     \/ \E selection \in {s \in SelectionStarts : s.stage # "ended"} :
          call' = Gathering(t, revision[t], [b \in ResidentBlocks' |-> blockRevision'[b]], selection)
  /\ UNCHANGED <<taskVars, index, drafts>>

(* One of the updates is refused: those before it stay registered.         *)
BeginGroundedRaises(U) ==
  /\ InPhase("idle")
  /\ RegisterBlocks(U)
  /\ UNCHANGED agentVars

SelectEvidence ==
  /\ InPhase("gathering")
  /\ \E selection \in AfterAnswer(call.selection) :
       /\ selection.stage # "ended"
       /\ call' = Gathering(call.task, call.revision, call.blocks, selection)
  /\ UNCHANGED <<taskVars, index, drafts, contextVars>>

(* The selection ends with pages that satisfy the evidence check, or       *)
(* recovery completes them; they fit and the task is the one of the start. *)
AcceptEvidence ==
  /\ InPhase("gathering")
  /\ revision[call.task] = call.revision
  /\ \E selection \in AfterAnswer(call.selection) :
       /\ selection.stage = "ended" /\ selection.status = "read_complete"
       /\ \E evidence \in {selection.pages} \cup Recovered(selection.pages) :
            Fits(evidence, EvidenceLimits) /\ call' = Arguing(evidence)
  /\ UNCHANGED <<taskVars, index, drafts, contextVars>>

(* A callback raises, or the run stops: no evidence, evidence refused by   *)
(* its check, over budget, a stale task, no arguments, another choice.     *)
GroundedStops ==
  /\ call.phase \in {"gathering", "arguing"}
  /\ Return
  /\ UNCHANGED <<taskVars, index, drafts, contextVars>>

EvidenceIds == DOMAIN call.evidence
EvidenceRevisions == [p \in EvidenceIds |-> call.evidence[p].revision]

\* Mutant: the evidence is read again, at whatever revision it has now.
GuardAnyEvidence ==
  /\ revision[call.task] = call.revision
  /\ \A b \in DOMAIN call.blocks : b \in ResidentBlocks /\ blockRevision[b] = call.blocks[b]
  /\ ReadErrors(EvidenceIds, [p \in EvidenceIds |-> index[p].revision], EvidenceLimits) = {}

(* The guard before the tool: the task, the resident blocks, the evidence. *)
Guard ==
  /\ revision[call.task] = call.revision
  /\ \A b \in DOMAIN call.blocks : b \in ResidentBlocks /\ blockRevision[b] = call.blocks[b]
  /\ ReadErrors(EvidenceIds, EvidenceRevisions, EvidenceLimits) = {}

(* The arguments are complete and the model confirms the call.  The agent  *)
(* that asks for it works on a deep copy of the state: its own stale check *)
(* compares the copy with itself.  What decides is the guard, and the      *)
(* evidence check on the pages as they are now.                            *)
ConfirmCall ==
  /\ InPhase("arguing")
  /\ \/ Guard /\ call' = Executing(<<>>)
     \/ Return
  /\ UNCHANGED <<taskVars, index, drafts, contextVars>>

-----------------------------------------------------------------------------
GroundedEnvironment ==
  /\ \E b \in Block : RegisterBlocks({b}) \/ InvalidateBlock(b)
  /\ UNCHANGED agentVars

GroundedStep ==
  \/ \E t \in TaskId, U \in SUBSET Block : BeginGrounded(t, U)
  \/ \E U \in (SUBSET Block) \ {{}} : BeginGroundedRaises(U)
  \/ SelectEvidence
  \/ AcceptEvidence
  \/ GroundedStops
  \/ ConfirmCall

Next ==
  \/ GroundedStep
  \/ GroundedEnvironment
  \/ AgentNext /\ UNCHANGED contextVars

Init == AgentInit /\ ContextInit
Spec == Init /\ [][Next]_vars

-----------------------------------------------------------------------------
Evidence == UNION {[ids -> [revision : 1..MaxMemoryRevision, payload : Payload]] : ids \in SUBSET MemoryId}

(* Every variable keeps its type; the page table stays within its capacity *)
(* and the evidence a call is built on within its budgets, also when       *)
(* recovery has added to it (upsert, recover, the budget check of run).    *)
GroundedTypeOK ==
  /\ IndexTypeOK /\ TaskTypeOK /\ ContextTypeOK
  /\ InPhase("arguing") => call.evidence \in Evidence /\ Fits(call.evidence, EvidenceLimits)

StillAsShown ==
  /\ revision[call.task] = call.revision
  /\ \A b \in DOMAIN call.blocks : b \in ResidentBlocks /\ blockRevision[b] = call.blocks[b]
  /\ \A p \in DOMAIN call.evidence :
       p \in Visible /\ index[p].payload = call.evidence[p].payload

(* When the grounded agent calls the tool, everything the decision model   *)
(* was shown is still so, whatever changed while it answered: the task has *)
(* not been revised, the blocks it saw are resident in that revision, and  *)
(* each page of the evidence is current and says what it said then         *)
(* (grounded.py, execute).                                                 *)
CallsOnWhatWasShown ==
  [][InPhase("arguing") /\ call'.phase = "executing" => StillAsShown]_vars
=============================================================================
