------------------------------ MODULE AgentRun ------------------------------
(***************************************************************************)
(* One run of the tool-calling agent (Agent.run, src/jev_agent/agent.py),  *)
(* called directly or by the orchestrator (JevAgentOrchestrator.run,       *)
(* src/jev_agent/orchestrator.py), which first selects memory pages.       *)
(*                                                                         *)
(* A run calls out to the decision model, to the Top-k builder and to the  *)
(* tool.  What these callbacks, or other owners of the task state and the  *)
(* memory, do meanwhile comes between the phases of the run.  A tool       *)
(* definition is frozen, so the schema cannot change during a run; drafts  *)
(* for other tools or schemas are not offered and are left out.            *)
(***************************************************************************)
EXTENDS TaskMemory, MemorySelection

CONSTANT MaxDrafts  \* bound on the drafts

VARIABLES
  drafts,  \* call proposals: [task, revision, versions], a Candidate
  call     \* the run in progress, or Idle

runVars == <<drafts, call>>
agentVars == <<taskVars, index, runVars>>

Idle == [phase |-> "idle"]
InPhase(p) == call.phase = p
Return == call' = Idle

VersionsOf(t, D) == [x \in D |-> version[t][x]]

(* A run works on the task's own state or on a copy of it.  The            *)
(* orchestrator's copy (dataclasses.replace) has the revision of the time  *)
(* it was made, but shares the dictionary of object versions.              *)
Views == {"state", "copy"}
RevisionIn(view, t, copied) == IF view = "state" THEN revision[t] ELSE copied

(* Candidate.is_current: a draft without declared versions rests on the    *)
(* whole state.                                                            *)
IsCurrent(draft, rev) ==
  IF DOMAIN draft.versions = {} THEN draft.revision = rev
  ELSE \A x \in DOMAIN draft.versions : version[draft.task][x] = draft.versions[x]

(* The agent up to its question: offer the drafts that are current, and    *)
(* Top-k construction over the objects D if it is configured.              *)
Choosing(t, view, given, D, topk) ==
  [phase |-> "choosing", task |-> t, view |-> view, revision |-> revision[t],
   offered |-> {d \in given : IsCurrent(d, revision[t])},
   topk |-> topk, rests |-> VersionsOf(t, D)]

(* Called directly: an agent that has a memory bank drops outdated facts.  *)
BeginRun(t, given, D, topk) ==
  /\ InPhase("idle")
  /\ InvalidateRecords(version[t], {}) \/ UNCHANGED memory
  /\ call' = Choosing(t, "state", given, D, topk)
  /\ UNCHANGED <<revision, version, index, drafts>>

(* The orchestrator: select memory first.                                  *)
Blocking == {"clarification_required", "stopped", "context_budget_exceeded",
             "invalid_distribution", "read_budget_exceeded", "stale_selection"}

AfterSelection(selection, t, given, D, topk) ==
  IF selection.stage # "ended"
  THEN [phase |-> "selecting", task |-> t, given |-> given, depends |-> D, topk |-> topk,
        selection |-> selection]
  ELSE IF selection.status \in Blocking THEN Idle
  ELSE Choosing(t, IF selection.status = "read_complete" THEN "copy" ELSE "state", given, D, topk)

BeginOrchestrated(t, given, D, topk) ==
  /\ InPhase("idle")
  /\ \E selection \in SelectionStarts : call' = AfterSelection(selection, t, given, D, topk)
  /\ UNCHANGED <<taskVars, index, drafts>>

AnswerSelection ==
  /\ InPhase("selecting")
  /\ \E selection \in AfterAnswer(call.selection) :
       call' = AfterSelection(selection, call.task, call.given, call.depends, call.topk)
  /\ UNCHANGED <<taskVars, index, drafts>>

(* The decision model raises during the selection or the choice, or the    *)
(* choice is none of the drafts: nothing is executed.                      *)
ModelFailsOrDeclines ==
  /\ call.phase \in {"selecting", "choosing"}
  /\ Return
  /\ UNCHANGED <<taskVars, index, drafts>>

SeenRevision == RevisionIn(call.view, call.task, call.revision)

Executing(rests) == [phase |-> "executing", task |-> call.task, rests |-> rests]

\* Mutant: a chosen draft is not tested again.
ChooseDraftUnchecked(d) ==
  /\ InPhase("choosing") /\ d \in call.offered
  /\ \/ call' = Executing(d.versions)
     \/ Return
  /\ UNCHANGED <<taskVars, index, drafts>>

(* A draft is chosen: if it is still current and its arguments still       *)
(* validate, the tool is called.                                           *)
ChooseDraft(d) ==
  /\ InPhase("choosing") /\ d \in call.offered
  /\ \/ IsCurrent(d, SeenRevision) /\ call' = Executing(d.versions)
     \/ Return
  /\ UNCHANGED <<taskVars, index, drafts>>

ChooseTopK ==
  /\ InPhase("choosing") /\ call.topk
  /\ call' = [phase |-> "constructing", task |-> call.task, view |-> call.view,
              revision |-> call.revision, rests |-> call.rests]
  /\ UNCHANGED <<taskVars, index, drafts>>

DependenciesChanged ==
  IF DOMAIN call.rests = {} THEN SeenRevision # call.revision
  ELSE \E x \in DOMAIN call.rests : version[call.task][x] # call.rests[x]

(* Top-k construction ends: incomplete, invalid, or with a call to make.   *)
FinishTopK ==
  /\ InPhase("constructing")
  /\ \/ ~DependenciesChanged /\ call' = Executing(call.rests)
     \/ Return
  /\ UNCHANGED <<taskVars, index, drafts>>

ToolReturns ==
  /\ InPhase("executing")
  /\ Return
  /\ UNCHANGED <<taskVars, index, drafts>>

-----------------------------------------------------------------------------
(* Callers and callbacks *)

Propose(t, D) ==
  /\ Cardinality(drafts) < MaxDrafts
  /\ drafts' = drafts \cup {[task |-> t, revision |-> revision[t], versions |-> VersionsOf(t, D)]}
  /\ UNCHANGED <<taskVars, index, call>>

AgentEnvironment ==
  \/ \E t \in TaskId, x \in Object : Revise(t, x) /\ UNCHANGED <<index, runVars>>
  \/ \E t \in TaskId, r \in Record : AddRecord(t, r) /\ UNCHANGED <<index, runVars>>
  \/ \E t \in TaskId, D \in SUBSET Object : Propose(t, D)
  \/ \E p \in MemoryId : /\ \/ MarkStale(p)
                            \/ \E payload \in Payload, r \in 1..MaxMemoryRevision : Upsert(p, payload, r)
                         /\ UNCHANGED <<taskVars, runVars>>

DraftsOf(t) == {d \in drafts : d.task = t}

AgentStep ==
  \/ \E t \in TaskId : \E given \in SUBSET DraftsOf(t), D \in SUBSET Object, topk \in BOOLEAN :
       BeginRun(t, given, D, topk) \/ BeginOrchestrated(t, given, D, topk)
  \/ AnswerSelection
  \/ ModelFailsOrDeclines
  \/ \E d \in drafts : ChooseDraft(d)
  \/ ChooseTopK
  \/ FinishTopK
  \/ ToolReturns

AgentInit == TaskInit /\ IndexInit /\ drafts = {} /\ call = Idle
AgentNext == AgentStep \/ AgentEnvironment
AgentSpec == AgentInit /\ [][AgentNext]_agentVars

-----------------------------------------------------------------------------
ToolCalled == call.phase \in {"choosing", "constructing"} /\ call'.phase = "executing"

RestsUnchanged ==
  /\ \A x \in DOMAIN call'.rests : version[call.task][x] = call'.rests[x]
  /\ DOMAIN call'.rests = {} /\ call.view = "state" => revision[call.task] = call.revision

(* At the moment a tool is called, every object that the chosen draft or   *)
(* the constructed value declares to rest on still has the version it was  *)
(* made for, although the task was revised by callbacks before and during  *)
(* the memory selection, the choice and the construction.  If nothing is   *)
(* declared and the run works on the task's own state, the task has not    *)
(* been revised at all (agent.py, the checks after selection and Top-k).   *)
CallsOnDeclaredVersions == [][ToolCalled => RestsUnchanged]_agentVars

(* The same for every run: a call that declares nothing is not made for a  *)
(* task that was revised after the selection or during the construction.   *)
(* Violated by the orchestrator, which runs the agent on a copy.           *)
PinnedCallsUndisturbed ==
  [][ToolCalled /\ DOMAIN call'.rests = {} => revision[call.task] = call.revision]_agentVars
=============================================================================
