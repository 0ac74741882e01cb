--------------------------- MODULE DecisionRuntime ---------------------------
(***************************************************************************)
(* DecisionRuntime (src/jev_agent/runtime.py) over the option manager, the *)
(* task states, the memory bank and the context manager.                   *)
(*                                                                         *)
(* step() is synchronous, but it calls out three times: to the decision    *)
(* model, to the executor and to the execution validator.  Whatever those  *)
(* callbacks, or another thread that shares the managers, do meanwhile     *)
(* comes between the phases of the step: the actions of Environment.       *)
(* Between two callouts the step runs alone and is one action.             *)
(***************************************************************************)
EXTENDS VirtualOption, TaskMemory, ContextSpace

CONSTANTS
  Refinement,       \* refinements: option id -> the content its children make
  ChildPage,        \* option id -> the page id "refine:<option>:r1"
  Key, NoKey,       \* idempotency keys; NoKey is None
  PageRequests,     \* what callers pass as page_ids: sets of page ids
  MaxOptions,       \* max_options
  MaxPageAttempts   \* max_page_attempts

ASSUME RuntimeAssumption ==
  /\ DOMAIN Refinement \subseteq OptionId
  /\ \A o \in DOMAIN Refinement : Refinement[o] \in Contents /\ ChildPage[o] \in PageId
  /\ PageRequests \subseteq SUBSET PageId
  /\ MaxOptions \in Nat /\ MaxOptions >= 2
  /\ MaxPageAttempts \in Nat \ {0}
  /\ NoKey \notin Key

VARIABLES
  attempts,  \* _page_attempts: <<task, its revision, page, its revision>> -> count
  doubt,     \* _pending_execution: task -> [choice, revision, key]
  call       \* the step in progress, or Idle

runtimeVars == <<attempts, doubt, call>>
vars == <<optionVars, taskVars, contextVars, runtimeVars>>

-----------------------------------------------------------------------------
(* The decision surface *)

Option(o) == <<"OPTION", o>>
Page(p) == <<"PAGE", p>>
RefineOf(o) == <<"REFINE", o>>
ContextFault == <<"CONTEXT_FAULT">>
Controls == {<<"CLARIFY">>, <<"STOP">>}

PageKey(t, p) == <<t, revision[t], p, IF p \in Registered THEN pages[p].revision ELSE 0>>
Attempted(key) == IF key \in DOMAIN attempts THEN attempts[key] ELSE 0
MayAttempt(key) == Attempted(key) < MaxPageAttempts
FullyResident(p) == p \in Registered /\ IdsOf(pages[p].content) \subseteq Resident

(* _options, for the pages P and the refinements of F.                     *)
Surface(t, P, F) ==
  {Option(o) : o \in Resident}
    \cup {Page(p) : p \in {q \in P : ~FullyResident(q) /\ MayAttempt(PageKey(t, q))}}
    \cup {RefineOf(o) : o \in F \cap Resident}
    \cup (IF Block # {} THEN {ContextFault} ELSE {})
    \cup Controls

(* The options of a surface are the resident ones as they are now.  The    *)
(* revision of their page is what they can be told apart by later.         *)
Offered == [o \in Resident |-> [form |-> resident[o], revision |-> pages[resident[o].page].revision]]

-----------------------------------------------------------------------------
Idle == [phase |-> "idle"]
InPhase(p) == call.phase = p
Return == call' = Idle

RuntimeInit ==
  /\ OptionInit /\ TaskInit /\ ContextInit
  /\ attempts = <<>>
  /\ doubt = <<>>
  /\ call = Idle

\* Mutant: a task in doubt is not turned away.
BeginStepInDoubt(t, P, F, U) ==
  /\ InPhase("idle")
  /\ Refresh(U)
  /\ call' = IF Cardinality(Surface(t, P, F)) > MaxOptions THEN Idle
             ELSE [phase |-> "deciding", task |-> t, revision |-> revision[t],
                   surface |-> Surface(t, P, F), offered |-> Offered,
                   updates |-> [b \in U |-> blockRevision'[b]]]
  /\ UNCHANGED <<optionVars, taskVars, attempts, doubt>>

(* step up to the callout to the decision model, with context updates U.   *)
(* A task in doubt gets "needs_reconciliation" back and nothing else       *)
(* happens; a surface that is too large raises after the context refresh.  *)
BeginStep(t, P, F, U) ==
  /\ InPhase("idle")
  /\ t \notin DOMAIN doubt
  /\ Refresh(U)
  /\ call' = IF Cardinality(Surface(t, P, F)) > MaxOptions THEN Idle
             ELSE [phase |-> "deciding", task |-> t, revision |-> revision[t],
                   surface |-> Surface(t, P, F), offered |-> Offered,
                   updates |-> [b \in U |-> blockRevision'[b]]]
  /\ UNCHANGED <<optionVars, taskVars, attempts, doubt>>

(* One of the context updates is refused: the error leaves step, the       *)
(* updates before it stay registered.                                      *)
BeginStepRaises(t, U) ==
  /\ InPhase("idle")
  /\ t \notin DOMAIN doubt
  /\ RegisterBlocks(U)
  /\ UNCHANGED <<optionVars, taskVars, runtimeVars>>

(* The model raises, or answers outside the surface it was given.          *)
DecisionInvalid ==
  /\ InPhase("deciding")
  /\ Return
  /\ UNCHANGED <<optionVars, taskVars, contextVars, attempts, doubt>>

Chosen(choice) == InPhase("deciding") /\ choice \in call.surface

(* The attempt is counted before page_in can fail.  The budget is tested   *)
(* again; it cannot have run out since the offer, because only a page      *)
(* choice counts and one step is in progress at a time.                    *)
CountAttempt(key) ==
  attempts' = [k \in DOMAIN attempts \cup {key} |-> IF k = key THEN Attempted(k) + 1 ELSE attempts[k]]

\* Mutant: only a page that comes in counts.
ChoosePageCountsSuccess(p) ==
  /\ Chosen(Page(p))
  /\ MayAttempt(PageKey(call.task, p))
  /\ LET all == Len(pages[p].content.order)
         fits == p \in Registered \ stale /\ all <= MaxResident
     IN IF fits THEN PageIn(p, all, {}) /\ CountAttempt(PageKey(call.task, p))
                ELSE UNCHANGED <<optionVars, attempts>>
  /\ Return
  /\ UNCHANGED <<taskVars, contextVars, doubt>>

ChoosePage(p) ==
  /\ Chosen(Page(p))
  /\ MayAttempt(PageKey(call.task, p))
  /\ CountAttempt(PageKey(call.task, p))
  /\ LET all == Len(pages[p].content.order)
         fits == p \in Registered \ stale /\ all <= MaxResident
     IN IF fits THEN PageIn(p, all, {}) ELSE UNCHANGED optionVars
  /\ Return
  /\ UNCHANGED <<taskVars, contextVars, doubt>>

(* REFINE of an option whose children are registered or known.  When       *)
(* refine fails the step faults or raises: see ChooseRefineFails.          *)
ChooseRefine(o) ==
  /\ Chosen(RefineOf(o))
  /\ \/ Refine(o, ChildPage[o], Refinement[o], 1)
     \/ RefinePartial(o, ChildPage[o], Refinement[o], 1)
  /\ Return
  /\ UNCHANGED <<taskVars, contextVars, attempts, doubt>>

(* refine changed nothing: the children are empty or clash with the        *)
(* directory, or their page cannot be paged in.  The parent stays resident.*)
ChooseRefineFails(o) ==
  /\ Chosen(RefineOf(o))
  /\ LET children == ChildPage[o]
         content == Refinement[o]
     IN \/ ~Registrable(children, content)
        \/ children \in stale
        \/ /\ children \in Registered
           /\ \/ pages[children] # [content |-> content, revision |-> 1, parent |-> o]
              \/ Len(content.order) > MaxResident
  /\ Return
  /\ UNCHANGED <<optionVars, taskVars, contextVars, attempts, doubt>>

(* The updates of the step are passed again.  They are registered already, *)
(* so refresh only rebuilds, unless one of them was superseded meanwhile:  *)
(* then its revision decreases and the error leaves step.                  *)
Superseded == \E b \in DOMAIN call.updates : blockRevision[b] > call.updates[b]

ChooseContextFault ==
  /\ Chosen(ContextFault)
  /\ IF Superseded THEN UNCHANGED contextVars ELSE Refresh({})
  /\ Return
  /\ UNCHANGED <<optionVars, taskVars, attempts, doubt>>

ChooseControl ==
  /\ \E choice \in Controls : Chosen(choice)
  /\ Return
  /\ UNCHANGED <<optionVars, taskVars, contextVars, attempts, doubt>>

(* The task moved on, or the option went away, while the model decided.    *)
ChooseOptionStale(o) ==
  /\ Chosen(Option(o))
  /\ revision[call.task] # call.revision \/ o \notin Resident
  /\ Return
  /\ UNCHANGED <<optionVars, taskVars, contextVars, attempts, doubt>>

\* Mutant: the task snapshot is not compared.
StartExecutionUnchecked(o) ==
  /\ Chosen(Option(o))
  /\ Resolve(o)
  /\ call' = [phase |-> "executing", task |-> call.task, revision |-> call.revision,
              option |-> o, executed |-> resident[o]]
  /\ UNCHANGED <<taskVars, contextVars, attempts, doubt>>

(* Resolve the choice and hand it to the executor.                         *)
StartExecution(o) ==
  /\ Chosen(Option(o))
  /\ revision[call.task] = call.revision
  /\ Resolve(o)
  /\ call' = [phase |-> "executing", task |-> call.task, revision |-> call.revision,
              option |-> o, executed |-> resident[o]]
  /\ UNCHANGED <<taskVars, contextVars, attempts, doubt>>

(* Without an executor the choice is committed and the caller acts on it.  *)
CommitOnly(o) ==
  /\ Chosen(Option(o))
  /\ revision[call.task] = call.revision
  /\ Resolve(o)
  /\ Return
  /\ UNCHANGED <<taskVars, contextVars, attempts, doubt>>

(* The executor comes back: with a receipt, with a plain result, which     *)
(* counts as applied, or with an exception, which counts as unknown: the   *)
(* side effect may have happened.                                          *)
ExecutorReturns(outcome) ==
  /\ InPhase("executing")
  /\ call' = [phase |-> "returned", task |-> call.task, option |-> call.option, outcome |-> outcome]
  /\ UNCHANGED <<optionVars, taskVars, contextVars, attempts, doubt>>

Returned(outcomes) == InPhase("returned") /\ call.outcome \in outcomes

RecordDoubt(key) ==
  /\ Returned({"unknown"})
  /\ LET entry == [choice |-> call.option, revision |-> revision[call.task], key |-> key]
     IN doubt' = [t \in DOMAIN doubt \cup {call.task} |->
                    IF t = call.task THEN entry ELSE doubt[t]]
  /\ Return
  /\ UNCHANGED <<optionVars, taskVars, contextVars, attempts>>

(* A rejected receipt, or an applied one that nobody validates.            *)
ExecutionDone ==
  /\ Returned({"applied", "rejected"})
  /\ Return
  /\ UNCHANGED <<optionVars, taskVars, contextVars, attempts, doubt>>

StartValidation ==
  /\ Returned({"applied"})
  /\ call' = [phase |-> "validating", task |-> call.task]
  /\ UNCHANGED <<optionVars, taskVars, contextVars, attempts, doubt>>

ValidatorRaises ==
  /\ InPhase("validating")
  /\ Return
  /\ UNCHANGED <<optionVars, taskVars, contextVars, attempts, doubt>>

(* The verdict names the objects the execution changed, accepted or not.   *)
ApplyVerdict(D) ==
  /\ InPhase("validating")
  /\ IF D = {} THEN UNCHANGED <<taskVars, contextVars>>
     ELSE /\ ReviseAll(call.task, D)
          /\ InvalidateRecords(version'[call.task], D)
          /\ InvalidateDependencies(D)
  /\ Return
  /\ UNCHANGED <<optionVars, attempts, doubt>>

(* acknowledge_reconciliation with an applied or rejected receipt.         *)
Acknowledge(t, key) ==
  /\ t \in DOMAIN doubt
  /\ doubt[t].key \in {NoKey, key}
  /\ revision[t] > doubt[t].revision
  /\ doubt' = [u \in DOMAIN doubt \ {t} |-> doubt[u]]
  /\ UNCHANGED <<optionVars, taskVars, contextVars, attempts, call>>

-----------------------------------------------------------------------------
(* Callers and callbacks *)

OptionEnvironment ==
  /\ \/ \E p \in PageId, c \in Contents, rev \in 1..MaxRevision : RegisterPage(p, c, rev, NoParent)
     \/ \E p \in Registered : PageIn(p, Len(pages[p].content.order), {})
     \/ \E p \in PageId : InvalidatePage(p)
  /\ UNCHANGED <<taskVars, contextVars, runtimeVars>>

TaskEnvironment ==
  /\ \/ \E t \in TaskId, x \in Object : Revise(t, x)
     \/ \E t \in TaskId, r \in Record : AddRecord(t, r)
  /\ UNCHANGED <<optionVars, contextVars, runtimeVars>>

ContextEnvironment ==
  /\ \/ \E b \in Block : RegisterBlocks({b}) \/ InvalidateBlock(b)
  /\ UNCHANGED <<optionVars, taskVars, runtimeVars>>

Environment == OptionEnvironment \/ TaskEnvironment \/ ContextEnvironment

StepOf(t) ==
  \/ \E P \in PageRequests, F \in SUBSET DOMAIN Refinement, U \in SUBSET Block :
       BeginStep(t, P, F, U)
  \/ \E U \in (SUBSET Block) \ {{}} : BeginStepRaises(t, U)

Decision ==
  \/ DecisionInvalid
  \/ \E p \in PageId : ChoosePage(p)
  \/ \E o \in DOMAIN Refinement : ChooseRefine(o) \/ ChooseRefineFails(o)
  \/ ChooseContextFault
  \/ ChooseControl
  \/ \E o \in OptionId : ChooseOptionStale(o) \/ StartExecution(o) \/ CommitOnly(o)

Execution ==
  \/ \E outcome \in {"applied", "rejected", "unknown"} : ExecutorReturns(outcome)
  \/ \E key \in Key \cup {NoKey} : RecordDoubt(key)
  \/ ExecutionDone
  \/ StartValidation
  \/ ValidatorRaises
  \/ \E D \in SUBSET Object : ApplyVerdict(D)

Next ==
  \/ \E t \in TaskId : StepOf(t)
  \/ Decision
  \/ Execution
  \/ \E t \in TaskId, key \in Key \cup {NoKey} : Acknowledge(t, key)
  \/ Environment

Spec == RuntimeInit /\ [][Next]_vars

-----------------------------------------------------------------------------
(* Properties *)

(* How the runtime keeps its promise about side effects: a task is in      *)
(* doubt from the moment its executor comes back without a clear outcome,  *)
(* and has been observed once its revision is past the recorded one.       *)
InDoubt(t) ==
  t \in DOMAIN doubt \/ (Returned({"unknown"}) /\ call.task = t)
ProtocolStatus ==
  [t \in TaskId |->
     IF InDoubt(t) THEN "inDoubt"
     ELSE IF call.phase \in {"executing", "returned"} /\ call.task = t
          THEN "attempting" ELSE "free"]
ProtocolObserved == {t \in DOMAIN doubt : revision[t] > doubt[t].revision}

Protocol == INSTANCE ExecutionProtocol
              WITH status <- ProtocolStatus, observed <- ProtocolObserved

(* An uncertain side effect is never retried implicitly: no choice, fault, *)
(* verdict or revision makes the runtime call the executor for a task in   *)
(* doubt, and only an acknowledgement after a later revision ends a doubt. *)
NeverRetried == Protocol!ProtocolSpec

SameForm(o, form) == form = call.offered[o].form

(* The page of option o was re-registered after the surface was made.      *)
Superseding(o) ==
  LET p == call.offered[o].form.page
  IN  p \in Registered /\ pages[p].revision > call.offered[o].revision

(* Although the model took its time to decide, the task has not advanced   *)
(* since the surface was made; what reaches the executor is what the       *)
(* current revision of a page that is not stale says of an id that was     *)
(* offered; and it is the very form that was offered, unless the page it   *)
(* was offered from has got a newer revision.  In that case it need not be *)
(* what the model saw: see ExecutesWhatWasOffered.                         *)
ExecutesCurrent ==
  [][InPhase("deciding") /\ InPhase("executing")' =>
       LET o == call'.option
           p == call'.executed.page
       IN  /\ revision[call.task] = call.revision
           /\ p \in Registered \ stale
           /\ o \in IdsOf(pages[p].content)
           /\ call'.executed.body = pages[p].content.body[o]
           /\ Option(o) \in call.surface
           /\ SameForm(o, call'.executed) \/ Superseding(o)]_vars

(* What reaches the executor is the option the model chose in the form it  *)
(* was offered in.  The technical report says so ("before execution the ID *)
(* is resolved again and the revision compared"), and step's comment lets  *)
(* the manager validate the revision; but step resolves without one, so an *)
(* option re-registered under its id meanwhile is executed: see the        *)
(* README.                                                                 *)
ExecutesWhatWasOffered ==
  [][InPhase("deciding") /\ InPhase("executing")' =>
       SameForm(call'.option, call'.executed)]_vars

(* A verdict that revises objects leaves no fact in the bank as current    *)
(* that depends on one of them, directly or through derived objects.       *)
VerdictInvalidatesFacts ==
  [][\A D \in (SUBSET Object) \ {{}} : ApplyVerdict(D) =>
       \A r \in DOMAIN memory : memory'[r].current => RecordDeps[r] \cap Affected(D) = {}]_vars

(* The same of the resident context blocks: step() says it invalidates     *)
(* "dependent memory/context", and DependencyIndex that it "tracks         *)
(* transitive invalidation".  Blocks of derived objects stay resident: see *)
(* the README.                                                             *)
VerdictInvalidatesContexts ==
  [][\A D \in (SUBSET Object) \ {{}} : ApplyVerdict(D) =>
       \A b \in ResidentBlocks' : BlockDeps[b] \cap Affected(D) = {}]_vars

(* A context block that was invalidated becomes resident again only with a *)
(* newer revision: no refresh, first or second of a step, revives it.      *)
BlockStaleUntilRevised ==
  [][\A b \in Known : b \in blockStale /\ b \in ResidentBlocks' =>
       blockRevision'[b] > blockRevision[b]]_vars

(* A chooser that always pages is stopped: page choices, also failing ones *)
(* come to an end once the revisions of task and pages do.                 *)
PagingEnds == <>[][\A p \in PageId : ~ChoosePage(p)]_vars
=============================================================================
