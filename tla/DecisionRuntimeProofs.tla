------------------------ MODULE DecisionRuntimeProofs ------------------------
(***************************************************************************)
(* The runtime keeps the option manager's invariant and the promise about  *)
(* side effects, for every instance.  The invariant the second rests on is *)
(* CallInv: the task of the step in progress is never in doubt, because a  *)
(* step is refused for a task in doubt, and while one is in progress only  *)
(* that step can put a task in doubt, as its last act.                     *)
(***************************************************************************)
EXTENDS DecisionRuntime, VirtualOptionProofs, ContextSpaceProofs

CallInv ==
  /\ revision \in [TaskId -> Nat]
  /\ DOMAIN doubt \subseteq TaskId
  /\ \A t \in DOMAIN doubt : doubt[t].revision \in Nat
  /\ \/ call = Idle
     \/ /\ call.phase \in {"deciding", "executing", "returned", "validating"}
        /\ call.task \in TaskId \ DOMAIN doubt

(* revise only ever advances a revision.                                   *)
LEMMA ReviseAllRevision ==
  ASSUME NEW t \in TaskId, NEW D \in SUBSET Object,
         revision \in [TaskId -> Nat], ReviseAll(t, D)
  PROVE  /\ revision' \in [TaskId -> Nat]
         /\ \A u \in TaskId : revision'[u] >= revision[u]
<1>1. Cardinality(D) \in Nat
  BY FS_Subset, FS_CardinalityType, TaskMemoryAssumption DEF TaskMemoryAssumption
<1> QED
  BY <1>1 DEF ReviseAll

(* Every action but those of the option manager leaves its state alone.    *)
LEMMA OptionInvStep == OptionInv /\ [Next]_vars => OptionInv'
<1> SUFFICES ASSUME OptionInv, [Next]_vars
             PROVE  OptionInv'
  OBVIOUS
<1>1. CASE UNCHANGED optionVars
  <2>1. [OptionNext]_optionVars
    BY <1>1
  <2> QED
    BY <2>1, StepInv
<1>2. CASE \E p \in PageId : ChoosePage(p)
  <2>1. PICK p \in PageId : ChoosePage(p)
    BY <1>2
  <2>2. UNCHANGED optionVars \/ PageIn(p, Len(pages[p].content.order), {})
    BY <2>1 DEF ChoosePage
  <2> QED
    BY <1>1, <2>2, PageInInv
<1>3. CASE \E o \in DOMAIN Refinement : ChooseRefine(o)
  <2>1. PICK o \in DOMAIN Refinement :
           \/ Refine(o, ChildPage[o], Refinement[o], 1)
           \/ RefinePartial(o, ChildPage[o], Refinement[o], 1)
    BY <1>3 DEF ChooseRefine
  <2>2. o \in OptionId /\ ChildPage[o] \in PageId /\ Refinement[o] \in Contents
    BY RuntimeAssumption DEF RuntimeAssumption
  <2>3. 1 \in 1..MaxRevision
    BY VirtualOptionAssumption DEF VirtualOptionAssumption
  <2> QED
    BY <2>1, <2>2, <2>3, RefineInv, RefinePartialInv
<1>4. CASE \E o \in OptionId : StartExecution(o) \/ CommitOnly(o)
  BY <1>4, TouchInv DEF StartExecution, CommitOnly, Resolve
<1>5. CASE OptionEnvironment
  <2>1. CASE \E p \in PageId, c \in Contents, rev \in 1..MaxRevision :
               RegisterPage(p, c, rev, NoParent)
    BY <2>1, RegisterPageInv
  <2>2. CASE \E p \in Registered : PageIn(p, Len(pages[p].content.order), {})
    BY <2>2, PageInInv
  <2>3. CASE \E p \in PageId : InvalidatePage(p)
    BY <2>3, InvalidatePageInv
  <2> QED
    BY <1>5, <2>1, <2>2, <2>3 DEF OptionEnvironment
<1> QED
  BY <1>1, <1>2, <1>3, <1>4, <1>5
  DEF Next, vars, StepOf, BeginStep, BeginStepRaises, Decision, DecisionInvalid,
      ChooseRefineFails, ChooseContextFault, ChooseControl, ChooseOptionStale,
      Execution, ExecutorReturns, RecordDoubt, ExecutionDone, StartValidation, ValidatorRaises,
      ApplyVerdict, Acknowledge, Environment, TaskEnvironment, ContextEnvironment

(* The option manager's invariant survives every interleaving of steps,    *)
(* callbacks and callers.                                                  *)
THEOREM RuntimeKeepsOptionInv == Spec => []OptionInv
<1>1. RuntimeInit => OptionInv
  BY InitInv DEF RuntimeInit
<1> QED
  BY <1>1, OptionInvStep, PTL DEF Spec

-----------------------------------------------------------------------------
(* The promise about side effects *)

(* Whatever the model decides: the step returns or goes on to execute, for *)
(* the same task, and neither the task nor a doubt has changed.            *)
LEMMA DecisionShape ==
  ASSUME Decision
  PROVE  /\ call.phase = "deciding"
         /\ UNCHANGED <<revision, version, memory, doubt>>
         /\ \/ call' = Idle
            \/ call'.phase = "executing" /\ call'.task = call.task
<1> USE DEF Chosen, InPhase, Return, taskVars
<1>1. CASE DecisionInvalid
  BY <1>1 DEF DecisionInvalid
<1>2. CASE \E p \in PageId : ChoosePage(p)
  BY <1>2, Zenon DEF ChoosePage
<1>3. CASE \E o \in DOMAIN Refinement : ChooseRefine(o) \/ ChooseRefineFails(o)
  BY <1>3, Zenon DEF ChooseRefine, ChooseRefineFails
<1>4. CASE ChooseContextFault \/ ChooseControl
  BY <1>4 DEF ChooseContextFault, ChooseControl
<1>5. CASE \E o \in OptionId : ChooseOptionStale(o) \/ StartExecution(o) \/ CommitOnly(o)
  BY <1>5 DEF ChooseOptionStale, StartExecution, CommitOnly
<1> QED
  BY <1>1, <1>2, <1>3, <1>4, <1>5 DEF Decision

LEMMA CallInvStep == CallInv /\ [Next]_vars => CallInv'
<1> SUFFICES ASSUME CallInv, [Next]_vars
             PROVE  CallInv'
  OBVIOUS
<1> USE DEF CallInv, Idle, InPhase, Return
<1>1. CASE UNCHANGED vars
  BY <1>1 DEF vars, taskVars, runtimeVars
<1>2. CASE \E t \in TaskId : StepOf(t)
  BY <1>2 DEF StepOf, BeginStep, BeginStepRaises, taskVars, runtimeVars
<1>3. CASE Decision
  BY <1>3, DecisionShape
<1>4. CASE Execution
  <2>1. CASE \E outcome \in {"applied", "rejected", "unknown"} : ExecutorReturns(outcome)
    BY <2>1 DEF ExecutorReturns, taskVars
  <2>2. CASE \E key \in Key \cup {NoKey} : RecordDoubt(key)
    BY <2>2 DEF RecordDoubt, Returned, taskVars
  <2>3. CASE ExecutionDone \/ StartValidation \/ ValidatorRaises
    BY <2>3 DEF ExecutionDone, StartValidation, ValidatorRaises, Returned, taskVars
  <2>4. CASE \E D \in SUBSET Object : ApplyVerdict(D)
    <3>1. PICK D \in SUBSET Object : ApplyVerdict(D)
      BY <2>4
    <3>2. revision' \in [TaskId -> Nat]
      BY <3>1, ReviseAllRevision DEF ApplyVerdict, taskVars
    <3> QED
      BY <3>1, <3>2 DEF ApplyVerdict
  <2> QED
    BY <1>4, <2>1, <2>2, <2>3, <2>4 DEF Execution
<1>5. CASE \E t \in TaskId, key \in Key \cup {NoKey} : Acknowledge(t, key)
  BY <1>5 DEF Acknowledge, taskVars
<1>6. CASE Environment
  <2>1. UNCHANGED runtimeVars
    BY <1>6 DEF Environment, OptionEnvironment, TaskEnvironment, ContextEnvironment
  <2>2. revision' \in [TaskId -> Nat]
    BY <1>6, ReviseAllRevision
    DEF Environment, OptionEnvironment, TaskEnvironment, ContextEnvironment, taskVars,
        Revise, AddRecord
  <2> QED
    BY <2>1, <2>2 DEF runtimeVars
<1> QED
  BY <1>1, <1>2, <1>3, <1>4, <1>5, <1>6 DEF Next

(* What the step in progress means for the protocol: who attempts and who  *)
(* is in doubt, by the phase of the call.                                  *)
LEMMA StatusByPhase ==
  ASSUME CallInv
  PROVE  /\ \A t \in TaskId : t \in DOMAIN doubt => ProtocolStatus[t] = "inDoubt"
         /\ \A t \in TaskId \ DOMAIN doubt :
              ProtocolStatus[t] =
                IF call # Idle /\ call.task = t /\ call.phase = "executing" THEN "attempting"
                ELSE IF call # Idle /\ call.task = t /\ call.phase = "returned"
                THEN IF call.outcome = "unknown" THEN "inDoubt" ELSE "attempting"
                ELSE "free"
         /\ ProtocolStatus = [t \in TaskId |-> ProtocolStatus[t]]
BY DEF CallInv, ProtocolStatus, InDoubt, Returned, InPhase, Idle

LEMMA ProtocolStep ==
  ASSUME CallInv, CallInv', [Next]_vars
  PROVE  [Protocol!ProtocolNext]_(Protocol!protocolVars)
<1> USE DEF Idle, InPhase, Return
<1> DEFINE Status == ProtocolStatus
           Observed == ProtocolObserved
           Stutter == Status' = Status /\ Observed' = Observed
<1>s. Stutter => UNCHANGED Protocol!protocolVars
  BY DEF Protocol!protocolVars
<1>v. UNCHANGED <<revision, doubt>> => Observed' = Observed
  BY DEF ProtocolObserved
<1>d. UNCHANGED <<doubt, call>> => Status' = Status
  BY DEF ProtocolStatus, InDoubt, Returned
<1>i. ASSUME doubt' = doubt, call.phase \in {"idle", "deciding", "validating"},
             call'.phase \in {"idle", "deciding", "validating"}
      PROVE  Status' = Status
  BY <1>i DEF ProtocolStatus, InDoubt, Returned
<1>t. call # Idle => call.task \in TaskId \ DOMAIN doubt
  BY DEF CallInv
<1> HIDE DEF Status, Observed
<1>1. CASE UNCHANGED vars
  BY <1>1, <1>s, <1>v, <1>d DEF vars, taskVars, runtimeVars
<1>2. CASE \E t \in TaskId : StepOf(t)
  BY <1>2, <1>s, <1>v, <1>i DEF StepOf, BeginStep, BeginStepRaises, taskVars, runtimeVars
<1>3. CASE Decision
  <2>1. UNCHANGED <<revision, doubt>> /\ call.phase = "deciding"
    BY <1>3, DecisionShape
  <2>2. CASE call' = Idle
    BY <2>1, <2>2, <1>s, <1>v, <1>i
  <2>3. CASE call'.phase = "executing" /\ call'.task = call.task
    <3>1. call # Idle /\ call' # Idle
      BY <2>1, <2>3
    <3>2. Status' = [Status EXCEPT ![call.task] = "attempting"] /\ Status[call.task] = "free"
      BY <2>1, <2>3, <3>1, <1>t DEF Status, ProtocolStatus, InDoubt, Returned
    <3>3. Protocol!Attempt(call.task)
      BY <2>1, <3>2, <1>v DEF Protocol!Attempt, Status, Observed
    <3> QED
      BY <3>1, <3>3, <1>t DEF Protocol!ProtocolNext
  <2> QED
    BY <2>2, <2>3, <1>3, DecisionShape
<1>4. CASE Execution
  <2>1. ASSUME NEW outcome \in {"applied", "rejected", "unknown"}, ExecutorReturns(outcome)
        PROVE  [Protocol!ProtocolNext]_(Protocol!protocolVars)
    <3>1. /\ call # Idle /\ call.phase = "executing" /\ UNCHANGED <<revision, doubt>>
          /\ call'.phase = "returned" /\ call'.task = call.task /\ call'.outcome = outcome
      BY <2>1 DEF ExecutorReturns, taskVars
    <3>2. CASE outcome = "unknown"
      <4>1. /\ Status' = [Status EXCEPT ![call.task] = "inDoubt"]
            /\ Status[call.task] = "attempting"
        BY <3>1, <3>2, <1>t DEF Status, ProtocolStatus, InDoubt, Returned
      <4>2. Protocol!LeaveInDoubt(call.task)
        BY <3>1, <4>1, <1>v DEF Protocol!LeaveInDoubt, Status, Observed
      <4> QED
        BY <3>1, <4>2, <1>t DEF Protocol!ProtocolNext
    <3>3. CASE outcome # "unknown"
      <4>1. Status' = Status
        BY <3>1, <3>3, <1>t DEF Status, ProtocolStatus, InDoubt, Returned
      <4> QED
        BY <3>1, <4>1, <1>s, <1>v
    <3> QED
      BY <3>2, <3>3
  <2>2. ASSUME NEW key \in Key \cup {NoKey}, RecordDoubt(key)
        PROVE  [Protocol!ProtocolNext]_(Protocol!protocolVars)
    <3>1. /\ call # Idle /\ call.phase = "returned" /\ call.outcome = "unknown"
          /\ call' = Idle /\ UNCHANGED revision
          /\ DOMAIN doubt' = DOMAIN doubt \cup {call.task}
          /\ \A t \in DOMAIN doubt : t # call.task => doubt'[t] = doubt[t]
          /\ doubt'[call.task].revision = revision[call.task]
      BY <2>2 DEF RecordDoubt, Returned, taskVars
    <3>2. Status' = Status
      BY <3>1, <1>t DEF Status, ProtocolStatus, InDoubt, Returned
    <3>3. revision[call.task] \in Nat
      BY <3>1, <1>t DEF CallInv
    <3>4. Observed' = Observed
      BY <3>1, <3>3, <1>t DEF Observed, ProtocolObserved
    <3> QED
      BY <3>2, <3>4, <1>s
  <2>3. CASE ExecutionDone \/ StartValidation
    <3>1. /\ call # Idle /\ call.phase = "returned" /\ call.outcome # "unknown"
          /\ UNCHANGED <<revision, doubt>> /\ call'.phase \in {"idle", "validating"}
      BY <2>3 DEF ExecutionDone, StartValidation, Returned, taskVars
    <3>2. Status' = [Status EXCEPT ![call.task] = "free"] /\ Status[call.task] = "attempting"
      BY <3>1, <1>t DEF Status, ProtocolStatus, InDoubt, Returned
    <3>3. Protocol!Conclude(call.task)
      BY <3>1, <3>2, <1>v DEF Protocol!Conclude, Status, Observed
    <3> QED
      BY <3>1, <3>3, <1>t DEF Protocol!ProtocolNext
  <2>4. CASE ValidatorRaises
    BY <2>4, <1>s, <1>v, <1>i DEF ValidatorRaises, taskVars
  <2>5. ASSUME NEW D \in SUBSET Object, ApplyVerdict(D)
        PROVE  [Protocol!ProtocolNext]_(Protocol!protocolVars)
    <3>1. call.phase = "validating" /\ call' = Idle /\ doubt' = doubt
      BY <2>5 DEF ApplyVerdict
    <3>2. \A t \in TaskId : t # call.task => revision'[t] = revision[t]
      BY <2>5 DEF ApplyVerdict, ReviseAll, taskVars, CallInv
    <3>3. Observed' = Observed
      BY <3>1, <3>2, <1>t DEF Observed, ProtocolObserved, CallInv
    <3> QED
      BY <3>1, <3>3, <1>s, <1>i
  <2> QED
    BY <1>4, <2>1, <2>2, <2>3, <2>4, <2>5 DEF Execution
<1>5. CASE \E t \in TaskId, key \in Key \cup {NoKey} : Acknowledge(t, key)
  <2>1. PICK t \in TaskId :
          /\ t \in DOMAIN doubt /\ revision[t] > doubt[t].revision
          /\ doubt' = [u \in DOMAIN doubt \ {t} |-> doubt[u]]
          /\ UNCHANGED <<revision, call>>
    BY <1>5 DEF Acknowledge, taskVars
  <2>2. Status[t] = "inDoubt" /\ t \in Observed
    BY <2>1 DEF Status, Observed, ProtocolStatus, ProtocolObserved, InDoubt
  <2>a. DOMAIN doubt' = DOMAIN doubt \ {t} /\ t \in DOMAIN doubt /\ UNCHANGED call
    BY <2>1
  <2>b. call.phase \in {"executing", "returned"} => call.task # t
    BY <2>a, <1>t
  <2>3. Status' = [Status EXCEPT ![t] = "free"]
    BY <2>a, <2>b, Zenon DEF Status, ProtocolStatus, InDoubt, Returned
  <2>4. Observed' = Observed \ {t}
    BY <2>1 DEF Observed, ProtocolObserved
  <2>5. Protocol!Reconcile(t)
    BY <2>2, <2>3, <2>4 DEF Protocol!Reconcile, Status, Observed
  <2> QED
    BY <2>5 DEF Protocol!ProtocolNext
<1>6. CASE Environment
  <2>1. UNCHANGED <<attempts, doubt, call>>
    BY <1>6 DEF Environment, OptionEnvironment, TaskEnvironment, ContextEnvironment, runtimeVars
  <2>2. CASE UNCHANGED revision
    BY <2>1, <2>2, <1>s, <1>v, <1>d
  <2>3. ASSUME NEW t \in TaskId, NEW x \in Object, Revise(t, x)
        PROVE  [Protocol!ProtocolNext]_(Protocol!protocolVars)
    <3>1. /\ \A u \in TaskId : u # t => revision'[u] = revision[u]
          /\ revision'[t] >= revision[t]
      <4>1. {x} \in SUBSET Object /\ ReviseAll(t, {x}) /\ revision \in [TaskId -> Nat]
        BY <2>3 DEF Revise, CallInv
      <4>2. \A u \in TaskId : u # t => revision'[u] = revision[u]
        BY <4>1 DEF ReviseAll
      <4> QED
        BY <4>1, <4>2, ReviseAllRevision
    <3>2. Status' = Status
      BY <2>1, <1>d
    <3>3. CASE t \in Observed' \ Observed
      <4>1. Observed' = Observed \cup {t}
        BY <3>1, <3>3, <2>1 DEF Observed, ProtocolObserved, CallInv
      <4>2. Status[t] = "inDoubt"
        BY <3>3, <2>1 DEF Status, Observed, ProtocolStatus, ProtocolObserved, InDoubt
      <4>3. Protocol!Observe(t)
        BY <3>2, <4>1, <4>2 DEF Protocol!Observe, Status, Observed
      <4> QED
        BY <4>3 DEF Protocol!ProtocolNext
    <3>4. CASE t \notin Observed' \ Observed
      <4>1. Observed' = Observed
        BY <3>1, <3>4, <2>1 DEF Observed, ProtocolObserved, CallInv
      <4> QED
        BY <3>2, <4>1, <1>s
    <3> QED
      BY <3>3, <3>4
  <2> QED
    BY <1>6, <2>2, <2>3
    DEF Environment, OptionEnvironment, TaskEnvironment, ContextEnvironment, taskVars, AddRecord
<1> QED
  BY <1>1, <1>2, <1>3, <1>4, <1>5, <1>6 DEF Next

LEMMA ProtocolStart == RuntimeInit => CallInv /\ Protocol!ProtocolInit
BY TaskMemoryAssumption
DEF RuntimeInit, TaskInit, CallInv, Protocol!ProtocolInit, ProtocolStatus, ProtocolObserved,
    InDoubt, Returned, InPhase, Idle, TaskMemoryAssumption

(* The runtime implements ExecutionProtocol: for any number of tasks and   *)
(* any options, an uncertain side effect is never retried implicitly.      *)
THEOREM RuntimeNeverRetries == Spec => NeverRetried
<1>1. RuntimeInit => CallInv /\ Protocol!ProtocolInit
  BY ProtocolStart
<1>2. CallInv /\ [Next]_vars => CallInv'
  BY CallInvStep
<1>3. CallInv /\ CallInv' /\ [Next]_vars => [Protocol!ProtocolNext]_(Protocol!protocolVars)
  BY ProtocolStep
<1> QED
  BY <1>1, <1>2, <1>3, PTL DEF Spec, NeverRetried, Protocol!ProtocolSpec

-----------------------------------------------------------------------------
(* What reaches the executor *)

(* As long as the page of an offered option has the revision it was        *)
(* offered with, the page still says of it what was offered.               *)
StillSays(o, x) ==
  LET p == x.form.page
  IN  /\ p \in Registered
      /\ x.revision \in Nat
      /\ x.revision <= pages[p].revision
      /\ x.revision = pages[p].revision =>
           /\ o \in IdsOf(pages[p].content)
           /\ x.form = [page |-> p, body |-> pages[p].content.body[o]]

OfferedInv ==
  InPhase("deciding") =>
    \A o \in OptionId : Option(o) \in call.surface =>
      o \in DOMAIN call.offered /\ StillSays(o, call.offered[o])

(* What the option manager may do between the offer and the answer.        *)
LEMMA SayingStays ==
  ASSUME OptionInv, OptionInv', [OptionNext]_optionVars, NEW o, NEW x, StillSays(o, x)
  PROVE  StillSays(o, x)'
<1> DEFINE p == x.form.page
<1>1. p \in Registered' /\ (pages'[p] # pages[p] => pages'[p].revision > pages[p].revision)
  BY DirectorySteps DEF StillSays, Registered
<1>2. pages[p].revision \in 1..MaxRevision /\ pages'[p].revision \in 1..MaxRevision
  BY <1>1 DEF OptionInv, OptionTypeOK, DirectoryTypeOK, PageRecord, Registered, StillSays
<1>3. x.revision \in Nat /\ MaxRevision \in Nat
  BY VirtualOptionAssumption DEF StillSays, VirtualOptionAssumption
<1>4. CASE pages'[p] = pages[p]
  BY <1>1, <1>4 DEF StillSays
<1>5. CASE pages'[p] # pages[p]
  BY <1>1, <1>2, <1>3, <1>5 DEF StillSays
<1> QED
  BY <1>4, <1>5

(* A surface offers what its pages say.                                    *)
LEMMA OffersSay ==
  ASSUME OptionInv, NEW o \in Resident
  PROVE  o \in DOMAIN Offered /\ StillSays(o, Offered[o])
<1> DEFINE p == resident[o].page
<1>1. /\ p \in Registered /\ o \in IdsOf(pages[p].content)
      /\ resident[o].body = pages[p].content.body[o]
  BY DEF OptionInv, ResidentCurrent
<1>2. resident[o] \in OptionRecord
  BY DEF OptionInv, OptionTypeOK, ResidentTypeOK, Resident
<1>3. resident[o] = [page |-> p, body |-> pages[p].content.body[o]]
  BY <1>1, <1>2 DEF OptionRecord
<1>4. pages[p].revision \in Nat
  BY <1>1, VirtualOptionAssumption
  DEF OptionInv, OptionTypeOK, DirectoryTypeOK, PageRecord, Registered, VirtualOptionAssumption
<1>5. o \in DOMAIN Offered /\ Offered[o] = [form |-> resident[o], revision |-> pages[p].revision]
  BY DEF Offered
<1> QED
  BY <1>1, <1>3, <1>4, <1>5 DEF StillSays

(* Everything between two callouts is a step of the option manager, or     *)
(* leaves it alone.                                                        *)
LEMMA OfferedInvStep ==
  ASSUME OptionInv, OptionInv', OfferedInv, [Next]_vars
  PROVE  OfferedInv'
<1> SUFFICES ASSUME InPhase("deciding")', NEW o \in OptionId, Option(o) \in call'.surface
             PROVE  o \in DOMAIN call'.offered /\ StillSays(o, call.offered[o])'
  BY DEF OfferedInv
<1> USE DEF Idle, InPhase, Return
<1>1. CASE UNCHANGED call
  <2>1. o \in DOMAIN call.offered /\ StillSays(o, call.offered[o])
    BY <1>1 DEF OfferedInv
  <2>2. [OptionNext]_optionVars
    <3>1. CASE UNCHANGED vars \/ UNCHANGED optionVars
      BY <3>1 DEF vars
    <3>2. CASE OptionEnvironment
      <4>1. CASE \E p \in PageId, c \in Contents, rev \in 1..MaxRevision : RegisterPage(p, c, rev, NoParent)
        BY <4>1 DEF OptionNext
      <4>2. CASE \E p \in Registered : PageIn(p, Len(pages[p].content.order), {})
        <5>1. PICK p \in Registered : PageIn(p, Len(pages[p].content.order), {})
          BY <4>2
        <5>2. Len(pages[p].content.order) \in 1..Len(pages[p].content.order)
          BY <5>1 DEF PageIn
        <5> QED
          BY <5>1, <5>2 DEF OptionNext
      <4>3. CASE \E p \in PageId : InvalidatePage(p)
        BY <4>3 DEF OptionNext
      <4> QED
        BY <3>2, <4>1, <4>2, <4>3 DEF OptionEnvironment
    <3>3. CASE Decision \/ Execution \/ \E t \in TaskId : StepOf(t)
      BY <1>1, <3>3, DecisionShape
      DEF StepOf, BeginStep, BeginStepRaises, Execution, ExecutorReturns, RecordDoubt,
          ExecutionDone, StartValidation, ValidatorRaises, ApplyVerdict
    <3>4. CASE \E t \in TaskId, key \in Key \cup {NoKey} : Acknowledge(t, key)
      BY <3>4 DEF Acknowledge
    <3> QED
      BY <3>1, <3>2, <3>3, <3>4 DEF Next, Environment, TaskEnvironment, ContextEnvironment
  <2>3. StillSays(o, call.offered[o])'
    <3>1. \A x : StillSays(o, x) => StillSays(o, x)'
      BY <2>2, SayingStays
    <3> QED
      BY <1>1, <2>1, <3>1 DEF StillSays
  <2> QED
    BY <1>1, <2>1, <2>3
<1>2. CASE \E t \in TaskId, P \in PageRequests, F \in SUBSET DOMAIN Refinement, U \in SUBSET Block :
             BeginStep(t, P, F, U)
  <2>1. PICK t \in TaskId, P \in PageRequests, F \in SUBSET DOMAIN Refinement, U \in SUBSET Block :
               BeginStep(t, P, F, U)
    BY <1>2
  <2>2. call'.surface = Surface(t, P, F) /\ call'.offered = Offered /\ UNCHANGED optionVars
    BY <2>1 DEF BeginStep
  <2>3. o \in Resident
    BY <2>2 DEF Surface, Option, Page, RefineOf, ContextFault, Controls
  <2>4. o \in DOMAIN Offered /\ StillSays(o, Offered[o])
    BY <2>3, OffersSay
  <2>5. \A x : StillSays(o, x) => StillSays(o, x)'
    BY <2>2 DEF StillSays, optionVars, Registered
  <2> QED
    BY <2>2, <2>4, <2>5 DEF StillSays
<1>3. CASE Decision
  BY <1>3, DecisionShape
<1>4. CASE Execution
  BY <1>4
  DEF Execution, ExecutorReturns, RecordDoubt, Returned, ExecutionDone, StartValidation,
      ValidatorRaises, ApplyVerdict
<1>5. CASE Environment \/ \E t \in TaskId, key \in Key \cup {NoKey} : Acknowledge(t, key)
  BY <1>1, <1>5
  DEF Environment, OptionEnvironment, TaskEnvironment, ContextEnvironment, Acknowledge, runtimeVars
<1>6. CASE \E t \in TaskId, U \in SUBSET Block : BeginStepRaises(t, U)
  BY <1>1, <1>6 DEF BeginStepRaises, runtimeVars
<1> QED
  BY <1>1, <1>2, <1>3, <1>4, <1>5, <1>6 DEF Next, vars, runtimeVars, StepOf

LEMMA ExecutesCurrentStep ==
  ASSUME OptionInv, OfferedInv, [Next]_vars, InPhase("deciding"), InPhase("executing")'
  PROVE  LET o == call'.option
             p == call'.executed.page
         IN  /\ revision[call.task] = call.revision
             /\ p \in Registered \ stale
             /\ o \in IdsOf(pages[p].content)
             /\ call'.executed.body = pages[p].content.body[o]
             /\ Option(o) \in call.surface
             /\ SameForm(o, call'.executed) \/ Superseding(o)
<1> USE DEF Idle, InPhase
<1>1. PICK o \in OptionId : StartExecution(o)
  <2>1. Decision
    BY DEF Return, Next, vars, runtimeVars, StepOf, BeginStep, BeginStepRaises, Execution, ExecutorReturns,
           RecordDoubt, Returned, ExecutionDone, StartValidation, ValidatorRaises, ApplyVerdict,
           Acknowledge, Environment, OptionEnvironment, TaskEnvironment, ContextEnvironment
  <2>2. call' # Idle
    OBVIOUS
  <2> QED
    BY <2>1, <2>2, Zenon
    DEF Decision, DecisionInvalid, ChoosePage, ChooseRefine, ChooseRefineFails,
        ChooseContextFault, ChooseControl, ChooseOptionStale, CommitOnly, Return
<1> DEFINE q == resident[o].page
<1>2. call'.option = o /\ call'.executed = resident[o] /\ o \in Resident
  BY <1>1 DEF StartExecution, Resolve
<1>3. Option(o) \in call.surface /\ revision[call.task] = call.revision
  BY <1>1 DEF StartExecution, Chosen
<1>4. /\ q \in Registered \ stale
      /\ o \in IdsOf(pages[q].content)
      /\ resident[o].body = pages[q].content.body[o]
      /\ resident[o] \in OptionRecord
  BY <1>2 DEF OptionInv, ResidentCurrent, OptionTypeOK, ResidentTypeOK, Resident
<1>5. SameForm(o, resident[o]) \/ Superseding(o)
  <2> DEFINE x == call.offered[o]
             p == x.form.page
  <2>1. StillSays(o, x)
    BY <1>3 DEF OfferedInv
  <2>2. p \in Registered /\ pages[p].revision \in Nat /\ x.revision \in Nat /\ x.revision <= pages[p].revision
    BY <2>1, VirtualOptionAssumption
    DEF StillSays, OptionInv, OptionTypeOK, DirectoryTypeOK, PageRecord, Registered, VirtualOptionAssumption
  <2>3. CASE pages[p].revision > x.revision
    BY <2>2, <2>3 DEF Superseding
  <2>4. CASE pages[p].revision = x.revision
    <3>1. o \in IdsOf(pages[p].content) /\ x.form = [page |-> p, body |-> pages[p].content.body[o]]
      BY <2>1, <2>4 DEF StillSays
    <3>2. Registered \subseteq PageId
      BY DEF OptionInv, OptionTypeOK, DirectoryTypeOK, Registered
    <3>3. owner[o] = p /\ owner[o] = q
      BY <1>4, <2>2, <3>1, <3>2 DEF OptionInv, OwnershipExact
    <3>4. resident[o] = [page |-> q, body |-> pages[q].content.body[o]]
      BY <1>4 DEF OptionRecord
    <3> QED
      BY <3>1, <3>3, <3>4 DEF SameForm
  <2> QED
    BY <2>2, <2>3, <2>4
<1> QED
  BY <1>2, <1>3, <1>4, <1>5

(* For every instance: the task is as it was when the option was offered,  *)
(* its page says what is executed, and that is what was offered unless the *)
(* page has got a newer revision meanwhile.                                *)
THEOREM RuntimeExecutesCurrent == Spec => ExecutesCurrent
<1>1. RuntimeInit => OptionInv /\ OfferedInv
  BY InitInv DEF RuntimeInit, OfferedInv, InPhase, Idle
<1>2. OptionInv /\ [Next]_vars => OptionInv'
  BY OptionInvStep
<1>3. OptionInv /\ OptionInv' /\ OfferedInv /\ [Next]_vars => OfferedInv'
  BY OfferedInvStep
<1>4. OptionInv /\ OfferedInv /\ [Next]_vars =>
        [InPhase("deciding") /\ InPhase("executing")' =>
           LET o == call'.option
               p == call'.executed.page
           IN  /\ revision[call.task] = call.revision
               /\ p \in Registered \ stale
               /\ o \in IdsOf(pages[p].content)
               /\ call'.executed.body = pages[p].content.body[o]
               /\ Option(o) \in call.surface
               /\ SameForm(o, call'.executed) \/ Superseding(o)]_vars
  BY ExecutesCurrentStep
<1> QED
  BY <1>1, <1>2, <1>3, <1>4, PTL DEF Spec, ExecutesCurrent
-----------------------------------------------------------------------------
(* The context manager, in the runtime *)

(* Whatever the runtime does to the context is one operation of the        *)
(* context manager, or none.                                               *)
LEMMA RuntimeContextStep == [Next]_vars => [ContextNext]_contextVars
<1> SUFFICES ASSUME [Next]_vars
             PROVE  ContextNext \/ UNCHANGED contextVars
  OBVIOUS
<1>1. CASE \E t \in TaskId : StepOf(t)
  <2>1. \E U \in SUBSET Block : Refresh(U) \/ RegisterBlocks(U)
    BY <1>1, Zenon DEF StepOf, BeginStep, BeginStepRaises
  <2> QED
    BY <2>1 DEF ContextNext
<1>2. CASE ChooseContextFault
  <2>1. UNCHANGED contextVars \/ Refresh({})
    BY <1>2 DEF ChooseContextFault
  <2> QED
    BY <2>1 DEF ContextNext
<1>3. CASE \E D \in SUBSET Object : ApplyVerdict(D)
  BY <1>3, InvalidateNamed DEF ApplyVerdict
<1>4. CASE ContextEnvironment
  BY <1>4 DEF ContextEnvironment, ContextNext
<1>5. CASE Decision /\ ~ChooseContextFault
  BY <1>5, Zenon DEF Decision, DecisionInvalid, ChoosePage, ChooseRefine, ChooseRefineFails, ChooseControl,
     ChooseOptionStale, StartExecution, CommitOnly
<1>6. CASE Execution /\ ~\E D \in SUBSET Object : ApplyVerdict(D)
  BY <1>6 DEF Execution, ExecutorReturns, RecordDoubt, ExecutionDone, StartValidation, ValidatorRaises
<1>7. CASE UNCHANGED vars \/ \E t \in TaskId, key \in Key \cup {NoKey} : Acknowledge(t, key)
  BY <1>7 DEF vars, Acknowledge
<1>8. CASE OptionEnvironment \/ TaskEnvironment
  BY <1>8 DEF OptionEnvironment, TaskEnvironment
<1> QED
  BY <1>1, <1>2, <1>3, <1>4, <1>5, <1>6, <1>7, <1>8 DEF Next, Environment

(* The runtime with its environment implements ContextSpace.               *)
THEOREM RuntimeKeepsContextSpec == Spec => ContextSpec
<1>1. RuntimeInit => ContextInit
  BY DEF RuntimeInit
<1> QED
  BY <1>1, RuntimeContextStep, PTL DEF Spec, ContextSpec

(* No step, fault or verdict leaves a stale or a pinned block in the       *)
(* working set, or more blocks than fit.                                   *)
THEOREM RuntimeKeepsWorkingSound == Spec => []WorkingSound
  BY RuntimeKeepsContextSpec, ContextIsSound, PTL

(* A stale block comes back with a newer revision or not at all.           *)
THEOREM RuntimeRevivesOnlyRevised == Spec => BlockStaleUntilRevised
<1>1. RuntimeInit => ContextInv
  BY ContextStarts DEF RuntimeInit
<1>2. ContextInv /\ [Next]_vars => ContextInv'
  BY ContextStep, RuntimeContextStep
<1>3. ContextInv /\ [Next]_vars =>
        \A b \in Known : b \in blockStale /\ b \in ResidentBlocks' => blockRevision'[b] > blockRevision[b]
  BY RevivedIsRevised, RuntimeContextStep
<1> QED
  BY <1>1, <1>2, <1>3, PTL DEF Spec, BlockStaleUntilRevised
-----------------------------------------------------------------------------
(* The remembered facts *)

(* A change of several objects affects what one of them affects.           *)
LEMMA AffectedByOne ==
  ASSUME NEW D \in SUBSET Object, NEW x \in Affected(D)
  PROVE  \E d \in D : x \in Affected({d})
<1> DEFINE S == {y \in Object : \E d \in D : y \in Affected({d})}
<1>1. D \subseteq S
  BY DEF Affected
<1>2. Closed(S)
  <2> SUFFICES ASSUME NEW y \in S, NEW z \in Dependents[y]
               PROVE  z \in S
    BY DEF Closed
  <2>1. PICK d \in D : y \in Affected({d})
    OBVIOUS
  <2>2. z \in Object
    BY DependentsAssumption DEF DependentsAssumption
  <2>3. z \in Affected({d})
    BY <2>1, <2>2 DEF Affected, Closed
  <2> QED
    BY <2>2, <2>3
<1>3. S \in SUBSET Object
  OBVIOUS
<1>4. x \in S
  BY <1>1, <1>2, <1>3 DEF Affected
<1> QED
  BY <1>4

(* revise only counts versions up, and counts what it affects.             *)
LEMMA BumpedCounts ==
  ASSUME NEW versions \in [Object -> Nat], NEW D \in SUBSET Object
  PROVE  /\ Bumped(versions, D) \in [Object -> Nat]
         /\ \A x \in Object : Bumped(versions, D)[x] >= versions[x]
         /\ \A x \in Affected(D) : Bumped(versions, D)[x] > versions[x]
<1> DEFINE Causes(x) == {d \in D : x \in Affected({d})}
<1>1. ASSUME NEW x \in Object
      PROVE  IsFiniteSet(Causes(x)) /\ Cardinality(Causes(x)) \in Nat
  <2>1. Causes(x) \subseteq Object
    OBVIOUS
  <2> QED
    BY <2>1, FS_Subset, FS_CardinalityType, TaskMemoryAssumption DEF TaskMemoryAssumption
<1>2. ASSUME NEW x \in Affected(D)
      PROVE  Cardinality(Causes(x)) # 0
  <2>1. x \in Object
    BY DEF Affected
  <2>2. Causes(x) # {}
    BY AffectedByOne
  <2> QED
    BY <2>1, <2>2, <1>1, FS_EmptySet
<1>3. Affected(D) \subseteq Object
  BY DEF Affected
<1>4. Bumped(versions, D) = [x \in Object |-> versions[x] + Cardinality(Causes(x))]
  BY DEF Bumped
<1> HIDE DEF Causes
<1> QED
  BY <1>1, <1>2, <1>3, <1>4

(* A record is as old as its task or older.  The bank belongs to one task, *)
(* because versions are counted by task and compared by object only.       *)
FactsInv ==
  /\ version \in [TaskId -> [Object -> Nat]]
  /\ DOMAIN memory \subseteq Record
  /\ \A r \in DOMAIN memory :
       /\ memory[r] \in [versions : [RecordDeps[r] -> Nat], current : BOOLEAN]
       /\ \A t \in TaskId, x \in RecordDeps[r] : memory[r].versions[x] <= version[t][x]

SameVersions(r) ==
  /\ memory'[r] \in [versions : [RecordDeps[r] -> Nat], current : BOOLEAN]
  /\ memory'[r].versions = memory[r].versions

LEMMA ReviseKeepsFacts ==
  ASSUME FactsInv, NEW t \in TaskId, NEW D \in SUBSET Object, ReviseAll(t, D),
         DOMAIN memory' = DOMAIN memory,
         \A r \in DOMAIN memory : SameVersions(r)
  PROVE  FactsInv'
<1>1. /\ Bumped(version[t], D) \in [Object -> Nat]
      /\ \A x \in Object : Bumped(version[t], D)[x] >= version[t][x]
  BY BumpedCounts DEF FactsInv
<1>2. version' = [version EXCEPT ![t] = Bumped(version[t], D)]
  BY DEF ReviseAll
<1>3. version' \in [TaskId -> [Object -> Nat]]
  BY <1>1, <1>2 DEF FactsInv
<1>4. \A u \in TaskId, x \in Object : version'[u][x] >= version[u][x]
  BY <1>1, <1>2 DEF FactsInv
<1>5. ASSUME NEW r \in DOMAIN memory', NEW u \in TaskId, NEW x \in RecordDeps[r]
      PROVE  memory'[r].versions[x] <= version'[u][x]
  <2>1. x \in Object
    BY <1>5, TaskMemoryAssumption DEF TaskMemoryAssumption, FactsInv
  <2>2. /\ memory[r].versions[x] <= version[u][x]
        /\ memory[r].versions[x] \in Nat
        /\ version[u][x] \in Nat
    BY <1>5, <2>1 DEF FactsInv
  <2>3. version'[u][x] \in Nat
    BY <1>3, <2>1
  <2>4. memory'[r].versions = memory[r].versions
    BY <1>5 DEF SameVersions
  <2> QED
    BY <1>4, <2>1, <2>2, <2>3, <2>4
<1> QED
  BY <1>3, <1>5 DEF FactsInv, SameVersions

(* Invalidating marks records and leaves their versions alone.             *)
LEMMA InvalidateMarks ==
  ASSUME FactsInv, NEW versions, NEW D, InvalidateRecords(versions, D)
  PROVE  /\ DOMAIN memory' = DOMAIN memory
         /\ \A r \in DOMAIN memory : SameVersions(r)
         /\ \A r \in DOMAIN memory :
              D \cap RecordDeps[r] # {} \/ ~Matches(versions, memory[r]) => ~memory'[r].current
<1>1. DOMAIN memory' = DOMAIN memory
  BY DEF InvalidateRecords
<1>2. ASSUME NEW r \in DOMAIN memory
      PROVE  /\ SameVersions(r)
             /\ D \cap RecordDeps[r] # {} \/ ~Matches(versions, memory[r]) => ~memory'[r].current
  <2>1. memory[r] \in [versions : [RecordDeps[r] -> Nat], current : BOOLEAN]
    BY DEF FactsInv
  <2> DEFINE marked == [memory[r] EXCEPT !.current = FALSE]
  <2>2. /\ marked \in [versions : [RecordDeps[r] -> Nat], current : BOOLEAN]
        /\ marked.versions = memory[r].versions
        /\ ~marked.current
    BY <2>1
  <2>3. memory'[r] = IF D \cap RecordDeps[r] # {} \/ ~Matches(versions, memory[r])
                     THEN marked ELSE memory[r]
    BY DEF InvalidateRecords
  <2> HIDE DEF marked
  <2> QED
    BY <2>1, <2>2, <2>3 DEF SameVersions
<1> QED
  BY <1>1, <1>2

(* What a step may do to the task and its facts.                           *)
LEMMA TaskSteps ==
  ASSUME CallInv, [Next]_vars
  PROVE  \/ UNCHANGED taskVars
         \/ \E t \in TaskId, x \in Object : Revise(t, x)
         \/ \E t \in TaskId, r \in Record : AddRecord(t, r)
         \/ \E D \in SUBSET Object : ApplyVerdict(D) /\ D # {} /\ call.task \in TaskId
<1>1. CASE \E D \in SUBSET Object : ApplyVerdict(D)
  BY <1>1 DEF ApplyVerdict, CallInv, Idle, InPhase
<1>2. CASE Decision
  BY <1>2, DecisionShape DEF taskVars
<1>3. CASE Execution /\ ~\E D \in SUBSET Object : ApplyVerdict(D)
  BY <1>3 DEF Execution, ExecutorReturns, RecordDoubt, ExecutionDone, StartValidation, ValidatorRaises
<1>4. CASE (\E t \in TaskId : StepOf(t)) \/ UNCHANGED vars \/ Environment
  BY <1>4 DEF StepOf, BeginStep, BeginStepRaises, vars, Environment, OptionEnvironment, TaskEnvironment,
     ContextEnvironment
<1>5. CASE \E t \in TaskId, key \in Key \cup {NoKey} : Acknowledge(t, key)
  BY <1>5 DEF Acknowledge
<1> QED
  BY <1>1, <1>2, <1>3, <1>4, <1>5 DEF Next

OneTask == \A t, u \in TaskId : t = u

LEMMA FactsStep ==
  ASSUME OneTask, CallInv, FactsInv, [Next]_vars
  PROVE  FactsInv'
<1>1. CASE UNCHANGED taskVars
  BY <1>1 DEF taskVars, FactsInv
<1>2. ASSUME NEW t \in TaskId, NEW x \in Object, Revise(t, x)
      PROVE  FactsInv'
  <2>1. ReviseAll(t, {x}) /\ memory' = memory
    BY <1>2 DEF Revise
  <2>2. \A r \in DOMAIN memory : SameVersions(r)
    BY <2>1 DEF FactsInv, SameVersions
  <2> QED
    BY <2>1, <2>2, ReviseKeepsFacts
<1>3. ASSUME NEW t \in TaskId, NEW r \in Record, AddRecord(t, r)
      PROVE  FactsInv'
  <2> DEFINE new == [versions |-> [x \in RecordDeps[r] |-> version[t][x]], current |-> TRUE]
  <2>1. /\ r \notin DOMAIN memory /\ version' = version
        /\ memory' = [s \in DOMAIN memory \cup {r} |-> IF s = r THEN new ELSE memory[s]]
    BY <1>3 DEF AddRecord
  <2>2. /\ new.versions \in [RecordDeps[r] -> Nat]
        /\ \A x \in RecordDeps[r] : new.versions[x] = version[t][x] /\ version[t][x] \in Nat
    BY TaskMemoryAssumption DEF TaskMemoryAssumption, FactsInv
  <2>3. \A u \in TaskId : u = t
    BY DEF OneTask
  <2>4. \A u \in TaskId, x \in RecordDeps[r] : new.versions[x] <= version[u][x]
    BY <2>2, <2>3
  <2>5. new \in [versions : [RecordDeps[r] -> Nat], current : BOOLEAN]
    BY <2>2
  <2> HIDE DEF new
  <2> QED
    BY <2>1, <2>2, <2>4, <2>5 DEF FactsInv
<1>4. ASSUME NEW D \in SUBSET Object, ApplyVerdict(D), D # {}, call.task \in TaskId
      PROVE  FactsInv'
  <2>1. ReviseAll(call.task, D) /\ InvalidateRecords(version'[call.task], D)
    BY <1>4 DEF ApplyVerdict
  <2> QED
    BY <1>4, <2>1, InvalidateMarks, ReviseKeepsFacts
<1> QED
  BY <1>1, <1>2, <1>3, <1>4, TaskSteps

(* A fact that depends on an affected object is older than the object now. *)
LEMMA VerdictStep ==
  ASSUME CallInv, FactsInv, NEW D \in (SUBSET Object) \ {{}}, ApplyVerdict(D),
         NEW r \in DOMAIN memory, memory'[r].current
  PROVE  RecordDeps[r] \cap Affected(D) = {}
<1> DEFINE t == call.task
<1>1. /\ t \in TaskId
      /\ ReviseAll(t, D) /\ InvalidateRecords(version'[t], D)
  <2>1. D # {} /\ call.phase = "validating"
    BY DEF ApplyVerdict, InPhase
  <2>2. t \in TaskId
    BY <2>1 DEF CallInv, Idle
  <2> QED
    BY <2>1, <2>2 DEF ApplyVerdict
<1>2. /\ version'[t] = Bumped(version[t], D)
      /\ version[t] \in [Object -> Nat]
  BY <1>1 DEF ReviseAll, FactsInv
<1>3. Matches(version'[t], memory[r])
  BY <1>1, InvalidateMarks
<1> SUFFICES ASSUME NEW x \in RecordDeps[r], x \in Affected(D)
             PROVE  FALSE
  OBVIOUS
<1>4. Bumped(version[t], D)[x] > version[t][x] /\ Bumped(version[t], D) \in [Object -> Nat]
  BY <1>2, BumpedCounts
<1>5. version'[t][x] = memory[r].versions[x]
  BY <1>3 DEF Matches, FactsInv
<1>6. memory[r].versions[x] <= version[t][x] /\ memory[r].versions[x] \in Nat
  BY <1>1 DEF FactsInv
<1>7. x \in Object
  BY DEF Affected
<1> QED
  BY <1>2, <1>4, <1>5, <1>6, <1>7

(* For a bank that belongs to one task: a verdict leaves no fact current   *)
(* that depends on what it revised, directly or through derived objects.   *)
THEOREM VerdictsInvalidateFacts == OneTask => (Spec => VerdictInvalidatesFacts)
<1> SUFFICES ASSUME OneTask
             PROVE  Spec => VerdictInvalidatesFacts
  OBVIOUS
<1>1. RuntimeInit => CallInv /\ FactsInv
  BY ProtocolStart DEF RuntimeInit, TaskInit, FactsInv
<1>2. CallInv /\ FactsInv /\ [Next]_vars => CallInv' /\ FactsInv'
  BY CallInvStep, FactsStep
<1>3. CallInv /\ FactsInv /\ [Next]_vars =>
        \A D \in (SUBSET Object) \ {{}} : ApplyVerdict(D) =>
          \A r \in DOMAIN memory : memory'[r].current => RecordDeps[r] \cap Affected(D) = {}
  BY VerdictStep
<1> QED
  BY <1>1, <1>2, <1>3, PTL DEF Spec, VerdictInvalidatesFacts
=============================================================================
