# Verification of the jev agent's core

TLA+ models of the program logic in `src/jev_agent` and of the tools in
`src/jev_tools` that change something, checked with TLC on small
instances; the safety properties are proved with TLAPS for all instances.  Paths are
relative to the repository root; `runtime.py:327` stands for
`src/jev_agent/runtime.py:327`.

## 1. The system

An agent loop in which a language model only ever *chooses*: from a bounded,
paged set of options, in view of a bounded set of context blocks, for a task
whose state is versioned.  Everything else (what is visible, what is stale, what
may be executed, when a choice is obsolete) is decided by small deterministic
managers.  They call each other directly and share state through the caller;
concurrency comes in through callbacks (the decision model, executor, validator
and verifiers), thread pools, and asyncio tasks.

| component | state | operations | talks to | hard behaviour | what makes it correct |
|---|---|---|---|---|---|
| option manager, `virtual_option.py` | page directory, id index, stale pages, resident set in LRU order | `register_page`, `page_in`, `resolve`, `invalidate_page`, `refine`, `_evict_lru` | runtime, speculation buffer | eviction while paging in; partial failure of `refine`; re-registration | what is resident is current; one owner per id; bounded; stale stays stale |
| task state, `models.py` | revision, object versions, dependency index | `revise`, `affected_by` | runtime, memory, agent | cyclic graphs, transitive invalidation | the walk ends with exactly what is affected |
| memory bank, `memory.py` | facts with the versions they rest on | `add`, `invalidate_changed` | runtime | stale facts of derived objects | no current fact depends on a changed object |
| context manager, `context_residency.py` | blocks, stale flags, working set, residence times | `register`, `rebuild`, `refresh`, `commit_selected`, `invalidate*` | runtime, refresh coordinator | replacement under minimum residency, repeated registration | bounded, no stale block, fresh blocks stay, the best candidates win |
| decision runtime, `runtime.py` | page attempts, pending executions, the step in progress | `step`, `acknowledge_reconciliation` | all of the above, model, executor, validator | state changes during callouts; side effects of unknown outcome; partial context update | what is executed is current; an uncertain side effect is never retried; paging ends |
| refresh coordinator, `context_refresh.py` | epoch, commits per phase, cooldown | `refresh`, `notify_state_change` | context manager, verifier pool | state changes during verification, storms, failing verifiers | only undisturbed blocks are installed; bounded; every refresh ends |
| speculation buffer, `speculation.py` | shadow pages, futures | `prefetch`, `prefetch_async`, `await_materialization`, `promote`, `clear` | option manager, worker pool | late or hanging workers, stale shadows | bounded; what was prepared is promoted as it was prepared; timed waits return |
| revision prefetch, `overlap.py` | one asyncio task and its revision | `start`, `take`, `cancel` | caller's coroutines | coroutines between an await and its continuation | one result, to one taker, for its revision; no task lost |
| agent and orchestrator, `agent.py`, `orchestrator.py` | one run's snapshot; the task table | `run` | Top-k, arguments, catalog | snapshots that are copies | an obsolete choice is not executed |
| paged memory, `paged_memory.py`, `memory_selection.py`, `memory_recovery.py`, `grounded.py` | page index with revisions; one run's evidence | `upsert`, `mark_stale`, `read_selected`, `retrieve`, `recover`, `run` | catalog | stale page in the middle of a batch | reads are all or nothing; no tool call on stale evidence |
| argument input, `arguments.py` | values built so far, call budget | `build` with one worker per field | proposers, chooser, helper, Top-k | waves of concurrent fields, a shared budget, the task or schema changing meanwhile | the budget is never exceeded; a field sees finished dependencies; `build` leaves no worker behind |
| Top-k, `topk.py`; helper, `fast_logits.py` | the value under construction, undo stack; decoded states | `construct`; `start`, `next_top_k`, `append_token` | chooser, model | undo, widening, budgets, option cap; a cache of objects found by address | the loop ends; a value is a chain of valid tokens; tokens are ranked by the logits of the value they are offered for |
| trace and error summaries, `state_machine.py` | edges with counters, pending futures, summaries | `record`, `compile_stable`, `submit`, `drain`, `close` | orchestrator, worker pool | completion out of order, while the queue is drained | each failure counted once; a rule says what the whole history says |
| budgets, `context_budget.py` | none | `pack` | caller | several regions and priorities | nothing required is dropped silently; nothing is dropped that fits |
| session, `cli.py` | planned call, revisions, trace | `:plan`, `:approve`, `:stop`, observations | argument input, agent | plans, revisions and approvals in any order | what is approved is the last plan, for the task as it is, once |
| tool catalog, `jev_tools/catalog.py` | files; a lock per path and process | `file.replace_text`, `file.write`, `json.write`, `shell.run` | the system | read, check and write of a shared file, crashes; a command whose descendants outlive it | only what was seen is replaced; no temporary file or process is left; the call returns |
| rendering, adapters, option pages | none | pure functions, I/O | | | |

## 2. Modules

```
Dependencies <- AffectedBy                     the dependency graph and its walk
     ^
 TaskMemory     VirtualOption     ContextSpace            abstract context manager
      ^          ^     ^   ^         ^     ^    ^
      |          |     |   |         |     |    +--refines-- ContextResidency
      |          |     |   |         |     |
      |          | Speculation       |   ContextRefresh
      +----------+---------+---------+
                    DecisionRuntime --refines--> ExecutionProtocol

PagedMemory <- MemorySelection
                     ^
     TaskMemory <- AgentRun     ContextSpace
                     ^               ^
                     +-- GroundedCall

AffectedBy   ArgumentInput   TopK <- FastLogits   DecisionFrames   InteractiveSession
     ^             ^                     ^              ^                 ^
     +-------------+--- MCCallConstruction (side by side) ----------------+

Speculation   RevisionPrefetch   DecisionTrace <- ErrorSummaries   FileReplace   ShellRun
     ^               ^                                  ^               ^            ^
     +---------------+------- MCBackground (side by side) --------------+------------+

VirtualOption   ContextResidency
     ^                ^
     +-- MCVisible ---+
```

* **VirtualOption** (`virtual_option.py`).  `pages`, `owner`, `stale`,
  `resident` are the manager's dictionaries; `older` is the order of the
  `OrderedDict` as a relation.  Every public method is one action, its checks
  are the guards; a call that raises before it changes anything is a call that
  does not happen.  `refine` is the exception: it registers the child page and
  may then fail to page it in (`RefinePartial`).  `prefetch` only reads.
* **Dependencies**, **AffectedBy**, **TaskMemory** (`models.py`, `memory.py`).
  `Affected(D)` is the least closed set around `D`; AffectedBy models the
  worklist loop that computes it, so TaskMemory may use the set.  Versions are
  counted as `revise` counts them: once per affected object and call.
* **ContextSpace** is what the context manager's callers rely on: which blocks
  are known, stale, in the working set.  **ContextResidency**
  (`context_residency.py`) adds the order of the working set, residence times
  and the selection loop of `rebuild`, and implements ContextSpace.
* **DecisionRuntime** (`runtime.py`).  `step` is cut where it calls out: to
  the model (`BeginStep*`, then one action per kind of choice), to the executor
  (`StartExecution`, `ExecutorReturns`, `RecordDoubt`) and to the validator
  (`StartValidation`, `ApplyVerdict`).  `Environment` is what callbacks and
  other holders of the managers may do between those points.  `call` keeps the
  surface by id, as the code compares it, and in `offered` the forms and page
  revisions of its options, which only the properties look at.
  **ExecutionProtocol** is the promise about side effects, with one status per
  task.
* **ContextRefresh** (`context_refresh.py`) over ContextSpace: `refresh` is cut
  at the fan-out to the verifiers and after the pool is joined.
* **Speculation** (`speculation.py`) over VirtualOption: the futures advance on
  their own, the collecting loop takes one future per action, the deadline is
  an action.  A shadow holds what the code's holds: copies of the first options
  of a page, and two revisions.
* **RevisionPrefetch** (`overlap.py`): coroutines of one event loop; `take` and
  `cancel` are cut at their await.
* **PagedMemory** (`paged_memory.py`): the page table with `upsert`, `mark_stale`
  and the guarded read.  `ReadErrors` is the set of ways in which a read may fail:
  pages are examined in the order of their scores, so with several bad pages
  several errors are possible; a read without errors is all or nothing.
* **MemorySelection** (`memory_selection.py`, `memory_recovery.py`) over it: a
  selection is a value (the stage it waits in and the revisions it was shown),
  and the operators give the selections that may follow an answer.  Recovery
  has no callout and is one step.
* **AgentRun** (`agent.py`, `orchestrator.py`): a run is cut at the memory
  selection, the choice, the Top-k construction and the tool.  `Views` says
  whether the run works on the task state or on the orchestrator's copy of it.
* **GroundedCall** (`grounded.py`) over AgentRun and ContextSpace: context,
  evidence, arguments, and the guard that reads everything again before the tool.
* **ArgumentInput** (`arguments.py`): the thread in `build` submits a wave, joins
  it and goes on or stops; every field of the wave has a worker (`at`) that moves
  from callback to callback.  `reserve` is one step because it holds the budget's
  lock; a callback's return and the check that follows it are one step.
  `calls` is the code's counter, `asked` counts the questions themselves.
* **TopK** (`topk.py`): one turn of `construct` is: rank, offer, choose.  Answers
  that were not offered are answers too.  **FastLogits** (`fast_logits.py`) is the
  helper below it: `_materialized` as a sequence of entries in insertion order,
  and the heap of decoded states, whose addresses the allocator may hand out
  again as soon as nothing refers to the state.  `FastSpec` is one field,
  `ReuseSpec` one helper for several.
* **DecisionTrace**, **ErrorSummaries** (`state_machine.py`, and the order in which
  `orchestrator.py` calls it): a run records, submits and drains; `drain` looks
  at one future per step while the workers go on.  The trace keeps a log of all
  records as a reference for what the counters and rules say.
* **FileReplace** (`catalog.py`): a replacement is cut at the lock, at its two
  comparisons, at the temporary file and at the rename; writers truncate and
  write without a lock, into the file they opened, which may have lost its name
  meanwhile; a process may die anywhere and leaves its files.
* **ShellRun** (`catalog.py`, POSIX): the call, its two reader threads, the command
  and its descendants, which may fork, write, leave the group or never end.
* **DecisionFrames** (`context_budget.py`): a caller collects slices in any order
  and has them packed.  **InteractiveSession** (`cli.py`): one action per kind of
  line.
* **MC...** modules give the constants values, and MCContextRefresh adds a
  history of what happened since the snapshot; **...Proofs** hold the theorems
  (section 5): one module for each component with a long proof, and
  CallConstructionProofs and BackgroundProofs for those that MCCallConstruction and
  MCBackground put side by side.
  MCVisible (the two managers), MCCallConstruction and MCBackground put
  components side by side that share no state: the initial state names the part
  that runs, the others rest.  Such a run is the union of the runs of its parts,
  with one configuration.

Definitions marked *mutant* are small bugs used to show that each property can
fail; no specification uses them.

Abstractions.  Texts, scores, costs, prompts, result records and the events that components write to
a trace are left out (DecisionTrace models the trace itself).  An option's text fields are one `Body`; an equal page is a page with
equal content.  Scores and candidates of a rebuild, answers of models,
executors, validators and verifiers, and the order in which `PageRequests`
come in are chosen freely: the models allow every answer, so the properties do
not depend on a model being sensible.  Exceptions are the actions named
`...Fails`, `...Raises`, `...Invalid`.

Assumptions taken from the code: none of the managers has a lock, so each is
owned by one thread; one `step` per runtime, and one `refresh` per coordinator,
runs at a time; others act while it waits in a callback or for its pool.
Idempotency keys and page ids are hashable values without structure.
A child page's id is a function of its parent (`refine:<option>:r1`).
Coroutines that call the prefetch cache are not cancelled from outside.
Callbacks of argument input bring their own timeouts, as its docstring demands
(arguments.py:3).  A killed process dies, and a group's number is not given to
another group between the end of the command and the second kill.  Decoded states
live as CPython lets them: an object's address is free once nothing refers to it.
One run of an agent is in progress at a time; everyone else may change the task,
the pages and the blocks while it waits.  A tool definition is frozen, so the
schema version is a constant of a run.  The caller's `evidence_check` is any
predicate.  `read_denied` does not occur: a page that was shown cannot become
sensitive without a new revision, and the revision is examined first.  The
orchestrator's copy (`dataclasses.replace`) has its own revision and shares the
dictionary of object versions; the grounded agent's deep copy shares nothing, so
its check is of no effect and the guard decides.

## 3. Runs

| run | instance | shows |
|---|---|---|
| visible | *options*: 4 options, 2 pages, 2 revisions, a resident set of 2, pages that overlap, overflow or repeat an id.  *context*: 3 blocks for 2 places and a pinned block, 2 revisions, 2 scores, residency of 2 steps | nothing resident is outdated, ownership is exact, the overshoot of a page-in is bounded, a stale page stays so, protected options survive; the context manager implements ContextSpace, fresh blocks stay, the best win |
| resident_bound | the options of visible | *fails*: the resident set exceeds `max_resident` |
| runtime | 1 task, pages in 2 versions, a refinement that fits and one that does not, an executor of any outcome, one key | side effects are never retried; an option is executed as the current revision of its page has it, in the form that was offered unless the page has a newer revision; paging ends within its budget |
| runtime_offered | 1 option of 1 page in 2 versions | *fails*: an option is executed in the form in which it was offered |
| runtime_invalidation | objects x and y derived from x, a fact about y, a pinned and an ordinary block in 2 revisions | verdicts invalidate facts transitively; stale blocks need a new revision |
| runtime_derived_blocks | the same | *fails*: blocks of derived objects are invalidated |
| context_refresh | 2 blocks in 2 revisions, 2 phases, 2 commits per phase, a cooldown of 1 | commits are undisturbed, storms are suppressed, every refresh ends |
| grounded | 1 task over 1 object, room for 2 of 3 memory pages in 2 revisions, a plain, a marked and a sensitive payload, 1 draft, 1 context block | a page is never replaced under its revision; budgets hold; a tool is called only on the versions the call rests on and on what the model was shown |
| orchestrator_stale | 1 task, 1 page | *fails*: a call without declared dependencies is made only for the task revision it was chosen for |
| background | *speculation*: 4 options on 2 pages in 2 revisions, a resident set of 2, 1 shadow of 2 options, limits of 1 to 4.  *prefetch*: 2 coroutines, 2 tasks, 2 revisions.  *summaries*: 4 runs with 5 kinds of record, 2 workers, rules from 2 observations at a rate of 1/2.  *file*: 2 replacers and a writer in one process, a replacer in another, 4 calls, 1 crash.  *shell*: a command, 2 descendants, 2 pipes | shadows are bounded; what was prepared comes in as prepared, and more only with a larger limit; a result is handed out once; a failure is counted once and a rule agrees with the log; a replacement replaces what was seen; no temporary file and no process of the group is left; every wait ends |
| call_construction | *walk*: 5 objects with a cycle and a shared dependent, every set of changes, every order of popping.  *arguments*: 3 fields in 2 waves, 2 workers, 2 rounds, 3 calls, a schema and a task that change.  *field*: 2 tokens and EOS, 5 turns, 2 undos, k from 1 to 3 under a cap of 9, 2 cached states at 6 addresses.  *frames*: up to 3 slices of 2 regions, sizes and priorities.  *session*: 3 plans, 5 events | the walk finds exactly what is affected; the budget and the waves hold; a value is sound, its options fit and its logits belong to it; frames are maximal; an approval is of the last plan; every loop ends |
| helper_reused | the field of call_construction, twice with one helper | *fails*: tokens are ranked by the logits that follow the value they are offered for |

Why these bounds.  Everything the code compares is "same or newer", so two
revisions suffice to have an outdated copy and its replacement, and a third
adds only more of the same; where a doubt has to be outlived by a revision
(`MaxTaskRevision`) the bound leaves room for it.  Evictions need a resident
set of two (one option that stays and one that leaves) and a page that does not
fit.  Replacement needs one block more than places.  Two coroutines are the
least that can interleave, and the cache holds one task.  One task suffices for
the runtime because one step runs at a time and `doubt` and `attempts` are keyed by
task; the theorem below is for any number.  The bounds that are not in the code
are `MaxRevision`, `MaxTaskRevision`, `MaxBlockRevision`, `MaxMemoryRevision`,
`MaxBase`, `MaxEpoch`, `MaxTasks` and `MaxDrafts`; they appear in the guards of the actions that count up.

In background, one page has three options and shadows may have two, so a page can
be prepared in part and then be promoted with a smaller, an equal and a larger
limit than it was prepared with.

The grounded run has three pages so that recovery can add one that was not a
candidate and the table can be full, and two long pages so that a set of pages
that fit one by one does not fit together.  Its pages are interchangeable (no
constant tells them apart), so the run uses symmetry.  Its block has one
revision and may be registered and invalidated at any time (a second revision
takes the run from one and a half to three minutes); the theorem about the
guard is for any number of revisions.

In call_construction, two fields compete for the last call of a budget that is
smaller than what three fields in two rounds can ask for, and the third waits for
the first.  The cap of 9 is the least the constructor accepts with `allow_end`,
so that all eight controls leave one place.  Two undos are the code's
default and two tokens suffice to undo one and take the other; two cached states
make `_materialized` evict.  In background, three replacers and two
processes give both kinds of competition, with and without a shared lock; four
calls let a replacement begin while another is refused.  Two descendants are one
that leaves the group and one that stays.  A bound of one chunk per pipe
(`PipeSize`) makes writers wait for the readers.  `MaxRequests`, `MaxCrashes`,
`MaxRuns`, `MaxPlans`, `MaxEvents`, `MaxSlices`, `MaxFields` and the addresses are
bounds that are not in the code, like those above.

Deadlock is checked except in helper_reused, which stops when both fields are
constructed.  MCBackground and MCCallConstruction have an action `Over` for the
parts that return.

Fairness.
* AffectedBy: the loop runs on (WF of its step).
* ContextRefresh: verifiers return and `refresh` runs on after the pool is
  joined.  The pool is joined without a timeout, so this is an assumption about
  the verifiers: one that hangs blocks `refresh` for ever.
* Speculation: the collecting loop runs on and its deadline passes.  *Nothing* is
  assumed about the workers.
* RevisionPrefetch: the event loop resumes a coroutine whose await is over and
  delivers cancellations; a task that has been told to stop ends, one that has
  not may hang.
* ArgumentInput: the thread in `build` and the pool's workers run on, and
  callbacks return or raise, as the docstring demands of them (arguments.py:3).
  Whatever they answer, rounds and calls are used up.
* TopK: helper and chooser return or raise; the budgets do the rest.
* ShellRun: the calling thread and the readers run on and timeouts expire.
  *Nothing* is assumed about the command and its descendants: the call returns
  although they may hold the pipes for ever.
* `PagingEnds` needs no fairness: it says that a chooser cannot page for ever.

## 4. What the code does otherwise than it says

* `page_in` (virtual_option.py:138) counts the options it has to load before it
  evicts, and may evict options of the very page it is paging in; they are
  written back and the resident set exceeds `max_resident`
  (**ResidentBounded** fails).  It stays below twice the bound
  (**OvershootBounded**, proved).
* `step` (runtime.py:327) resolves the chosen id without an expected revision, and
  `resolve` compares a revision only when it is given one (virtual_option.py:190).
  An option that is re-registered under its id and paged in while the model
  decides is executed in a form that was never on the surface
  (**ExecutesWhatWasOffered** fails).  The comment above the call leaves it to the
  manager to validate the revision, and the technical report, which is in part a
  design, says that the revision is compared again before execution
  (docs/VIRTUAL_OPTION_SPACE_TECHNICAL_REPORT.zh-CN.md:45 and :122).  The new form
  is at least the current one, and a form changes in no other way
  (**ExecutesCurrent**, proved).
* `step` (runtime.py:391) hands the context manager the objects a verdict names,
  not what depends on them: blocks of derived objects stay resident, while the
  memory bank's facts become stale (**VerdictInvalidatesContexts** fails).
* `JevAgentOrchestrator.run` (orchestrator.py:81) hands the agent a copy of the task
  state whenever memory was read.  The agent's check for a revised task then
  compares the copy with itself: a draft without declared dependencies is
  executed although the task was revised while the model chose, or while Top-k
  construction ran (**PinnedCallsUndisturbed** fails).  Declared dependencies are
  still compared with the task's own versions, because the copy shares that
  dictionary (**CallsOnDeclaredVersions**, proved).
* `FastLogitsHelper._materialize` (fast_logits.py:126) finds a decoded state by the
  address of the state before it and the token.  An entry keeps the decoded state
  alive and not the one it was decoded from, and entries outlive the field.  The
  prompt state of a field is gone when `construct` returns; the prompt state of
  the next field may get its address, and if both fields begin with the same
  token, the second goes on with the logits of the first prompt
  (**LogitsFollowPrefix** fails in helper_reused).  An agent keeps its builder, and
  with it the helper, between runs (agent.py:190).  With one helper per field,
  as `GreedyFieldProposer` uses it, the property holds when the helper remembers
  as many states as it may be asked for, as by default (proved), and with evictions
  in the instance of call_construction, which has the default of two undos.

Read in the code and not shown by a run:

* `promote` (speculation.py:204) pages in from the directory by its own limit and
  does not look at the options of the shadow.  With a larger limit than the
  prefetch's, options become resident that were not prepared, and more than the
  `max_options` that `prefetch` enforces.  **PromotesWhatWasPrepared** names this case
  and says that there is no other.
* A process that dies between writing and renaming the temporary file of
  `file.replace_text` (catalog.py:384) leaves it behind, and nothing removes it
  later.  **TempsCleaned** is about runs without a crash.
* `RevisionPrefetch.cancel` (overlap.py:81) clears the cache after its await,
  whatever is in it by then: a task another coroutine has started meanwhile runs
  on, out of reach.  `take` (overlap.py:72) compares revisions before it waits,
  not when the result arrives.
* `FastLogitsHelper.advance` (fast_logits.py:95) hands the model the cache object of a
  state that an undo may come back to.  A model that extends that object in place
  leaves undone tokens in it.  The documentation leaves copying the cache to the
  caller (docs/FAST_LOGITS.zh-CN.md:23), which `TopKBuilder`'s undo does not do.
* A rebuild (context_residency.py:195) starts from the protected blocks and takes
  candidates in descending order, so `hysteresis` never decides anything.

## 5. Proofs

The theorems hold for every value of the constants under the modules' named
assumptions.  Every safety property that a run expects to hold, invariant or
action property, is stated by a theorem; two of them have a hypothesis, given
below.

`VirtualOptionProofs`: the conjunction **OptionInv** is inductive.  The invariants
one cares about are not inductive alone.  `ResidentCurrent` depends on
`OwnershipExact` (re-registering page p drops the options p had; that these are
all options of p that are resident needs that no other page claims their ids).
`OvershootBounded` depends on `LruTotal`, the totality of the LRU order, without which
"the n oldest" need not exist, and on `WellFormed`, because a page that names an
id twice would be counted wrongly.  `PageHistory` follows step by step from the
same invariant, and `PageInKeepsPromise` from what a page-in evicts: the victims
are chosen among the unprotected, and what it asked for is written last.  The
assumptions are positive bounds and contents whose `body` covers `order`.
Nothing is assumed finite, the resident set is proved to be.

`ContextSpaceProofs`: the working set is bounded and current (`WorkingSound`), for
a finite set of blocks.  The runtime and the refresh coordinator use the
manager, and their specifications imply ContextSpace's, so its theorem is theirs.

`ContextResidencyProofs`: the manager implements ContextSpace
(`ManagerKeepsContextSpec`), with **ResidencyInv**: the order lists eligible blocks
once, and every one of them has a residence.  The choice of a rebuild is a fold
over the ranked candidates.  The lemmas follow it turn by turn: what is protected
stays, what is replaced ranks behind what replaces it, and nothing is turned
away while there is space.  From these, `MinimumResidency` and `RebuildTakesBest`
hold for every score and every set of candidates.

`DecisionRuntimeProofs`: every action of the runtime and of its environment
keeps OptionInv, so the option manager's guarantees hold inside the runtime.
**CallInv** (the task of the step in progress is not in doubt) makes every step
of the runtime a step of ExecutionProtocol or a stutter: an uncertain side effect
is never retried implicitly, for any number of tasks, keys and objects
(`RuntimeNeverRetries`).  `RuntimeExecutesCurrent` combines the guard of
`StartExecution` with OptionInv and **OfferedInv**: while the model decides, an
offered option's page still says of it what was offered, unless its revision has
advanced.  That is kept because a page changes only with a newer revision, and
`OwnershipExact` makes the page that an id resolves to the page it was offered
from.  `RuntimeRevivesOnlyRevised` says of all of them
that they revive a block only by a registration with a newer revision.
`VerdictsInvalidateFacts` rests on **FactsInv**: a record's versions are never ahead
of the task's, and a verdict advances the version of everything that depends on
what it names, so a record of it no longer matches.  That needs the hypothesis
**OneTask**: versions are counted per task and compared by object, so a record of
one task may look current to another.  A bank is used by one task (section 6).

`GroundedCallProofs`: every step of the system leaves a page of the table as it
is, marks it stale or gives it a newer revision (`IndexChange`), which is
`MemoryHistory`.  The guard compares revisions, the property speaks of contents;
what connects them is **EvidenceSound**: whatever was read of a page, the page
says so still if it is still at that revision.  It is inductive because of
`IndexChange`, and holds at the start because a read, and a recovery, copies
what the table says (`ReadCompleteSound`, `RecoveredSound`).
`CallsOnDeclaredVersions` rests on **DraftsInv**: a run is only offered drafts of
its own task, so the versions it compares are those of the task it calls for.
The budgets in `GroundedTypeOK` hold because a page enters the table, the selection
or the recovery only where there is room (**TypeInv**).  All are for any number of
tasks, pages, objects, blocks, budgets and markers.

`CallConstructionProofs`, one section per part of making a call:
* *AffectedBy*: the loop invariant **WalkInv** says that everything found but not
  yet pending has its dependents found, and that nothing is found that is not
  affected.  With an empty worklist the two make the set the least closed one,
  for any graph.
* *ArgumentInput*: **InputInv** makes the wave a barrier.  A worker is out only
  while `build` waits, workers out are of the last wave, and all waves before it
  are complete (`WaveInv`); so a field that is begun has complete dependencies,
  because dependencies are in earlier waves, which is the one assumption about the
  schema's graph (`ArgumentAssumption`; the code's topological sort).  The budget
  holds because only `reserve` counts and it counts what it lets through.
* *TopK*: **FieldInv** adds that the candidates of a turn lead on from its own
  state, whatever was undone before; so each choice extends the chain.
  `OffersAlwaysFit` is a count: the tokens offered are fewer than what the helper was
  asked for, the controls listed are as many as were counted, and `k` stays
  positive.  The vocabulary is any finite set, the caller's predicates are any
  sets of values.
* *FastLogits*: `LogitsFollowPrefix` has the hypothesis **NothingEvicted**: the helper
  remembers at least as many states as it may be asked for.  That is the default
  (128 of each, topk.py:70 and fast_logits.py:42).  **MemoInv** says that every
  address in use is the prompt's or a remembered state's, so no new object gets
  it.  With evictions, call_construction checks it for 2 cached states and 2 undos;
  helper_reused shows that a second field is another matter.
* *DecisionFrames*: `pack` goes through a region by rank.  **Packs** describes the
  frame of what has been considered: sizes add up, and what was dropped did not
  fit beside what ranks before it; later turns keep only what ranks behind it.
* *InteractiveSession*: **SessionInv**.  A plan, a note, a stop and an approval all
  take the plan before back, and the trace has an event for each.

`BackgroundProofs`, one section per component:
* *shell.run*: a killed group stays empty, because what leaves a group never comes
  back and only members have children in it (`GroupGone`), and a pipe whose reader
  has ended stays empty, because only a holder can pass it on (`PipesDrained`).
* *RevisionPrefetch*: a task is in the slot, awaited by one `take` or handed out,
  and never two of these (`TakenAlone`, `HandedOut`).
* *FileReplace*: between its second comparison and the rename a replacement
  holds the lock of its process (`LockInv`), so the content is the one it expects
  or somebody outside that lock has written (`SeenInv`).  For any number of
  workers, processes and crashes.  A rename moves no other replacement, but turns
  writers into writers of a file without a name.
* *Speculation*: **BufferInv**.  A future becomes at most one shadow, so room is
  kept for both (`RoomForFutures`); a revision number never names two contents of a
  page (`CopyOf`), so the options of a shadow of the current revision are the first
  options of its page.  `PromotionStep` compares the two limits: what promote takes
  within the length of the shadow is what the shadow holds.
* *ContextRefresh*: **RefreshInv** says that while verifiers run their request has
  passed the cooldown and the budget, and nobody else commits; **HistoryInv** that
  whatever has happened to a block since the snapshot shows in its revision or
  its stale flag, and whatever has happened to the task in its epoch.
* *DecisionTrace, ErrorSummaries*: **TraceInv** says that an edge's counters count the
  records of the log with its key; `SumsCountTheLog` carries this to sums over
  edges, and the rest of `RulesSound` compares sets of edges with sets of
  records.  **SummaryInv** says that an action has as many submitted errors as failed
  runs, and that of these as many are counted as do not wait; the futures of
  `drain` and those it has kept back are in the order of their submission.

`FoldProofs` has the lemmas these share about folds, sums and rankings.  The
library's induction theorems take an operator as a parameter, which the provers
here cannot instantiate; `LeastNatural` and `UpTo` replace them by the smallest
counterexample in a *set* of numbers.  That gives the existence of a function
that is defined by recursion over finite sets, which is what the community
modules' folds are, and from there what a sum is (`Adds`), that it does not
depend on the order of summation and that sums of counts are counts
(`SumCounts`).

Assumptions that only the proofs use: sets of option ids, blocks and objects are
finite where something about them is counted.  They are dictionaries in the code.

Only model-checked: liveness (`PagingEnds`, `RefreshEnds`, `WaitsEnd`, `CallsEnd`),
which is out of the prover's reach, and `LogitsFollowPrefix` when states are
evicted.

## 6. Not modelled, and the plan

Not modelled: prompts, rendering, JSON validation and HTTP adapters (pure
functions and I/O; a model's answer is arbitrary anyway); metrics (nothing
reads them back); benchmarks.  `OptionPageBudget` and `OptionSpace` are slices of a
list.  Context materialization renders text and retries once; the parameter
prior counts observed values, and diffusion candidates are a fan-out without
state.  The Transformers backend of `topk.py` decodes every value from the start
and has nothing that could be stale.  In the catalog, the reading tools,
`directory.create` and the placeholders (HTTP, browser, computer, review, stop) change
nothing that others rely on; the Windows branch
of `shell.run`, which has no process groups, is left out.  `prefetch` of the option
manager and `retrieve` of the memory bank only read.  A memory bank that is
shared by two tasks is left out: the code compares versions by object id and is
used with a bank per task.  The refresh coordinator is driven by one thread at a
time.  The saved trace file of a session is left out: nothing reads it back.

What `pack` does with equal ids (it keeps their order of arrival when their
priorities are equal) is left out: `DecisionFrames` collects slices with different
ids.

Next, in this order.

1. The composition of ArgumentInput with TopK as the construction of one field,
   which ArgumentInput now has as any sequence of questions, and of AgentRun with
   ErrorSummaries in the orchestrator.
2. An abstract queue that ErrorSummaries implements, and an abstract register
   for FileReplace within one process, with their refinements proved.
3. `LogitsFollowPrefix` with evictions: which number of undos a given cache allows.
