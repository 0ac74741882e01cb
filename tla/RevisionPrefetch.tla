-------------------------- MODULE RevisionPrefetch --------------------------
(***************************************************************************)
(* RevisionPrefetch (src/jev_agent/overlap.py): a cache of one asyncio     *)
(* task which prepares a result for a revision of the state.               *)
(*                                                                         *)
(* The coroutines of one event loop share it.  A step of a coroutine runs  *)
(* to its next await, so start is one step, and take and cancel are two    *)
(* when they have to wait for the task.                                    *)
(***************************************************************************)
EXTENDS Naturals, Sequences

CONSTANTS
  Caller,       \* the coroutines
  NoTask,       \* None
  MaxTasks,     \* bound on the tasks ever started
  MaxStates     \* bound on the revisions of the state

ASSUME PrefetchAssumption ==
  /\ MaxTasks \in Nat
  /\ MaxStates \in Nat \ {0}
  /\ NoTask \notin Nat    \* None is no task

VARIABLES
  current,  \* the revision of the state, which callers pass in
  jobs,     \* asyncio's tasks in the order of their creation: [revision, status]
  slot,     \* _task; _revision is the revision of that job
  caller,   \* caller -> [at, job, revision]: where it waits, for which job, for what
  got       \* the results take returned: [caller, job, asked]

prefetchVars == <<current, jobs, slot, caller, got>>

Idle == [at |-> "idle", job |-> NoTask, revision |-> 1]
Ended == {"result", "cancelled", "failed"}

(* task.done() *)
Done(j) == jobs[j].status \in Ended

PrefetchInit ==
  /\ current = 1
  /\ jobs = <<>>
  /\ slot = NoTask
  /\ caller = [c \in Caller |-> Idle]
  /\ got = {}

(* task.cancel() takes effect when the task next runs. *)
Cancelled(J) == [j \in DOMAIN jobs |->
  IF j \in J /\ ~Done(j) THEN [jobs[j] EXCEPT !.status = "cancelling"] ELSE jobs[j]]

IdleAt(c) == caller[c].at = "idle"
Wait(c, at, j, r) == caller' = [caller EXCEPT ![c] = [at |-> at, job |-> j, revision |-> r]]
Return(c) == caller' = [caller EXCEPT ![c] = Idle]

-----------------------------------------------------------------------------
Start(c, r) ==
  /\ IdleAt(c) /\ Len(jobs) < MaxTasks
  /\ jobs' = Append(Cancelled({slot}), [revision |-> r, status |-> "running"])
  /\ slot' = Len(jobs) + 1
  /\ UNCHANGED <<current, caller, got>>

(* take with another revision, or without a task *)
TakeNothing(c, r) ==
  /\ IdleAt(c)
  /\ slot # NoTask => jobs[slot].revision # r
  /\ jobs' = Cancelled({slot})
  /\ slot' = NoTask
  /\ UNCHANGED <<current, caller, got>>

\* Mutant: the task stays in the cache while its result is awaited.
TakeKeeps(c, r) ==
  /\ IdleAt(c)
  /\ slot # NoTask /\ jobs[slot].revision = r
  /\ Wait(c, "take", slot, r)
  /\ UNCHANGED <<current, jobs, got, slot>>

(* take up to its await *)
Take(c, r) ==
  /\ IdleAt(c)
  /\ slot # NoTask /\ jobs[slot].revision = r
  /\ Wait(c, "take", slot, r)
  /\ slot' = NoTask
  /\ UNCHANGED <<current, jobs, got>>

(* The await returns the result, or raises what the task ended with. *)
TakenSlot(c) ==
  /\ caller[c].at = "take" /\ Done(caller[c].job)
  /\ Return(c)
  /\ got' = IF jobs[caller[c].job].status = "result"
            THEN got \cup {[caller |-> c, job |-> caller[c].job, asked |-> caller[c].revision]}
            ELSE got
  /\ UNCHANGED <<current, jobs, slot>>

(* cancel without a task that is running *)
CancelNothing(c) ==
  /\ IdleAt(c)
  /\ slot # NoTask => Done(slot)
  /\ slot' = NoTask
  /\ UNCHANGED <<current, jobs, caller, got>>

\* Mutant: the task is awaited and never told to stop.
CancelWaits(c) ==
  /\ IdleAt(c)
  /\ slot # NoTask /\ ~Done(slot)
  /\ Wait(c, "cancel", slot, jobs[slot].revision)
  /\ UNCHANGED <<current, slot, got, jobs>>

(* cancel up to its await *)
Cancel(c) ==
  /\ IdleAt(c)
  /\ slot # NoTask /\ ~Done(slot)
  /\ jobs' = Cancelled({slot})
  /\ Wait(c, "cancel", slot, jobs[slot].revision)
  /\ UNCHANGED <<current, slot, got>>

(* The task is over.  When it failed instead of stopping, its exception    *)
(* leaves cancel before the cache is cleared.                              *)
CancelEnds(c) ==
  /\ caller[c].at = "cancel" /\ Done(caller[c].job)
  /\ Return(c)
  /\ slot' = IF jobs[caller[c].job].status = "failed" THEN slot ELSE NoTask
  /\ UNCHANGED <<current, jobs, got>>

-----------------------------------------------------------------------------
(* The tasks.  One that is told to stop may have an await left and may     *)
(* still return or fail; one that nobody stops may hang.                   *)
JobEnds(j, status) ==
  /\ ~Done(j)
  /\ status = "cancelled" => jobs[j].status = "cancelling"
  /\ jobs' = [jobs EXCEPT ![j].status = status]
  /\ UNCHANGED <<current, slot, caller, got>>

JobStops(j) == jobs[j].status = "cancelling" /\ \E status \in Ended : JobEnds(j, status)

ReviseState ==
  /\ current < MaxStates
  /\ current' = current + 1
  /\ UNCHANGED <<jobs, slot, caller, got>>

Call(c) ==
  \/ Start(c, current)
  \/ TakeNothing(c, current)
  \/ Take(c, current)
  \/ CancelNothing(c)
  \/ Cancel(c)

Resume(c) == TakenSlot(c) \/ CancelEnds(c)

PrefetchNext ==
  \/ \E c \in Caller : Call(c) \/ Resume(c)
  \/ \E j \in DOMAIN jobs, status \in Ended : JobEnds(j, status)
  \/ ReviseState

(* The event loop resumes whoever can run and delivers a cancellation.     *)
PrefetchSpec ==
  /\ PrefetchInit /\ [][PrefetchNext]_prefetchVars
  /\ \A c \in Caller : WF_prefetchVars(Resume(c))
  /\ \A j \in 1..MaxTasks : WF_prefetchVars(j \in DOMAIN jobs /\ JobStops(j))

-----------------------------------------------------------------------------
(* Properties *)

(* A result is handed out once, to a caller that asked for the revision it *)
(* was prepared for.                                                       *)
HandedOutOnce ==
  /\ \A g, h \in got : g.job = h.job => g = h
  /\ \A g \in got : jobs[g.job].revision = g.asked

(* cancel returns, although the task may be slow to notice.                *)
CancelReturns == \A c \in Caller : caller[c].at = "cancel" ~> caller[c].at = "idle"
=============================================================================
