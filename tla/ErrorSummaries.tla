--------------------------- MODULE ErrorSummaries ---------------------------
(***************************************************************************)
(* ErrorSummaryQueue (src/jev_agent/state_machine.py) as the orchestrator  *)
(* (src/jev_agent/orchestrator.py) uses it: every run is recorded in the   *)
(* trace, a failed execution is submitted to the pool that sums errors up, *)
(* and whatever is summed up by then is merged before the run returns.     *)
(*                                                                         *)
(* One thread runs the orchestrator.  The pool's workers go on while its   *)
(* drain loops over the pending futures.                                   *)
(***************************************************************************)
EXTENDS DecisionTrace

CONSTANTS
  Failure,    \* the target of a run whose execution failed: "execution_failed"
  MaxWorkers, \* max_workers of the pool
  MaxRuns     \* bound on the runs of the orchestrator

ASSUME SummaryAssumption == MaxWorkers \in Nat \ {0} /\ MaxRuns \in Nat

VARIABLES
  errors,    \* the submitted errors in order: [key, status]; a key is the failed action
  pending,   \* _pending: the errors whose future has not been merged
  summaries, \* _summaries: key -> [text, count]; a text is the error it sums up
  draining,  \* drain is looping
  left,      \* the futures the loop has still to look at
  closed     \* the pool is shut down

queueVars == <<errors, pending, summaries, draining, left, closed>>
orchestratorVars == <<traceVars, queueVars>>

SummariesInit ==
  /\ TraceInit
  /\ errors = <<>> /\ pending = <<>> /\ summaries = <<>>
  /\ draining = FALSE /\ left = <<>>
  /\ closed = FALSE

-----------------------------------------------------------------------------
(* One run: record, submit, drain. *)

Fails(r) == r.target = Failure

Submitted(r) == IF Fails(r) THEN Append(errors, [key |-> r.action, status |-> "queued"]) ELSE errors

Run(r) ==
  /\ ~draining /\ ~closed /\ Len(log) < MaxRuns
  /\ RecordDecision(r)
  /\ errors' = Submitted(r)
  /\ left' = IF Fails(r) THEN Append(pending, Len(errors) + 1) ELSE pending
  /\ pending' = <<>>
  /\ draining' = TRUE
  /\ UNCHANGED <<summaries, closed>>

SummedUp(e) == errors[e].status = "done"
Count(key) == IF key \in DOMAIN summaries THEN summaries[key].count ELSE 0

(* Not done when the loop gets to it: it stays for the next drain. *)
KeepPending ==
  /\ draining /\ left # <<>> /\ ~SummedUp(Head(left))
  /\ pending' = Append(pending, Head(left))
  /\ left' = Tail(left)
  /\ UNCHANGED <<traceVars, errors, summaries, draining, closed>>

\* Mutant: a summary of the same error starts to count anew.
MergeAnew ==
  /\ draining /\ left # <<>> /\ SummedUp(Head(left))
  /\ LET key == errors[Head(left)].key
     IN summaries' = [q \in DOMAIN summaries \cup {key} |->
          IF q = key THEN [text |-> Head(left), count |-> 1] ELSE summaries[q]]
  /\ left' = Tail(left)
  /\ UNCHANGED <<traceVars, errors, pending, draining, closed>>

(* The text of the summarizer, or of the error when it has raised. *)
Merge ==
  /\ draining /\ left # <<>> /\ SummedUp(Head(left))
  /\ LET key == errors[Head(left)].key
     IN summaries' = [q \in DOMAIN summaries \cup {key} |->
          IF q = key THEN [text |-> Head(left), count |-> Count(key) + 1] ELSE summaries[q]]
  /\ left' = Tail(left)
  /\ UNCHANGED <<traceVars, errors, pending, draining, closed>>

Drained ==
  /\ draining /\ left = <<>>
  /\ draining' = FALSE
  /\ UNCHANGED <<traceVars, errors, pending, summaries, left, closed>>

(* shutdown(wait=True) returns when the workers have finished. *)
Close ==
  /\ ~draining /\ ~closed
  /\ \A e \in DOMAIN errors : SummedUp(e)
  /\ closed' = TRUE
  /\ UNCHANGED <<traceVars, errors, pending, summaries, draining, left>>

-----------------------------------------------------------------------------
(* The pool: first in, first out.  A summarizer ends by returning or by    *)
(* raising, which is the same to the queue.                                *)
SetStatus(e, s) ==
  /\ errors' = [errors EXCEPT ![e].status = s]
  /\ UNCHANGED <<traceVars, pending, summaries, draining, left, closed>>

BeingSummed == {e \in DOMAIN errors : errors[e].status = "running"}
Summarize(e) ==
  /\ errors[e].status = "queued" /\ \A d \in 1..(e - 1) : errors[d].status # "queued"
  /\ Cardinality(BeingSummed) < MaxWorkers
  /\ SetStatus(e, "running")
Summarized(e) == errors[e].status = "running" /\ SetStatus(e, "done")

SummariesNext ==
  \/ \E r \in Records : Run(r)
  \/ KeepPending \/ Merge \/ Drained \/ Close
  \/ \E e \in DOMAIN errors : Summarize(e) \/ Summarized(e)

SummariesSpec == SummariesInit /\ [][SummariesNext]_orchestratorVars

-----------------------------------------------------------------------------
(* Properties *)

Waiting == {pending[i] : i \in DOMAIN pending} \cup {left[i] : i \in DOMAIN left}

(* However the workers race with the drain, every failure the trace counts *)
(* is counted by the summaries or waits to be, once; and what waits waits  *)
(* in the order of its submission.                                         *)
SummariesCounted ==
  LET Failures(a) == {key \in DOMAIN edges : key.action = a /\ key.target = Failure}
      Waits(a) == {e \in Waiting : errors[e].key = a}
      queue == pending \o left
  IN /\ \A a \in {r.action : r \in Records} :
          Observations(Failures(a)) = Count(a) + Cardinality(Waits(a))
     /\ \A i, j \in DOMAIN queue : i < j => queue[i] < queue[j]
     /\ \A key \in DOMAIN summaries : errors[summaries[key].text].key = key
=============================================================================
