--------------------------- MODULE ContextRefresh ---------------------------
(***************************************************************************)
(* ContextRefreshCoordinator (src/jev_agent/context_refresh.py) over the   *)
(* context manager: a refresh takes a few candidates from the directory,   *)
(* has them verified in parallel, and installs the supported ones unless   *)
(* the world has moved on meanwhile.                                       *)
(*                                                                         *)
(* One refresh runs at a time.  It blocks while the verifiers run in the   *)
(* thread pool; that is when verifiers and other callers call              *)
(* notify_state_change or change the directory.  When the pool has been    *)
(* joined the coordinator concludes without another callout.               *)
(***************************************************************************)
EXTENDS ContextSpace

CONSTANTS
  Phase,         \* phases of a task
  MaxVerifiers,  \* max_verifiers
  MaxRefreshes,  \* max_refreshes_per_phase
  Cooldown,      \* cooldown_steps
  MaxEpoch       \* bound on the epochs

ASSUME RefreshAssumption ==
  /\ MaxVerifiers \in Nat \ {0}
  /\ MaxRefreshes \in Nat \ {0}
  /\ Cooldown \in Nat
  /\ MaxEpoch \in Nat \ {0}

VARIABLES
  epoch,         \* _epoch
  sinceRefresh,  \* _decision_step - _last_refresh_step, up to Cooldown + 1
  refreshes,     \* _refreshes: phase -> commits
  request        \* the refresh in progress, or NoRequest

refreshVars == <<epoch, sinceRefresh, refreshes, request>>
coordinatorVars == <<contextVars, refreshVars>>

NoRequest == [epoch |-> 0]
Running == request # NoRequest

\* Before the first commit there is nothing to cool down from.
RefreshInit ==
  /\ ContextInit
  /\ epoch = 1
  /\ sinceRefresh = Cooldown + 1
  /\ refreshes = [ph \in Phase |-> 0]
  /\ request = NoRequest

-----------------------------------------------------------------------------
DecisionStep == sinceRefresh' = IF sinceRefresh > Cooldown THEN sinceRefresh ELSE sinceRefresh + 1

SuppressedByCooldown(ph) == sinceRefresh' <= Cooldown  \* mutant: the budget is ignored
Suppressed(ph) == sinceRefresh' <= Cooldown \/ refreshes[ph] >= MaxRefreshes

(* refresh up to the fan-out.  C are the candidates that the directory     *)
(* ranks first for the query, at most k of which may be loaded.  Every     *)
(* call counts as a decision, also one that is suppressed, finds nothing   *)
(* or is refused for its k.                                                *)
StartRefresh(ph, C, k) ==
  /\ ~Running
  /\ C \subseteq Live \ Pinned
  /\ Cardinality(C) <= MaxVerifiers
  /\ DecisionStep
  /\ request' =
       IF Suppressed(ph) \/ C = {} \/ k > MaxWorking THEN NoRequest
       ELSE [epoch |-> epoch, phase |-> ph, load |-> k,
             expected |-> [b \in C |-> blockRevision[b]],
             verdict |-> [b \in C |-> "pending"]]
  /\ UNCHANGED <<contextVars, epoch, refreshes>>

Awaited == {b \in DOMAIN request.verdict : request.verdict[b] = "pending"}
Supported == {b \in DOMAIN request.verdict : request.verdict[b] = "supported"}

(* A verifier comes back.  One that raises, answers for another block or   *)
(* answers nonsense counts as a rejection.                                 *)
Verify(b, answer) ==
  /\ Running /\ b \in Awaited
  /\ request' = [request EXCEPT !.verdict[b] = IF answer = "supported" THEN answer ELSE "rejected"]
  /\ UNCHANGED <<contextVars, epoch, sinceRefresh, refreshes>>

(* The supported blocks with the best confidence, as many as may load.     *)
Selectable ==
  {W \in SUBSET Supported :
     \/ Cardinality(W) = request.load
     \/ Cardinality(W) < request.load /\ W = Supported}

RevisionsUnchanged == \A b \in DOMAIN request.expected : blockRevision[b] = request.expected[b]
NoGain(W) == W = working
\* Mutant: the epoch is not compared.
MayCommitLate(W) == W # {} /\ RevisionsUnchanged /\ ~NoGain(W)
MayCommit(W) == W # {} /\ request.epoch = epoch /\ RevisionsUnchanged /\ ~NoGain(W)

CommitRefresh ==
  /\ Running /\ Awaited = {}
  /\ \E W \in Selectable : MayCommit(W) /\ CommitSelected(W, request.expected)
  /\ sinceRefresh' = 0
  /\ refreshes' = [refreshes EXCEPT ![request.phase] = @ + 1]
  /\ request' = NoRequest
  /\ UNCHANGED epoch

\* Mutant: an error of commit_selected is not expected.
RefuseRefreshUnchanged ==
  /\ Running /\ Awaited = {}
  /\ \E W \in Selectable : ~MayCommit(W)
  /\ request' = NoRequest
  /\ UNCHANGED <<contextVars, epoch, sinceRefresh, refreshes>>

(* Nothing supported, a new epoch, a new revision, nothing to gain, or     *)
(* commit_selected raises because a block went stale.                      *)
RefuseRefresh ==
  /\ Running /\ Awaited = {}
  /\ \E W \in Selectable : ~MayCommit(W) \/ W \cap blockStale # {}
  /\ request' = NoRequest
  /\ UNCHANGED <<contextVars, epoch, sinceRefresh, refreshes>>

NotifyStateChange ==
  /\ epoch < MaxEpoch
  /\ epoch' = epoch + 1
  /\ UNCHANGED <<contextVars, sinceRefresh, refreshes, request>>

DirectoryChange == ContextNext /\ UNCHANGED refreshVars

Verifiers == \E b \in Block, answer \in {"supported", "rejected", "invalid"} : Verify(b, answer)
Conclude == CommitRefresh \/ RefuseRefresh

RefreshNext ==
  \/ \E ph \in Phase, C \in SUBSET Block, k \in 1..MaxWorking + 1 : StartRefresh(ph, C, k)
  \/ Verifiers
  \/ Conclude
  \/ NotifyStateChange
  \/ DirectoryChange

(* refresh runs on in its caller's thread, and verifiers return.           *)
RefreshFairness == WF_coordinatorVars(Verifiers) /\ WF_coordinatorVars(Conclude)
RefreshSpec == RefreshInit /\ [][RefreshNext]_coordinatorVars /\ RefreshFairness

-----------------------------------------------------------------------------
(* Properties *)

(* Refresh storms are suppressed: after a commit, Cooldown decisions pass  *)
(* before a refresh commits again, whatever the phases are, and no phase   *)
(* commits more refreshes than its budget.                                 *)
StormSuppressed ==
  [][refreshes' # refreshes =>
       /\ sinceRefresh > Cooldown
       /\ \A ph \in Phase : refreshes'[ph] <= MaxRefreshes]_coordinatorVars

(* A refresh whose verifiers come back ends: every combination of answers, *)
(* revisions and invalidations leads to a commit or to a refusal.          *)
RefreshEnds == Running ~> ~Running
=============================================================================
