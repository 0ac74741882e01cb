-------------------------- MODULE MCContextRefresh --------------------------
(***************************************************************************)
(* A small instance of ContextRefresh, with a history of what happened     *)
(* since the refresh in progress took its snapshot.                        *)
(***************************************************************************)
EXTENDS ContextRefresh

CONSTANTS k1, k2, x, y

Deps == [b \in Block |-> IF b = k1 THEN {x} ELSE {y}]

VARIABLES
  disturbed,  \* the blocks revised or invalidated since the snapshot
  noticed     \* whether notify_state_change was called since the snapshot

historyVars == <<coordinatorVars, disturbed, noticed>>

HistoryInit == RefreshInit /\ disturbed = {} /\ noticed = FALSE

ChangedBlocks ==
  {b \in Block : blockRevision'[b] # blockRevision[b] \/ (b \in blockStale' /\ b \notin blockStale)}

HistoryNext ==
  /\ RefreshNext
  /\ disturbed' = IF Running' THEN IF Running THEN disturbed \cup ChangedBlocks ELSE {} ELSE {}
  /\ noticed' = (Running' /\ Running /\ (noticed \/ epoch' # epoch))

HistorySpec == HistoryInit /\ [][HistoryNext]_historyVars
FairHistorySpec == HistorySpec /\ RefreshFairness

(* What a refresh installs was supported by its verifier in this very      *)
(* refresh, and since the snapshot nobody has changed the task state or    *)
(* revised or invalidated one of the blocks that are installed.            *)
CommitsUndisturbed ==
  [][refreshes' # refreshes =>
       /\ working' \subseteq Supported
       /\ working' \cap disturbed = {}
       /\ ~noticed]_historyVars
=============================================================================
