-------------------------- MODULE ExecutionProtocol --------------------------
(***************************************************************************)
(* What the runtime promises about side effects (README.md, "An uncertain  *)
(* side effect is never retried implicitly", and class ExecutionReceipt in *)
(* src/jev_agent/runtime.py).  A task makes one attempt at a time; an      *)
(* attempt whose outcome is unknown leaves the task in doubt, and a task   *)
(* in doubt makes no attempt until an observation made since then has been *)
(* recorded and the doubt is resolved by name.                             *)
(***************************************************************************)
CONSTANT TaskId

VARIABLES
  status,    \* task -> "free", "attempting" or "inDoubt"
  observed   \* the tasks in doubt whose state has advanced since

protocolVars == <<status, observed>>

ProtocolInit == status = [t \in TaskId |-> "free"] /\ observed = {}

Attempt(t) ==
  /\ status[t] = "free"
  /\ status' = [status EXCEPT ![t] = "attempting"]
  /\ UNCHANGED observed

Conclude(t) ==
  /\ status[t] = "attempting"
  /\ status' = [status EXCEPT ![t] = "free"]
  /\ UNCHANGED observed

LeaveInDoubt(t) ==
  /\ status[t] = "attempting"
  /\ status' = [status EXCEPT ![t] = "inDoubt"]
  /\ UNCHANGED observed

Observe(t) ==
  /\ status[t] = "inDoubt"
  /\ observed' = observed \cup {t}
  /\ UNCHANGED status

Reconcile(t) ==
  /\ status[t] = "inDoubt"
  /\ t \in observed
  /\ status' = [status EXCEPT ![t] = "free"]
  /\ observed' = observed \ {t}

ProtocolNext ==
  \E t \in TaskId :
    Attempt(t) \/ Conclude(t) \/ LeaveInDoubt(t) \/ Observe(t) \/ Reconcile(t)

ProtocolSpec == ProtocolInit /\ [][ProtocolNext]_protocolVars
=============================================================================
