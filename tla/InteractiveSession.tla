------------------------- MODULE InteractiveSession -------------------------
(***************************************************************************)
(* The interactive session (src/jev_agent/cli.py): lines plan a tool call, *)
(* which waits for approval, tell the agent something new, or approve what *)
(* is planned.  Lines come one after the other; a line that raises is      *)
(* answered with an error and leaves what it has changed so far.           *)
(*                                                                         *)
(* Every line but those that only print ends in _save, which may raise;    *)
(* nothing the session knows depends on whether it does, so saving is left *)
(* out.                                                                    *)
(***************************************************************************)
EXTENDS Naturals, Sequences, FiniteSets

CONSTANTS
  MaxPlans,  \* bound on the :plan lines
  MaxEvents  \* bound on the length of the trace

ASSUME SessionAssumption == MaxPlans \in Nat /\ MaxEvents \in Nat

VARIABLES
  plans,    \* the number of :plan lines so far, which names the last one
  prepared, \* pending: the plan whose candidate may be approved, or 0
  revised,  \* the revision of the task's state
  basis,    \* the revision the last candidate was prepared for
  trace,    \* trace: the events
  handed    \* plan -> how often its candidate was handed to the agent

sessionVars == <<plans, prepared, revised, basis, trace, handed>>

SessionInit ==
  /\ plans = 0 /\ prepared = 0
  /\ revised = 1 /\ basis = 1
  /\ trace = <<>>
  /\ handed = [p \in 1..MaxPlans |-> 0]

Trace(event) == Len(trace) < MaxEvents /\ trace' = Append(trace, event)

-----------------------------------------------------------------------------
\* Mutant: an observation does not take a planned call back.
NoteKeeps ==
  /\ revised' = revised + 1
  /\ Trace("note")
  /\ UNCHANGED <<plans, prepared, basis, handed>>

(* :goal TEXT, or a line that is no command: _record_revision. *)
Note ==
  /\ prepared' = 0
  /\ revised' = revised + 1
  /\ Trace("note")
  /\ UNCHANGED <<plans, basis, handed>>

(* The line does not parse, or the tool is unknown or not available. *)
PlanRaises ==
  /\ plans < MaxPlans
  /\ plans' = plans + 1
  /\ prepared' = 0
  /\ UNCHANGED <<revised, basis, trace, handed>>

(* ArgumentInput.build, in one thread; nothing else happens meanwhile. *)
Plan(ready) ==
  /\ plans < MaxPlans
  /\ plans' = plans + 1
  /\ prepared' = IF ready THEN plans' ELSE 0
  /\ basis' = IF ready THEN revised ELSE basis
  /\ Trace("plan")
  /\ UNCHANGED <<revised, handed>>

\* Mutant: a candidate whose execution failed may be approved again.
ApproveAgain(outcome) ==
  /\ prepared # 0
  /\ handed' = [handed EXCEPT ![prepared] = @ + 1]
  /\ prepared' = IF outcome = "executed" THEN 0 ELSE prepared
  /\ revised' = IF outcome = "executed" THEN revised + 1 ELSE revised
  /\ Trace(outcome)
  /\ UNCHANGED <<plans, basis>>

(* Agent.run raises, recovers, or executes the tool, which may ask for a   *)
(* review or stop; what it has executed is recorded in the task's state.   *)
Approve(outcome) ==
  /\ prepared # 0
  /\ handed' = [handed EXCEPT ![prepared] = @ + 1]
  /\ prepared' = 0
  /\ revised' = IF outcome = "executed" THEN revised + 1 ELSE revised
  /\ Trace(outcome)
  /\ UNCHANGED <<plans, basis>>

Stop ==
  /\ prepared' = 0
  /\ Trace("stop")
  /\ UNCHANGED <<plans, revised, basis, handed>>

Outcomes == {"executed", "not_executed"}

(* :approve without a candidate, :help, :tools, :trace and what is not     *)
(* understood change nothing.                                              *)
SessionNext ==
  \/ Note \/ PlanRaises \/ Stop
  \/ \E ready \in BOOLEAN : Plan(ready)
  \/ \E outcome \in Outcomes : Approve(outcome)

SessionSpec == SessionInit /\ [][SessionNext]_sessionVars

-----------------------------------------------------------------------------
(* Properties *)

Events(kinds) == Cardinality({i \in DOMAIN trace : trace[i] \in kinds})

(* What can be approved was prepared by the last :plan line and for the    *)
(* task as it is now; it is handed to the agent at most once, whatever     *)
(* came of it, and the trace has every attempt and every revision.         *)
ApprovesLatestPlan ==
  /\ prepared # 0 => prepared = plans /\ basis = revised /\ handed[prepared] = 0
  /\ \A p \in 1..MaxPlans : handed[p] <= 1
  /\ Cardinality({p \in 1..MaxPlans : handed[p] > 0}) = Events(Outcomes)
  /\ revised = 1 + Events({"note", "executed"})
=============================================================================
