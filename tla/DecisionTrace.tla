---------------------------- MODULE DecisionTrace ----------------------------
(***************************************************************************)
(* DecisionTraceGraph (src/jev_agent/state_machine.py): what an agent did  *)
(* is counted on the edges of a graph, and decisions that keep succeeding  *)
(* are compiled into advisory rules.                                       *)
(*                                                                         *)
(* A record is [action, target, context, success]: the action stands for   *)
(* source, tool and label, the context for schema version, dependency      *)
(* versions and guard.                                                     *)
(***************************************************************************)
EXTENDS Naturals, Sequences, FiniteSets, FiniteSetsExt

CONSTANTS
  Records,          \* the records an agent may make
  MinObservations,  \* min_observations
  RateNum, RateDen  \* min_success_rate is RateNum / RateDen

ASSUME TraceAssumption ==
  /\ \A r \in Records : r.success \in BOOLEAN
  /\ MinObservations \in Nat \ {0}
  /\ RateNum \in Nat /\ RateDen \in Nat \ {0} /\ RateNum <= RateDen

VARIABLES
  edges,  \* _edges: [action, target, context] -> [ok, failed], the two counters
  log     \* all records in their order, which the code does not keep

traceVars == <<edges, log>>

TraceInit == edges = <<>> /\ log = <<>>

Key(r) == [action |-> r.action, target |-> r.target, context |-> r.context]
Unseen == [ok |-> 0, failed |-> 0]
Edge(key) == IF key \in DOMAIN edges THEN edges[key] ELSE Unseen
Counted(count, success) ==
  IF success THEN [count EXCEPT !.ok = @ + 1] ELSE [count EXCEPT !.failed = @ + 1]

RecordDecision(r) ==
  /\ edges' = [key \in DOMAIN edges \cup {Key(r)} |->
                 IF key = Key(r) THEN Counted(Edge(key), r.success) ELSE edges[key]]
  /\ log' = Append(log, r)

-----------------------------------------------------------------------------
(* compile_stable *)

EdgesOf(action) == {key \in DOMAIN edges : key.action = action}
Successes(keys) == MapThenSumSet(LAMBDA key : edges[key].ok, keys)
Observations(keys) == MapThenSumSet(LAMBDA key : edges[key].ok + edges[key].failed, keys)
Targets(keys) == {key.target : key \in {e \in keys : edges[e].ok > 0}}

Frequent(keys) ==
  /\ Observations(keys) >= MinObservations
  /\ Successes(keys) * RateDen >= RateNum * Observations(keys)

\* Mutant: only the edges that succeeded are looked at.
StableOfWinners(keys) ==
  LET winners == {e \in keys : edges[e].ok > 0}
  IN Frequent(winners) /\ Cardinality({e.context : e \in winners}) = 1 /\ Cardinality(Targets(keys)) = 1

Stable(keys) ==
  /\ Frequent(keys)
  /\ Cardinality({key.context : key \in keys}) = 1
  /\ Cardinality(Targets(keys)) = 1

Rule(keys) ==
  LET winning == CHOOSE key \in keys : edges[key].ok > 0
  IN [action |-> winning.action, target |-> winning.target, context |-> winning.context,
      successes |-> Successes(keys), observations |-> Observations(keys)]

CompileStable ==
  LET groups == {EdgesOf(key.action) : key \in DOMAIN edges}
  IN {Rule(keys) : keys \in {g \in groups : Stable(g)}}

-----------------------------------------------------------------------------
(* Properties *)

(* A rule says what the whole history of its action says: how often it was *)
(* taken and succeeded, that it always led to the same place when it did,  *)
(* and that it was always taken in one context; and no such rule is left   *)
(* out, although failures are counted on edges of their own.               *)
RulesSound ==
  LET Taken(a) == {i \in DOMAIN log : log[i].action = a}
      Won(a) == {i \in Taken(a) : log[i].success}
      Steady(a) == /\ Cardinality(Taken(a)) >= MinObservations
                   /\ Won(a) # {}
                   /\ Cardinality(Won(a)) * RateDen >= RateNum * Cardinality(Taken(a))
                   /\ \A i, j \in Taken(a) : log[i].context = log[j].context
                   /\ \A i, j \in Won(a) : log[i].target = log[j].target
  IN CompileStable =
       {[action |-> a, target |-> log[Max(Won(a))].target, context |-> log[Max(Won(a))].context,
         successes |-> Cardinality(Won(a)), observations |-> Cardinality(Taken(a))] :
        a \in {r.action : r \in {log[i] : i \in {j \in DOMAIN log : Steady(log[j].action)}}}}
=============================================================================
