----------------------------- MODULE Dependencies -----------------------------
(***************************************************************************)
(* The dependency graph of a task (DependencyIndex in                      *)
(* src/jev_agent/models.py) and what a change in it reaches.  Tasks        *)
(* register their dependencies when they are set up, so the graph is a     *)
(* constant.                                                               *)
(***************************************************************************)
CONSTANTS
  Object,      \* object ids: facts, files, environment objects
  Dependents   \* _dependents: object -> the objects registered as depending on it

ASSUME DependentsAssumption == Dependents \in [Object -> SUBSET Object]

Closed(S) == \A x \in S : Dependents[x] \subseteq S

(* The objects that a change of D affects: the least set that holds the changed objects   *)
(* and every dependent of a member.                                        *)
Affected(D) == {x \in Object : \A S \in SUBSET Object : D \subseteq S /\ Closed(S) => x \in S}

=============================================================================
