------------------------------ MODULE AffectedBy ------------------------------
(***************************************************************************)
(* DependencyIndex.affected_by (src/jev_agent/models.py): the objects that *)
(* a change reaches through the registered dependencies.  The code walks   *)
(* the graph with a worklist; the graph may be cyclic.                     *)
(***************************************************************************)
EXTENDS Dependencies

VARIABLES
  changed,   \* changed_ids, the argument
  affected,  \* the set being built
  pending    \* the worklist; a list in the code, used as a bag without repeats

walkVars == <<changed, affected, pending>>

WalkInit ==
  /\ changed \in SUBSET Object
  /\ affected = changed
  /\ pending = changed

\* Mutants: dependents are not walked on; they are pushed again and again.
VisitDirect(x) ==
  /\ x \in pending
  /\ affected' = affected \cup Dependents[x]
  /\ pending' = pending \ {x}
  /\ UNCHANGED changed
VisitAgain(x) ==
  /\ x \in pending
  /\ affected' = affected \cup Dependents[x]
  /\ pending' = (pending \ {x}) \cup Dependents[x]
  /\ UNCHANGED changed

(* One turn of the while loop: pop an object and push its new dependents.  *)
Visit(x) ==
  /\ x \in pending
  /\ affected' = affected \cup Dependents[x]
  /\ pending' = (pending \ {x}) \cup (Dependents[x] \ affected)
  /\ UNCHANGED changed

WalkNext == \E x \in Object : Visit(x)

(* The loop runs in the calling thread and is never interrupted.           *)
WalkSpec == WalkInit /\ [][WalkNext]_walkVars /\ WF_walkVars(WalkNext)

-----------------------------------------------------------------------------
WalkInv ==
  /\ changed \subseteq affected /\ affected \subseteq Object
  /\ pending \subseteq affected
  /\ \A x \in affected \ pending : Dependents[x] \subseteq affected
  /\ affected \subseteq Affected(changed)

(* The set the loop returns is the least closed set around the change:     *)
(* nothing that depends on a changed object, however indirectly, is missed *)
(* and nothing unrelated is invalidated.                                   *)
ReturnsAffected == pending = {} => affected = Affected(changed)

(* The walk ends, on cyclic graphs too.                                    *)
WalkEnds == <>(pending = {})
=============================================================================
