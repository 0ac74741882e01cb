----------------------------- MODULE TaskMemory -----------------------------
(***************************************************************************)
(* The task states (TaskState, src/jev_agent/models.py) and the bank of    *)
(* remembered facts they invalidate (MemoryBank, src/jev_agent/memory.py). *)
(* A record carries the version of every object it was derived from; a     *)
(* task counts versions up as its objects change.                          *)
(***************************************************************************)
EXTENDS Dependencies, Integers, FiniteSets

CONSTANTS
  TaskId,
  Record,          \* record ids
  RecordDeps,      \* record id -> the objects the record is derived from
  MaxTaskRevision  \* bound on task revisions

ASSUME TaskMemoryAssumption ==
  /\ RecordDeps \in [Record -> SUBSET Object]
  /\ MaxTaskRevision \in Nat \ {0}
  /\ IsFiniteSet(Object)

VARIABLES
  revision,  \* TaskState.revision
  version,   \* TaskState.dependency_versions, 0 where the dict has no key
  memory     \* MemoryBank._records: record id -> [versions, current]

taskVars == <<revision, version, memory>>

TaskInit ==
  /\ revision = [t \in TaskId |-> 1]
  /\ version = [t \in TaskId |-> [x \in Object |-> 0]]
  /\ memory = <<>>

(* Task t after revise was called once for each object of D.  Each call    *)
(* advances the revision, and the version of everything its object affects.*)
Bumped(versions, D) ==
  [x \in Object |-> versions[x] + Cardinality({d \in D : x \in Affected({d})})]

ReviseAll(t, D) ==
  /\ revision[t] + Cardinality(D) <= MaxTaskRevision
  /\ revision' = [revision EXCEPT ![t] = @ + Cardinality(D)]
  /\ version' = [version EXCEPT ![t] = Bumped(@, D)]

Revise(t, x) == ReviseAll(t, {x}) /\ UNCHANGED memory

Matches(versions, record) == \A x \in DOMAIN record.versions : versions[x] = record.versions[x]

(* add: a fact observed in task t now, under a new id.                     *)
AddRecord(t, r) ==
  /\ r \in Record \ DOMAIN memory
  /\ LET new == [versions |-> [x \in RecordDeps[r] |-> version[t][x]], current |-> TRUE]
     IN memory' = [s \in DOMAIN memory \cup {r} |-> IF s = r THEN new ELSE memory[s]]
  /\ UNCHANGED <<revision, version>>

\* Mutant: only the records that name a changed object.
InvalidateDirectRecords(versions, D) ==
  memory' = [r \in DOMAIN memory |->
    IF D \cap RecordDeps[r] # {} THEN [memory[r] EXCEPT !.current = FALSE] ELSE memory[r]]

(* invalidate_changed(versions, D).                                        *)
InvalidateRecords(versions, D) ==
  memory' = [r \in DOMAIN memory |->
    IF D \cap RecordDeps[r] # {} \/ ~Matches(versions, memory[r])
    THEN [memory[r] EXCEPT !.current = FALSE] ELSE memory[r]]

-----------------------------------------------------------------------------
TaskTypeOK ==
  /\ revision \in [TaskId -> 1..MaxTaskRevision]
  /\ version \in [TaskId -> [Object -> Nat]]
  /\ DOMAIN memory \subseteq Record
  /\ \A r \in DOMAIN memory : memory[r] \in [versions : [RecordDeps[r] -> Nat], current : BOOLEAN]
=============================================================================
