--------------------------- MODULE MemorySelection ---------------------------
(***************************************************************************)
(* Two-stage memory selection (TwoStageMemorySelector.retrieve,            *)
(* src/jev_agent/memory_selection.py) and the recovery of missing evidence *)
(* (RawEvidenceFallback.recover, src/jev_agent/memory_recovery.py).        *)
(*                                                                         *)
(* retrieve calls the decision model twice: to rank the candidates and to  *)
(* choose how many of the first ones to read.  A selection is the value it *)
(* carries from one of these points to the next; the operators below give  *)
(* the selections that may follow.                                         *)
(***************************************************************************)
EXTENDS PagedMemory

CONSTANTS
  MaxCandidates,    \* max_candidates
  CountOptions,     \* count_options
  ReadLimits,       \* the selector's read budgets
  Marker,           \* required_markers
  Marks,            \* payload -> the markers its content contains
  RecoveryLimits    \* the fallback's read budgets

Limits == [pages : Nat \ {0}, bytes : Nat \ {0}, pageBytes : Nat \ {0}]

ASSUME MemorySelectionAssumption ==
  /\ MaxCandidates \in Nat \ {0}
  /\ CountOptions \subseteq Nat \ {0} /\ CountOptions # {}
  /\ ReadLimits \in Limits /\ RecoveryLimits \in Limits
  /\ Marker # {} /\ Marks \in [Payload -> SUBSET Marker]

Asking(stage, seen) == [stage |-> stage, seen |-> seen]
Ended(status) == [stage |-> "ended", status |-> status, pages |-> <<>>]
ReadComplete(ids) == [stage |-> "ended", status |-> "read_complete", pages |-> Shown(ids)]

(* A request that is too large is not sent.                                *)
Requests(stage, seen) == {Asking(stage, seen), Ended("context_budget_exceeded")}

(* retrieve up to the first question.  The candidates' revisions are kept. *)
SelectionStarts ==
  LET found == {ids \in SUBSET Visible : Cardinality(ids) <= MaxCandidates}
      seen(ids) == [p \in ids |-> index[p].revision]
  IN {Ended("no_candidates")} \cup UNION {Requests("rank", seen(ids)) : ids \in found \ {{}}}

(* NONE, CLARIFY, STOP, and an answer that is no distribution.             *)
ControlAnswers ==
  {Ended(s) : s \in {"no_memory", "clarification_required", "stopped", "invalid_distribution"}}

(* The prefix lengths that are offered; a single candidate may always be   *)
(* read.                                                                   *)
Counts(ranked) ==
  LET offered == {n \in CountOptions : n <= ranked /\ n <= ReadLimits.pages}
  IN IF offered = {} /\ ranked = 1 THEN {1} ELSE offered

AfterRank(seen) ==
  ControlAnswers \cup
    (IF Counts(Cardinality(DOMAIN seen)) = {} THEN {Ended("no_count_options")}
     ELSE Requests("count", seen))

ReadResults(ids, seen) ==
  LET errors == ReadErrors(ids, seen, ReadLimits)
  IN IF errors = {} THEN {ReadComplete(ids)} ELSE {Ended(e) : e \in errors}

(* Every ranking is possible, so every set of n candidates is a prefix.    *)
AfterCount(seen) ==
  LET ranked == DOMAIN seen
      prefixes == {ids \in SUBSET ranked : Cardinality(ids) \in Counts(Cardinality(ranked))}
  IN ControlAnswers \cup UNION {ReadResults(ids, seen) : ids \in prefixes}

AfterAnswer(selection) ==
  IF selection.stage = "rank" THEN AfterRank(selection.seen) ELSE AfterCount(selection.seen)

-----------------------------------------------------------------------------
MarksOf(read) == UNION {Marks[read[p].payload] : p \in DOMAIN read}

Merge(read, more) ==
  [p \in DOMAIN read \cup DOMAIN more |-> IF p \in DOMAIN read THEN read[p] ELSE more[p]]

(* What recover makes of the evidence read: the evidence sets that may     *)
(* follow, none when the missing markers are not found within the budgets. *)
(* Search and read happen in one go, so no page goes stale in between.     *)
Recovered(read) ==
  LET missing == Marker \ MarksOf(read)
      extra == {ids \in SUBSET (Visible \ DOMAIN read) :
                  ids # {} /\ Cardinality(ids) <= RecoveryLimits.pages}
  IN IF missing = {} THEN {read}
     ELSE {Merge(read, Shown(ids)) : ids \in
             {ids \in extra : /\ Fits(Shown(ids), RecoveryLimits)
                              /\ missing \subseteq MarksOf(Shown(ids))}}
=============================================================================
