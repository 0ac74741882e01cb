---------------------------- MODULE ArgumentInput ----------------------------
(***************************************************************************)
(* ArgumentInput.build (src/jev_agent/arguments.py): the arguments of one  *)
(* tool call are filled in field by field.  The fields of a wave run side  *)
(* by side in a thread pool and draw from one budget of model calls; a     *)
(* field waits for the wave its dependencies are in.                       *)
(*                                                                         *)
(* Callbacks (proposer, chooser, helper) may return, raise or answer       *)
(* anything.  budget.check follows each of them, so a callback's return    *)
(* and that check are one step; a check that raises is HaltField.          *)
(***************************************************************************)
EXTENDS Naturals, FiniteSets

CONSTANTS
  Field,         \* the fields to fill in
  DependsOn,     \* field -> the fields it depends on
  WaveOf,        \* field -> the number of its wave, see build
  LastWave,      \* the number of waves
  Position,      \* field -> its place in the list that build is given
  Constructible, \* the fields that may be built token by token
  NeedsEvidence, \* the fields with require_evidence
  Workers,       \* parallel_fields
  Rounds,        \* proposal_rounds
  MaxCalls,      \* max_choice_calls
  Schema,        \* the contents the tool's schema can have, Declared among them
  Declared,      \* the schema when build is called
  MaxRevision    \* bound on the revisions of the task

ASSUME ArgumentAssumption ==
  /\ DependsOn \in [Field -> SUBSET Field]
  /\ WaveOf \in [Field -> Nat \ {0}]
  /\ \A f \in Field : \A d \in DependsOn[f] : WaveOf[d] < WaveOf[f]
  /\ LastWave \in Nat /\ \A f \in Field : WaveOf[f] <= LastWave
  /\ Position \in [Field -> Nat]
  /\ Constructible \subseteq Field /\ NeedsEvidence \subseteq Field \ Constructible
  /\ Workers \in Nat \ {0} /\ Rounds \in Nat \ {0} /\ MaxCalls \in Nat \ {0}
  /\ Declared \in Schema
  /\ MaxRevision \in Nat \ {0}

VARIABLES
  task,    \* the task's revision; it is 1 when build is called
  schema,  \* the tool's schema
  late,    \* the deadline has passed
  calls,   \* budget.calls
  asked,   \* the questions that reached the model, which no code counts
  wave,    \* the waves begun
  build,   \* "wave", "waiting" or "done"
  outcome, \* the status build returns
  at,      \* field -> where its worker is
  round,   \* field -> the rounds of proposals it has had
  status   \* field -> the status of its result

worldVars == <<task, schema, late>>
buildVars == <<wave, build, outcome>>
fieldVars == <<at, round, status>>
inputVars == <<worldVars, calls, asked, buildVars, fieldVars>>

Outside == {"idle", "queued", "done"}
Busy == {f \in Field : at[f] \notin Outside}

InputInit ==
  /\ task = 1 /\ schema = Declared /\ late = FALSE
  /\ calls = 0 /\ asked = 0
  /\ wave = 0 /\ build = "wave" /\ outcome = "none"
  /\ at = [f \in Field |-> "idle"]
  /\ round = [f \in Field |-> 0]
  /\ status = [f \in Field |-> "none"]

(* budget.check *)
Current == task = 1 /\ schema = Declared
Halted == ~Current \/ late
HaltReason == IF Current THEN "budget_exhausted" ELSE "stale"

-----------------------------------------------------------------------------
(* A field's worker *)

Go(f, phase) == at' = [at EXCEPT ![f] = phase]
Return(f, s) == Go(f, "done") /\ status' = [status EXCEPT ![f] = s]
Kept == UNCHANGED <<worldVars, buildVars>>

(* The pool's queue is first in, first out. *)
Taken(f) ==
  /\ at[f] = "queued" /\ Cardinality(Busy) < Workers
  /\ \A g \in Field : at[g] = "queued" => Position[f] <= Position[g]

Begin(f) ==
  /\ Taken(f) /\ ~Halted
  /\ Go(f, "attempt")
  /\ UNCHANGED <<calls, asked, round, status>> /\ Kept

HaltField(f) ==
  /\ f \in Busy \/ Taken(f)
  /\ Halted
  /\ Return(f, HaltReason)
  /\ UNCHANGED <<calls, asked, round>> /\ Kept

(* A factory, the proposer, the chooser or the helper raises. *)
CallbackFails(f) ==
  /\ f \in Busy /\ at[f] # "deciding"
  /\ Return(f, "provider_error")
  /\ UNCHANGED <<calls, asked, round>> /\ Kept

BeginRound(f) ==
  /\ at[f] = "attempt" /\ round[f] < Rounds /\ ~Halted
  /\ Go(f, "proposing")
  /\ UNCHANGED <<calls, asked, round, status>> /\ Kept

\* Mutant: a round without a valid proposal is not counted.
ProposeUncounted(f, valid) ==
  /\ at[f] = "proposing" /\ ~Halted
  /\ round' = IF valid THEN [round EXCEPT ![f] = @ + 1] ELSE round
  /\ Go(f, IF valid THEN "deciding" ELSE "attempt")
  /\ UNCHANGED <<calls, asked, status>> /\ Kept

(* The proposer's values; whether any is valid. *)
Propose(f, valid) ==
  /\ at[f] = "proposing" /\ ~Halted
  /\ round' = [round EXCEPT ![f] = @ + 1]
  /\ Go(f, IF valid THEN "deciding" ELSE "attempt")
  /\ UNCHANGED <<calls, asked, status>> /\ Kept

(* No round is left: construct the field, or give up. *)
RoundsOver(f) ==
  /\ at[f] = "attempt" /\ round[f] = Rounds
  /\ IF f \in Constructible
     THEN Go(f, "helper") /\ UNCHANGED status
     ELSE Return(f, IF f \in NeedsEvidence THEN "lookup_required" ELSE "construction_unavailable")
  /\ UNCHANGED <<calls, asked, round>> /\ Kept

Asking == {"asking", "asking_token"}

\* Mutant: two workers read the counter before either writes it.
ReserveUnlocked(f, from, to) ==
  /\ at[f] = from /\ ~Halted /\ calls < MaxCalls
  /\ calls' = IF \E g \in Busy \ {f} : at[g] \in Asking THEN calls ELSE calls + 1
  /\ asked' = asked + 1
  /\ Go(f, to)
  /\ UNCHANGED <<round, status>> /\ Kept

(* reserve is one step: it holds the budget's lock. *)
Reserve(f, from, to) ==
  /\ at[f] = from /\ ~Halted /\ calls < MaxCalls
  /\ calls' = calls + 1
  /\ asked' = asked + 1
  /\ Go(f, to)
  /\ UNCHANGED <<round, status>> /\ Kept

ReserveFails(f) ==
  /\ at[f] \in {"deciding", "building"} /\ ~Halted /\ calls >= MaxCalls
  /\ Return(f, "budget_exhausted")
  /\ UNCHANGED <<calls, asked, round>> /\ Kept

(* The model's choice among the proposals and the ways out. *)
ChooseValue(f) ==
  /\ at[f] = "asking" /\ ~Halted
  /\ Return(f, "complete")
  /\ UNCHANGED <<calls, asked, round>> /\ Kept

ChooseRefine(f) ==
  /\ at[f] = "asking" /\ ~Halted /\ f \in Constructible
  /\ Go(f, "helper")
  /\ UNCHANGED <<calls, asked, round, status>> /\ Kept

ChooseRepropose(f) ==
  /\ at[f] = "asking" /\ ~Halted
  /\ Go(f, "attempt")
  /\ UNCHANGED <<calls, asked, round, status>> /\ Kept

WaysOut == {"lookup_required", "clarification_required", "unresolved"}

(* LOOKUP, CLARIFY, STOP, or a choice that was not offered, in both loops. *)
ChooseOther(f, s) ==
  /\ at[f] \in Asking /\ ~Halted
  /\ Return(f, s)
  /\ UNCHANGED <<calls, asked, round>> /\ Kept

(* A helper session, then TopKBuilder, whose loop is module TopK: it asks  *)
(* through the same budget and ends in a value, a failure or a wish for    *)
(* new proposals, or by budgets of its own.                                *)
OpenHelper(f) ==
  /\ at[f] = "helper" /\ ~Halted
  /\ Go(f, "building")
  /\ UNCHANGED <<calls, asked, round, status>> /\ Kept

NextToken(f) ==
  /\ at[f] = "asking_token" /\ ~Halted
  /\ Go(f, "building")
  /\ UNCHANGED <<calls, asked, round, status>> /\ Kept

Built(f, s) ==
  /\ at[f] = "asking_token" /\ ~Halted
  /\ Return(f, s)
  /\ UNCHANGED <<calls, asked, round>> /\ Kept

BuilderStops(f) ==
  /\ at[f] = "building" /\ ~Halted
  /\ Return(f, "budget_exhausted")
  /\ UNCHANGED <<calls, asked, round>> /\ Kept

(* The construction is discarded; _field calls itself for the rounds left. *)
Refresh(f) ==
  /\ at[f] = "asking_token" /\ ~Halted
  /\ IF round[f] >= Rounds
     THEN Return(f, "budget_exhausted")
     ELSE Go(f, "attempt") /\ UNCHANGED status
  /\ UNCHANGED <<calls, asked, round>> /\ Kept

Construct(f) ==
  \/ OpenHelper(f)
  \/ Reserve(f, "building", "asking_token")
  \/ NextToken(f)
  \/ \E s \in {"complete", "failed"} : Built(f, s)
  \/ Refresh(f)
  \/ BuilderStops(f)

Work(f) ==
  \/ Begin(f) \/ HaltField(f) \/ CallbackFails(f)
  \/ BeginRound(f)
  \/ \E valid \in BOOLEAN : Propose(f, valid)
  \/ RoundsOver(f)
  \/ Reserve(f, "deciding", "asking") \/ ReserveFails(f)
  \/ ChooseValue(f) \/ ChooseRefine(f) \/ ChooseRepropose(f)
  \/ \E s \in WaysOut \cup {"invalid_choice"} : ChooseOther(f, s)
  \/ Construct(f)

-----------------------------------------------------------------------------
(* The thread that called build *)

Wave(n) == {f \in Field : WaveOf[f] = n}
Finish(s) ==
  /\ build' = "done" /\ outcome' = s
  /\ UNCHANGED <<worldVars, calls, asked, fieldVars, wave>>

SubmitWave ==
  /\ build = "wave" /\ wave < LastWave /\ ~Halted
  /\ wave' = wave + 1
  /\ at' = [f \in Field |-> IF f \in Wave(wave + 1) THEN "queued" ELSE at[f]]
  /\ build' = "waiting"
  /\ UNCHANGED <<worldVars, calls, asked, outcome, round, status>>

\* Mutant: build goes on as soon as one result of the wave is there.
WaveDoneEarly == build = "waiting" /\ \E f \in Wave(wave) : at[f] = "done"

(* Every future of the wave has a result. *)
WaveDone == build = "waiting" /\ \A f \in Wave(wave) : at[f] = "done"
Failed == {f \in Wave(wave) : status[f] # "complete"}

\* Mutant: the results of a wave are merged whatever their status.
WaveCompleteUnchecked ==
  /\ WaveDone /\ ~Halted
  /\ build' = "wave"
  /\ UNCHANGED <<worldVars, calls, asked, wave, outcome, fieldVars>>

WaveComplete ==
  /\ WaveDone /\ ~Halted /\ Failed = {}
  /\ build' = "wave"
  /\ UNCHANGED <<worldVars, calls, asked, wave, outcome, fieldVars>>

(* The first failure, in the order of the list, ends the build. *)
WaveFailed ==
  /\ WaveDone /\ ~Halted
  /\ \E f \in Failed :
       /\ \A g \in Failed : Position[f] <= Position[g]
       /\ Finish(status[f])

(* A check raises before a wave, after one or at the end. *)
HaltBuild ==
  /\ build = "wave" \/ WaveDone
  /\ Halted
  /\ Finish(HaltReason)

(* The whole call is validated; then it becomes a candidate. *)
Validated(valid) ==
  /\ build = "wave" /\ wave = LastWave
  /\ IF valid THEN ~Halted /\ Finish("ready") ELSE Finish("invalid_arguments")

Main ==
  \/ SubmitWave \/ WaveComplete \/ WaveFailed \/ HaltBuild
  \/ \E valid \in BOOLEAN : Validated(valid)

-----------------------------------------------------------------------------
(* Everybody else: the task is revised, the tool redefined, time passes. *)

ReviseTask ==
  /\ task < MaxRevision
  /\ task' = task + 1
  /\ UNCHANGED <<schema, late, calls, asked, buildVars, fieldVars>>

ChangeSchema(s) ==
  /\ s # schema
  /\ schema' = s
  /\ UNCHANGED <<task, late, calls, asked, buildVars, fieldVars>>

DeadlinePasses ==
  /\ ~late
  /\ late' = TRUE
  /\ UNCHANGED <<task, schema, calls, asked, buildVars, fieldVars>>

World == ReviseTask \/ DeadlinePasses \/ \E s \in Schema : ChangeSchema(s)

InputNext == Main \/ (\E f \in Field : Work(f)) \/ (build # "done" /\ World)

(* The pool runs its workers, and every callback has a timeout of its own. *)
InputSpec ==
  /\ InputInit /\ [][InputNext]_inputVars
  /\ WF_inputVars(Main) /\ \A f \in Field : WF_inputVars(Work(f))

-----------------------------------------------------------------------------
(* Properties *)

(* However many fields ask at the same time, no more questions reach the   *)
(* model than the budget has, and each is counted.                         *)
CallsWithinBudget == asked = calls /\ calls <= MaxCalls

(* A field is begun when all it depends on is complete, so its worker sees *)
(* their values; and when build returns no worker is left that could still *)
(* ask the model, and a candidate has every field complete.                *)
WavesSound ==
  /\ \A f \in Field : at[f] # "idle" =>
       \A d \in DependsOn[f] : at[d] = "done" /\ status[d] = "complete"
  /\ build = "done" => Busy = {} /\ \A f \in Field : at[f] # "queued"
  /\ outcome = "ready" => \A f \in Field : status[f] = "complete"

(* build returns, whatever the callbacks answer.                           *)
BuildEnds == <>(build = "done")
=============================================================================
