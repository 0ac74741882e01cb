------------------------ MODULE CallConstructionProofs ------------------------
(***************************************************************************)
(* The parts of making a call that TLC checks side by side in              *)
(* MCCallConstruction, for every value of their constants.                 *)
(***************************************************************************)
EXTENDS AffectedBy, ArgumentInput, FastLogits, DecisionFrames, InteractiveSession, FoldProofs

-----------------------------------------------------------------------------
(* The worklist of AffectedBy computes the closure, for every graph.        *)

(* Affected(D) is closed, holds D and lies in every closed set around D.   *)
LEMMA AffectedIsLeast ==
  ASSUME NEW D \in SUBSET Object
  PROVE  /\ D \subseteq Affected(D)
         /\ Affected(D) \subseteq Object
         /\ Closed(Affected(D))
         /\ \A S \in SUBSET Object : D \subseteq S /\ Closed(S) => Affected(D) \subseteq S
  BY DependentsAssumption DEF DependentsAssumption, Affected, Closed

LEMMA WalkStep == WalkInv /\ [WalkNext]_walkVars => WalkInv'
<1> SUFFICES ASSUME WalkInv, [WalkNext]_walkVars PROVE WalkInv'
  OBVIOUS
<1>1. CASE UNCHANGED walkVars
  BY <1>1 DEF WalkInv, walkVars
<1>2. ASSUME NEW x \in Object, Visit(x) PROVE WalkInv'
  <2>1. changed \in SUBSET Object /\ x \in Affected(changed)
    BY <1>2 DEF WalkInv, Visit
  <2>2. Dependents[x] \subseteq Affected(changed) /\ Dependents[x] \subseteq Object
    BY <2>1, AffectedIsLeast, DependentsAssumption DEF Closed, DependentsAssumption
  <2> QED
    BY <1>2, <2>1, <2>2 DEF WalkInv, Visit
<1> QED
  BY <1>1, <1>2 DEF WalkNext

(* When the worklist is empty the set built is exactly the closure.        *)
THEOREM WalkReturnsAffected == WalkSpec => []ReturnsAffected
<1>1. WalkInit => WalkInv
  BY AffectedIsLeast DEF WalkInit, WalkInv
<1>2. WalkInv => ReturnsAffected
  <2> SUFFICES ASSUME WalkInv, pending = {} PROVE affected = Affected(changed)
    BY DEF ReturnsAffected
  <2>1. Closed(affected) /\ changed \in SUBSET Object
    BY DEF WalkInv, Closed
  <2> QED
    BY <2>1, AffectedIsLeast DEF WalkInv
<1> QED
  BY <1>1, <1>2, WalkStep, PTL DEF WalkSpec

-----------------------------------------------------------------------------
(***************************************************************************)
(* For any fields, dependencies, pool and budget: concurrent fields never  *)
(* ask more than the budget has, and a field is begun only when all that   *)
(* it depends on is complete.  Workers are only out while build waits, and *)
(* all of them are of the last wave: that is what makes the wave a barrier.*)
(***************************************************************************)

Phase == Outside \cup Asking \cup {"attempt", "proposing", "deciding", "helper", "building"}
Status == {"none", "complete", "stale", "budget_exhausted", "provider_error", "lookup_required",
           "construction_unavailable", "clarification_required", "unresolved", "invalid_choice", "failed"}

InputTypeOK ==
  /\ calls \in Nat /\ asked \in Nat
  /\ wave \in Nat
  /\ build \in {"wave", "waiting", "done"}
  /\ at \in [Field -> Phase] /\ status \in [Field -> Status]

Settled(f) == at[f] = "done" /\ status[f] = "complete"

WaveInv ==
  /\ \A f \in Field : at[f] # "idle" => WaveOf[f] <= wave
  /\ \A f \in Field : WaveOf[f] < wave => Settled(f)
  /\ build = "wave" => \A f \in Field : WaveOf[f] = wave => Settled(f)
  /\ build = "done" => \A f \in Field : at[f] \in {"idle", "done"}
  /\ outcome = "ready" => build = "done" /\ \A f \in Field : Settled(f)

InputInv == InputTypeOK /\ CallsWithinBudget /\ WaveInv

-----------------------------------------------------------------------------
(* A worker is out, and changes nothing but its own field and the budget.  *)
WorkStep(f) ==
  /\ at[f] \notin {"idle", "done"}
  /\ \E ph \in Phase : at' = [at EXCEPT ![f] = ph]
  /\ status' = status \/ \E s \in Status : status' = [status EXCEPT ![f] = s]
  /\ UNCHANGED buildVars

LEMMA WorkChanges ==
  ASSUME InputTypeOK, NEW f \in Field, Work(f)
  PROVE  WorkStep(f)
<1> USE DEF Phase, Status, Outside, Asking, Go, Return, Kept, WaysOut
<1>1. CASE Begin(f) \/ HaltField(f) \/ CallbackFails(f)
  BY <1>1 DEF Begin, HaltField, CallbackFails, Taken, Busy, HaltReason, WorkStep, InputTypeOK
<1>2. CASE BeginRound(f) \/ RoundsOver(f) \/ \E valid \in BOOLEAN : Propose(f, valid)
  BY <1>2 DEF BeginRound, RoundsOver, Propose, WorkStep, InputTypeOK
<1>3. CASE Reserve(f, "deciding", "asking") \/ ReserveFails(f)
  BY <1>3 DEF Reserve, ReserveFails, WorkStep, InputTypeOK
<1>4. CASE ChooseValue(f) \/ ChooseRefine(f) \/ ChooseRepropose(f)
  BY <1>4 DEF ChooseValue, ChooseRefine, ChooseRepropose, WorkStep, InputTypeOK
<1>5. CASE \E s \in WaysOut \cup {"invalid_choice"} : ChooseOther(f, s)
  BY <1>5 DEF ChooseOther, WorkStep, InputTypeOK
<1>6. CASE Construct(f)
  BY <1>6 DEF Construct, OpenHelper, Reserve, NextToken, Built, Refresh, BuilderStops, WorkStep, InputTypeOK
<1> QED
  BY <1>1, <1>2, <1>3, <1>4, <1>5, <1>6 DEF Work

(* Only reserve moves the counter, and it counts what it lets through.     *)
LEMMA WorkKeepsBudget ==
  ASSUME InputInv, NEW f \in Field, Work(f)
  PROVE  calls' \in Nat /\ asked' \in Nat /\ CallsWithinBudget'
<1>1. CASE UNCHANGED <<calls, asked>>
  BY <1>1 DEF InputInv, InputTypeOK, CallsWithinBudget
<1>2. CASE calls < MaxCalls /\ calls' = calls + 1 /\ asked' = asked + 1
  BY <1>2, ArgumentAssumption DEF InputInv, InputTypeOK, CallsWithinBudget, ArgumentAssumption
<1> QED
  BY <1>1, <1>2 DEF Work, Begin, HaltField, CallbackFails, BeginRound, Propose, RoundsOver, Reserve,
    ReserveFails, ChooseValue, ChooseRefine, ChooseRepropose, ChooseOther, Construct, OpenHelper,
    NextToken, Built, Refresh, BuilderStops

(* A worker that is out belongs to the wave that build waits for.          *)
LEMMA WorkKeepsWaves ==
  ASSUME InputInv, NEW f \in Field, Work(f)
  PROVE  InputTypeOK' /\ WaveInv'
<1>1. WorkStep(f)
  BY WorkChanges DEF InputInv
<1>2. InputTypeOK'
  BY <1>1, WorkKeepsBudget DEF WorkStep, InputInv, InputTypeOK, buildVars
<1>3. WaveOf[f] \in Nat
  BY ArgumentAssumption DEF ArgumentAssumption
<1>4. WaveOf[f] = wave /\ build = "waiting" /\ outcome # "ready"
  BY <1>1, <1>3 DEF WorkStep, InputInv, InputTypeOK, WaveInv, Settled
<1>5. \A g \in Field \ {f} : at'[g] = at[g] /\ status'[g] = status[g]
  BY <1>1 DEF WorkStep, InputInv, InputTypeOK
<1>6. WaveInv'
  BY <1>1, <1>3, <1>4, <1>5 DEF WorkStep, InputInv, InputTypeOK, WaveInv, Settled, buildVars
<1> QED
  BY <1>2, <1>6

-----------------------------------------------------------------------------
(* build *)

LEMMA SubmitKeeps ==
  ASSUME InputInv, SubmitWave
  PROVE  InputTypeOK' /\ WaveInv'
<1>1. \A f \in Field : WaveOf[f] \in Nat
  BY ArgumentAssumption DEF ArgumentAssumption
<1>2. InputTypeOK'
  BY DEF SubmitWave, InputInv, InputTypeOK, Phase, Outside
<1>3. \A f \in Field : WaveOf[f] <= wave => Settled(f)
  BY <1>1 DEF SubmitWave, InputInv, InputTypeOK, WaveInv
<1>4. \A f \in Field : WaveOf[f] <= wave => at'[f] = at[f] /\ status'[f] = status[f]
  BY <1>1 DEF SubmitWave, InputInv, InputTypeOK, Wave
<1>5. wave' = wave + 1 /\ build' = "waiting" /\ outcome' = outcome /\ outcome # "ready"
  BY DEF SubmitWave, InputInv, WaveInv
<1>6. \A f \in Field : at'[f] # "idle" => WaveOf[f] <= wave'
  BY <1>1 DEF SubmitWave, InputInv, InputTypeOK, WaveInv, Wave
<1>7. \A f \in Field : WaveOf[f] < wave' => Settled(f)'
  BY <1>1, <1>3, <1>4, <1>5 DEF InputInv, InputTypeOK, Settled
<1> QED
  BY <1>2, <1>5, <1>6, <1>7 DEF WaveInv

LEMMA CompleteKeeps ==
  ASSUME InputInv, WaveComplete
  PROVE  InputTypeOK' /\ WaveInv'
  BY DEF WaveComplete, WaveDone, Failed, Wave, fieldVars, InputInv, InputTypeOK, WaveInv, Settled

LEMMA FinishKeeps ==
  ASSUME InputInv, NEW s, Finish(s), build = "wave" \/ WaveDone,
         s = "ready" => build = "wave" /\ wave = LastWave
  PROVE  InputTypeOK' /\ WaveInv'
<1>1. \A f \in Field : WaveOf[f] \in Nat /\ WaveOf[f] <= LastWave
  BY ArgumentAssumption DEF ArgumentAssumption
<1>2. \A f \in Field : at[f] \in {"idle", "done"}
  BY <1>1 DEF WaveDone, Wave, InputInv, InputTypeOK, WaveInv, Settled
<1>3. s = "ready" => \A f \in Field : Settled(f)
  BY <1>1 DEF InputInv, InputTypeOK, WaveInv
<1> QED
  BY <1>2, <1>3 DEF Finish, fieldVars, InputInv, InputTypeOK, WaveInv, Settled

LEMMA MainKeeps ==
  ASSUME InputInv, Main
  PROVE  InputInv'
<1>1. CallsWithinBudget'
  BY DEF Main, SubmitWave, WaveComplete, WaveFailed, HaltBuild, Validated, Finish, InputInv, CallsWithinBudget
<1>2. CASE SubmitWave
  BY <1>1, <1>2, SubmitKeeps DEF InputInv
<1>3. CASE WaveComplete
  BY <1>1, <1>3, CompleteKeeps DEF InputInv
<1>4. CASE WaveFailed
  <2>1. PICK f \in Failed : Finish(status[f])
    BY <1>4 DEF WaveFailed
  <2>2. status[f] # "ready"
    BY <2>1 DEF Failed, Wave, InputInv, InputTypeOK, Status
  <2> QED
    BY <1>1, <1>4, <2>1, <2>2, FinishKeeps DEF WaveFailed, InputInv
<1>5. CASE HaltBuild
  <2>1. HaltReason # "ready"
    BY DEF HaltReason
  <2> QED
    BY <1>1, <1>5, <2>1, FinishKeeps DEF HaltBuild, InputInv
<1>6. CASE \E valid \in BOOLEAN : Validated(valid)
  <2>1. PICK s \in {"ready", "invalid_arguments"} : Finish(s) /\ build = "wave" /\ wave = LastWave
    BY <1>6 DEF Validated
  <2> QED
    BY <1>1, <2>1, FinishKeeps DEF InputInv
<1> QED
  BY <1>2, <1>3, <1>4, <1>5, <1>6 DEF Main

-----------------------------------------------------------------------------
LEMMA InputInvStarts == InputInit => InputInv
  BY ArgumentAssumption DEF InputInit, InputInv, InputTypeOK, CallsWithinBudget, WaveInv, Settled, Phase,
    Status, Outside, Asking, ArgumentAssumption

LEMMA InputInvKept == InputInv /\ [InputNext]_inputVars => InputInv'
<1> SUFFICES ASSUME InputInv, [InputNext]_inputVars PROVE InputInv'
  OBVIOUS
<1>1. CASE Main
  BY <1>1, MainKeeps
<1>2. CASE \E f \in Field : Work(f)
  BY <1>2, WorkKeepsBudget, WorkKeepsWaves DEF InputInv
<1>3. CASE World \/ UNCHANGED inputVars
  <2>1. UNCHANGED <<calls, asked, buildVars, fieldVars>>
    BY <1>3 DEF World, ReviseTask, ChangeSchema, DeadlinePasses, inputVars
  <2> QED
    BY <2>1 DEF buildVars, fieldVars, InputInv, InputTypeOK, CallsWithinBudget, WaveInv, Settled
<1> QED
  BY <1>1, <1>2, <1>3 DEF InputNext

LEMMA WavesSoundFromInv == InputInv => WavesSound
<1> SUFFICES ASSUME InputInv PROVE WavesSound
  OBVIOUS
<1>1. ASSUME NEW f \in Field, at[f] # "idle", NEW d \in DependsOn[f]
      PROVE  Settled(d)
  <2>1. d \in Field /\ WaveOf[d] \in Nat /\ WaveOf[f] \in Nat /\ WaveOf[d] < WaveOf[f]
    BY ArgumentAssumption DEF ArgumentAssumption
  <2>2. WaveOf[f] <= wave
    BY <1>1 DEF InputInv, WaveInv
  <2> QED
    BY <2>1, <2>2 DEF InputInv, InputTypeOK, WaveInv
<1>2. build = "done" => Busy = {} /\ \A f \in Field : at[f] # "queued"
  BY DEF InputInv, WaveInv, Busy, Outside
<1>3. outcome = "ready" => \A f \in Field : status[f] = "complete"
  BY DEF InputInv, WaveInv, Settled
<1> QED
  BY <1>1, <1>2, <1>3 DEF WavesSound, Settled

(* The invariant of build and its workers holds in every reachable state.  *)
THEOREM InputInvariant == InputSpec => []InputInv
<1>1. InputInit => InputInv
  BY InputInvStarts
<1>2. InputInv /\ [InputNext]_inputVars => InputInv'
  BY InputInvKept
<1> QED
  BY <1>1, <1>2, PTL DEF InputSpec

(* No more questions reach the model than the budget has, however many     *)
(* fields draw from it at the same time.                                   *)
THEOREM CallsStayWithinBudget == InputSpec => []CallsWithinBudget
<1>1. InputInv => CallsWithinBudget
  BY DEF InputInv
<1> QED
  BY <1>1, InputInvariant, PTL

(* A field is begun when what it depends on is complete; when build has    *)
(* returned no worker is out, and a candidate has every field complete.    *)
THEOREM WavesAreSound == InputSpec => []WavesSound
<1>1. InputInv => WavesSound
  BY WavesSoundFromInv
<1> QED
  BY <1>1, InputInvariant, PTL

-----------------------------------------------------------------------------
(***************************************************************************)
(* For any vocabulary, predicates and budgets: the value that construct    *)
(* grows is a chain of tokens that were offered for exactly the value they *)
(* were appended to.  That needs the candidates of a turn to be those of   *)
(* its state (Candidates), whatever was undone before.                     *)
(***************************************************************************)

Value == Seq(Token)

Growing == history \in Seq(Value) /\ Len(history) >= 1

Chained ==
  \A i \in 1..(Len(history) - 1) :
    /\ history[i + 1] \in Valid
    /\ \E t \in Token : history[i + 1] = Append(history[i], t)

Candidates ==
  phase = "choosing" =>
    \A t \in options \cap Token : candidates[t] = Append(state, t) /\ candidates[t] \in Valid

Results ==
  /\ result # "none" => phase = "done"
  /\ result = "complete" => state \in Complete
  /\ result = "dialogue_complete" => state \in Endable

FieldInv == Growing /\ Chained /\ Candidates /\ Results

-----------------------------------------------------------------------------
(* Whatever ends the loop leaves the value as it is. *)
LEMMA EndsKeeps ==
  ASSUME FieldInv, NEW ending, Ends(ending),
         ending = "complete" => state \in Complete,
         ending = "dialogue_complete" => state \in Endable
  PROVE  FieldInv'
<1>1. history' = history /\ state' = state /\ phase' = "done" /\ result' = ending
  BY DEF Ends, state
<1> QED
  BY <1>1 DEF FieldInv, Growing, Chained, Candidates, Results

LEMMA ConcludeKeeps ==
  ASSUME FieldInv, Conclude \/ RunOut \/ RankedLate \/ CallbackRaises
  PROVE  FieldInv'
<1>1. PICK ending : /\ Ends(ending)
                    /\ ending = "complete" => state \in Complete
                    /\ ending = "dialogue_complete" => state \in Endable
  <2>1. CASE ChooseEnd
    BY <2>1 DEF ChooseEnd
  <2>2. CASE ChooseFinish \/ ChooseEos
    BY <2>2 DEF ChooseFinish, ChooseEos
  <2>3. CASE BacktrackFails \/ ChooseUnknown \/ \E ending \in Recovered : ChooseRecovery(ending)
    BY <2>3 DEF BacktrackFails, ChooseUnknown, ChooseRecovery, Recovered
  <2>4. CASE RunOut \/ RankedLate \/ CallbackRaises
    BY <2>4 DEF RunOut, RankedLate, CallbackRaises
  <2> QED
    BY <2>1, <2>2, <2>3, <2>4 DEF Conclude
<1> QED
  BY <1>1, EndsKeeps

(* The steps of a turn that keep the value. *)
LEMMA TurnKeeps ==
  ASSUME FieldInv, AskHelper \/ Offer \/ Expand \/ TimePasses
  PROVE  FieldInv'
<1>1. history' = history /\ state' = state /\ result' = result
  BY DEF AskHelper, Rank, Offer, Expand, NextTurn, TimePasses, state
<1>2. Growing' /\ Chained'
  BY <1>1 DEF FieldInv, Growing, Chained
<1>3. Results'
  BY <1>1 DEF FieldInv, Results, AskHelper, Rank, Offer, Expand, Answered, NextTurn, TimePasses
<1>4. Candidates'
  <2>1. CASE Offer
    <3>1. options' \cap Token \subseteq Usable
      BY <2>1, TopKAssumption DEF TopKAssumption, Offer, Controls, Recovery
    <3>2. \A t \in Usable : candidates'[t] = Append(state, t) /\ candidates'[t] \in Valid
      BY <2>1 DEF Offer, Usable, Leads
    <3> QED
      BY <1>1, <3>1, <3>2 DEF Candidates
  <2>2. CASE TimePasses
    BY <1>1, <2>2 DEF TimePasses, turnVars, FieldInv, Candidates
  <2>3. CASE AskHelper \/ Expand
    BY <2>3 DEF AskHelper, Rank, Expand, NextTurn, Candidates
  <2> QED
    BY <2>1, <2>2, <2>3
<1> QED
  BY <1>2, <1>3, <1>4 DEF FieldInv

(* A token is appended to the value it was offered for. *)
LEMMA GrowKeeps ==
  ASSUME FieldInv, Grow
  PROVE  FieldInv'
<1>1. PICK t \in Token : ChooseToken(t)
  BY DEF Grow
<1> DEFINE next == candidates[t]
<1>2. next = Append(state, t) /\ next \in Valid
  BY <1>1 DEF ChooseToken, Answered, FieldInv, Candidates
<1>3. state \in Value
  BY DEF FieldInv, Growing, state
<1>4. next \in Value
  BY <1>2, <1>3 DEF Value
<1> HIDE DEF next
<1>5. history' = Append(history, next) /\ phase' = "turn" /\ result' = result
  BY <1>1 DEF ChooseToken, NextTurn, next
<1>6. Growing'
  BY <1>4, <1>5 DEF FieldInv, Growing
<1>7. Len(history') = Len(history) + 1 /\ history'[Len(history) + 1] = next
      /\ \A i \in 1..Len(history) : history'[i] = history[i]
  BY <1>4, <1>5 DEF FieldInv, Growing
<1>8. Chained'
  <2>1. SUFFICES ASSUME NEW i \in 1..Len(history)
                 PROVE  /\ history'[i + 1] \in Valid
                        /\ \E u \in Token : history'[i + 1] = Append(history'[i], u)
    BY <1>7 DEF FieldInv, Growing, Chained
  <2>2. CASE i = Len(history)
    BY <1>2, <1>7, <2>2 DEF state
  <2>3. CASE i \in 1..(Len(history) - 1)
    <3>1. history'[i] = history[i] /\ history'[i + 1] = history[i + 1]
      BY <1>7, <2>3 DEF FieldInv, Growing
    <3> QED
      BY <2>3, <3>1 DEF FieldInv, Chained
  <2> QED
    BY <2>2, <2>3 DEF FieldInv, Growing
<1>9. Results' /\ Candidates'
  BY <1>1, <1>5 DEF ChooseToken, Answered, FieldInv, Results, Candidates
<1> QED
  BY <1>6, <1>8, <1>9 DEF FieldInv

(* An undo takes the last token back. *)
LEMMA BacktrackKeeps ==
  ASSUME FieldInv, Backtrack
  PROVE  FieldInv'
<1>1. Len(history) > 1 /\ history' = SubSeq(history, 1, Len(history) - 1)
      /\ phase = "choosing" /\ phase' = "turn" /\ result' = result
  BY DEF Backtrack, Answered, NextTurn
<1>2. Growing' /\ Len(history') = Len(history) - 1 /\ \A i \in 1..Len(history') : history'[i] = history[i]
  BY <1>1 DEF FieldInv, Growing
<1>3. Chained'
  <2>1. \A i \in 1..(Len(history') - 1) :
          history'[i] = history[i] /\ history'[i + 1] = history[i + 1] /\ i \in 1..(Len(history) - 1)
    BY <1>2 DEF FieldInv, Growing
  <2> QED
    BY <2>1 DEF FieldInv, Chained
<1>4. Results' /\ Candidates'
  BY <1>1 DEF FieldInv, Results, Candidates
<1> QED
  BY <1>2, <1>3, <1>4 DEF FieldInv

LEMMA FieldInvStarts == TopKInit => FieldInv
<1> SUFFICES ASSUME TopKInit PROVE FieldInv
  OBVIOUS
<1>1. << >> \in Value
  BY DEF Value
<1>2. history = << << >> >> /\ Len(history) = 1
  BY DEF TopKInit
<1>3. Growing /\ Chained
  BY <1>1, <1>2 DEF Growing, Chained
<1> QED
  BY <1>3 DEF TopKInit, FieldInv, Candidates, Results

LEMMA FieldInvKept == FieldInv /\ [TopKNext]_topkVars => FieldInv'
<1> SUFFICES ASSUME FieldInv, [TopKNext]_topkVars PROVE FieldInv'
  OBVIOUS
<1>1. CASE UNCHANGED topkVars
  BY <1>1 DEF topkVars, turnVars, FieldInv, Growing, Chained, Candidates, Results, state
<1>2. CASE TopKNext
  BY <1>2, ConcludeKeeps, TurnKeeps, GrowKeeps, BacktrackKeeps DEF TopKNext, Turn, Aside
<1> QED
  BY <1>1, <1>2

(* What construct has grown is a chain of single tokens, each of which     *)
(* kept it valid, and it is called complete only if it is.                 *)
THEOREM FieldIsSound == TopKSpec => []FieldSound
<1>1. TopKInit => FieldInv
  BY FieldInvStarts
<1>2. FieldInv /\ [TopKNext]_topkVars => FieldInv'
  BY FieldInvKept
<1>3. FieldInv => FieldSound
  BY DEF FieldInv, Chained, Results, FieldSound
<1> QED
  BY <1>1, <1>2, <1>3, PTL DEF TopKSpec

-----------------------------------------------------------------------------
(* How many options are offered *)

Room ==
  /\ k \in Nat \ {0}
  /\ phase \in {"ranked", "choosing"} =>
       ranked \subseteq Token \cup {Eos} /\ Cardinality(ranked) <= OfferedK
  /\ phase = "choosing" => options \subseteq ranked \cup Controls

(* One more element counts for one at most.                                *)
LEMMA OneAdded ==
  ASSUME NEW S, IsFiniteSet(S), NEW n \in Nat, Cardinality(S) <= n, NEW x
  PROVE  IsFiniteSet(S \cup {x}) /\ Cardinality(S \cup {x}) <= n + 1
<1>1. Cardinality(S) \in Nat
  BY FS_CardinalityType
<1> QED
  BY <1>1, FS_AddElement

LEMMA OneMore ==
  ASSUME NEW S, IsFiniteSet(S), NEW n \in Nat, Cardinality(S) <= n, NEW x, NEW b \in BOOLEAN
  PROVE  LET T == S \cup (IF b THEN {x} ELSE {})
         IN IsFiniteSet(T) /\ Cardinality(T) <= n + (IF b THEN 1 ELSE 0)
<1>1. CASE b
  BY <1>1, OneAdded
<1>2. CASE ~b
  <2>1. S \cup {} = S /\ n + 0 = n
    OBVIOUS
  <2> QED
    BY <1>2, <2>1
<1> QED
  BY <1>1, <1>2

(* There are no more controls than were counted. *)
LEMMA ControlsCounted == IsFiniteSet(Controls) /\ Cardinality(Controls) <= ControlCount
<1>1. IsFiniteSet({"REPROPOSE"}) /\ Cardinality({"REPROPOSE"}) <= 1
  BY FS_Singleton
<1> DEFINE Two == {"REPROPOSE"} \cup {"BACKTRACK"}
           Three == Two \cup {"LOOKUP"}
           Four == Three \cup {"CLARIFY"}
<1>2. IsFiniteSet(Two) /\ Cardinality(Two) <= 2
  <2>1. 1 \in Nat /\ 1 + 1 = 2
    OBVIOUS
  <2> QED
    BY <1>1, <2>1, OneAdded
<1>3. IsFiniteSet(Three) /\ Cardinality(Three) <= 3
  <2>1. 2 \in Nat /\ 2 + 1 = 3
    OBVIOUS
  <2> HIDE DEF Two
  <2> QED
    BY <1>2, <2>1, OneAdded
<1>4. IsFiniteSet(Four) /\ Cardinality(Four) <= 4
  <2>1. 3 \in Nat /\ 3 + 1 = 4
    OBVIOUS
  <2> HIDE DEF Three
  <2> QED
    BY <1>3, <2>1, OneAdded
<1>5. IsFiniteSet(Recovery) /\ Cardinality(Recovery) <= 5
  <2>1. Four \cup {"STOP_UNRESOLVED"} = Recovery
    BY DEF Recovery
  <2>2. 4 \in Nat /\ 4 + 1 = 5
    OBVIOUS
  <2> HIDE DEF Four
  <2>3. IsFiniteSet(Four \cup {"STOP_UNRESOLVED"}) /\ Cardinality(Four \cup {"STOP_UNRESOLVED"}) <= 5
    BY <1>4, <2>2, OneAdded
  <2> QED
    BY <2>1, <2>3
<1> DEFINE WithFinish == Recovery \cup (IF Finished THEN {"FINISH"} ELSE {})
           WithExpand == WithFinish \cup (IF k < MaxK THEN {"EXPAND_K"} ELSE {})
           finish == IF Finished THEN 1 ELSE 0
           expand == IF k < MaxK THEN 1 ELSE 0
<1>6. Finished \in BOOLEAN /\ (k < MaxK) \in BOOLEAN /\ CanEnd \in BOOLEAN
  BY DEF Finished, CanEnd
<1>7. finish \in {0, 1} /\ expand \in {0, 1}
  BY <1>6
<1>8. IsFiniteSet(WithFinish) /\ Cardinality(WithFinish) <= 5 + finish
  BY <1>5, <1>6, OneMore
<1>9. IsFiniteSet(WithExpand) /\ Cardinality(WithExpand) <= 5 + finish + expand
  <2> HIDE DEF WithFinish
  <2>1. 5 + finish \in Nat
    BY <1>7
  <2> QED
    BY <1>6, <1>8, <2>1, OneMore
<1> QED
  <2>1. Controls = WithExpand \cup (IF CanEnd THEN {"END_DIALOGUE"} ELSE {})
    BY DEF Controls
  <2>2. ControlCount = 5 + finish + expand + (IF CanEnd THEN 1 ELSE 0)
    BY DEF ControlCount
  <2>3. 5 + finish + expand \in Nat
    BY <1>7
  <2> HIDE DEF WithExpand, finish, expand
  <2> QED
    BY <1>6, <1>9, <2>1, <2>2, <2>3, OneMore

LEMMA RoomForToken ==
  ASSUME Room
  PROVE  ControlCount \in Nat /\ OfferedK \in Nat \ {0} /\ OfferedK + ControlCount <= ChoiceCap
<1>1. ControlCount \in Nat /\ ControlCount <= 7 + EndSlot
  BY TopKAssumption DEF TopKAssumption, ControlCount, EndSlot, CanEnd
<1>2. EndSlot \in {0, 1} /\ ChoiceCap \in Nat /\ ChoiceCap >= 8 + EndSlot
  BY TopKAssumption DEF TopKAssumption, EndSlot
<1> QED
  BY <1>1, <1>2 DEF OfferedK, Room

LEMMA RoomFits == Room => OffersFit
<1> SUFFICES ASSUME Room, phase = "choosing" PROVE Cardinality(options) <= ChoiceCap /\ OfferedK >= 1
  BY DEF OffersFit
<1>1. IsFiniteSet(ranked)
  BY TopKAssumption, FS_AddElement, FS_Subset DEF TopKAssumption, Room
<1>2. IsFiniteSet(ranked \cup Controls)
      /\ Cardinality(ranked \cup Controls) <= Cardinality(ranked) + Cardinality(Controls)
  <2>1. /\ IsFiniteSet(ranked \cup Controls) /\ IsFiniteSet(ranked \cap Controls)
        /\ Cardinality(ranked \cup Controls) =
             Cardinality(ranked) + Cardinality(Controls) - Cardinality(ranked \cap Controls)
    BY <1>1, ControlsCounted, FS_Union, FS_Subset
  <2> QED
    BY <1>1, <2>1, ControlsCounted, FS_CardinalityType
<1>3. Cardinality(options) \in Nat /\ Cardinality(options) <= Cardinality(ranked \cup Controls)
  BY <1>2, FS_Subset, FS_CardinalityType DEF Room
<1>4. Cardinality(ranked) <= OfferedK
  BY DEF Room
<1> QED
  BY <1>1, <1>2, <1>3, <1>4, ControlsCounted, RoomForToken, FS_CardinalityType, TopKAssumption DEF TopKAssumption

LEMMA RoomKept == Room /\ [TopKNext]_topkVars => Room'
<1> SUFFICES ASSUME Room, [TopKNext]_topkVars PROVE Room'
  OBVIOUS
<1>1. ASSUME UNCHANGED <<k, history>>
      PROVE  OfferedK' = OfferedK /\ Controls' = Controls
  BY <1>1 DEF OfferedK, ControlCount, Controls, Finished, CanEnd, state
<1>2. CASE UNCHANGED topkVars
  BY <1>1, <1>2 DEF topkVars, turnVars, Room
<1>3. CASE AskHelper
  BY <1>1, <1>3 DEF AskHelper, Rank, Room
<1>4. CASE Offer
  BY <1>1, <1>4 DEF Offer, Usable, Room
<1>5. CASE TimePasses
  BY <1>1, <1>5 DEF TimePasses, turnVars, Room
<1>6. CASE Grow \/ Backtrack \/ Expand
  BY <1>6, TopKAssumption DEF TopKAssumption, Grow, ChooseToken, Backtrack, Expand, NextTurn, Room
<1>7. CASE Conclude \/ RunOut \/ RankedLate \/ CallbackRaises
  BY <1>7 DEF Conclude, ChooseEnd, ChooseFinish, BacktrackFails, ChooseRecovery, ChooseEos, ChooseUnknown,
    RunOut, RankedLate, CallbackRaises, Ends, Room
<1> QED
  BY <1>2, <1>3, <1>4, <1>5, <1>6, <1>7 DEF TopKNext, Turn, Aside

(* The model is never asked with more options than the cap, and there is   *)
(* always room for a token beside the controls: the count that is taken    *)
(* before the helper is asked agrees with what is offered after.           *)
THEOREM OffersAlwaysFit == TopKSpec => []OffersFit
<1>1. TopKInit => Room
  BY TopKAssumption DEF TopKAssumption, TopKInit, Room
<1>2. Room /\ [TopKNext]_topkVars => Room'
  BY RoomKept
<1>3. Room => OffersFit
  BY RoomFits
<1> QED
  BY <1>1, <1>2, <1>3, PTL DEF TopKSpec

-----------------------------------------------------------------------------
(***************************************************************************)
(* FastLogitsHelper, when one field is constructed with it and nothing is  *)
(* evicted, as with the defaults of the builder and the helper, which may  *)
(* be asked 128 times and remembers 128 states.  Every state that is       *)
(* decoded from is the prompt's or remembered, so it lives, and no new     *)
(* object gets its address.                                                *)
(***************************************************************************)

NothingEvicted == MaxHelperCalls <= MaxCached

Logits(v) == [prompt |-> 1, tokens |-> v]
Known == {Root} \cup {memo[i].decoded : i \in DOMAIN memo}

Remembered ==
  /\ memo \in Seq([base : Address, token : Token, decoded : Address])
  /\ helperCalls \in Nat /\ Len(memo) <= helperCalls
  /\ fast \in [Address -> [prompt : Nat, tokens : Value]] /\ fast[Root] = Logits(<<>>)
  /\ \A i \in DOMAIN memo :
       /\ memo[i].base \in Known
       /\ \E v \in Value : /\ fast[memo[i].base] = Logits(v)
                          /\ fast[memo[i].decoded] = Logits(Append(v, memo[i].token))

(* Each state of history refers to what it was appended to.                *)
BasesFollow ==
  /\ bases \in Seq(Address) /\ Len(bases) = Len(history) /\ bases[1] = Root
  /\ history[1] = <<>>
  /\ \A i \in DOMAIN bases : bases[i] \in Known
  /\ \A i \in 2..Len(bases) : fast[bases[i]] = Logits(history[i - 1])

DecodedFollows ==
  /\ decoded \in Known
  /\ phase \in {"ranked", "choosing"} => fast[decoded] = Logits(state)

MemoInv == field = 1 /\ Remembered /\ BasesFollow /\ DecodedFollows

LEMMA FastLogitsStarts == FastInit => MemoInv
<1> SUFFICES ASSUME FastInit PROVE MemoInv
  OBVIOUS
<1>1. Root \in Address /\ <<>> \in Value
  BY FastLogitsAssumption DEF FastLogitsAssumption, Value
<1>2. fast = [a \in Address |-> Logits(<<>>)] /\ memo = <<>> /\ helperCalls = 0
  BY DEF FastInit, TopKInit, Prefilled, Logits
<1>3. Remembered
  <2>1. Logits(<<>>) \in [prompt : Nat, tokens : Value]
    BY <1>1 DEF Logits
  <2>2. DOMAIN memo = {} /\ memo \in Seq([base : Address, token : Token, decoded : Address])
        /\ Len(memo) = 0
    BY <1>2
  <2>3. fast \in [Address -> [prompt : Nat, tokens : Value]] /\ fast[Root] = Logits(<<>>)
    BY <1>1, <1>2, <2>1
  <2> QED
    BY <1>2, <2>2, <2>3 DEF Remembered
<1>4. BasesFollow
  BY <1>1 DEF BasesFollow, FastInit, TopKInit, Known
<1>5. DecodedFollows
  BY DEF DecodedFollows, FastInit, TopKInit, Known
<1> QED
  BY <1>3, <1>4, <1>5 DEF MemoInv, FastInit

LEMMA KnownAddress ==
  ASSUME MemoInv
  PROVE  Known \subseteq Address
<1> DEFINE Entry == [base : Address, token : Token, decoded : Address]
<1>1. memo \in Seq(Entry)
  BY DEF MemoInv, Remembered
<1>2. \A e \in Entry : e.decoded \in Address
  OBVIOUS
<1> HIDE DEF Entry
<1>3. \A i \in DOMAIN memo : memo[i] \in Entry
  BY <1>1
<1> QED
  BY <1>2, <1>3, FastLogitsAssumption DEF FastLogitsAssumption, Known

(* Nothing of the helper changes, and history stays.                       *)
LEMMA HeapKept ==
  ASSUME MemoInv, UNCHANGED <<heapVars, history>>, helperCalls' = helperCalls,
         phase' \in {"ranked", "choosing"} => phase \in {"ranked", "choosing"}
  PROVE  MemoInv'
<1>1. UNCHANGED <<field, fast, bases, memo, decoded>>
  BY DEF heapVars
<1> QED
  BY <1>1 DEF MemoInv, Remembered, BasesFollow, DecodedFollows, Known, state

(* What is decoded for a turn follows the turn's value: one token more     *)
(* than what the state was appended to.                                    *)
LEMMA MaterializeKeeps ==
  ASSUME NothingEvicted, FieldInv, MemoInv, AskFast
  PROVE  MemoInv'
<1> DEFINE n == Len(history)
           b == bases[n]
<1>1. PICK tokens \in SUBSET (Token \cup {Eos}) : Rank(tokens)
  BY DEF AskFast, AskHelper
<1>2. /\ helperCalls < MaxHelperCalls /\ helperCalls' = helperCalls + 1
      /\ history' = history /\ state' = state /\ bases' = bases /\ field' = field
  BY <1>1, TopKAssumption DEF Rank, BudgetSpent, MemoInv, Remembered, TopKAssumption, state, AskFast, Materialize
<1>3. n \in Nat \ {0} /\ Len(bases) = n /\ Last(bases) = b /\ b \in Known /\ state = history[n] /\ history[n] \in Value
  BY DEF FieldInv, Growing, MemoInv, BasesFollow, Last, state
<1>4. Known \subseteq Address
  BY KnownAddress
<1>5. n > 1 => /\ history[n - 1] \in Value /\ fast[b] = Logits(history[n - 1])
               /\ Pending \in Token /\ history[n] = Append(history[n - 1], Pending)
  <2> SUFFICES ASSUME n > 1
               PROVE  /\ history[n - 1] \in Value /\ fast[b] = Logits(history[n - 1])
                      /\ Pending \in Token /\ history[n] = Append(history[n - 1], Pending)
    OBVIOUS
  <2>1. n - 1 \in 1..(n - 1) /\ n \in 2..n /\ (n - 1) + 1 = n
    BY <1>3
  <2>2. history[n - 1] \in Value
    BY <1>3, <2>1 DEF FieldInv, Growing
  <2>3. PICK t \in Token : history[n] = Append(history[n - 1], t)
    BY <2>1 DEF FieldInv, Chained
  <2>4. fast[b] = Logits(history[n - 1])
    BY <1>3, <2>1 DEF MemoInv, BasesFollow
  <2>5. Pending = t
    <3> HIDE DEF n
    <3> QED
      BY <1>3, <2>2, <2>3 DEF Pending, Last, Value
  <2> QED
    BY <2>2, <2>3, <2>4, <2>5
<1> HIDE DEF n, b
<1>6. CASE AtStart
  <2>1. n = 1 /\ decoded' = b /\ UNCHANGED <<fast, memo>>
    BY <1>3, <1>6 DEF AtStart, n
  <2>2. fast[b] = Logits(state) /\ b \in Known
    BY <1>3, <2>1 DEF MemoInv, Remembered, BasesFollow, b
  <2>3. Known' = Known /\ DecodedFollows'
    BY <1>2, <2>1, <2>2 DEF Known, DecodedFollows
  <2>4. Remembered'
    <3>1. helperCalls' \in Nat /\ Len(memo') <= helperCalls'
      BY <1>2, <2>1 DEF MemoInv, Remembered
    <3>2. /\ memo' \in Seq([base : Address, token : Token, decoded : Address])
          /\ fast' \in [Address -> [prompt : Nat, tokens : Value]] /\ fast'[Root] = Logits(<<>>)
      BY <2>1 DEF MemoInv, Remembered
    <3>3. \A j \in DOMAIN memo' :
            /\ memo'[j].base \in Known'
            /\ \E z \in Value : /\ fast'[memo'[j].base] = Logits(z)
                                /\ fast'[memo'[j].decoded] = Logits(Append(z, memo'[j].token))
      BY <2>1, <2>3 DEF MemoInv, Remembered
    <3> QED
      BY <3>1, <3>2, <3>3 DEF Remembered, Logits
  <2>5. BasesFollow'
    BY <1>2, <2>1, <2>3 DEF MemoInv, BasesFollow
  <2> QED
    BY <1>2, <2>3, <2>4, <2>5 DEF MemoInv
<1>7. CASE Hit
  <2>1. PICK i \in Found : decoded' = memo[i].decoded
    BY <1>7 DEF Hit
  <2>2. n > 1 /\ UNCHANGED <<fast, memo>>
    BY <1>3, <1>7 DEF Hit, n
  <2>3. i \in DOMAIN memo /\ memo[i].base = b /\ memo[i].token = Pending
    BY <1>3 DEF Found
  <2>4. PICK v \in Value : fast[b] = Logits(v) /\ fast[memo[i].decoded] = Logits(Append(v, Pending))
    BY <2>3 DEF MemoInv, Remembered
  <2>5. v = history[n - 1]
    BY <1>5, <2>2, <2>4 DEF Logits
  <2>6. fast[decoded'] = Logits(state)
    BY <1>3, <1>5, <2>1, <2>2, <2>4, <2>5
  <2>7. Known' = Known /\ DecodedFollows'
    BY <1>2, <2>1, <2>2, <2>3, <2>6 DEF Known, DecodedFollows
  <2>8. Remembered'
    <3>1. helperCalls' \in Nat /\ Len(memo') <= helperCalls'
      BY <1>2, <2>2 DEF MemoInv, Remembered
    <3>2. /\ memo' \in Seq([base : Address, token : Token, decoded : Address])
          /\ fast' \in [Address -> [prompt : Nat, tokens : Value]] /\ fast'[Root] = Logits(<<>>)
      BY <2>2 DEF MemoInv, Remembered
    <3>3. \A j \in DOMAIN memo' :
            /\ memo'[j].base \in Known'
            /\ \E z \in Value : /\ fast'[memo'[j].base] = Logits(z)
                                /\ fast'[memo'[j].decoded] = Logits(Append(z, memo'[j].token))
      BY <2>2, <2>7 DEF MemoInv, Remembered
    <3> QED
      BY <3>1, <3>2, <3>3 DEF Remembered, Logits
  <2>9. BasesFollow'
    BY <1>2, <2>2, <2>7 DEF MemoInv, BasesFollow
  <2> QED
    BY <1>2, <2>7, <2>8, <2>9 DEF MemoInv
<1>8. CASE Miss
  <2> DEFINE entry(a) == [base |-> b, token |-> Pending, decoded |-> a]
  <2>1. n > 1 /\ Evicted = memo
    BY <1>2, <1>3, <1>8, TopKAssumption, FastLogitsAssumption
    DEF Miss, Evicted, NothingEvicted, MemoInv, Remembered, TopKAssumption, FastLogitsAssumption, n
  <2>2. PICK a \in Free : /\ fast' = [fast EXCEPT ![a] = Advanced]
                          /\ memo' = Append(memo, entry(a)) /\ decoded' = a
    BY <1>3, <1>8, <2>1 DEF Miss
  <2>3. a \in Address /\ a \notin Known
    <3>1. Root \in Live
      <4>1. 1 \in DOMAIN bases /\ bases[1] = Root
        BY <1>3 DEF MemoInv, BasesFollow
      <4> QED
        BY <4>1 DEF Live
    <3> QED
      BY <3>1 DEF Free, Live, Known
  <2>4. Advanced = Logits(state)
    <3>1. fast[b] = Logits(history[n - 1]) /\ history[n] = Append(history[n - 1], Pending)
      BY <1>5, <2>1
    <3>2. [fast[b] EXCEPT !.tokens = Append(@, Pending)] = Logits(history[n])
      BY <3>1 DEF Logits
    <3> QED
      BY <1>3, <3>2 DEF Advanced
  <2>5. /\ fast' \in [Address -> [prompt : Nat, tokens : Value]]
        /\ fast'[a] = Logits(state) /\ \A x \in Known : fast'[x] = fast[x]
    <3>1. Logits(state) \in [prompt : Nat, tokens : Value]
      BY <1>3 DEF Logits
    <3>2. fast \in [Address -> [prompt : Nat, tokens : Value]] /\ a \in Address /\ Known \subseteq Address /\ a \notin Known
      BY <1>4, <2>2, <2>3 DEF MemoInv, Remembered
    <3> QED
      BY <2>2, <2>4, <3>1, <3>2
  <2>6. entry(a) \in [base : Address, token : Token, decoded : Address]
    BY <1>3, <1>4, <1>5, <2>1, <2>3
  <2>7. /\ memo' \in Seq([base : Address, token : Token, decoded : Address])
        /\ Len(memo') = Len(memo) + 1
        /\ \A i \in DOMAIN memo' :
             (i \in DOMAIN memo /\ memo'[i] = memo[i]) \/ memo'[i] = entry(a)
        /\ \A i \in DOMAIN memo : i \in DOMAIN memo' /\ memo'[i] = memo[i]
        /\ Len(memo) + 1 \in DOMAIN memo' /\ memo'[Len(memo) + 1] = entry(a)
    <3> DEFINE E == [base : Address, token : Token, decoded : Address]
    <3>1. memo \in Seq(E) /\ memo' = Append(memo, entry(a)) /\ entry(a) \in E
      BY <2>2, <2>6 DEF MemoInv, Remembered
    <3> HIDE DEF entry, E
    <3>2. /\ memo' \in Seq(E) /\ Len(memo') = Len(memo) + 1 /\ Len(memo) \in Nat
          /\ DOMAIN memo = 1..Len(memo) /\ DOMAIN memo' = 1..(Len(memo) + 1)
          /\ memo'[Len(memo) + 1] = entry(a) /\ \A i \in 1..Len(memo) : memo'[i] = memo[i]
      BY <3>1
    <3>3. \A i : i \in 1..(Len(memo) + 1) <=> i \in 1..Len(memo) \/ i = Len(memo) + 1
      BY <3>2
    <3> QED
      BY <3>2, <3>3 DEF E
  <2>8. Known \subseteq Known' /\ a \in Known'
    <3>1. Known \subseteq Known'
      BY <2>7 DEF Known
    <3>2. entry(a).decoded = a
      OBVIOUS
    <3> HIDE DEF entry
    <3>3. memo'[Len(memo) + 1].decoded = a
      BY <2>7, <3>2
    <3> QED
      BY <2>7, <3>1, <3>3 DEF Known
  <2>9. \A i \in DOMAIN memo' :
          /\ memo'[i].base \in Known'
          /\ \E v \in Value : /\ fast'[memo'[i].base] = Logits(v)
                             /\ fast'[memo'[i].decoded] = Logits(Append(v, memo'[i].token))
    <3> SUFFICES ASSUME NEW i \in DOMAIN memo'
                 PROVE  /\ memo'[i].base \in Known'
                        /\ \E v \in Value : /\ fast'[memo'[i].base] = Logits(v)
                                           /\ fast'[memo'[i].decoded] = Logits(Append(v, memo'[i].token))
      OBVIOUS
    <3>1. CASE i \in DOMAIN memo /\ memo'[i] = memo[i]
      <4>1. PICK v \in Value : /\ fast[memo[i].base] = Logits(v)
                               /\ fast[memo[i].decoded] = Logits(Append(v, memo[i].token))
        BY <3>1 DEF MemoInv, Remembered
      <4>2. memo[i].base \in Known /\ memo[i].decoded \in Known
        BY <3>1 DEF MemoInv, Remembered, Known
      <4> QED
        BY <2>5, <2>8, <3>1, <4>1, <4>2
    <3>2. CASE memo'[i] = entry(a)
      <4>1. memo'[i].base = b /\ memo'[i].token = Pending /\ memo'[i].decoded = a
        BY <3>2
      <4>2. fast'[b] = Logits(history[n - 1]) /\ fast'[a] = Logits(Append(history[n - 1], Pending))
        BY <1>3, <1>5, <2>1, <2>5
      <4> QED
        BY <1>3, <1>5, <2>1, <2>8, <4>1, <4>2
    <3> QED
      BY <2>7, <3>1, <3>2
  <2>10. Remembered'
    <3>1. fast'[Root] = Logits(<<>>)
      BY <2>5 DEF MemoInv, Remembered, Known
    <3>2. helperCalls' \in Nat /\ Len(memo') <= helperCalls'
      BY <1>2, <2>7 DEF MemoInv, Remembered
    <3> QED
      BY <2>5, <2>7, <2>9, <3>1, <3>2 DEF Remembered
  <2>11. BasesFollow'
    BY <1>2, <2>5, <2>8 DEF MemoInv, BasesFollow
  <2>12. DecodedFollows'
    BY <1>2, <2>2, <2>5, <2>8 DEF DecodedFollows
  <2> QED
    BY <1>2, <2>10, <2>11, <2>12 DEF MemoInv
<1> QED
  BY <1>6, <1>7, <1>8 DEF AskFast, Materialize

LEMMA GrowFastKeeps ==
  ASSUME FieldInv, MemoInv, GrowFast
  PROVE  MemoInv'
<1>1. PICK t \in Token : ChooseToken(t)
  BY DEF GrowFast, Grow
<1>2. /\ history' = Append(history, Append(state, t)) /\ phase' = "turn" /\ phase = "choosing"
      /\ helperCalls' = helperCalls /\ UNCHANGED <<field, fast, memo, decoded>>
      /\ bases' = Append(bases, decoded)
  BY <1>1 DEF ChooseToken, Answered, NextTurn, FieldInv, Candidates, GrowFast
<1>3. history \in Seq(Value) /\ Len(history) \in Nat \ {0} /\ state \in Value /\ Append(state, t) \in Value
  BY DEF FieldInv, Growing, state, Value
<1>4. decoded \in Known /\ decoded \in Address /\ fast[decoded] = Logits(history[Len(history)]) /\ Known' = Known
  BY <1>2, KnownAddress DEF MemoInv, DecodedFollows, Known, state
<1>5. BasesFollow'
  <2> DEFINE n == Len(history)
             next == Append(state, t)
  <2>1. Len(bases) = n /\ bases \in Seq(Address) /\ n \in Nat \ {0} /\ next \in Value
    BY <1>3 DEF MemoInv, BasesFollow
  <2>2. Len(bases') = n + 1 /\ bases' \in Seq(Address) /\ bases'[n + 1] = decoded
        /\ \A i \in 1..n : bases'[i] = bases[i]
    BY <1>2, <1>4, <2>1
  <2>3. Len(history') = n + 1 /\ \A i \in 1..n : history'[i] = history[i]
    <3> HIDE DEF next
    <3>1. history' = Append(history, next)
      BY <1>2 DEF next
    <3> QED
      BY <1>3, <2>1, <3>1
  <2> HIDE DEF next
  <2>4. \A i \in DOMAIN bases' : bases'[i] \in Known'
    BY <1>4, <2>1, <2>2 DEF MemoInv, BasesFollow
  <2>5. ASSUME NEW i \in 2..(n + 1)
        PROVE  fast'[bases'[i]] = Logits(history'[i - 1])
    <3>1. CASE i = n + 1
      BY <1>2, <1>4, <2>1, <2>2, <2>3, <3>1
    <3>2. CASE i \in 2..n
      <4>1. i - 1 \in 1..n /\ i \in 1..n
        BY <2>1, <3>2
      <4>2. bases'[i] = bases[i] /\ history'[i - 1] = history[i - 1] /\ fast' = fast
        BY <1>2, <2>2, <2>3, <4>1
      <4>3. fast[bases[i]] = Logits(history[i - 1])
        BY <2>1, <3>2 DEF MemoInv, BasesFollow
      <4> QED
        BY <4>2, <4>3
    <3> QED
      BY <2>1, <3>1, <3>2
  <2> QED
    BY <2>1, <2>2, <2>3, <2>4, <2>5 DEF MemoInv, BasesFollow
<1> QED
  BY <1>2, <1>4, <1>5 DEF MemoInv, Remembered, DecodedFollows

LEMMA BacktrackFastKeeps ==
  ASSUME FieldInv, MemoInv, BacktrackFast
  PROVE  MemoInv'
<1> DEFINE n == Len(history)
<1>1. /\ n > 1 /\ history' = SubSeq(history, 1, n - 1) /\ phase' = "turn"
      /\ helperCalls' = helperCalls /\ UNCHANGED <<field, fast, memo, decoded>>
      /\ bases' = SubSeq(bases, 1, n - 1)
  BY DEF BacktrackFast, Backtrack, Answered, NextTurn, MemoInv, BasesFollow
<1>2. /\ n \in Nat /\ history \in Seq(Value) /\ bases \in Seq(Address) /\ Len(bases) = n
  BY DEF FieldInv, Growing, MemoInv, BasesFollow
<1>3. /\ Len(history') = n - 1 /\ \A i \in 1..(n - 1) : history'[i] = history[i]
      /\ Len(bases') = n - 1 /\ bases' \in Seq(Address) /\ \A i \in 1..(n - 1) : bases'[i] = bases[i]
  BY <1>1, <1>2
<1>4. Known' = Known
  BY <1>1 DEF Known
<1> HIDE DEF n
<1>5. BasesFollow'
  <2>1. history'[1] = <<>> /\ bases'[1] = Root
    BY <1>1, <1>2, <1>3 DEF MemoInv, BasesFollow
  <2>2. \A i \in DOMAIN bases' : bases'[i] \in Known'
    BY <1>2, <1>3, <1>4 DEF MemoInv, BasesFollow
  <2>3. \A i \in 2..Len(bases') : fast'[bases'[i]] = Logits(history'[i - 1])
    BY <1>1, <1>2, <1>3 DEF MemoInv, BasesFollow
  <2> QED
    BY <1>3, <2>1, <2>2, <2>3 DEF BasesFollow
<1> QED
  BY <1>1, <1>4, <1>5 DEF MemoInv, Remembered, DecodedFollows

LEMMA MemoInvKept ==
  ASSUME NothingEvicted, FieldInv, MemoInv, [FastNext]_fastVars
  PROVE  MemoInv'
<1>1. CASE UNCHANGED fastVars
  BY <1>1, HeapKept DEF fastVars, topkVars
<1>2. CASE (Expand \/ Conclude \/ Aside) /\ UNCHANGED heapVars
  <2>1. history' = history /\ helperCalls' = helperCalls
        /\ (phase' \in {"ranked", "choosing"} => phase \in {"ranked", "choosing"})
    BY <1>2 DEF Expand, NextTurn, Conclude, ChooseEnd, ChooseFinish, BacktrackFails, ChooseRecovery, ChooseEos,
       ChooseUnknown, Answered, Aside, RunOut, RankedLate, Offer, CallbackRaises, Ends
  <2> QED
    BY <1>2, <2>1, HeapKept
<1>3. CASE (phase # "done" /\ TimePasses) /\ UNCHANGED heapVars
  BY <1>3, HeapKept DEF TimePasses
<1> QED
  BY <1>1, <1>2, <1>3, MaterializeKeeps, GrowFastKeeps, BacktrackFastKeeps DEF FastNext

LEMMA FastIsTopK == [FastNext]_fastVars => [TopKNext]_topkVars
  BY DEF FastNext, fastVars, TopKNext, Turn, AskFast, GrowFast, BacktrackFast

(* With a helper of its own for the field and no more questions than it    *)
(* remembers states, the tokens that are ranked follow the value they are  *)
(* offered for, however often the chooser undoes.                          *)
THEOREM RankedByTheirPrefix == NothingEvicted => (FastSpec => []LogitsFollowPrefix)
<1> SUFFICES ASSUME NothingEvicted
             PROVE  FastSpec => []LogitsFollowPrefix
  OBVIOUS
<1>1. FastInit => FieldInv /\ MemoInv
  BY FieldInvStarts, FastLogitsStarts DEF FastInit
<1>2. FieldInv /\ MemoInv /\ [FastNext]_fastVars => FieldInv' /\ MemoInv'
  BY FastIsTopK, FieldInvKept, MemoInvKept
<1>3. MemoInv => LogitsFollowPrefix
  BY DEF MemoInv, DecodedFollows, LogitsFollowPrefix, Logits
<1> QED
  BY <1>1, <1>2, <1>3, PTL DEF FastSpec

-----------------------------------------------------------------------------
(***************************************************************************)
(* What is packed into a decision's context, for any slices and limits.    *)
(***************************************************************************)

(* Bytes adds up sizes, in any order.                                      *)
LEMMA BytesFold ==
  ASSUME NEW S \in SUBSET Slice, IsFiniteSet(S)
  PROVE  \E g : Adds(g, S, [s \in S |-> s.size]) /\ Bytes(S) = g[S]
<1> DEFINE w == [s \in S |-> s.size]
           Follows(g) == g = [s \in SUBSET S |->
             IF s = {} THEN 0 ELSE LET x == CHOOSE y \in s : TRUE IN x.size + g[s \ {x}]]
           it == CHOOSE g : Follows(g)
<1>1. w \in [S -> Nat]
  BY FramesAssumption DEF FramesAssumption
<1>2. PICK g \in [SUBSET S -> Nat] : SumsUp(g, S, w)
  <2> HIDE DEF w
  <2> QED
    BY <1>1, SumExists
<1>3. ASSUME NEW s \in SUBSET S, s # {}
      PROVE  LET x == CHOOSE y \in s : TRUE IN w[x] = x.size
  BY <1>3
<1>4. Follows(g)
  <2> HIDE DEF w
  <2> QED
    BY <1>2, <1>3 DEF SumsUp
<1>5. Follows(it)
  BY <1>4
<1>6. Bytes(S) = it[S]
  BY DEF Bytes, MapThenSumSet, MapThenFoldSet
<1> HIDE DEF it
<1>7. SumsUp(it, S, w)
  <2> HIDE DEF w
  <2> QED
    BY <1>3, <1>5 DEF SumsUp
<1> HIDE DEF w
<1>8. Adds(it, S, w)
  BY <1>1, <1>7, SumAdds
<1> QED
  BY <1>6, <1>8 DEF w

LEMMA BytesAdd ==
  ASSUME NEW S \in SUBSET Slice, IsFiniteSet(S)
  PROVE  /\ Bytes(S) \in Nat /\ Bytes({}) = 0
         /\ \A x \in S : Bytes(S) = x.size + Bytes(S \ {x})
         /\ \A T \in SUBSET S : Bytes(T) <= Bytes(S)
<1> DEFINE w(T) == [s \in T |-> s.size]
<1>1. PICK g : Adds(g, S, w(S)) /\ Bytes(S) = g[S]
  BY BytesFold
<1>2. ASSUME NEW T \in SUBSET S
      PROVE  Bytes(T) = g[T]
  <2>1. IsFiniteSet(T) /\ T \in SUBSET Slice
    BY FS_Subset
  <2>2. PICK h : Adds(h, T, w(T)) /\ Bytes(T) = h[T]
    BY <2>1, BytesFold
  <2>3. \A x \in T : w(S)[x] = w(T)[x]
    OBVIOUS
  <2> HIDE DEF w
  <2> QED
    BY <1>1, <2>2, <2>3, SumsAgree
<1>3. w(S) \in [S -> Nat] /\ \A x \in S : w(S)[x] = x.size
  BY FramesAssumption DEF FramesAssumption
<1> HIDE DEF w
<1>4. \A T \in SUBSET S : g[T] <= g[S]
  BY <1>1, <1>3, SumGrows
<1> QED
  BY <1>1, <1>2, <1>3, <1>4 DEF Adds

(* Slices that arrive have ids of their own, so one order ranks them.      *)
Distinct == \A s, t \in Range(slices) : s.id = t.id => s = t

LEMMA SliceType ==
  ASSUME NEW s \in Slice
  PROVE  /\ s.id \in Nat /\ s.region \in Region /\ s.size \in Nat /\ s.priority \in Nat
         /\ Limit[s.region] \in Nat
<1>1. s \in [id : Nat, region : Region, size : Nat \ {0}, priority : Nat, required : BOOLEAN]
  BY FramesAssumption DEF FramesAssumption
<1> QED
  BY <1>1, FramesAssumption DEF FramesAssumption

LEMMA ListRange ==
  ASSUME NEW S, NEW s \in Seq(S)
  PROVE  IsFiniteSet(Range(s)) /\ Range(s) \subseteq S
<1>1. Len(s) \in Nat /\ DOMAIN s = 1..Len(s) /\ Range(s) \subseteq S
  BY DEF Range
<1>2. s \in [1..Len(s) -> Range(s)]
  BY <1>1 DEF Range
<1>3. s \in Surjection(1..Len(s), Range(s))
  BY <1>1, <1>2 DEF Surjection, Range
<1> QED
  BY <1>1, <1>3, FS_Interval, FS_Surjection

LEMMA LongerRange ==
  ASSUME NEW S, NEW s \in Seq(S), NEW b \in S
  PROVE  Append(s, b) \in Seq(S) /\ Range(Append(s, b)) = Range(s) \cup {b}
<1> DEFINE t == Append(s, b)
           n == Len(s)
<1>1. n \in Nat /\ DOMAIN s = 1..n /\ t \in Seq(S) /\ DOMAIN t = 1..(n + 1)
  OBVIOUS
<1>2. t[n + 1] = b /\ \A i \in 1..n : t[i] = s[i]
  OBVIOUS
<1>3. \A i : i \in 1..(n + 1) <=> i \in 1..n \/ i = n + 1
  BY <1>1
<1> HIDE DEF t, n
<1>4. Range(t) = Range(s) \cup {b}
  BY <1>1, <1>2, <1>3 DEF Range
<1> QED
  BY <1>1, <1>4 DEF t

LEMMA ByPriorityInOrder ==
  ASSUME NEW C \in SUBSET Slice, IsFiniteSet(C), \A s, t \in C : s.id = t.id => s = t
  PROVE  /\ Cardinality(C) \in Nat
         /\ ByPriority(C) \in [1..Cardinality(C) -> C]
         /\ \A a \in C : \E i \in 1..Cardinality(C) : ByPriority(C)[i] = a
         /\ \A i, j \in 1..Cardinality(C) : i < j => Before(ByPriority(C)[i], ByPriority(C)[j])
<1> DEFINE R == {p \in C \X C : Before(p[1], p[2])}
           n == Cardinality(C)
           InOrder(s) == \A i, j \in DOMAIN s : i < j => Before(s[i], s[j])
           r == ByPriority(C)
<1>1. \A b \in C : b.id \in Nat /\ b.priority \in Nat
  BY SliceType
<1>2. \A a, b \in C : <<a, b>> \in R <=> Before(a, b)
  OBVIOUS
<1>3. StrictlyOrders(R, C)
  <2>1. \A a \in C : ~Before(a, a)
    BY <1>1 DEF Before
  <2>2. \A a, b, c \in C : Before(a, b) /\ Before(b, c) => Before(a, c)
    BY <1>1 DEF Before
  <2>3. \A a, b \in C : a # b => Before(a, b) \/ Before(b, a)
    BY <1>1 DEF Before
  <2> HIDE DEF R
  <2> QED
    BY <1>2, <2>1, <2>2, <2>3, Zenon DEF StrictlyOrders
<1>4. n \in Nat /\ IsFiniteSet(1..n) /\ Cardinality(1..n) = n
  <2>1. n \in Nat
    BY FS_CardinalityType
  <2> HIDE DEF n
  <2> QED
    BY <2>1, FS_Interval
<1>5. PICK s \in [1..n -> C] : \A i, j \in 1..n : i < j => <<s[i], s[j]>> \in R
  <2> HIDE DEF R, n
  <2> QED
    BY <1>3, <1>4, Enumerable DEF n
<1>6. \A i, j \in 1..n : i < j => Before(s[i], s[j])
  BY <1>2, <1>5
<1>7. s \in SetToSeqs(C) /\ InOrder(s)
  <2>1. \A i, j \in 1..n : i # j => s[i] # s[j]
    <3> SUFFICES ASSUME NEW i \in 1..n, NEW j \in 1..n, i # j PROVE s[i] # s[j]
      OBVIOUS
    <3>1. i < j \/ j < i
      BY <1>4
    <3>2. Before(s[i], s[j]) \/ Before(s[j], s[i])
      BY <1>6, <3>1
    <3>3. s[i] \in C
      OBVIOUS
    <3> QED
      BY <1>1, <3>2, <3>3 DEF Before
  <2> QED
    BY <1>6, <2>1 DEF SetToSeqs
<1>8. r \in SetToSeqs(C) /\ InOrder(r)
  <2>1. \E q \in SetToSeqs(C) : InOrder(q)
    BY <1>7
  <2> QED
    BY <2>1 DEF ByPriority
<1>9. r \in [1..n -> C] /\ \A i, j \in 1..n : i # j => r[i] # r[j]
  BY <1>8 DEF SetToSeqs
<1> HIDE DEF r
<1>10. r \in Injection(1..n, C)
  BY <1>9 DEF Injection, IsInjective
<1>11. r \in Surjection(1..n, C)
  <2> HIDE DEF n
  <2> QED
    BY <1>4, <1>10, FS_Injection DEF n
<1> QED
  BY <1>4, <1>8, <1>9, <1>11 DEF Surjection, r

-----------------------------------------------------------------------------
(* The turns of a region *)

FrameTypes == [keep : Seq(Slice), used : Nat, dropped : Seq(Slice)]

LEMMA PlaceTypes ==
  ASSUME NEW f \in FrameTypes, NEW b \in Slice
  PROVE  Place(f, b) \in FrameTypes
<1>1. f.used + b.size \in Nat /\ Append(f.keep, b) \in Seq(Slice) /\ Append(f.dropped, b) \in Seq(Slice)
  BY SliceType DEF FrameTypes
<1> QED
  BY <1>1 DEF Place, FrameTypes

PackTurns(h, n, region) ==
  /\ h[0] = EmptyFrame
  /\ \A m \in 1..n : h[m] = Place(h[m - 1], ByPriority(Offered(region))[m])
  /\ PackRegion(region) = h[n]

LEMMA PackFold ==
  ASSUME NEW region, NEW n \in Nat, ByPriority(Offered(region)) \in [1..n -> Slice]
  PROVE  \E h \in [0..n -> FrameTypes] : PackTurns(h, n, region)
<1> DEFINE s == ByPriority(Offered(region))
           placing == [p \in (1..n) \X FrameTypes |-> Place(p[2], s[p[1]])]
           Follows(g) == g = [t \in SUBSET (1..n) |-> IF t = {} THEN EmptyFrame
                                                     ELSE Place(g[t \ {Max(t)}], s[Max(t)])]
           it == CHOOSE g : Follows(g)
<1>1. EmptyFrame \in FrameTypes
  BY DEF EmptyFrame, FrameTypes
<1>2. placing \in [(1..n) \X FrameTypes -> FrameTypes]
  BY PlaceTypes
<1>3. PICK g \in [SUBSET (1..n) -> FrameTypes] : LeftRecursion(g, n, EmptyFrame, placing)
  <2> HIDE DEF placing
  <2> QED
    BY <1>1, <1>2, LeftRecursionExists
<1>4. Follows(g)
  <2>1. ASSUME NEW t \in SUBSET (1..n), t # {}
        PROVE  placing[<<Max(t), g[t \ {Max(t)}]>>] = Place(g[t \ {Max(t)}], s[Max(t)])
    <3>1. Max(t) \in 1..n
      BY <2>1, MaxIsIn
    <3> QED
      BY <1>3, <3>1
  <2> HIDE DEF placing
  <2> QED
    BY <1>3, <2>1 DEF LeftRecursion
<1>5. Follows(it)
  <2> HIDE DEF Follows
  <2> QED
    BY <1>4
<1>6. PackRegion(region) = it[1..n]
  <2>1. DOMAIN s = 1..n
    OBVIOUS
  <2> QED
    BY <2>1 DEF PackRegion, FoldLeft, MapThenFoldSet
<1> HIDE DEF it
<1>7. it[{}] = EmptyFrame
  BY <1>5
<1>8. ASSUME NEW t \in SUBSET (1..n), t # {}, it[t \ {Max(t)}] \in FrameTypes
      PROVE  it[t] = placing[<<Max(t), it[t \ {Max(t)}]>>]
  <2>1. Max(t) \in 1..n
    BY <1>8, MaxIsIn
  <2>2. it[t] = Place(it[t \ {Max(t)}], s[Max(t)])
    BY <1>5, <1>8
  <2> QED
    BY <1>8, <2>1, <2>2
<1>9. FollowsIn(FrameTypes, it, n, EmptyFrame, placing)
  <2> HIDE DEF placing
  <2> QED
    BY <1>7, <1>8 DEF FollowsIn
<1>10. PICK h \in [0..n -> FrameTypes] : Turns(h, n, EmptyFrame, placing, it[1..n])
  <2> HIDE DEF placing
  <2> QED
    BY <1>1, <1>2, <1>9, LeftTurns
<1>11. ASSUME NEW m \in 1..n
       PROVE  h[m] = Place(h[m - 1], s[m])
  <2>1. m - 1 \in 0..n
    OBVIOUS
  <2> QED
    BY <1>10, <2>1 DEF Turns
<1> QED
  BY <1>6, <1>10, <1>11 DEF Turns, PackTurns

(* What is kept and dropped of the slices considered so far.               *)
Packs(f, seen, region) ==
  LET kept == Range(f.keep)
      dropped == Range(f.dropped)
  IN /\ kept \cup dropped = seen /\ kept \cap dropped = {}
     /\ f.used = Bytes(kept) /\ f.used <= Limit[region]
     /\ \A s \in dropped : Bytes({t \in kept : Before(t, s)}) + s.size > Limit[region]

(* A slice is considered after all that rank before it, so those that are  *)
(* kept later do not change what a dropped one did not fit beside.         *)
LEMMA PlacePacks ==
  ASSUME NEW f \in FrameTypes, NEW seen \in SUBSET Slice, IsFiniteSet(seen), NEW region, Packs(f, seen, region),
         NEW b \in Slice, b \notin seen, b.region = region, \A s \in seen : Before(s, b)
  PROVE  Packs(Place(f, b), seen \cup {b}, region)
<1> DEFINE K == Range(f.keep)
           D == Range(f.dropped)
           g == Place(f, b)
<1>1. /\ K \cup D = seen /\ K \cap D = {} /\ f.used = Bytes(K) /\ f.used <= Limit[region]
      /\ \A s \in D : Bytes({t \in K : Before(t, s)}) + s.size > Limit[region]
  BY DEF Packs
<1>2. f.keep \in Seq(Slice) /\ f.dropped \in Seq(Slice) /\ f.used \in Nat
  BY DEF FrameTypes
<1>3. \A s \in seen : ~Before(b, s)
  <2> SUFFICES ASSUME NEW s \in seen PROVE ~Before(b, s)
    OBVIOUS
  <2>1. s.id \in Nat /\ s.priority \in Nat /\ b.id \in Nat /\ b.priority \in Nat
    BY SliceType
  <2> QED
    BY <2>1 DEF Before
<1>4. b.size \in Nat /\ Limit[region] \in Nat
  BY SliceType
<1>7. Bytes(K) = f.used /\ Bytes(K) \in Nat
  BY <1>1, <1>2
<1>5. CASE f.used + b.size <= Limit[region]
  <2>1. /\ g.keep = Append(f.keep, b) /\ g.used = f.used + b.size /\ g.dropped = f.dropped
    BY <1>5 DEF Place, FrameTypes
  <2>2. Range(g.keep) = K \cup {b} /\ Range(g.dropped) = D
    BY <1>2, <2>1, LongerRange
  <2> HIDE DEF K, D, g
  <2>3. Bytes(K \cup {b}) = Bytes(K) + b.size
    <3>1. IsFiniteSet(K) /\ IsFiniteSet(K \cup {b})
      BY <1>1, FS_Subset, FS_AddElement
    <3>4. K \cup {b} \in SUBSET Slice /\ (K \cup {b}) \ {b} = K
      BY <1>1
    <3>2. Bytes(K \cup {b}) = b.size + Bytes((K \cup {b}) \ {b})
      BY <3>1, <3>4, BytesAdd
    <3>3. Bytes(K \cup {b}) = b.size + Bytes(K)
      BY <3>2, <3>4, Zenon
    <3> QED
      BY <1>4, <1>7, <3>3
  <2>4. \A s \in D : {t \in K \cup {b} : Before(t, s)} = {t \in K : Before(t, s)}
    BY <1>1, <1>3
  <2> QED
    BY <1>1, <1>2, <1>4, <1>5, <2>1, <2>2, <2>3, <2>4 DEF Packs, g
<1>6. CASE ~(f.used + b.size <= Limit[region])
  <2>1. /\ g.keep = f.keep /\ g.used = f.used /\ g.dropped = Append(f.dropped, b)
    BY <1>6 DEF Place, FrameTypes
  <2>2. Range(g.keep) = K /\ Range(g.dropped) = D \cup {b}
    BY <1>2, <2>1, LongerRange
  <2> HIDE DEF K, D, g
  <2>3. {t \in K : Before(t, b)} = K
    BY <1>1
  <2>4. Bytes({t \in K : Before(t, b)}) + b.size > Limit[region]
    <3>1. Bytes({t \in K : Before(t, b)}) = f.used
      BY <1>7, <2>3, Zenon
    <3> QED
      BY <1>2, <1>4, <1>6, <3>1
  <2>5. K \cup (D \cup {b}) = seen \cup {b} /\ K \cap (D \cup {b}) = {}
    BY <1>1
  <2>6. \A s \in D \cup {b} : Bytes({t \in K : Before(t, s)}) + s.size > Limit[region]
    BY <1>1, <2>4
  <2> QED
    BY <1>1, <2>1, <2>2, <2>5, <2>6 DEF Packs, g
<1> QED
  BY <1>5, <1>6

LEMMA RegionPacks ==
  ASSUME slices \in Seq(Slice), Distinct, NEW region \in Region
  PROVE  /\ Packs(PackRegion(region), Offered(region), region)
         /\ IsFiniteSet(Offered(region)) /\ Offered(region) \in SUBSET Slice
<1> DEFINE C == Offered(region)
           n == Cardinality(C)
           s == ByPriority(C)
           Seen(m) == {s[i] : i \in 1..m}
<1>1. IsFiniteSet(C) /\ C \in SUBSET Slice /\ (\A a, b \in C : a.id = b.id => a = b) /\ \A a \in C : a.region = region
  BY ListRange, FS_Subset DEF Offered, Distinct
<1>2. /\ n \in Nat /\ s \in [1..n -> C] /\ \A a \in C : \E i \in 1..n : s[i] = a
      /\ \A i, j \in 1..n : i < j => Before(s[i], s[j])
  <2> HIDE DEF C
  <2> QED
    BY <1>1, ByPriorityInOrder
<1> HIDE DEF n
<1>3. PICK h \in [0..n -> FrameTypes] : PackTurns(h, n, region)
  BY <1>1, <1>2, PackFold
<1> DEFINE G == {m \in 0..n : Packs(h[m], Seen(m), region)}
<1> HIDE DEF C, s
<1>4. 0 \in G
  <2>1. Seen(0) = {}
    OBVIOUS
  <2>2. h[0] = EmptyFrame
    BY <1>3 DEF PackTurns
  <2>3. Range(<<>>) = {}
    BY DEF Range
  <2>4. Bytes({}) = 0 /\ Limit[region] \in Nat
    <3>1. {} \in SUBSET Slice /\ IsFiniteSet({})
      BY FS_EmptySet
    <3> QED
      BY <3>1, BytesAdd, FramesAssumption DEF FramesAssumption
  <2>5. Packs(EmptyFrame, {}, region)
    <3>1. EmptyFrame.keep = <<>> /\ EmptyFrame.dropped = <<>> /\ EmptyFrame.used = 0
      BY DEF EmptyFrame
    <3>2. 0 <= Limit[region]
      BY <2>4
    <3> QED
      BY <2>3, <2>4, <3>1, <3>2, Zenon DEF Packs
  <2> HIDE DEF Seen
  <2>6. 0 \in 0..n
    BY <1>2
  <2>7. Packs(h[0], Seen(0), region)
    BY <2>1, <2>2, <2>5
  <2> QED
    BY <2>6, <2>7
<1>5. ASSUME NEW m \in 0..(n - 1), m \in G
      PROVE  m + 1 \in G
  <2>1. m + 1 \in 1..n /\ m + 1 \in 0..n /\ m \in 0..n /\ (m + 1) - 1 = m /\ m \in Nat
    BY <1>2
  <2>2. h[m + 1] = Place(h[m], s[m + 1])
    BY <1>3, <2>1 DEF PackTurns, s, C
  <2>3. Seen(m + 1) = Seen(m) \cup {s[m + 1]}
    <3>1. \A i : i \in 1..(m + 1) <=> i \in 1..m \/ i = m + 1
      BY <2>1
    <3> QED
      BY <3>1
  <2>4. Seen(m) \in SUBSET C /\ Seen(m) \in SUBSET Slice /\ IsFiniteSet(Seen(m))
    <3>1. \A i \in 1..m : i \in 1..n
      BY <1>2, <2>1
    <3>2. Seen(m) \in SUBSET C
      BY <1>2, <3>1
    <3> HIDE DEF Seen
    <3> QED
      BY <1>1, <3>2, FS_Subset
  <2>5. s[m + 1] \in C /\ \A a \in Seen(m) : Before(a, s[m + 1])
    <3>1. \A i \in 1..m : i \in 1..n /\ i < m + 1
      BY <1>2, <2>1
    <3> QED
      BY <1>2, <2>1, <3>1
  <2>6. s[m + 1] \notin Seen(m)
    <3>1. s[m + 1].id \in Nat /\ s[m + 1].priority \in Nat
      BY <1>1, <2>5, SliceType
    <3>2. ~Before(s[m + 1], s[m + 1])
      BY <3>1 DEF Before
    <3> QED
      BY <2>5, <3>2
  <2>7. Packs(h[m], Seen(m), region) /\ h[m] \in FrameTypes
    BY <1>5, <2>1
  <2> HIDE DEF Seen
  <2>8. Packs(Place(h[m], s[m + 1]), Seen(m) \cup {s[m + 1]}, region)
    BY <1>1, <2>4, <2>5, <2>6, <2>7, PlacePacks
  <2> QED
    BY <2>1, <2>2, <2>3, <2>8
<1>6. Packs(h[n], Seen(n), region)
  <2> HIDE DEF G
  <2>1. 0..n \subseteq G
    BY <1>2, <1>4, <1>5, UpTo
  <2>2. n \in G
    BY <1>2, <2>1
  <2> QED
    BY <2>2 DEF G
<1>7. Seen(n) = C
  BY <1>2
<1> HIDE DEF Seen
<1> QED
  BY <1>1, <1>3, <1>6, <1>7 DEF PackTurns, C

FramesInv == slices \in Seq(Slice) /\ Distinct /\ PackSound

LEMMA CollectKeepsFrames ==
  ASSUME FramesInv, NEW s \in Slice, CollectSlice(s)
  PROVE  FramesInv'
<1>1. slices' \in Seq(Slice) /\ Range(slices') = Range(slices) \cup {s}
  BY LongerRange DEF FramesInv, CollectSlice
<1>2. Distinct'
  BY <1>1 DEF FramesInv, CollectSlice, Distinct
<1>3. packed' = <<>> /\ ~refused'
  BY DEF CollectSlice
<1>4. DOMAIN packed' = {}
  BY <1>3
<1>5. PackSound'
  BY <1>3, <1>4, Zenon DEF PackSound
<1> QED
  BY <1>1, <1>2, <1>5 DEF FramesInv

LEMMA PackKeepsFrames ==
  ASSUME FramesInv, Pack
  PROVE  FramesInv'
<1>1. slices' = slices /\ packed = <<>> /\ ~refused
  BY DEF Pack
<1>2. slices' \in Seq(Slice) /\ Distinct'
  BY <1>1 DEF FramesInv, Distinct
<1>3. \A region : Offered(region)' = Offered(region)
  BY <1>1 DEF Offered
<1>4. CASE /\ packed' = Frames /\ refused' = refused
           /\ \A region \in Region : \A s \in Range(PackRegion(region).dropped) : ~Required(s)
  <2>1. DOMAIN packed' = Region /\ \A region \in Region : packed'[region] = PackRegion(region)
    BY <1>4 DEF Frames
  <2>2. \A region \in Region : Packs(PackRegion(region), Offered(region), region)
    BY RegionPacks DEF FramesInv
  <2>3. PackSound'
    BY <1>1, <1>3, <1>4, <2>1, <2>2 DEF PackSound, Packs
  <2> QED
    BY <1>2, <2>3 DEF FramesInv
<1>5. CASE packed' = packed /\ \E region \in Region : \E s \in Range(PackRegion(region).dropped) : Required(s)
  <2>0. PICK region \in Region : \E s \in Range(PackRegion(region).dropped) : Required(s)
    BY <1>5
  <2>1. PICK s \in Range(PackRegion(region).dropped) : Required(s)
    BY <2>0
  <2> DEFINE C == Offered(region)
             K == Range(PackRegion(region).keep)
             kept == {t \in K : Before(t, s)}
             ahead == {t \in C : Before(t, s)}
  <2>2. /\ IsFiniteSet(C) /\ C \in SUBSET Slice /\ s \in C /\ K \subseteq C
        /\ Bytes(kept) + s.size > Limit[region]
    BY <2>1, RegionPacks DEF FramesInv, Packs
  <2>3. /\ IsFiniteSet(ahead) /\ ahead \in SUBSET Slice /\ kept \in SUBSET ahead
        /\ IsFiniteSet(kept) /\ kept \in SUBSET Slice
    BY <2>2, FS_Subset
  <2>4. s.size \in Nat /\ Limit[region] \in Nat
    BY <2>2, SliceType, FramesAssumption DEF FramesAssumption
  <2> HIDE DEF C, K, kept
  <2>5. Bytes(ahead) + s.size > Limit[region]
    <3> HIDE DEF ahead
    <3>1. Bytes(ahead) \in Nat /\ Bytes(kept) \in Nat /\ Bytes(kept) <= Bytes(ahead)
      BY <2>3, BytesAdd
    <3> QED
      BY <2>2, <2>4, <3>1
  <2>6. s \in Offered(region) /\ Required(s) /\ Bytes({t \in Offered(region) : Before(t, s)}) + s.size > Limit[region]
    BY <2>1, <2>2, <2>5 DEF C
  <2>7. DOMAIN packed' = {}
    BY <1>1, <1>5
  <2>8. PackSound'
    BY <1>3, <2>6, <2>7, Zenon DEF PackSound
  <2> QED
    BY <1>2, <2>8 DEF FramesInv
<1> QED
  BY <1>4, <1>5 DEF Pack

(* For any slices that arrive in any order: no region is overfull, no      *)
(* required slice is lost, and a slice is only dropped, or the call        *)
(* refused, because of what is preferred to it.                            *)
THEOREM PackingIsSound == FramesSpec => []PackSound
<1>1. FramesInit => FramesInv
  <2> SUFFICES ASSUME FramesInit PROVE FramesInv
    OBVIOUS
  <2>1. slices \in Seq(Slice) /\ Range(slices) = {} /\ DOMAIN packed = {} /\ ~refused
    BY DEF FramesInit, Range
  <2> QED
    BY <2>1 DEF FramesInv, Distinct, PackSound
<1>2. FramesInv /\ [FramesNext]_frameVars => FramesInv'
  <2> SUFFICES ASSUME FramesInv, UNCHANGED frameVars PROVE FramesInv'
    BY CollectKeepsFrames, PackKeepsFrames DEF FramesNext
  <2> QED
    BY DEF frameVars, FramesInv, Distinct, PackSound, Offered
<1>3. FramesInv => PackSound
  BY DEF FramesInv
<1> QED
  BY <1>1, <1>2, <1>3, PTL DEF FramesSpec

-----------------------------------------------------------------------------
(***************************************************************************)
(* For any number of plans: the session's events say what was done.  Only  *)
(* the last plan can be approved, because a new plan, a note, a stop and   *)
(* an approval all take the one before back.                               *)
(***************************************************************************)

EventKind == {"note", "plan", "stop"} \cup Outcomes
HandedOver == {p \in 1..MaxPlans : handed[p] > 0}

SessionInv ==
  /\ plans \in 0..MaxPlans /\ prepared \in 0..plans
  /\ revised \in Nat /\ basis \in Nat
  /\ trace \in Seq(EventKind)
  /\ handed \in [1..MaxPlans -> 0..1]
  /\ \A p \in 1..MaxPlans : p > plans => handed[p] = 0
  /\ ApprovesLatestPlan

LEMMA EventsCounted ==
  ASSUME trace \in Seq(EventKind), NEW event \in EventKind, Trace(event), NEW kinds
  PROVE  /\ Events(kinds) \in Nat
         /\ Events(kinds)' = IF event \in kinds THEN Events(kinds) + 1 ELSE Events(kinds)
<1> DEFINE E == {i \in DOMAIN trace : trace[i] \in kinds}
           n == Len(trace)
<1>1. n \in Nat /\ DOMAIN trace = 1..n
  OBVIOUS
<1>2. trace' = Append(trace, event) /\ DOMAIN trace' = 1..(n + 1)
  BY DEF Trace
<1>3. trace'[n + 1] = event /\ \A i \in 1..n : trace'[i] = trace[i]
  BY <1>1, <1>2
<1>4. n + 1 \notin 1..n /\ \A i : i \in 1..(n + 1) <=> i \in 1..n \/ i = n + 1
  BY <1>1
<1>5. E' = IF event \in kinds THEN E \cup {n + 1} ELSE E
  <2> HIDE DEF n
  <2>1. \A i : i \in E' <=> i \in 1..(n + 1) /\ trace'[i] \in kinds
    BY <1>2
  <2>2. \A i : i \in E <=> i \in 1..n /\ trace[i] \in kinds
    BY <1>1
  <2> HIDE DEF E
  <2> QED
    BY <1>3, <1>4, <2>1, <2>2
<1>6. IsFiniteSet(E) /\ n + 1 \notin E
  <2>1. IsFiniteSet(1..n) /\ E \in SUBSET (1..n)
    BY <1>1, FS_Interval
  <2> QED
    BY <1>4, <2>1, FS_Subset
<1>7. Events(kinds) = Cardinality(E) /\ Events(kinds)' = Cardinality(E')
  BY DEF Events
<1> HIDE DEF E
<1>8. Cardinality(E) \in Nat /\ Cardinality(E \cup {n + 1}) = Cardinality(E) + 1
  BY <1>6, FS_CardinalityType, FS_AddElement
<1> QED
  BY <1>5, <1>7, <1>8

(* A line that hands nothing over: the events of Outcomes stay as they     *)
(* are, and the revision counts its own events.                            *)
Line(event) ==
  /\ Trace(event) /\ handed' = handed
  /\ plans' \in {plans, plans + 1} /\ plans' \in 0..MaxPlans
  /\ prepared' # 0 => prepared' = plans' /\ plans' = plans + 1 /\ basis' = revised'
  /\ revised' = IF event = "note" THEN revised + 1 ELSE revised
  /\ basis' \in Nat

LEMMA LineKeeps ==
  ASSUME SessionInv, NEW event \in {"note", "plan", "stop"}, Line(event)
  PROVE  SessionInv'
<1> USE DEF Line
<1>1. trace \in Seq(EventKind) /\ event \in EventKind
  BY DEF SessionInv, EventKind
<1>2. trace' \in Seq(EventKind)
  BY <1>1 DEF Trace
<1>3. Events(Outcomes) \in Nat /\ Events(Outcomes)' = Events(Outcomes)
  BY <1>1, EventsCounted DEF Outcomes
<1>4. /\ Events({"note", "executed"}) \in Nat
      /\ Events({"note", "executed"})' =
           IF event = "note" THEN Events({"note", "executed"}) + 1 ELSE Events({"note", "executed"})
  BY <1>1, EventsCounted
<1>5. MaxPlans \in Nat
  BY SessionAssumption DEF SessionAssumption
<1>6. \A p \in 1..MaxPlans : p > plans' => handed'[p] = 0
  BY <1>5 DEF SessionInv
<1>7. plans' # plans => plans' = plans + 1 /\ plans + 1 \in 1..MaxPlans /\ handed[plans + 1] = 0
  BY <1>5 DEF SessionInv
<1>8. prepared' # 0 => prepared' = plans' /\ basis' = revised' /\ handed'[prepared'] = 0
  BY <1>5, <1>7 DEF SessionInv
<1>9. revised' = 1 + Events({"note", "executed"})' /\ revised' \in Nat
  BY <1>4 DEF SessionInv, ApprovesLatestPlan
<1>10. ApprovesLatestPlan'
  BY <1>3, <1>8, <1>9 DEF SessionInv, ApprovesLatestPlan
<1> QED
  BY <1>2, <1>5, <1>6, <1>9, <1>10 DEF SessionInv

LEMMA ApproveKeeps ==
  ASSUME SessionInv, NEW ending \in Outcomes, Approve(ending)
  PROVE  SessionInv'
<1>1. /\ prepared # 0 /\ prepared' = 0 /\ plans' = plans /\ basis' = basis
      /\ handed' = [handed EXCEPT ![prepared] = @ + 1]
      /\ revised' = IF ending = "executed" THEN revised + 1 ELSE revised
      /\ Trace(ending)
  BY DEF Approve
<1>2. trace \in Seq(EventKind) /\ ending \in EventKind
  BY DEF SessionInv, EventKind
<1>3. trace' \in Seq(EventKind)
  BY <1>1, <1>2 DEF Trace
<1>4. Events(Outcomes) \in Nat /\ Events(Outcomes)' = Events(Outcomes) + 1
  BY <1>1, <1>2, EventsCounted
<1>5. /\ Events({"note", "executed"}) \in Nat
      /\ Events({"note", "executed"})' =
           IF ending = "executed" THEN Events({"note", "executed"}) + 1 ELSE Events({"note", "executed"})
  BY <1>1, <1>2, EventsCounted DEF Outcomes
<1>6. MaxPlans \in Nat /\ prepared \in 1..MaxPlans /\ prepared = plans /\ handed[prepared] = 0
  BY <1>1, SessionAssumption DEF SessionInv, ApprovesLatestPlan, SessionAssumption
<1>7. /\ handed' \in [1..MaxPlans -> 0..1] /\ handed'[prepared] = 1
      /\ \A p \in 1..MaxPlans : p # prepared => handed'[p] = handed[p]
  BY <1>1, <1>6 DEF SessionInv
<1>8. Cardinality(HandedOver') = Cardinality(HandedOver) + 1
  <2>1. HandedOver' = HandedOver \cup {prepared} /\ prepared \notin HandedOver
    BY <1>6, <1>7 DEF HandedOver
  <2>2. IsFiniteSet(HandedOver)
    <3>1. IsFiniteSet(1..MaxPlans) /\ HandedOver \in SUBSET (1..MaxPlans)
      BY <1>6, FS_Interval DEF HandedOver
    <3> QED
      BY <3>1, FS_Subset
  <2> QED
    BY <2>1, <2>2, FS_AddElement
<1>9. ApprovesLatestPlan'
  BY <1>1, <1>4, <1>5, <1>6, <1>7, <1>8 DEF SessionInv, ApprovesLatestPlan, HandedOver
<1> QED
  BY <1>1, <1>3, <1>6, <1>7, <1>9 DEF SessionInv

LEMMA SessionStep == SessionInv /\ [SessionNext]_sessionVars => SessionInv'
<1> SUFFICES ASSUME SessionInv, [SessionNext]_sessionVars PROVE SessionInv'
  OBVIOUS
<1>1. plans \in 0..MaxPlans /\ MaxPlans \in Nat /\ revised \in Nat /\ basis \in Nat
  BY SessionAssumption DEF SessionInv, SessionAssumption
<1>2. CASE UNCHANGED sessionVars
  BY <1>2 DEF sessionVars, SessionInv, ApprovesLatestPlan, Events
<1>3. CASE Note
  <2>1. Line("note")
    BY <1>1, <1>3 DEF Note, Line
  <2> QED
    BY <2>1, LineKeeps
<1>4. CASE PlanRaises
  <2>1. /\ plans' = plans + 1 /\ prepared' = 0 /\ plans' \in 0..MaxPlans
        /\ revised' = revised /\ basis' = basis /\ trace' = trace /\ handed' = handed
    BY <1>1, <1>4 DEF PlanRaises
  <2>2. \A p \in 1..MaxPlans : p > plans' => handed'[p] = 0
    BY <1>1, <2>1 DEF SessionInv
  <2> QED
    BY <1>1, <2>1, <2>2 DEF SessionInv, ApprovesLatestPlan, Events
<1>5. CASE Stop
  <2>1. Line("stop")
    BY <1>1, <1>5 DEF Stop, Line
  <2> QED
    BY <2>1, LineKeeps
<1>6. ASSUME NEW ready \in BOOLEAN, Plan(ready)
      PROVE  SessionInv'
  <2>1. Line("plan")
    BY <1>1, <1>6 DEF Plan, Line
  <2> QED
    BY <2>1, LineKeeps
<1>7. CASE \E ending \in Outcomes : Approve(ending)
  BY <1>7, ApproveKeeps
<1> QED
  BY <1>2, <1>3, <1>4, <1>5, <1>6, <1>7 DEF SessionNext

LEMMA SessionStarts == SessionInit => SessionInv
<1> SUFFICES ASSUME SessionInit PROVE SessionInv
  OBVIOUS
<1>1. MaxPlans \in Nat
  BY SessionAssumption DEF SessionAssumption
<1>2. handed \in [1..MaxPlans -> 0..1] /\ \A p \in 1..MaxPlans : handed[p] = 0
  BY DEF SessionInit
<1>3. \A kinds : Events(kinds) = 0
  <2>1. \A kinds : {i \in DOMAIN trace : trace[i] \in kinds} = {}
    BY DEF SessionInit
  <2> QED
    BY <2>1, FS_EmptySet DEF Events
<1>4. Cardinality({p \in 1..MaxPlans : handed[p] > 0}) = 0
  <2>1. {p \in 1..MaxPlans : handed[p] > 0} = {}
    BY <1>2
  <2> QED
    BY <2>1, FS_EmptySet
<1> QED
  BY <1>1, <1>2, <1>3, <1>4 DEF SessionInit, SessionInv, ApprovesLatestPlan

(* An approval is of the last plan, made for the task as it is, and is     *)
(* given once; the trace has every attempt and every revision.             *)
THEOREM SessionApprovesLatestPlan == SessionSpec => []ApprovesLatestPlan
<1>1. SessionInv => ApprovesLatestPlan
  BY DEF SessionInv
<1> QED
  BY <1>1, SessionStarts, SessionStep, PTL DEF SessionSpec
=============================================================================
