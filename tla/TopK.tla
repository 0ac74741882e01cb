-------------------------------- MODULE TopK --------------------------------
(***************************************************************************)
(* TopKBuilder.construct (src/jev_agent/topk.py): a value is grown token   *)
(* by token.  In each turn the helper ranks tokens, the tokens that keep   *)
(* the value valid are offered beside the controls, and the chooser may    *)
(* answer anything, also what was not offered.                             *)
(*                                                                         *)
(* A LogitsState is the sequence of its token ids; the state the code      *)
(* works on is the last one of its history.  Predicates of the caller are  *)
(* sets of such sequences.                                                 *)
(***************************************************************************)
EXTENDS Naturals, Sequences, FiniteSets

CONSTANTS
  Token, Eos,       \* the vocabulary
  Complete,         \* the values that are complete
  Valid,            \* the values prefix_valid accepts
  Endable,          \* the values allow_end accepts
  HasEnd,           \* allow_end is given
  AllowEos,         \* allow_eos
  MinOutput,        \* min_output_tokens
  InitialK, MaxK,   \* initial_k, max_k
  ChoiceCap,        \* choice_cap; without one, a number that is large enough
  MaxTokens,        \* max_tokens: the turns of the loop
  MaxBacktracks,    \* max_backtracks
  MaxChoiceCalls, MaxHelperCalls

EndSlot == IF HasEnd THEN 1 ELSE 0
Recovery == {"REPROPOSE", "BACKTRACK", "LOOKUP", "CLARIFY", "STOP_UNRESOLVED"}

ASSUME TopKAssumption ==
  /\ IsFiniteSet(Token) /\ Eos \notin Token
  /\ (Token \cup {Eos}) \cap (Recovery \cup {"FINISH", "EXPAND_K", "END_DIALOGUE"}) = {}
  /\ HasEnd \in BOOLEAN /\ AllowEos \in BOOLEAN
  /\ InitialK \in Nat \ {0} /\ MaxK \in Nat \ {0} /\ MinOutput \in Nat
  /\ ChoiceCap \in Nat /\ ChoiceCap >= 8 + EndSlot
  /\ MaxTokens \in Nat /\ MaxBacktracks \in Nat
  /\ MaxChoiceCalls \in Nat /\ MaxHelperCalls \in Nat

VARIABLES
  k, choices, helperCalls, backtracks,  \* as in the code; choices is their number
  step,        \* the turns taken
  history,     \* history, whose last element is state
  ranked,      \* tokens: what the helper returned for this turn
  candidates,  \* candidate_states: token -> the state it leads to
  options,     \* the ids offered
  phase,       \* "turn", "ranked", "choosing" or "done"
  result,      \* the status construct returns
  expired      \* the time budget is spent

turnVars == <<ranked, candidates, options>>
topkVars == <<k, choices, helperCalls, backtracks, step, history, turnVars, phase, result, expired>>

TopKInit ==
  /\ k = InitialK
  /\ choices = 0 /\ helperCalls = 0 /\ backtracks = 0 /\ step = 0
  /\ history = << <<>> >>
  /\ ranked = {} /\ candidates = <<>> /\ options = {}
  /\ phase = "turn" /\ result = "none" /\ expired = FALSE

state == history[Len(history)]
Finished == state \in Complete
CanEnd == HasEnd /\ Len(state) >= MinOutput

Controls ==
  Recovery
    \cup (IF Finished THEN {"FINISH"} ELSE {})
    \cup (IF k < MaxK THEN {"EXPAND_K"} ELSE {})
    \cup (IF CanEnd THEN {"END_DIALOGUE"} ELSE {})

(* The code counts the controls before it lists them. *)
ControlCount ==
  5 + (IF Finished THEN 1 ELSE 0) + (IF k < MaxK THEN 1 ELSE 0) + (IF CanEnd THEN 1 ELSE 0)

\* Mutant: the end of the dialogue takes no slot.
OfferedKWithoutEnd ==
  LET room == ChoiceCap - (5 + (IF Finished THEN 1 ELSE 0) + (IF k < MaxK THEN 1 ELSE 0))
  IN IF k < room THEN k ELSE room

OfferedK == LET room == ChoiceCap - ControlCount IN IF k < room THEN k ELSE room

-----------------------------------------------------------------------------
Ends(status) ==
  /\ phase' = "done" /\ result' = status
  /\ UNCHANGED <<k, backtracks, history, turnVars, expired>>

BudgetSpent == choices >= MaxChoiceCalls \/ helperCalls >= MaxHelperCalls \/ expired

RunOut ==
  /\ phase = "turn"
  /\ step = MaxTokens \/ BudgetSpent
  /\ Ends("budget_exhausted")
  /\ UNCHANGED <<choices, helperCalls, step>>

(* next_top_k, cut to the number asked for. *)
Rank(tokens) ==
  /\ phase = "turn" /\ step < MaxTokens /\ ~BudgetSpent
  /\ tokens \subseteq Token \cup {Eos} /\ Cardinality(tokens) <= OfferedK
  /\ ranked' = tokens
  /\ helperCalls' = helperCalls + 1
  /\ phase' = "ranked"
  /\ UNCHANGED <<k, choices, backtracks, step, history, candidates, options, result, expired>>

RankedLate ==
  /\ phase = "ranked" /\ expired
  /\ Ends("budget_exhausted")
  /\ UNCHANGED <<choices, helperCalls, step>>

Leads(t) == Append(state, t)
Usable == {t \in ranked \cap Token : Leads(t) \in Valid}

Offer ==
  /\ phase = "ranked" /\ ~expired
  /\ candidates' = [t \in Usable |-> Leads(t)]
  /\ options' = Usable \cup Controls
       \cup (IF AllowEos /\ Finished THEN ranked \cap {Eos} ELSE {})
  /\ phase' = "choosing"
  /\ UNCHANGED <<k, choices, helperCalls, backtracks, step, history, ranked, result, expired>>

-----------------------------------------------------------------------------
(* The chooser's answer; it counts whatever it is. *)

Answered ==
  /\ phase = "choosing"
  /\ choices' = choices + 1
  /\ UNCHANGED helperCalls

ChooseEnd ==
  /\ Answered
  /\ Ends(IF CanEnd /\ state \in Endable THEN "dialogue_complete" ELSE "premature_end")
  /\ UNCHANGED step

ChooseFinish ==
  /\ Answered
  /\ Ends(IF state \in Complete THEN "complete" ELSE "failed")
  /\ UNCHANGED step

(* The rest of the turn's variables are local to it. *)
NextTurn ==
  /\ phase' = "turn"
  /\ step' = step + 1
  /\ ranked' = {} /\ options' = {} /\ candidates' = <<>>
  /\ UNCHANGED <<result, expired>>

\* Mutant: the turn is taken again with a larger k and costs nothing.
ExpandAgain ==
  /\ phase = "choosing"
  /\ k' = IF 2 * k < MaxK THEN 2 * k ELSE MaxK
  /\ helperCalls' = helperCalls - 1
  /\ phase' = "turn"
  /\ ranked' = {} /\ options' = {} /\ candidates' = <<>>
  /\ UNCHANGED <<choices, step, result, expired, backtracks, history>>

(* min(max_k, max(k + 1, k * 2)), and k is positive *)
Expand ==
  /\ Answered
  /\ k' = IF 2 * k < MaxK THEN 2 * k ELSE MaxK
  /\ NextTurn
  /\ UNCHANGED <<backtracks, history>>

Backtrack ==
  /\ Answered
  /\ Len(history) > 1 /\ backtracks < MaxBacktracks
  /\ history' = SubSeq(history, 1, Len(history) - 1)
  /\ backtracks' = backtracks + 1
  /\ NextTurn
  /\ UNCHANGED k

BacktrackFails ==
  /\ Answered
  /\ Len(history) <= 1 \/ backtracks >= MaxBacktracks
  /\ Ends("failed")
  /\ UNCHANGED step

ChooseRecovery(status) ==
  /\ Answered
  /\ Ends(status)
  /\ UNCHANGED step

\* Mutant: a token is taken although prefix_valid has rejected it.
ChooseRanked(t) ==
  /\ Answered
  /\ t \in ranked \cap Token
  /\ history' = Append(history, Leads(t))
  /\ NextTurn
  /\ UNCHANGED <<k, backtracks>>

ChooseToken(t) ==
  /\ Answered
  /\ t \in options \cap Token
  /\ history' = Append(history, candidates[t])
  /\ NextTurn
  /\ UNCHANGED <<k, backtracks>>

ChooseEos ==
  /\ Answered
  /\ Eos \in options
  /\ Ends(IF state \in Complete THEN "complete" ELSE "failed")
  /\ UNCHANGED step

(* A token, or any other id, that is not among the options. *)
ChooseUnknown ==
  /\ Answered
  /\ Ends("failed")
  /\ UNCHANGED step

(* The helper, a predicate or the chooser raises: it leaves construct.     *)
CallbackRaises ==
  /\ phase # "done"
  /\ Ends("raised")
  /\ UNCHANGED <<choices, helperCalls, step>>

Recovered == {"repropose", "lookup_required", "clarification_required", "unresolved"}

Conclude ==
  \/ ChooseEnd \/ ChooseFinish \/ BacktrackFails
  \/ \E status \in Recovered : ChooseRecovery(status)
  \/ ChooseEos \/ ChooseUnknown

Grow == \E t \in Token : ChooseToken(t)
AskHelper == \E tokens \in SUBSET (Token \cup {Eos}) : Rank(tokens)
Aside == RunOut \/ RankedLate \/ Offer \/ CallbackRaises

Turn == AskHelper \/ Grow \/ Backtrack \/ Expand \/ Conclude \/ Aside

TimePasses == ~expired /\ expired' = TRUE
              /\ UNCHANGED <<k, choices, helperCalls, backtracks, step, history, turnVars, phase, result>>

TopKNext == Turn \/ (phase # "done" /\ TimePasses)

(* The loop runs in its thread; helper and chooser return or raise. *)
TopKSpec == TopKInit /\ [][TopKNext]_topkVars /\ WF_topkVars(Turn)

-----------------------------------------------------------------------------
(* Properties *)

(* The value is a chain of single tokens, each of which kept it valid,     *)
(* whatever was undone and offered again in between; it is called complete *)
(* only if it is.                                                          *)
FieldSound ==
  /\ \A i \in 1..(Len(history) - 1) :
       /\ history[i + 1] \in Valid
       /\ \E t \in Token : history[i + 1] = Append(history[i], t)
  /\ result = "complete" => state \in Complete
  /\ result = "dialogue_complete" => state \in Endable

(* The model is never asked with more options than the cap, and there is   *)
(* always room for a token among them, with every control that applies.    *)
OffersFit ==
  phase = "choosing" => Cardinality(options) <= ChoiceCap /\ OfferedK >= 1

(* construct returns, whatever is chosen.                                  *)
ConstructEnds == <>(phase = "done")
=============================================================================
