------------------------- MODULE MCCallConstruction -------------------------
(***************************************************************************)
(* The components a call is made with, side by side: the walk over the     *)
(* dependencies, the arguments of a call field by field, one field token   *)
(* by token, what is packed into a decision's context, and the session in  *)
(* which a user plans and approves calls.  A behaviour is one of the part  *)
(* that its initial state names, and the others rest.                      *)
(***************************************************************************)
EXTENDS MCAffectedBy, ArgumentInput, MCFastLogits, DecisionFrames, InteractiveSession

CONSTANTS f1, f2, f3

(* f3 depends on f1. *)
MCDependsOn == [f \in {f1, f2, f3} |-> IF f = f3 THEN {f1} ELSE {}]
MCPosition == [f \in {f1, f2, f3} |-> CASE f = f1 -> 1 [] f = f2 -> 2 [] OTHER -> 3]

(* build: a wave is what depends only on the waves before it. *)
Layers[n \in Nat] == IF n = 0 THEN {} ELSE {f \in Field : DependsOn[f] \subseteq Layers[n - 1]}
MCWaveOf == [f \in Field |-> CHOOSE n \in 1..Cardinality(Field) : f \in Layers[n] \ Layers[n - 1]]

MCLimit == [region \in {"pinned", "working"} |-> IF region = "pinned" THEN 2 ELSE 3]
MCSlice ==
  [id : 1..3, region : {"pinned"}, size : {1, 2}, priority : {0}, required : {FALSE}] \cup
  [id : 1..3, region : {"working"}, size : {1, 2}, priority : {0, 1}, required : BOOLEAN]

VARIABLE part

Parts == {"walk", "arguments", "field", "frames", "session"}
allVars == <<part, walkVars, inputVars, fastVars, frameVars, sessionVars>>

Init ==
  /\ part \in Parts
  /\ WalkInit /\ InputInit /\ FastInit /\ FramesInit /\ SessionInit
  /\ part # "walk" => changed = {}

Walking == part = "walk" /\ WalkNext
  /\ UNCHANGED <<part, inputVars, fastVars, frameVars, sessionVars>>
Building == part = "arguments" /\ InputNext
  /\ UNCHANGED <<part, walkVars, fastVars, frameVars, sessionVars>>
Constructing == part = "field" /\ FastNext
  /\ UNCHANGED <<part, walkVars, inputVars, frameVars, sessionVars>>
Packing == part = "frames" /\ FramesNext
  /\ UNCHANGED <<part, walkVars, inputVars, fastVars, sessionVars>>
InSession == part = "session" /\ SessionNext
  /\ UNCHANGED <<part, walkVars, inputVars, fastVars, frameVars>>

(* The function has returned; the session's bounds are reached. *)
Over ==
  /\ \/ part = "walk" /\ pending = {}
     \/ part = "arguments" /\ build = "done"
     \/ part = "field" /\ phase = "done"
     \/ part = "frames" /\ (packed # <<>> \/ refused)
     \/ part = "session" /\ Len(trace) = MaxEvents
  /\ UNCHANGED allVars

Next == Walking \/ Building \/ Constructing \/ Packing \/ InSession \/ Over

Fairness ==
  /\ WF_walkVars(part = "walk" /\ WalkNext)
  /\ WF_inputVars(part = "arguments" /\ Main)
  /\ \A f \in Field : WF_inputVars(part = "arguments" /\ Work(f))
  /\ WF_fastVars(part = "field" /\ FastNext)

CallSpec == Init /\ [][Next]_allVars /\ Fairness

-----------------------------------------------------------------------------
(* The walk ends on a cyclic graph; build returns whatever its callbacks   *)
(* answer; construct returns under any sequence of choices.                *)
CallsEnd ==
  /\ part = "walk" => WalkEnds
  /\ part = "arguments" => BuildEnds
  /\ part = "field" => ConstructEnds
=============================================================================
