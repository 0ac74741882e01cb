------------------------------ MODULE MCVisible ------------------------------
(***************************************************************************)
(* The two managers that decide what a chooser gets to see, side by side:  *)
(* the resident options and the resident context blocks.  They share no    *)
(* state; a behaviour is one of the manager that its initial state names,  *)
(* and the other rests.                                                    *)
(***************************************************************************)
EXTENDS MCVirtualOption, MCContextResidency

VARIABLE part

VisibleInit == part \in {"options", "context"} /\ OptionInit /\ ResidencyInit

ManagingOptions == part = "options" /\ OptionNext /\ UNCHANGED <<part, residencyVars>>
ManagingContext == part = "context" /\ ResidencyNext /\ UNCHANGED <<part, optionVars>>

VisibleNext == ManagingOptions \/ ManagingContext

VisibleSpec == VisibleInit /\ [][VisibleNext]_<<part, optionVars, residencyVars>>
=============================================================================
