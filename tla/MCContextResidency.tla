------------------------- MODULE MCContextResidency -------------------------
(* Three blocks for a working set of two, and a pinned one.                *)
EXTENDS ContextResidency

CONSTANTS k1, k2, k3, k4, x, y

IdOrder == [b \in Block |-> CASE b = k1 -> 1 [] b = k2 -> 2 [] b = k3 -> 3 [] OTHER -> 4]
Deps == [b \in Block |-> IF b = k1 THEN {x} ELSE {y}]
=============================================================================
