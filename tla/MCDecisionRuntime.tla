-------------------------- MODULE MCDecisionRuntime --------------------------
(* Small instances of DecisionRuntime.                                       *)
EXTENDS DecisionRuntime, Functions

CONSTANTS a, b, c, d, p1, p2, x, y, r1, r2, k1, k2

List(order, text) == [order |-> order, body |-> [o \in Range(order) |-> text]]

\* One option; option a in two versions, its refinement b, and a refinement
\* of b into more options than fit.
SingleOption == {List(<<a>>, "v1")}
TwoVersions == {List(<<a>>, "v1"), List(<<a>>, "v2")}
TwoPages == {List(<<a>>, "v1"), List(<<a>>, "v2"), List(<<b>>, "v1"), List(<<c, d>>, "v1")}
Refinements == [o \in {a, b} |-> IF o = a THEN List(<<b>>, "v1") ELSE List(<<c, d>>, "v1")]
NoRefinement == [o \in {} |-> List(<<a>>, "v1")]
ChildQ == [o \in {a, b} |-> p2]

NoneOrP == {{}, {p1}}

\* y is derived from x.
Derived == [o \in {x, y} |-> IF o = x THEN {y} ELSE {}]
Alone == [o \in {x} |-> {}]
RecordDepsY == [r \in {r2} |-> {y}]
NoRecords == [r \in {} |-> {}]
BlockDepsXY == [z \in {k1, k2} |-> IF z = k1 THEN {x} ELSE {y}]
NoBlocks == [z \in {} |-> {}]
=============================================================================
