----------------------------- MODULE MCAffectedBy -----------------------------
(* A graph of five objects with a cycle, a diamond and an object apart.     *)
EXTENDS AffectedBy
CONSTANTS a, b, c, d, e
MCDependents == [x \in {a, b, c, d, e} |->
  CASE x = a -> {b, c}
    [] x = b -> {d}
    [] x = c -> {d}
    [] x = d -> {b}
    [] OTHER -> {}]
=============================================================================
