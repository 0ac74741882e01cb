---------------------------- MODULE MCFastLogits ----------------------------
(* Two tokens; a value is complete when it ends in t1, and is at most three *)
(* tokens long.                                                             *)
EXTENDS FastLogits
CONSTANTS t1, t2
MCValues == UNION {[1..n -> Token] : n \in 0..MaxTokens}
MCValid == {v \in MCValues : Len(v) <= 3 /\ ~(Len(v) >= 2 /\ v[1] = t2 /\ v[2] = t2)}
MCComplete == {v \in MCValues : Len(v) >= 2 /\ v[Len(v)] = t1}
=============================================================================
