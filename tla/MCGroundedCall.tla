--------------------------- MODULE MCGroundedCall ---------------------------
(* Small instances of GroundedCall.                                          *)
EXTENDS GroundedCall, TLC

CONSTANTS m1, m2, m3, x, k, plain, marked, secret

\* A short payload, a longer one with the required marker, a sensitive one.
Sizes == [s \in Payload |-> IF s = marked THEN 2 ELSE 1]
MarksOnly == [s \in Payload |-> IF s = marked THEN {"marker"} ELSE {}]

\* Two pages fit unless both are long.
OnePage == [pages |-> 1, bytes |-> 2, pageBytes |-> 2]
TwoPages == [pages |-> 2, bytes |-> 3, pageBytes |-> 2]

PageSymmetry == Permutations(MemoryId)

Alone == [o \in {x} |-> {}]
RecordDepsX == [r \in Record |-> {x}]
BlockDepsX == [b \in Block |-> {x}]
=============================================================================
