----------------------------- MODULE FastLogits -----------------------------
(***************************************************************************)
(* FastLogitsHelper (src/jev_agent/fast_logits.py) as the helper of a      *)
(* TopKBuilder: the logits of a state are decoded from the key-value cache *)
(* of the state before it, when they are first needed.                     *)
(*                                                                         *)
(* Decoded states are Python objects.  _materialized finds them by the     *)
(* address of the object they were decoded from and the token, and does    *)
(* not keep that object alive: its address may be used again.              *)
(***************************************************************************)
EXTENDS TopK, SequencesExt

CONSTANTS
  Address,    \* the addresses of FastLogitsState objects, numbers
  MaxCached,  \* max_cached_decodes
  MaxFields   \* bound on the fields constructed with one helper

Root == 0  \* the address of the first field's prompt state

ASSUME FastLogitsAssumption ==
  /\ Address \subseteq Nat /\ Root \in Address
  /\ MaxCached \in Nat \ {0}
  /\ MaxFields \in Nat \ {0}

VARIABLES
  field,   \* the number of the field, which has a prompt of its own
  fast,    \* address -> what the object's logits follow: [prompt, tokens]
  bases,   \* for each state of history, the address in its metadata["fast_state"]
  memo,    \* _materialized in insertion order: [base, token, decoded]
  decoded  \* the object _materialize found for this turn

heapVars == <<field, fast, bases, memo, decoded>>
fastVars == <<topkVars, heapVars>>

Prefilled(n) == [prompt |-> n, tokens |-> <<>>]

FastInit ==
  /\ TopKInit
  /\ field = 1
  /\ fast = [a \in Address |-> Prefilled(1)]
  /\ bases = <<Root>>
  /\ memo = <<>>
  /\ decoded = Root

(* What a state, an entry or the turn's candidates refer to lives.  Their  *)
(* garbage may be collected at once or later: Free is what may be reused.  *)
Live == {bases[i] : i \in DOMAIN bases} \cup {memo[i].decoded : i \in DOMAIN memo}
          \cup (IF phase = "turn" THEN {} ELSE {decoded})
Free == Address \ Live

(* A state's token is decoded once; the first state has none. *)
Pending == Last(state)

\* Mutant: entries are found by their token alone.
RememberedByToken == {i \in DOMAIN memo : memo[i].token = Pending}

Found == {i \in DOMAIN memo : memo[i].base = Last(bases) /\ memo[i].token = Pending}

(* advance: the new logits follow one token more. *)
Advanced == [fast[Last(bases)] EXCEPT !.tokens = Append(@, Pending)]

Hit ==
  /\ Len(history) > 1 /\ Found # {}
  /\ \E i \in Found : decoded' = memo[i].decoded
  /\ UNCHANGED <<fast, memo>>

Evicted == IF Len(memo) >= MaxCached THEN Tail(memo) ELSE memo

(* The allocator may hand out the address of any object that is gone. *)
Miss ==
  /\ Len(history) > 1 /\ Found = {}
  /\ \E a \in Free :
       /\ fast' = [fast EXCEPT ![a] = Advanced]
       /\ memo' = Append(Evicted, [base |-> Last(bases), token |-> Pending, decoded |-> a])
       /\ decoded' = a

AtStart ==
  /\ Len(history) = 1
  /\ decoded' = Last(bases)
  /\ UNCHANGED <<fast, memo>>

(* next_top_k; append_token finds the same object again.                   *)
Materialize == (AtStart \/ Hit \/ Miss) /\ UNCHANGED <<bases, field>>

AskFast == AskHelper /\ Materialize

(* A candidate refers to the object it would be decoded from. *)
GrowFast == Grow /\ bases' = Append(bases, decoded) /\ UNCHANGED <<field, fast, memo, decoded>>

BacktrackFast ==
  /\ Backtrack
  /\ bases' = SubSeq(bases, 1, Len(bases) - 1)
  /\ UNCHANGED <<field, fast, memo, decoded>>

FastNext ==
  \/ AskFast \/ GrowFast \/ BacktrackFast
  \/ (Expand \/ Conclude \/ Aside) /\ UNCHANGED heapVars
  \/ (phase # "done" /\ TimePasses) /\ UNCHANGED heapVars

FastSpec == FastInit /\ [][FastNext]_fastVars /\ WF_fastVars(FastNext)

(* An agent keeps its builder, and with it the helper, from one run to the *)
(* next.  construct has returned, so the states of the field before are    *)
(* gone, and start prefills another prompt; _materialized stays.           *)
NextField ==
  /\ phase = "done" /\ field < MaxFields
  /\ field' = field + 1
  /\ k' = InitialK /\ choices' = 0 /\ helperCalls' = 0 /\ backtracks' = 0 /\ step' = 0
  /\ history' = << <<>> >> /\ phase' = "turn" /\ result' = "none" /\ expired' = FALSE
  /\ ranked' = {} /\ candidates' = <<>> /\ options' = {}
  /\ \E a \in Address \ {memo[i].decoded : i \in DOMAIN memo} :
       /\ fast' = [fast EXCEPT ![a] = Prefilled(field + 1)]
       /\ bases' = <<a>> /\ decoded' = a
  /\ UNCHANGED memo

ReuseSpec == FastInit /\ [][FastNext \/ NextField]_fastVars

-----------------------------------------------------------------------------
(* Tokens are ranked by the logits that follow the value they are offered  *)
(* for, although decoded states come and go and their addresses with them. *)
LogitsFollowPrefix ==
  phase \in {"ranked", "choosing"} => fast[decoded] = [prompt |-> field, tokens |-> state]
=============================================================================
