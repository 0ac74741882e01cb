--------------------------- MODULE DecisionFrames ---------------------------
(***************************************************************************)
(* ContextBudgetController.pack (src/jev_agent/context_budget.py): slices  *)
(* of context are packed into regions of fixed sizes.  A caller collects   *)
(* slices one by one, in any order, and has them packed.                   *)
(***************************************************************************)
EXTENDS Naturals, Sequences, FiniteSetsExt, SequencesExt

CONSTANTS
  Region,   \* the regions
  Pinned,   \* the region whose slices are all required
  Limit,    \* region -> its budget in bytes
  Slice,    \* the slices: [id, region, size, priority, required]; ids are numbers
  MaxSlices \* bound on the slices of one call

ASSUME FramesAssumption ==
  /\ Pinned \in Region /\ Limit \in [Region -> Nat]
  /\ Slice \subseteq [id : Nat, region : Region, size : Nat \ {0}, priority : Nat, required : BOOLEAN]
  /\ MaxSlices \in Nat

VARIABLES
  slices, \* the argument: slices in the order of their arrival, with different ids
  packed, \* what pack returns: region -> [keep, used, dropped]
  refused \* ContextBudgetExceeded was raised

frameVars == <<slices, packed, refused>>

FramesInit == slices = <<>> /\ packed = <<>> /\ refused = FALSE

CollectSlice(s) ==
  /\ packed = <<>> /\ ~refused /\ Len(slices) < MaxSlices
  /\ \A t \in Range(slices) : t.id # s.id
  /\ slices' = Append(slices, s)
  /\ UNCHANGED <<packed, refused>>

-----------------------------------------------------------------------------
Offered(region) == {s \in Range(slices) : s.region = region}
Required(s) == s.required \/ s.region = Pinned

(* The sort key is (-priority, item_id). *)
Before(s, t) == s.priority > t.priority \/ (s.priority = t.priority /\ s.id < t.id)

ByPriority(S) == CHOOSE s \in SetToSeqs(S) : \A i, j \in DOMAIN s : i < j => Before(s[i], s[j])

EmptyFrame == [keep |-> <<>>, used |-> 0, dropped |-> <<>>]

\* Mutant: once a slice does not fit, no later one is considered.
PlaceInOrder(frame, s) ==
  IF frame.used + s.size <= Limit[s.region] /\ frame.dropped = <<>>
  THEN [frame EXCEPT !.keep = Append(@, s), !.used = @ + s.size]
  ELSE [frame EXCEPT !.dropped = Append(@, s)]

Place(frame, s) ==
  IF frame.used + s.size <= Limit[s.region]
  THEN [frame EXCEPT !.keep = Append(@, s), !.used = @ + s.size]
  ELSE [frame EXCEPT !.dropped = Append(@, s)]

PackRegion(region) == FoldLeft(Place, EmptyFrame, ByPriority(Offered(region)))

Frames == [region \in Region |-> PackRegion(region)]

(* A required slice is dropped in no region; one that is larger than its   *)
(* whole region is refused before, and to the same effect.                 *)
Pack ==
  /\ packed = <<>> /\ ~refused
  /\ IF \A region \in Region : \A s \in Range(PackRegion(region).dropped) : ~Required(s)
     THEN packed' = Frames /\ UNCHANGED refused
     ELSE refused' = TRUE /\ UNCHANGED packed
  /\ UNCHANGED slices

FramesNext == Pack \/ \E s \in Slice : CollectSlice(s)
FramesSpec == FramesInit /\ [][FramesNext]_frameVars

-----------------------------------------------------------------------------
(* Properties *)

Bytes(S) == MapThenSumSet(LAMBDA s : s.size, S)

(* No region takes more than its budget or loses track of a slice; every   *)
(* required slice is kept; and a slice is dropped only because it does not *)
(* fit beside those kept before it, which determines the frame whatever    *)
(* the order of arrival.  pack refuses only what cannot be kept so: if the *)
(* required slices fit in without any other, then some other slices were   *)
(* preferred to one of them.                                               *)
PackSound ==
  /\ \A region \in DOMAIN packed :
       LET kept == Range(packed[region].keep)
           dropped == Range(packed[region].dropped)
           Ahead(s) == {t \in kept : Before(t, s)}
       IN /\ kept \cup dropped = Offered(region) /\ kept \cap dropped = {}
          /\ packed[region].used = Bytes(kept) /\ Bytes(kept) <= Limit[region]
          /\ \A s \in dropped : ~Required(s) /\ Bytes(Ahead(s)) + s.size > Limit[region]
  /\ refused => \E region \in Region : \E s \in Offered(region) :
       Required(s) /\ Bytes({t \in Offered(region) : Before(t, s)}) + s.size > Limit[region]

=============================================================================
