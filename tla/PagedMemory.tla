----------------------------- MODULE PagedMemory -----------------------------
(***************************************************************************)
(* The table of memory pages (PagedMemoryIndex,                            *)
(* src/jev_agent/paged_memory.py): versioned records that are searched by  *)
(* their summaries and read under hard budgets.  Search scores and access  *)
(* times only order the candidates; the models let a search return any.    *)
(***************************************************************************)
EXTENDS Integers, FiniteSetsExt

CONSTANTS
  MemoryId,          \* page ids
  Payload,           \* what a page says: summary, content, tags, sensitivity
  Size,              \* payload -> bytes of its content
  Sensitive,         \* the payloads marked sensitive
  MaxMemoryPages,    \* max_pages
  MaxMemoryRevision  \* bound on page revisions

ASSUME PagedMemoryAssumption ==
  /\ Size \in [Payload -> Nat]
  /\ Sensitive \subseteq Payload
  /\ MaxMemoryPages \in Nat \ {0}
  /\ MaxMemoryRevision \in Nat \ {0}

VARIABLE index  \* _pages: page id -> [revision, payload, stale]

IndexRecord == [revision : 1..MaxMemoryRevision, payload : Payload, stale : BOOLEAN]

IndexInit == index = <<>>

PutPage(p, payload, r, isStale) ==
  LET new == [revision |-> r, payload |-> payload, stale |-> isStale]
  IN index' = [q \in DOMAIN index \cup {p} |-> IF q = p THEN new ELSE index[q]]

\* Mutant: one page too many.
HasRoomForOneMore(p) == p \in DOMAIN index \/ Cardinality(DOMAIN index) <= MaxMemoryPages
HasRoom(p) == p \in DOMAIN index \/ Cardinality(DOMAIN index) < MaxMemoryPages

\* Mutant: a page is replaced under its revision.
UpsertSameRevision(p, payload, r) ==
  /\ HasRoom(p)
  /\ p \in DOMAIN index => r >= index[p].revision
  /\ PutPage(p, payload, r, FALSE)

(* upsert: a page changes only with a newer revision.  To repeat a page    *)
(* changes nothing, its stale mark included.                               *)
Upsert(p, payload, r) ==
  /\ HasRoom(p)
  /\ p \in DOMAIN index => r > index[p].revision
  /\ PutPage(p, payload, r, FALSE)

MarkStale(p) ==
  /\ p \in DOMAIN index
  /\ PutPage(p, index[p].payload, index[p].revision, TRUE)

-----------------------------------------------------------------------------
(* What a search may find without a permission for sensitive pages.        *)
Visible == {p \in DOMAIN index : ~index[p].stale /\ index[p].payload \notin Sensitive}

Shown(ids) == [p \in ids |-> [revision |-> index[p].revision, payload |-> index[p].payload]]

(* Limits are records [pages, bytes, pageBytes].                           *)
PageFits(payload, limits) == Size[payload] <= limits.pageBytes
Fits(read, limits) ==
  /\ Cardinality(DOMAIN read) <= limits.pages
  /\ \A p \in DOMAIN read : PageFits(read[p].payload, limits)
  /\ MapThenSumSet(LAMBDA p : Size[read[p].payload], DOMAIN read) <= limits.bytes

AsExpected(ids, expected) ==
  {p \in ids : p \in Visible /\ index[p].revision = expected[p]}

(* read_selected: how the read of pages that were expected at some         *)
(* revisions may fail.  Pages are examined in an order that depends on     *)
(* scores; the first that fails decides.  A page that was visible at the   *)
(* expected revision is not sensitive at that revision, and no page is     *)
(* ever removed, so a read that follows a search fails in these ways only. *)
ReadErrors(ids, expected, limits) ==
  LET current == AsExpected(ids, expected)
      few == Cardinality(ids) <= limits.pages
  IN (IF few /\ Fits(Shown(current), limits) THEN {} ELSE {"read_budget_exceeded"})
       \cup (IF few /\ current # ids THEN {"stale_selection"} ELSE {})

-----------------------------------------------------------------------------
IndexTypeOK ==
  /\ DOMAIN index \subseteq MemoryId
  /\ \A p \in DOMAIN index : index[p] \in IndexRecord
  /\ IsFiniteSet(DOMAIN index) /\ Cardinality(DOMAIN index) <= MaxMemoryPages

(* What a model was shown of a page cannot be replaced underneath it: a    *)
(* page stays, its revision never decreases, one revision names one        *)
(* payload, and a stale mark is taken away by a newer revision only        *)
(* (upsert, mark_stale).                                                   *)
MemoryHistory ==
  [][\A p \in DOMAIN index :
       /\ p \in DOMAIN index'
       /\ index'[p].revision >= index[p].revision
       /\ index'[p].revision = index[p].revision =>
            /\ index'[p].payload = index[p].payload
            /\ index[p].stale => index'[p].stale]_index
=============================================================================
