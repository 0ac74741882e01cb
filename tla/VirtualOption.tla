---------------------------- MODULE VirtualOption ----------------------------
(***************************************************************************)
(* VirtualOptionManager (src/jev_agent/virtual_option.py): a directory of  *)
(* option pages, of which only a small set of options is resident, that    *)
(* is, visible to the chooser.                                             *)
(*                                                                         *)
(* Every operation is synchronous and either completes or raises before it *)
(* has changed anything, so an operation is one action and a call that     *)
(* raises is a call whose guard is false.  The one exception is refine,    *)
(* which registers the child page and may then fail to page it in: see     *)
(* RefinePartial.                                                          *)
(***************************************************************************)
EXTENDS Integers, Sequences, FiniteSets

CONSTANTS
  OptionId,     \* option identifiers
  PageId,       \* page identifiers
  Body,         \* what an option says beside its id and its page
  Contents,     \* what a caller may put on a page: records with the fields
                \*   order : the sequence of the option ids
                \*   body  : option id -> Body
  MaxRevision,  \* bound on the page revisions a caller uses
  MaxResident,  \* max_resident
  MaxPages,     \* max_pages
  NoParent      \* parent_id = None

ASSUME VirtualOptionAssumption ==
  /\ MaxRevision \in Nat \ {0}
  /\ MaxResident \in Nat \ {0}
  /\ MaxPages \in Nat \ {0}
  /\ NoParent \notin OptionId
  /\ \A c \in Contents :
       /\ c.order \in Seq(OptionId)
       /\ c.body \in [{c.order[i] : i \in DOMAIN c.order} -> Body]

VARIABLES
  pages,     \* _pages: page id -> [content, revision, parent]
  owner,     \* _option_pages: option id -> page id
  stale,     \* _stale_pages
  resident,  \* _resident: option id -> the option as it was paged in
  older      \* order of the OrderedDict _resident: <<a, b>> when a is before b

optionVars == <<pages, owner, stale, resident, older>>

PageRecord == [content : Contents, revision : 1..MaxRevision, parent : OptionId \cup {NoParent}]
OptionRecord == [page : PageId, body : Body]

-----------------------------------------------------------------------------
(* Pages and their options *)

FirstIds(c, k) == {c.order[i] : i \in 1..k}
IdsOf(c) == FirstIds(c, Len(c.order))
WellFormed(c) ==
  /\ c.order # <<>>
  /\ \A i, j \in DOMAIN c.order : c.order[i] = c.order[j] => i = j

Registered == DOMAIN pages
Resident == DOMAIN resident
PreviousIds(p) == IF p \in Registered THEN IdsOf(pages[p].content) ELSE {}

(* What register_page demands before it compares revisions. *)
Registrable(p, c) ==
  /\ WellFormed(c)
  /\ \A o \in IdsOf(c) \cap DOMAIN owner : owner[o] = p
  /\ p \in Registered \/ Cardinality(Registered) < MaxPages

RepeatedRevisionIsNew(p, rev) == p \in Registered => rev >= pages[p].revision  \* mutant
IsNewRevision(p, rev) == p \in Registered => rev > pages[p].revision

\* Mutant: the ids that the page no longer has stay in the index.
InstallKeepsIds(p, page) ==
  /\ pages' = [q \in Registered \cup {p} |-> IF q = p THEN page ELSE pages[q]]
  /\ owner' = [o \in DOMAIN owner \cup IdsOf(page.content) |->
                 IF o \in IdsOf(page.content) THEN p ELSE owner[o]]
  /\ stale' = stale \ {p}

(* The directory after a page is installed over its previous revision. *)
InstallInDirectory(p, page) ==
  /\ pages' = [q \in Registered \cup {p} |-> IF q = p THEN page ELSE pages[q]]
  /\ owner' = [o \in (DOMAIN owner \ PreviousIds(p)) \cup IdsOf(page.content) |->
                 IF o \in IdsOf(page.content) THEN p ELSE owner[o]]
  /\ stale' = stale \ {p}

-----------------------------------------------------------------------------
(* The resident set *)

Oldest(n, S) ==
  {E \in SUBSET S : Cardinality(E) = n /\ \A a \in E, b \in S \ E : <<a, b>> \in older}

\* Mutants: nothing is evicted; protection is ignored.
VictimsNone(R, sel, protected) == {{}}
VictimsUnprotected(R, sel, protected) ==
  LET excess == Cardinality(R) + Cardinality(sel \ R) - MaxResident
  IN  IF excess <= 0 THEN {{}} ELSE Oldest(excess, R)

(* The sets _evict_lru may remove so that sel fits beside R; none when too   *)
(* many options are protected.                                             *)
Victims(R, sel, protected) ==
  LET excess == Cardinality(R) + Cardinality(sel \ R) - MaxResident
  IN  IF excess <= 0 THEN {{}} ELSE Oldest(excess, R \ protected)

KeepResident(S) ==
  /\ resident' = [o \in S |-> resident[o]]
  /\ older' = {pair \in older : pair[1] \in S /\ pair[2] \in S}

(* The second half of page_in, from the resident options R: the first k     *)
(* options of page p are written over what survives the eviction, last in   *)
(* LRU order, and the options of drop leave.                               *)
Materialize(R, p, c, k, protected, drop) ==
  \E E \in Victims(R, FirstIds(c, k), protected) :
    LET sel  == FirstIds(c, k)
        kept == (R \ E) \ sel
        now  == (kept \cup sel) \ drop
    IN /\ resident' = [o \in now |->
              IF o \in sel THEN [page |-> p, body |-> c.body[o]] ELSE resident[o]]
       /\ older' = {pair \in now \X now :
              \/ pair[1] \in kept /\ pair[2] \in kept /\ pair \in older
              \/ pair[1] \in kept /\ pair[2] \in sel
              \/ \E i, j \in 1..k : i < j /\ pair = <<c.order[i], c.order[j]>>}

-----------------------------------------------------------------------------
(* Operations *)

OptionInit ==
  /\ pages = <<>>
  /\ owner = <<>>
  /\ stale = {}
  /\ resident = <<>>
  /\ older = {}

\* Mutant: the options of the previous revision stay resident.
RegisterPageKeepsResident(p, c, rev, parent) ==
  /\ Registrable(p, c)
  /\ IsNewRevision(p, rev)
  /\ InstallInDirectory(p, [content |-> c, revision |-> rev, parent |-> parent])
  /\ UNCHANGED <<resident, older>>

\* Mutant: a repeated registration takes the page for a fresh one.
RegisterPageRevives(p, c, rev, parent) ==
  /\ Registrable(p, c)
  /\ \/ /\ IsNewRevision(p, rev)
        /\ InstallInDirectory(p, [content |-> c, revision |-> rev, parent |-> parent])
        /\ KeepResident(Resident \ PreviousIds(p))
     \/ /\ p \in Registered
        /\ pages[p] = [content |-> c, revision |-> rev, parent |-> parent]
        /\ stale' = stale \ {p}
        /\ UNCHANGED <<pages, owner, resident, older>>

(* register_page with a new page or a newer revision of one.  Registering   *)
(* the revision that is already there changes nothing.                     *)
RegisterPage(p, c, rev, parent) ==
  /\ Registrable(p, c)
  /\ IsNewRevision(p, rev)
  /\ InstallInDirectory(p, [content |-> c, revision |-> rev, parent |-> parent])
  /\ KeepResident(Resident \ PreviousIds(p))

(* page_in; k is the number of options that limit lets through. *)
PageIn(p, k, protected) ==
  /\ p \in Registered \ stale
  /\ k \in 1..Len(pages[p].content.order)
  /\ k <= MaxResident
  /\ Materialize(Resident, p, pages[p].content, k, protected, {})
  /\ UNCHANGED <<pages, owner, stale>>

EvictLru(n, protected) ==
  /\ \E E \in Oldest(n, Resident \ protected) : KeepResident(Resident \ E)
  /\ UNCHANGED <<pages, owner, stale>>

Touch(o) ==
  /\ o \in Resident
  /\ older' = {pair \in Resident \X Resident :
                 IF pair[2] = o THEN pair[1] # o ELSE pair[1] # o /\ pair \in older}
  /\ UNCHANGED <<pages, owner, stale, resident>>

(* resolve without expected_revision, the form its callers use. *)
Resolve(o) ==
  /\ o \in Resident
  /\ resident[o].page \notin stale
  /\ Touch(o)

InvalidatePage(p) ==
  /\ p \in Registered
  /\ stale' = stale \cup {p}
  /\ KeepResident(Resident \ IdsOf(pages[p].content))
  /\ UNCHANGED <<pages, owner>>

(* refine: register the children of parent as page p, page them in and drop *)
(* the parent from the resident set.                                        *)
Refine(parent, p, c, rev) ==
  /\ Registrable(p, c)
  /\ Len(c.order) <= MaxResident
  /\ LET page == [content |-> c, revision |-> rev, parent |-> parent]
     IN \/ /\ IsNewRevision(p, rev)
           /\ InstallInDirectory(p, page)
           /\ Materialize(Resident \ PreviousIds(p), p, c, Len(c.order), {}, {parent})
        \/ /\ p \in Registered \ stale
           /\ pages[p] = page
           /\ Materialize(Resident, p, c, Len(c.order), {}, {parent})
           /\ UNCHANGED <<pages, owner, stale>>

(* refine of more children than can be resident: page_in raises OptionFault *)
(* after register_page has installed the child page.                       *)
RefinePartial(parent, p, c, rev) ==
  /\ Len(c.order) > MaxResident
  /\ RegisterPage(p, c, rev, parent)

OptionNext ==
  \/ \E p \in PageId, c \in Contents, rev \in 1..MaxRevision :
       RegisterPage(p, c, rev, NoParent)
  \/ \E p \in Registered, protected \in SUBSET Resident :
       \E k \in 1..Len(pages[p].content.order) : PageIn(p, k, protected)
  \/ \E n \in 1..Cardinality(Resident), protected \in SUBSET Resident : EvictLru(n, protected)
  \/ \E o \in Resident : Touch(o)
  \/ \E o \in Resident : Resolve(o)
  \/ \E p \in PageId : InvalidatePage(p)
  \/ \E parent \in OptionId, p \in PageId, c \in Contents, rev \in 1..MaxRevision :
       \/ Refine(parent, p, c, rev)
       \/ RefinePartial(parent, p, c, rev)

OptionSpec == OptionInit /\ [][OptionNext]_optionVars

-----------------------------------------------------------------------------
(* Properties *)

DirectoryTypeOK ==
  /\ pages \in UNION {[S -> PageRecord] : S \in SUBSET PageId}
  /\ owner \in UNION {[S -> PageId] : S \in SUBSET OptionId}
  /\ stale \subseteq Registered

ResidentTypeOK ==
  /\ resident \in UNION {[S -> OptionRecord] : S \in SUBSET OptionId}
  /\ older \subseteq Resident \X Resident

OptionTypeOK == DirectoryTypeOK /\ ResidentTypeOK

(* Every option a chooser can see is exactly what the current revision of  *)
(* its page says, and that page is not stale: re-registering, invalidating *)
(* and refining pages never leave an old copy resident.                    *)
ResidentCurrent ==
  \A o \in Resident :
    LET p == resident[o].page
    IN  /\ p \in Registered \ stale
        /\ o \in IdsOf(pages[p].content)
        /\ resident[o].body = pages[p].content.body[o]

(* The id index and the directory agree: an option id belongs to one page, *)
(* and the index names it.                                                 *)
OwnershipExact ==
  \A o \in OptionId, p \in PageId :
    (o \in DOMAIN owner /\ owner[o] = p) <=> (p \in Registered /\ o \in IdsOf(pages[p].content))

(* The OrderedDict is an order: of two resident options one is the older.  *)
LruTotal ==
  \A a, b \in Resident :
    /\ <<a, a>> \notin older
    /\ a # b => (<<a, b>> \in older <=> <<b, a>> \notin older)

(* The class promises a "bounded resident set": never more than            *)
(* max_resident options.  page_in breaks this: see the README.             *)
ResidentBounded == Cardinality(Resident) <= MaxResident

(* What page_in does guarantee: it may evict options of the very page it   *)
(* pages in and write them back, but a resident set never reaches twice    *)
(* its bound.                                                              *)
OvershootBounded == Cardinality(Resident) < 2 * MaxResident

(* The inductive invariant: what the proofs need of the other conjuncts is  *)
(* that every registered page passed register_page's checks and that only  *)
(* finitely many options are resident.                                     *)
OptionInv ==
  /\ OptionTypeOK
  /\ ResidentCurrent
  /\ OwnershipExact
  /\ LruTotal
  /\ OvershootBounded
  /\ IsFiniteSet(Resident)
  /\ \A p \in Registered : WellFormed(pages[p].content)

(* A page never disappears and changes only by an increment of its         *)
(* revision, so (page id, revision) names one content for ever; and one    *)
(* that was invalidated stays so until a newer revision is registered:     *)
(* neither page_in nor a repeated registration or refinement revives it.   *)
PageHistory ==
  [][/\ \A p \in Registered :
          /\ p \in Registered'
          /\ pages'[p] # pages[p] => pages'[p].revision > pages[p].revision
     /\ \A p \in stale \ stale' : pages'[p].revision > pages[p].revision]_optionVars

(* page_in never evicts an option its caller protects, and leaves all the  *)
(* options it selected resident: a step that loses one of them is no such  *)
(* page_in.                                                                *)
PageInKeepsPromise ==
  [][\A p \in Registered, protected \in SUBSET Resident :
       \A k \in 1..Len(pages[p].content.order) :
         \/ protected \cup FirstIds(pages[p].content, k) \subseteq Resident'
         \/ ~PageIn(p, k, protected)]_optionVars
=============================================================================
