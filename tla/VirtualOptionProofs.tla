------------------------- MODULE VirtualOptionProofs -------------------------
(***************************************************************************)
(* Every invariant of VirtualOption, for all values of its constants.      *)
(*                                                                         *)
(* The resident set is treated on its own first: KeepResident and          *)
(* Materialize, the two ways it changes, preserve what concerns only the   *)
(* resident set and its LRU order (ResidentInv).  Then the directory:      *)
(* InstallInDirectory preserves DirectoryInv.  The lemmas on the actions   *)
(* join the two through ResidentCurrent.                                   *)
(***************************************************************************)
EXTENDS VirtualOption, FiniteSetTheorems, TLAPS

ResidentInv ==
  /\ ResidentTypeOK
  /\ LruTotal
  /\ OvershootBounded
  /\ IsFiniteSet(Resident)

DirectoryInv ==
  /\ DirectoryTypeOK
  /\ OwnershipExact
  /\ \A p \in Registered : WellFormed(pages[p].content)

(* The three parts make up the inductive invariant of the component.       *)
LEMMA InvParts == OptionInv <=> DirectoryInv /\ ResidentInv /\ ResidentCurrent
  BY DEF OptionInv, DirectoryInv, ResidentInv, OptionTypeOK

(* The first k options of a page are at most k.                            *)
LEMMA FirstIdsBound ==
  ASSUME NEW c \in Contents, NEW k \in 0..Len(c.order)
  PROVE  /\ FirstIds(c, k) \subseteq IdsOf(c)
         /\ IdsOf(c) \subseteq OptionId
         /\ c.body \in [IdsOf(c) -> Body]
         /\ IsFiniteSet(FirstIds(c, k))
         /\ Cardinality(FirstIds(c, k)) \in Nat
         /\ Cardinality(FirstIds(c, k)) <= k
<1> DEFINE f == [i \in 1..k |-> c.order[i]]
<1>1. /\ c.order \in Seq(OptionId)
      /\ c.body \in [{c.order[i] : i \in DOMAIN c.order} -> Body]
  BY VirtualOptionAssumption DEF VirtualOptionAssumption
<1>2. Len(c.order) \in Nat /\ DOMAIN c.order = 1..Len(c.order)
  BY <1>1
<1>3. f \in Surjection(1..k, FirstIds(c, k))
  BY DEF Surjection, FirstIds
<1>4. IsFiniteSet(1..k) /\ Cardinality(1..k) = k
  BY FS_Interval
<1>5. IsFiniteSet(FirstIds(c, k)) /\ Cardinality(FirstIds(c, k)) <= k
  BY <1>3, <1>4, FS_Surjection
<1>6. \A i \in 1..Len(c.order) : c.order[i] \in OptionId
  BY <1>1
<1> QED
  BY <1>1, <1>2, <1>5, <1>6, FS_CardinalityType DEF FirstIds, IdsOf

-----------------------------------------------------------------------------
(* The resident set on its own *)

(* Removing options from the resident set.                                 *)
LEMMA KeepResidentInv ==
  ASSUME ResidentInv, NEW S \in SUBSET Resident, KeepResident(S)
  PROVE  /\ ResidentInv'
         /\ Resident' = S
         /\ \A o \in S : resident'[o] = resident[o]
<1>1. Resident' = S /\ \A o \in S : resident'[o] = resident[o]
  BY DEF KeepResident, Resident
<1>2. ResidentTypeOK'
  BY <1>1 DEF ResidentInv, ResidentTypeOK, KeepResident, Resident
<1>3. LruTotal'
  BY <1>1 DEF ResidentInv, LruTotal, KeepResident
<1>4. /\ IsFiniteSet(S)
      /\ Cardinality(S) \in Nat
      /\ Cardinality(Resident) \in Nat
      /\ Cardinality(S) <= Cardinality(Resident)
  BY FS_Subset, FS_CardinalityType DEF ResidentInv
<1>5. OvershootBounded'
  BY <1>1, <1>4, VirtualOptionAssumption DEF ResidentInv, OvershootBounded, VirtualOptionAssumption
<1> QED
  BY <1>1, <1>2, <1>3, <1>4, <1>5 DEF ResidentInv

(* What an eviction leaves fits, up to the options it evicts from the page *)
(* that is coming in.                                                      *)
LEMMA VictimsBound ==
  ASSUME NEW R, IsFiniteSet(R), Cardinality(R) < 2 * MaxResident,
         NEW sel, IsFiniteSet(sel), Cardinality(sel) <= MaxResident,
         NEW protected, NEW E \in Victims(R, sel, protected),
         NEW now \in SUBSET ((R \ E) \cup sel)
  PROVE  /\ E \subseteq R
         /\ IsFiniteSet(now)
         /\ Cardinality(now) < 2 * MaxResident
<1> DEFINE excess == Cardinality(R) + Cardinality(sel \ R) - MaxResident
           all == (R \ E) \cup sel
<1>1. /\ Cardinality(R) \in Nat
      /\ Cardinality(sel) \in Nat
      /\ IsFiniteSet(sel \ R)
      /\ Cardinality(sel \ R) \in Nat
      /\ IsFiniteSet(R \cup sel)
      /\ MaxResident \in Nat \ {0}
  BY FS_CardinalityType, FS_Difference, FS_Union, VirtualOptionAssumption DEF VirtualOptionAssumption
<1>2. /\ IsFiniteSet(all)
      /\ IsFiniteSet(now)
      /\ Cardinality(now) \in Nat
      /\ Cardinality(all) \in Nat
      /\ Cardinality(now) <= Cardinality(all)
  BY <1>1, FS_Difference, FS_Union, FS_Subset, FS_CardinalityType
<1>3. CASE excess <= 0
  <2>1. E = {}
    BY <1>3 DEF Victims
  <2>2. all = R \cup (sel \ R) /\ R \cap (sel \ R) = {}
    BY <2>1
  <2>3. Cardinality(all) = Cardinality(R) + Cardinality(sel \ R)
    <3>1. Cardinality(R \cup (sel \ R))
            = Cardinality(R) + Cardinality(sel \ R) - Cardinality(R \cap (sel \ R))
      BY <1>1, FS_Union
    <3>2. Cardinality(R \cap (sel \ R)) = 0
      BY <2>2, FS_EmptySet
    <3>3. Cardinality(all) = Cardinality(R \cup (sel \ R))
      BY <2>2
    <3> QED
      BY <3>1, <3>2, <3>3, <1>1
  <2> QED
    BY <1>1, <1>2, <1>3, <2>1, <2>3
<1>4. CASE ~(excess <= 0)
  <2>1. E \subseteq R /\ Cardinality(E) = excess
    BY <1>4 DEF Victims, Oldest
  <2>2. IsFiniteSet(R \ E) /\ Cardinality(R \ E) = Cardinality(R) - excess
    <3>1. R \cap E = E
      BY <2>1
    <3> QED
      BY <2>1, <3>1, FS_Difference
  <2>3. CASE sel \subseteq R
    <3>1. all \subseteq R
      BY <2>1, <2>3
    <3>2. Cardinality(all) <= Cardinality(R)
      BY <3>1, FS_Subset
    <3> QED
      BY <1>1, <1>2, <2>1, <3>2
  <2>4. CASE ~(sel \subseteq R)
    <3>1. Cardinality(sel \ R) # 0
      BY <2>4, <1>1, FS_EmptySet
    <3>2. IsFiniteSet((R \ E) \cap sel) /\ Cardinality((R \ E) \cap sel) \in Nat
      BY <2>2, FS_Intersection, FS_CardinalityType
    <3>3. Cardinality(all) = Cardinality(R \ E) + Cardinality(sel) - Cardinality((R \ E) \cap sel)
      BY <2>2, FS_Union
    <3> QED
      BY <1>1, <1>2, <2>1, <2>2, <3>1, <3>2, <3>3
  <2> QED
    BY <2>3, <2>4
<1> QED
  BY <1>3, <1>4

(* Paging in: what survives the eviction, then the first k options of the  *)
(* page.                                                                   *)
LEMMA MaterializeInv ==
  ASSUME ResidentInv, NEW R \in SUBSET Resident,
         NEW p \in PageId, NEW c \in Contents, WellFormed(c),
         NEW k \in 1..Len(c.order), k <= MaxResident,
         NEW protected, NEW drop,
         Materialize(R, p, c, k, protected, drop)
  PROVE  /\ ResidentInv'
         /\ Resident' \subseteq R \cup FirstIds(c, k)
         /\ \A o \in Resident' :
              resident'[o] = IF o \in FirstIds(c, k) THEN [page |-> p, body |-> c.body[o]]
                             ELSE resident[o]
<1> DEFINE sel == FirstIds(c, k)
<1>1. /\ sel \subseteq IdsOf(c)
      /\ IdsOf(c) \subseteq OptionId
      /\ c.body \in [IdsOf(c) -> Body]
      /\ IsFiniteSet(sel)
      /\ Cardinality(sel) <= k
      /\ Cardinality(sel) \in Nat
  BY FirstIdsBound
<1>2. PICK E \in Victims(R, sel, protected) :
        LET kept == (R \ E) \ sel
            now  == (kept \cup sel) \ drop
        IN /\ resident' = [o \in now |->
                  IF o \in sel THEN [page |-> p, body |-> c.body[o]] ELSE resident[o]]
           /\ older' = {pair \in now \X now :
                  \/ pair[1] \in kept /\ pair[2] \in kept /\ pair \in older
                  \/ pair[1] \in kept /\ pair[2] \in sel
                  \/ \E i, j \in 1..k : i < j /\ pair = <<c.order[i], c.order[j]>>}
  BY DEF Materialize
<1> DEFINE kept == (R \ E) \ sel
           now  == (kept \cup sel) \ drop
<1>3. /\ Resident' = now
      /\ now \subseteq R \cup sel
      /\ now \subseteq (R \ E) \cup sel
      /\ \A o \in now : resident'[o] = IF o \in sel THEN [page |-> p, body |-> c.body[o]]
                                       ELSE resident[o]
  BY <1>2 DEF Resident
<1>4. ResidentTypeOK'
  <2>0. \A o \in Resident : o \in OptionId /\ resident[o] \in OptionRecord
    BY DEF ResidentInv, ResidentTypeOK, Resident
  <2>1. \A o \in now : o \in OptionId /\ resident'[o] \in OptionRecord
    <3> SUFFICES ASSUME NEW o \in now
                 PROVE  o \in OptionId /\ resident'[o] \in OptionRecord
      OBVIOUS
    <3>1. CASE o \in sel
      <4>1. o \in OptionId /\ c.body[o] \in Body
        BY <3>1, <1>1
      <4>2. resident'[o] = [page |-> p, body |-> c.body[o]]
        BY <3>1, <1>3
      <4> QED
        BY <4>1, <4>2 DEF OptionRecord
    <3>2. CASE o \notin sel
      BY <3>2, <1>1, <1>3, <2>0
    <3> QED
      BY <3>1, <3>2
  <2>2. resident' \in [now -> OptionRecord] /\ now \in SUBSET OptionId
    BY <1>2, <2>1
  <2> QED
    BY <1>2, <1>3, <2>2 DEF ResidentTypeOK
<1>5. LruTotal'
  <2> SUFFICES ASSUME NEW a \in now, NEW b \in now
               PROVE  /\ <<a, a>> \notin older'
                      /\ a # b => (<<a, b>> \in older' <=> <<b, a>> \notin older')
    BY <1>3 DEF LruTotal
  <2>1. \A x, y \in now : <<x, y>> \in older' <=>
           \/ x \in kept /\ y \in kept /\ <<x, y>> \in older
           \/ x \in kept /\ y \in sel
           \/ \E i, j \in 1..k : i < j /\ x = c.order[i] /\ y = c.order[j]
    BY <1>2
  <2>2. \A x \in now : x \in sel <=> x \notin kept
    OBVIOUS
  <2>3. \A x \in sel : \E i \in 1..k : x = c.order[i]
    BY DEF FirstIds
  <2>4. \A i \in 1..k : c.order[i] \in sel
    BY DEF FirstIds
  <2>5. \A i, j \in 1..k : c.order[i] = c.order[j] => i = j
    <3>1. c.order \in Seq(OptionId)
      BY VirtualOptionAssumption DEF VirtualOptionAssumption
    <3> QED
      BY <3>1 DEF WellFormed
  <2>6. \A x, y \in Resident :
          /\ <<x, x>> \notin older
          /\ x # y => (<<x, y>> \in older <=> <<y, x>> \notin older)
    BY DEF ResidentInv, LruTotal
  <2>7. kept \subseteq Resident /\ now \subseteq kept \cup sel /\ kept \cap sel = {}
    OBVIOUS
  <2> HIDE DEF now, kept, sel
  <2>8. CASE a \in kept /\ b \in kept
    <3>1. a \notin sel /\ b \notin sel /\ a \in Resident /\ b \in Resident
      BY <2>2, <2>7, <2>8
    <3>2. \A i \in 1..k : c.order[i] # a /\ c.order[i] # b
      BY <2>4, <3>1
    <3>3. \A y, z \in {a, b} : <<y, z>> \in older' <=> <<y, z>> \in older
      BY <2>1, <2>8, <3>1, <3>2
    <3> QED
      BY <2>6, <3>1, <3>3
  <2>9. CASE a \in sel /\ b \in sel
    <3>1. PICK i \in 1..k, j \in 1..k : a = c.order[i] /\ b = c.order[j]
      BY <2>3, <2>9
    <3>2. a \notin kept /\ b \notin kept
      BY <2>2, <2>9
    <3>3. \A m, n \in 1..k : c.order[m] \in now /\ c.order[n] \in now
                                 /\ c.order[m] \notin kept /\ c.order[n] \notin kept =>
             (<<c.order[m], c.order[n]>> \in older' <=> m < n)
      BY <2>1, <2>5
    <3>4. a # b => i # j
      BY <3>1
    <3>5. (<<a, b>> \in older' <=> i < j) /\ (<<b, a>> \in older' <=> j < i) /\ <<a, a>> \notin older'
      BY <3>1, <3>2, <3>3
    <3> QED
      BY <3>4, <3>5
  <2>10. CASE (a \in kept /\ b \in sel) \/ (a \in sel /\ b \in kept)
    <3>1. \A i \in 1..k : c.order[i] \notin kept
      BY <2>4, <2>7
    <3>2. \A x, y \in now : x \in kept /\ y \in sel =>
             <<x, y>> \in older' /\ <<y, x>> \notin older' /\ x # y
      <4> SUFFICES ASSUME NEW x \in now, NEW y \in now, x \in kept, y \in sel
                   PROVE  <<x, y>> \in older' /\ <<y, x>> \notin older' /\ x # y
        OBVIOUS
      <4>1. y \notin kept
        BY <2>7
      <4>2. <<x, y>> \in older'
        BY <2>1
      <4>3. <<y, x>> \notin older'
        BY <2>1, <2>2, <3>1, <4>1
      <4> QED
        BY <4>1, <4>2, <4>3
    <3>3. <<a, a>> \notin older'
      <4>1. CASE a \in kept
        <5>1. a \notin sel /\ <<a, a>> \notin older
          BY <2>6, <2>7, <4>1
        <5> QED
          BY <2>1, <3>1, <4>1, <5>1
      <4>2. CASE a \in sel
        BY <2>1, <2>2, <2>5, <4>2
      <4> QED
        BY <2>2, <4>1, <4>2
    <3> QED
      BY <2>10, <3>2, <3>3
  <2> QED
    BY <2>2, <2>8, <2>9, <2>10
<1>6. IsFiniteSet(R) /\ Cardinality(R) < 2 * MaxResident
  BY FS_Subset, FS_CardinalityType, VirtualOptionAssumption
     DEF ResidentInv, OvershootBounded, VirtualOptionAssumption
<1>7. Cardinality(sel) <= MaxResident
  BY <1>1, VirtualOptionAssumption DEF VirtualOptionAssumption
<1>8. IsFiniteSet(now) /\ Cardinality(now) < 2 * MaxResident
  BY <1>1, <1>3, <1>6, <1>7, VictimsBound
<1> QED
  BY <1>3, <1>4, <1>5, <1>8 DEF ResidentInv, OvershootBounded

-----------------------------------------------------------------------------
(* The directory on its own *)

(* Installing a page makes its options, and only those, the ids it owns.   *)
LEMMA InstallInv ==
  ASSUME DirectoryInv, NEW p \in PageId, NEW c \in Contents, Registrable(p, c),
         NEW rev \in 1..MaxRevision, NEW parent \in OptionId \cup {NoParent},
         InstallInDirectory(p, [content |-> c, revision |-> rev, parent |-> parent])
  PROVE  /\ DirectoryInv'
         /\ Registered' = Registered \cup {p}
         /\ stale' = stale \ {p}
         /\ pages'[p] = [content |-> c, revision |-> rev, parent |-> parent]
         /\ \A q \in Registered \ {p} : pages'[q] = pages[q]
<1> DEFINE page == [content |-> c, revision |-> rev, parent |-> parent]
<1>1. /\ Registered' = Registered \cup {p}
      /\ stale' = stale \ {p}
      /\ pages'[p] = page
      /\ \A q \in Registered \ {p} : pages'[q] = pages[q]
      /\ p \notin Registered => PreviousIds(p) = {}
      /\ p \in Registered => PreviousIds(p) = IdsOf(pages[p].content)
  BY DEF InstallInDirectory, Registered, PreviousIds
<1>2. /\ DOMAIN owner' = (DOMAIN owner \ PreviousIds(p)) \cup IdsOf(c)
      /\ \A o \in DOMAIN owner' : owner'[o] = IF o \in IdsOf(c) THEN p ELSE owner[o]
  BY DEF InstallInDirectory
<1>3. IdsOf(c) \subseteq OptionId
  <2>1. Len(c.order) \in 0..Len(c.order)
    BY VirtualOptionAssumption DEF VirtualOptionAssumption
  <2> QED
    BY <2>1, FirstIdsBound
<1>4. DirectoryTypeOK'
  <2>1. page \in PageRecord
    BY DEF PageRecord
  <2>2. pages' \in [Registered \cup {p} -> PageRecord] /\ Registered \cup {p} \in SUBSET PageId
    BY <2>1 DEF DirectoryInv, DirectoryTypeOK, InstallInDirectory, Registered
  <2>3. /\ owner' \in [(DOMAIN owner \ PreviousIds(p)) \cup IdsOf(c) -> PageId]
        /\ (DOMAIN owner \ PreviousIds(p)) \cup IdsOf(c) \in SUBSET OptionId
    BY <1>3 DEF DirectoryInv, DirectoryTypeOK, InstallInDirectory
  <2> QED
    BY <1>1, <2>2, <2>3 DEF DirectoryInv, DirectoryTypeOK
<1>5. OwnershipExact'
  <2> SUFFICES ASSUME NEW o \in OptionId, NEW q \in PageId
               PROVE  (o \in DOMAIN owner' /\ owner'[o] = q)
                        <=> (q \in Registered' /\ o \in IdsOf(pages'[q].content))
    BY DEF OwnershipExact, IdsOf, FirstIds
  <2>1. \A r \in PageId : (o \in DOMAIN owner /\ owner[o] = r)
                          <=> (r \in Registered /\ o \in IdsOf(pages[r].content))
    BY DEF DirectoryInv, OwnershipExact
  <2>2. o \in IdsOf(c) /\ o \in DOMAIN owner => owner[o] = p
    BY DEF Registrable
  <2>3. CASE q = p
    BY <2>3, <1>1, <1>2, <2>1, <2>2
  <2>4. CASE q # p
    BY <2>4, <1>1, <1>2, <2>1, <2>2
  <2> QED
    BY <2>3, <2>4
<1>6. \A q \in Registered' : WellFormed(pages'[q].content)
  <2>1. WellFormed(c)
    BY DEF Registrable
  <2> QED
    BY <1>1, <2>1 DEF DirectoryInv
<1> QED
  BY <1>1, <1>4, <1>5, <1>6 DEF DirectoryInv, WellFormed

(* Operations that leave the directory alone, or only mark a page stale.   *)
LEMMA DirectoryKept ==
  ASSUME DirectoryInv, UNCHANGED <<pages, owner>>, stale' \subseteq Registered
  PROVE  DirectoryInv'
  BY DEF DirectoryInv, DirectoryTypeOK, OwnershipExact, Registered, IdsOf, FirstIds, WellFormed

-----------------------------------------------------------------------------
(* The operations *)

LEMMA RegisterPageInv ==
  ASSUME OptionInv, NEW p \in PageId, NEW c \in Contents, NEW rev \in 1..MaxRevision,
         NEW parent \in OptionId \cup {NoParent}, RegisterPage(p, c, rev, parent)
  PROVE  OptionInv'
<1>1. DirectoryInv /\ ResidentInv /\ ResidentCurrent
  BY InvParts
<1>2. /\ DirectoryInv'
      /\ Registered' = Registered \cup {p}
      /\ stale' = stale \ {p}
      /\ \A q \in Registered \ {p} : pages'[q] = pages[q]
  BY <1>1, InstallInv DEF RegisterPage
<1>3. /\ ResidentInv'
      /\ Resident' = Resident \ PreviousIds(p)
      /\ \A o \in Resident' : resident'[o] = resident[o]
  BY <1>1, KeepResidentInv DEF RegisterPage
<1>4. \A o \in Resident' : resident[o].page \in Registered \ {p}
  BY <1>1, <1>3 DEF ResidentCurrent, PreviousIds
<1>5. ResidentCurrent'
  BY <1>1, <1>2, <1>3, <1>4 DEF ResidentCurrent, IdsOf, FirstIds
<1> QED
  BY <1>2, <1>3, <1>5, InvParts DEF OptionInv, DirectoryInv, ResidentInv, OptionTypeOK

(* Materialize writes the current options of a page that is registered and *)
(* not stale: no old copy becomes resident.                                *)
LEMMA MaterializeCurrent ==
  ASSUME ResidentInv, DirectoryInv',
         NEW R \in SUBSET Resident,
         NEW p \in PageId, NEW c \in Contents, WellFormed(c),
         NEW k \in 1..Len(c.order), k <= MaxResident, NEW protected, NEW drop,
         Materialize(R, p, c, k, protected, drop),
         p \in Registered' \ stale', pages'[p].content = c,
         \A o \in R : /\ resident[o].page \in Registered' \ stale'
                     /\ o \in IdsOf(pages'[resident[o].page].content)
                     /\ resident[o].body = pages'[resident[o].page].content.body[o]
  PROVE  ResidentInv' /\ ResidentCurrent'
<1>1. /\ ResidentInv'
      /\ Resident' \subseteq R \cup FirstIds(c, k)
      /\ \A o \in Resident' :
           resident'[o] = IF o \in FirstIds(c, k) THEN [page |-> p, body |-> c.body[o]]
                          ELSE resident[o]
  BY MaterializeInv
<1>2. FirstIds(c, k) \subseteq IdsOf(c)
  BY FirstIdsBound
<1>3. ASSUME NEW o \in Resident'
      PROVE  /\ resident'[o].page \in Registered' \ stale'
             /\ o \in IdsOf(pages'[resident'[o].page].content)
             /\ resident'[o].body = pages'[resident'[o].page].content.body[o]
  <2>1. CASE o \in FirstIds(c, k)
    <3>1. resident'[o] = [page |-> p, body |-> c.body[o]]
      BY <2>1, <1>1
    <3>2. resident'[o].page = p /\ resident'[o].body = c.body[o]
      BY <3>1
    <3> QED
      BY <2>1, <1>2, <3>2
  <2>2. CASE o \notin FirstIds(c, k)
    BY <2>2, <1>1
  <2> QED
    BY <2>1, <2>2
<1>4. ResidentCurrent'
  BY <1>3 DEF ResidentCurrent, IdsOf, FirstIds
<1> QED
  BY <1>1, <1>4

LEMMA PageInInv ==
  ASSUME OptionInv, NEW p, NEW k, NEW protected, PageIn(p, k, protected)
  PROVE  OptionInv'
<1>1. DirectoryInv /\ ResidentInv /\ ResidentCurrent
  BY InvParts
<1>2. p \in PageId /\ pages[p].content \in Contents /\ WellFormed(pages[p].content)
  BY <1>1 DEF PageIn, DirectoryInv, DirectoryTypeOK, PageRecord, Registered
<1>3. DirectoryInv'
  BY <1>1, DirectoryKept DEF PageIn, DirectoryInv, DirectoryTypeOK
<1>4. ResidentInv' /\ ResidentCurrent'
  <2>1. /\ Registered' = Registered
        /\ stale' = stale
        /\ pages' = pages
        /\ p \in Registered \ stale
        /\ k \in 1..Len(pages[p].content.order)
        /\ k <= MaxResident
        /\ Materialize(Resident, p, pages[p].content, k, protected, {})
    BY DEF PageIn, Registered
  <2>2. \A o \in Resident : /\ resident[o].page \in Registered \ stale
                           /\ o \in IdsOf(pages[resident[o].page].content)
                           /\ resident[o].body = pages[resident[o].page].content.body[o]
    BY <1>1 DEF ResidentCurrent
  <2> QED
    BY <1>1, <1>2, <1>3, <2>1, <2>2, MaterializeCurrent
<1> QED
  BY <1>3, <1>4 DEF OptionInv, DirectoryInv, ResidentInv, OptionTypeOK

(* Removing resident options while the directory at most turns pages stale *)
(* that have no option left among the resident.                            *)
LEMMA ShrinkInv ==
  ASSUME OptionInv, NEW S \in SUBSET Resident, KeepResident(S),
         UNCHANGED <<pages, owner>>, stale' \subseteq Registered,
         \A o \in S : resident[o].page \notin stale'
  PROVE  OptionInv'
<1>1. DirectoryInv /\ ResidentInv /\ ResidentCurrent
  BY InvParts
<1>2. DirectoryInv'
  BY <1>1, DirectoryKept
<1>3. ResidentInv' /\ Resident' = S /\ \A o \in S : resident'[o] = resident[o]
  BY <1>1, KeepResidentInv
<1>4. ResidentCurrent'
  BY <1>1, <1>3 DEF ResidentCurrent, Registered, IdsOf, FirstIds
<1> QED
  BY <1>2, <1>3, <1>4 DEF OptionInv, DirectoryInv, ResidentInv, OptionTypeOK

LEMMA EvictLruInv ==
  ASSUME OptionInv, NEW n, NEW protected, EvictLru(n, protected)
  PROVE  OptionInv'
<1>1. PICK E \in Oldest(n, Resident \ protected) : KeepResident(Resident \ E)
  BY DEF EvictLru
<1>2. UNCHANGED <<pages, owner, stale>>
  BY DEF EvictLru
<1>3. stale \subseteq Registered /\ \A o \in Resident : resident[o].page \notin stale
  BY DEF OptionInv, OptionTypeOK, DirectoryTypeOK, ResidentCurrent
<1> QED
  BY <1>1, <1>2, <1>3, ShrinkInv

LEMMA InvalidatePageInv ==
  ASSUME OptionInv, NEW p \in PageId, InvalidatePage(p)
  PROVE  OptionInv'
<1> DEFINE S == Resident \ IdsOf(pages[p].content)
<1>1. KeepResident(S) /\ UNCHANGED <<pages, owner>> /\ stale' = stale \cup {p} /\ p \in Registered
  BY DEF InvalidatePage
<1>2. stale' \subseteq Registered
  BY <1>1 DEF OptionInv, OptionTypeOK, DirectoryTypeOK
<1>3. \A o \in S : resident[o].page \notin stale'
  BY <1>1 DEF OptionInv, ResidentCurrent
<1> QED
  BY <1>1, <1>2, <1>3, ShrinkInv

LEMMA TouchInv ==
  ASSUME OptionInv, NEW o, Touch(o)
  PROVE  OptionInv'
<1>1. /\ UNCHANGED <<pages, owner, stale, resident>>
      /\ \A x, y \in Resident : <<x, y>> \in older' <=>
            IF y = o THEN x # o ELSE x # o /\ <<x, y>> \in older
      /\ older' \subseteq Resident \X Resident
  BY DEF Touch
<1>2. LruTotal'
  <2>1. Resident' = Resident
    BY <1>1 DEF Resident
  <2>2. \A x, y \in Resident :
          /\ <<x, x>> \notin older
          /\ x # y => (<<x, y>> \in older <=> <<y, x>> \notin older)
    BY DEF OptionInv, LruTotal
  <2>3. \A x, y \in Resident :
          /\ <<x, x>> \notin older'
          /\ x # y => (<<x, y>> \in older' <=> <<y, x>> \notin older')
    <3> SUFFICES ASSUME NEW x \in Resident, NEW y \in Resident
                 PROVE  /\ <<x, x>> \notin older'
                        /\ x # y => (<<x, y>> \in older' <=> <<y, x>> \notin older')
      OBVIOUS
    <3>1. /\ <<x, y>> \in older' <=> (IF y = o THEN x # o ELSE x # o /\ <<x, y>> \in older)
          /\ <<y, x>> \in older' <=> (IF x = o THEN y # o ELSE y # o /\ <<y, x>> \in older)
          /\ <<x, x>> \in older' <=> (IF x = o THEN x # o ELSE x # o /\ <<x, x>> \in older)
      BY <1>1
    <3> QED
      BY <2>2, <3>1
  <2> QED
    BY <1>1, <2>1, <2>3 DEF LruTotal
<1>3. OptionTypeOK'
  BY <1>1 DEF OptionInv, OptionTypeOK, DirectoryTypeOK, ResidentTypeOK, Resident, Registered
<1>4. Resident' = Resident /\ Registered' = Registered
  BY <1>1 DEF Resident, Registered
<1>5. ResidentCurrent'
  BY <1>1, <1>4 DEF OptionInv, ResidentCurrent
<1>6. OwnershipExact'
  BY <1>1, <1>4 DEF OptionInv, OwnershipExact
<1>7. OvershootBounded'
  BY <1>1, <1>4 DEF OptionInv, OvershootBounded
<1> QED
  BY <1>1, <1>2, <1>3, <1>4, <1>5, <1>6, <1>7 DEF OptionInv

LEMMA RefineInv ==
  ASSUME OptionInv, NEW parent \in OptionId, NEW p \in PageId, NEW c \in Contents,
         NEW rev \in 1..MaxRevision, Refine(parent, p, c, rev)
  PROVE  OptionInv'
<1> DEFINE page == [content |-> c, revision |-> rev, parent |-> parent]
           k == Len(c.order)
<1>1. DirectoryInv /\ ResidentInv /\ ResidentCurrent
  BY InvParts
<1>2. /\ k \in 1..k
      /\ k <= MaxResident
      /\ WellFormed(c)
      /\ Registrable(p, c)
  <2>1. c.order \in Seq(OptionId)
    BY VirtualOptionAssumption DEF VirtualOptionAssumption
  <2>2. c.order # <<>>
    BY DEF Refine, Registrable, WellFormed
  <2> QED
    BY <2>1, <2>2 DEF Refine, Registrable
<1>3. CASE /\ IsNewRevision(p, rev)
           /\ InstallInDirectory(p, page)
           /\ Materialize(Resident \ PreviousIds(p), p, c, k, {}, {parent})
  <2>1. /\ DirectoryInv'
        /\ Registered' = Registered \cup {p}
        /\ stale' = stale \ {p}
        /\ pages'[p].content = c
        /\ \A q \in Registered \ {p} : pages'[q] = pages[q]
    BY <1>1, <1>2, <1>3, InstallInv
  <2>2. \A o \in Resident \ PreviousIds(p) :
           /\ resident[o].page \in Registered' \ stale'
           /\ o \in IdsOf(pages'[resident[o].page].content)
           /\ resident[o].body = pages'[resident[o].page].content.body[o]
    <3> SUFFICES ASSUME NEW o \in Resident \ PreviousIds(p)
                 PROVE  /\ resident[o].page \in Registered' \ stale'
                        /\ o \in IdsOf(pages'[resident[o].page].content)
                        /\ resident[o].body = pages'[resident[o].page].content.body[o]
      OBVIOUS
    <3>1. resident[o].page \in Registered \ {p}
      BY <1>1 DEF ResidentCurrent, PreviousIds
    <3> QED
      BY <1>1, <2>1, <3>1 DEF ResidentCurrent
  <2>3. ResidentInv' /\ ResidentCurrent'
    BY <1>1, <1>2, <1>3, <2>1, <2>2, MaterializeCurrent
  <2> QED
    BY <2>1, <2>3 DEF OptionInv, DirectoryInv, ResidentInv, OptionTypeOK
<1>4. CASE /\ p \in Registered \ stale
           /\ pages[p] = page
           /\ Materialize(Resident, p, c, k, {}, {parent})
           /\ UNCHANGED <<pages, owner, stale>>
  <2>1. DirectoryInv'
    BY <1>1, <1>4, DirectoryKept DEF DirectoryInv, DirectoryTypeOK
  <2>2. Registered' = Registered
    BY <1>4 DEF Registered
  <2>3. \A o \in Resident : /\ resident[o].page \in Registered \ stale
                           /\ o \in IdsOf(pages[resident[o].page].content)
                           /\ resident[o].body = pages[resident[o].page].content.body[o]
    BY <1>1 DEF ResidentCurrent
  <2>4. ResidentInv' /\ ResidentCurrent'
    BY <1>1, <1>2, <1>4, <2>1, <2>2, <2>3, MaterializeCurrent
  <2> QED
    BY <2>1, <2>4 DEF OptionInv, DirectoryInv, ResidentInv, OptionTypeOK
<1> QED
  BY <1>3, <1>4 DEF Refine

LEMMA RefinePartialInv ==
  ASSUME OptionInv, NEW parent \in OptionId, NEW p \in PageId, NEW c \in Contents,
         NEW rev \in 1..MaxRevision, RefinePartial(parent, p, c, rev)
  PROVE  OptionInv'
  BY RegisterPageInv DEF RefinePartial

-----------------------------------------------------------------------------
(* The component *)

(* Every step of the manager preserves the inductive invariant.            *)
LEMMA StepInv == OptionInv /\ [OptionNext]_optionVars => OptionInv'
<1> SUFFICES ASSUME OptionInv, [OptionNext]_optionVars
             PROVE  OptionInv'
  OBVIOUS
<1> USE DEF OptionNext
<1>1. ASSUME NEW p \in PageId, NEW c \in Contents, NEW rev \in 1..MaxRevision,
             RegisterPage(p, c, rev, NoParent)
      PROVE  OptionInv'
  BY <1>1, RegisterPageInv
<1>2. CASE \E p \in Registered, protected \in SUBSET Resident :
             \E k \in 1..Len(pages[p].content.order) : PageIn(p, k, protected)
  BY <1>2, PageInInv
<1>3. CASE \E n \in 1..Cardinality(Resident), protected \in SUBSET Resident :
             EvictLru(n, protected)
  BY <1>3, EvictLruInv
<1>4. CASE \E o \in Resident : Touch(o) \/ Resolve(o)
  BY <1>4, TouchInv DEF Resolve
<1>5. CASE \E p \in PageId : InvalidatePage(p)
  BY <1>5, InvalidatePageInv
<1>6. ASSUME NEW parent \in OptionId, NEW p \in PageId, NEW c \in Contents,
             NEW rev \in 1..MaxRevision,
             Refine(parent, p, c, rev) \/ RefinePartial(parent, p, c, rev)
      PROVE  OptionInv'
  BY <1>6, RefineInv, RefinePartialInv
<1>7. CASE UNCHANGED optionVars
  BY <1>7 DEF optionVars, OptionInv, OptionTypeOK, DirectoryTypeOK, ResidentTypeOK,
     ResidentCurrent, OwnershipExact, LruTotal, OvershootBounded, Resident, Registered,
     IdsOf, FirstIds, WellFormed
<1> QED
  BY <1>1, <1>2, <1>3, <1>4, <1>5, <1>6, <1>7

(* The empty directory satisfies the inductive invariant.                  *)
LEMMA InitInv == OptionInit => OptionInv
<1> SUFFICES ASSUME OptionInit PROVE OptionInv
  OBVIOUS
<1>1. Registered = {} /\ Resident = {} /\ DOMAIN owner = {}
  BY DEF OptionInit, Registered, Resident
<1>2. /\ pages \in [{} -> PageRecord]
      /\ owner \in [{} -> PageId]
      /\ resident \in [{} -> OptionRecord]
  BY DEF OptionInit
<1>3. OptionTypeOK
  <2>1. {} \in SUBSET PageId /\ {} \in SUBSET OptionId
    OBVIOUS
  <2> QED
    BY <1>1, <1>2, <2>1 DEF OptionInit, OptionTypeOK, DirectoryTypeOK, ResidentTypeOK
<1>4. IsFiniteSet(Resident) /\ OvershootBounded
  BY <1>1, FS_EmptySet, VirtualOptionAssumption DEF OvershootBounded, VirtualOptionAssumption
<1> QED
  BY <1>1, <1>3, <1>4 DEF OptionInv, ResidentCurrent, OwnershipExact, LruTotal

(* OptionInv, and with it every invariant of the component, always holds.  *)
THEOREM OptionInvariant == OptionSpec => []OptionInv
  BY InitInv, StepInv, PTL DEF OptionSpec

(* What a chooser sees is always what the current pages say.               *)
THEOREM ResidentIsCurrent == OptionSpec => []ResidentCurrent
<1>1. OptionInv => ResidentCurrent
  BY DEF OptionInv
<1> QED
  BY <1>1, OptionInvariant, PTL

(* Type correctness.                                                       *)
THEOREM OptionTypes == OptionSpec => []OptionTypeOK
<1>1. OptionInv => OptionTypeOK
  BY DEF OptionInv
<1> QED
  BY <1>1, OptionInvariant, PTL

(* An option id has at most one owning page, the one the index names.      *)
THEOREM OwnershipIsExact == OptionSpec => []OwnershipExact
<1>1. OptionInv => OwnershipExact
  BY DEF OptionInv
<1> QED
  BY <1>1, OptionInvariant, PTL

(* The eviction order always orders the resident set.                      *)
THEOREM LruIsTotal == OptionSpec => []LruTotal
<1>1. OptionInv => LruTotal
  BY DEF OptionInv
<1> QED
  BY <1>1, OptionInvariant, PTL

(* The resident set stays below twice max_resident, whatever the workload. *)
THEOREM OvershootIsBounded == OptionSpec => []OvershootBounded
<1>1. OptionInv => OvershootBounded
  BY DEF OptionInv
<1> QED
  BY <1>1, OptionInvariant, PTL

-----------------------------------------------------------------------------
(* Action properties *)

(* A step that registers nothing keeps all pages and stale marks; one that *)
(* does advances the revision of one page and clears that page's mark.     *)
LEMMA DirectorySteps ==
  ASSUME OptionInv, [OptionNext]_optionVars
  PROVE  \/ pages' = pages /\ stale \subseteq stale'
         \/ \E p \in PageId :
              /\ Registered' = Registered \cup {p}
              /\ \A q \in Registered \ {p} : pages'[q] = pages[q]
              /\ p \in Registered => pages'[p].revision > pages[p].revision
              /\ stale' = stale \ {p}
<1>1. ASSUME NEW p \in PageId, NEW c \in Contents, NEW rev \in 1..MaxRevision, NEW parent,
             IsNewRevision(p, rev),
             InstallInDirectory(p, [content |-> c, revision |-> rev, parent |-> parent])
      PROVE  /\ Registered' = Registered \cup {p}
             /\ \A q \in Registered \ {p} : pages'[q] = pages[q]
             /\ p \in Registered => pages'[p].revision > pages[p].revision
             /\ stale' = stale \ {p}
  BY <1>1 DEF IsNewRevision, InstallInDirectory, Registered
<1>2. ASSUME NEW p \in PageId, NEW c \in Contents, NEW rev \in 1..MaxRevision, NEW parent,
             RegisterPage(p, c, rev, parent)
      PROVE  /\ Registered' = Registered \cup {p}
             /\ \A q \in Registered \ {p} : pages'[q] = pages[q]
             /\ p \in Registered => pages'[p].revision > pages[p].revision
             /\ stale' = stale \ {p}
  BY <1>1, <1>2 DEF RegisterPage
<1>3. CASE \E p \in PageId, c \in Contents, rev \in 1..MaxRevision :
             RegisterPage(p, c, rev, NoParent)
  BY <1>2, <1>3
<1>4. CASE \E parent \in OptionId, p \in PageId, c \in Contents, rev \in 1..MaxRevision :
             Refine(parent, p, c, rev) \/ RefinePartial(parent, p, c, rev)
  BY <1>1, <1>2, <1>4 DEF Refine, RefinePartial
<1>5. CASE UNCHANGED <<pages, owner, stale>>
  BY <1>5
<1>6. CASE \E p \in PageId : InvalidatePage(p)
  BY <1>6 DEF InvalidatePage
<1> QED
  BY <1>3, <1>4, <1>5, <1>6 DEF OptionNext, optionVars, PageIn, EvictLru, Touch, Resolve

(* A page never disappears and changes only with its revision; one that    *)
(* was invalidated is revived by a newer revision and by nothing else.     *)
THEOREM PageHistoryHolds == OptionSpec => PageHistory
<1>1. ASSUME OptionInv, [OptionNext]_optionVars
      PROVE  [/\ \A p \in Registered :
                   /\ p \in Registered'
                   /\ pages'[p] # pages[p] => pages'[p].revision > pages[p].revision
              /\ \A p \in stale \ stale' : pages'[p].revision > pages[p].revision]_optionVars
  <2>1. \A p \in Registered :
          /\ p \in Registered'
          /\ pages'[p] # pages[p] => pages'[p].revision > pages[p].revision
    BY <1>1, DirectorySteps DEF Registered
  <2>2. stale \subseteq Registered
    BY <1>1 DEF OptionInv, OptionTypeOK, DirectoryTypeOK
  <2>3. \A p \in stale \ stale' : pages'[p].revision > pages[p].revision
    BY <1>1, <2>2, DirectorySteps
  <2> QED
    BY <2>1, <2>3
<1> QED
  BY <1>1, OptionInvariant, PTL DEF OptionSpec, PageHistory

(* The victims of an eviction are not protected, and what is paged in is   *)
(* written after the eviction.                                             *)
THEOREM PageInKeepsItsPromise == OptionSpec => PageInKeepsPromise
<1>1. ASSUME NEW p \in Registered, NEW protected \in SUBSET Resident,
             NEW k \in 1..Len(pages[p].content.order), PageIn(p, k, protected)
      PROVE  protected \cup FirstIds(pages[p].content, k) \subseteq Resident'
  <2> DEFINE sel == FirstIds(pages[p].content, k)
  <2>1. PICK E \in Victims(Resident, sel, protected) : Resident' = ((Resident \ E) \ sel) \cup sel
    BY <1>1 DEF PageIn, Materialize, Resident
  <2>2. E \cap protected = {}
    BY <2>1 DEF Victims, Oldest
  <2> QED
    BY <2>1, <2>2
<1>2. \A p \in Registered, protected \in SUBSET Resident :
        \A k \in 1..Len(pages[p].content.order) :
          \/ protected \cup FirstIds(pages[p].content, k) \subseteq Resident'
          \/ ~PageIn(p, k, protected)
  BY <1>1
<1> QED
  BY <1>2, PTL DEF OptionSpec, PageInKeepsPromise
=============================================================================
