-------------------------- MODULE PageMemoryProofs --------------------------
(***************************************************************************)
(* Proofs about PageMemory, for every address space, page size, limit and  *)
(* set of accesses.                                                        *)
(*                                                                         *)
(* The argument.  Pages are mapped on demand, lowest first, and a page is  *)
(* mapped only while fewer than the limit are: counting the pages below it *)
(* puts the granted pages into one-to-one correspondence with free places. *)
(* The loop of record_write has marked what it has passed, so when it ends *)
(* it has marked the pages of the access and no other.  It does not end    *)
(* when the last of them is the last page of the address space: nothing is *)
(* claimed of that store.                                                  *)
(***************************************************************************)
EXTENDS PageMemory, NaturalFacts

\* How far the loop of record_write is.
RecordInv ==
    /\ pc # "running" => access \in Accesses
    /\ pc # "recording" => dirty_pages = stored
    /\ pc = "recording" /\ last_page(access) # TopPage =>
           /\ first_page(access) <= page
           /\ dirty_pages = stored \cup {p \in Touched(access) : p < page}

\* What was stored to is mapped, or refused.
MappedInv ==
    stored \subseteq mapped \cup refused \cup (IF pc = "accessing" THEN Touched(access) ELSE {})

\* A store to the last page of the address space is never finished.
TopInv == TopPage \notin stored

IInv == TypeOK /\ TransientWithinLimit /\ RecordInv /\ MappedInv /\ TopInv

-----------------------------------------------------------------------------
(* Pages *)

\* The constants, as the proofs use them.
LEMMA Constants ==
    /\ M \in Nat \ {0} /\ page_size \in Nat \ {0} /\ M % page_size = 0
    /\ max_transient_regions \in Nat
    /\ PageSet \subseteq 0 .. (M - 1) /\ PageSet \subseteq Nat /\ CorePages \subseteq PageSet
    /\ \A acc \in Accesses : acc[1] \in 0 .. (M - 1) /\ acc[2] \in 1 .. (M - 1)
  BY MemoryAssumption, CoreAssumption DEF PageSet

\* There are finitely many pages.
LEMMA PagesFinite == IsFiniteSet(PageSet)
  <1>1. IsFiniteSet(0 .. (M - 1))
    BY Constants, FS_Interval
  <1> QED
    BY <1>1, Constants, FS_Subset

\* The address space begins with a page.
LEMMA FirstPageOfAll == 0 \in PageSet
  <1>1. 0 % page_size = 0
    BY Constants, RemainderSmall
  <1> QED
    BY <1>1, Constants DEF PageSet

\* Every byte is in one page.
LEMMA PageOfByte ==
    ASSUME NEW x \in 0 .. (M - 1)
    PROVE  page_of(x) \in PageSet /\ page_of(x) <= x /\ x < page_of(x) + page_size
  <1>1. x \in Nat /\ page_size \in Nat \ {0}
    BY Constants
  <1>2. /\ page_of(x) \in Nat /\ page_of(x) % page_size = 0
        /\ page_of(x) <= x /\ x - page_size < page_of(x)
    BY <1>1, MaskAligned DEF page_of
  <1> QED
    BY <1>1, <1>2, Constants DEF PageSet

\* The address space ends with a whole page.
LEMMA LastPageOfAll == TopPage \in PageSet /\ \A p \in PageSet : p <= TopPage
  <1>1. 0 % page_size = 0
    BY Constants, RemainderSmall
  <1>2. page_size <= M
    BY <1>1, Constants, AlignedApart
  <1>3. PICK q \in Nat : M = page_size * q
    BY Constants, AlignedMultiple
  <1>4. q # 0
    BY <1>3, Constants
  <1>5. q - 1 \in Nat /\ M - page_size = page_size * (q - 1)
    BY <1>3, <1>4, Constants
  <1>6. (M - page_size) % page_size = 0
    BY <1>5, Constants, MultipleAligned
  <1>7. \A p \in PageSet : p + page_size <= M
    <2> SUFFICES ASSUME NEW p \in PageSet PROVE p + page_size <= M
      OBVIOUS
    <2>1. p \in Nat /\ p % page_size = 0 /\ p < M
      BY Constants DEF PageSet
    <2> QED
      BY <2>1, Constants, AlignedApart
  <1> QED
    BY <1>2, <1>6, <1>7, Constants DEF TopPage, PageSet

\* The loop variable of record_write goes from page to page; after the last page of the
\* address space comes the first.
LEMMA NextPage ==
    ASSUME NEW p \in PageSet
    PROVE  /\ (p + page_size) % M \in PageSet
           /\ p # TopPage => (p + page_size) % M = p + page_size
  <1>1. p <= TopPage /\ TopPage = M - page_size /\ p \in Nat /\ p % page_size = 0
    BY LastPageOfAll, Constants DEF TopPage, PageSet
  <1>2. CASE p = TopPage
    <2>1. p + page_size = M
      BY <1>1, <1>2, Constants
    <2>2. M % M = M - M
      BY Constants, RemainderOnce
    <2>3. 0 % page_size = 0 /\ M - M = 0
      BY Constants, RemainderSmall
    <2> QED
      BY <1>2, <2>1, <2>2, <2>3, Constants DEF PageSet
  <1>3. CASE p # TopPage
    <2>1. p + page_size \in 0 .. (M - 1)
      BY <1>1, <1>3, Constants
    <2>2. (p + page_size) % M = p + page_size
      BY <2>1, Constants, RemainderSmall
    <2>3. page_size % page_size = page_size - page_size
      BY Constants, RemainderOnce
    <2>4. (p + page_size) % page_size = 0
      <3>1. page_size % page_size = 0
        BY <2>3, Constants
      <3> QED
        BY <1>1, <3>1, Constants, AlignedSum
    <2> QED
      BY <2>1, <2>2, <2>4 DEF PageSet
  <1> QED
    BY <1>2, <1>3

\* Nothing lies between a page and the next.
LEMMA NoPageBetween ==
    ASSUME NEW p \in PageSet, NEW q \in PageSet
    PROVE  q < p + page_size <=> q <= p
  <1>1. p < q => p + page_size <= q
    BY Constants, AlignedApart DEF PageSet
  <1> QED
    BY <1>1, Constants

\* The pages of an access.
LEMMA AccessPages ==
    ASSUME NEW acc \in Accesses
    PROVE  /\ first_page(acc) \in PageSet /\ last_page(acc) \in PageSet
           /\ last_byte(acc) \in 0 .. (M - 1)
           /\ Touched(acc) \subseteq PageSet
  <1>1. acc[1] \in 0 .. (M - 1) /\ acc[1] + acc[2] - 1 \in Int
    BY Constants
  <1>2. last_byte(acc) \in 0 .. (M - 1)
    BY <1>1, Constants, RemainderRange DEF last_byte
  <1> QED
    BY <1>1, <1>2, PageOfByte DEF first_page, last_page, Touched

-----------------------------------------------------------------------------
(* Mapping on demand *)

\* map_transient_page grants no more pages than there are places left.
LEMMA GrantedFewEnough ==
    ASSUME NEW pages \in SUBSET PageSet,
           Cardinality(transient) \in 0 .. max_transient_regions
    PROVE  /\ IsFiniteSet(map_transient(pages))
           /\ Cardinality(map_transient(pages)) <= max_transient_regions - Cardinality(transient)
  <1> DEFINE free == max_transient_regions - Cardinality(transient)
             Below(p) == {q \in pages : q < p}
             granted == map_transient(pages)
             place == [p \in granted |-> Cardinality(Below(p))]
  <1>1. free \in Nat
    BY Constants
  <1>2. granted = {p \in pages : Cardinality(Below(p)) < free}
    BY DEF map_transient
  <1>3. /\ IsFiniteSet(pages) /\ IsFiniteSet(granted) /\ granted \subseteq pages
        /\ \A p \in granted : p \in Nat
    BY <1>2, PagesFinite, FS_Subset, Constants
  <1>4. \A p : IsFiniteSet(Below(p)) /\ Cardinality(Below(p)) \in Nat
    <2> TAKE p
    <2>1. IsFiniteSet(Below(p))
      BY <1>3, FS_Subset
    <2> QED
      BY <2>1, FS_CardinalityType
  <1>5. ASSUME NEW p \in granted, NEW q \in granted, p < q
        PROVE  Cardinality(Below(p)) # Cardinality(Below(q))
    <2>1. p \in Below(q) /\ p \notin Below(p)
      BY <1>3, <1>5
    <2>2. Below(p) \subseteq Below(q)
      <3>1. \A r \in pages : r \in Nat
        BY Constants
      <3> QED
        BY <1>3, <1>5, <3>1
    <2> HIDE DEF Below
    <2>3. Cardinality(Below(p)) = Cardinality(Below(q)) => Below(q) = Below(p)
      BY <1>4, <2>2, FS_Subset
    <2> QED
      BY <2>1, <2>3
  <1> HIDE DEF Below, free
  <1>6. place \in [granted -> 0 .. (free - 1)]
    BY <1>1, <1>2, <1>4
  <1>7. \A p, q \in granted : place[p] = place[q] => p = q
    <2> SUFFICES ASSUME NEW p \in granted, NEW q \in granted, p # q
                 PROVE  place[p] # place[q]
      OBVIOUS
    <2>1. p < q \/ q < p
      BY <1>3
    <2> QED
      BY <1>5, <2>1
  <1>8. place \in Injection(granted, 0 .. (free - 1))
    BY <1>6, <1>7, Zenon DEF Injection, IsInjective
  <1>9. IsFiniteSet(0 .. (free - 1)) /\ Cardinality(0 .. (free - 1)) = free
    <2>1. free - 1 \in Int /\ (0 > free - 1 => free = 0) /\ (free - 1) - 0 + 1 = free
      BY <1>1
    <2> QED
      BY <2>1, FS_Interval
  <1>10. Cardinality(granted) <= free
    BY <1>8, <1>9, FS_Injection
  <1> QED
    BY <1>3, <1>10 DEF free

\* The granted pages are the lowest ones.
LEMMA LowerPagesFirst ==
    ASSUME transient \subseteq PageSet,
           NEW pages \in SUBSET PageSet, NEW top \in map_transient(pages)
    PROVE  {p \in pages : p < top} \subseteq map_transient(pages)
  <1> DEFINE Below(p) == {q \in pages : q < p}
  <1> SUFFICES ASSUME NEW p \in pages, p < top
               PROVE  Cardinality(Below(p)) < max_transient_regions - Cardinality(transient)
    BY DEF map_transient
  <1>1. Cardinality(Below(top)) < max_transient_regions - Cardinality(transient)
    BY DEF map_transient
  <1>2. Below(p) \subseteq Below(top)
    <2>1. \A q \in pages : q \in Nat
      BY Constants
    <2> QED
      BY <2>1 DEF map_transient
  <1>3. IsFiniteSet(Below(top)) /\ IsFiniteSet(transient)
    BY PagesFinite, FS_Subset
  <1> HIDE DEF Below
  <1>4. /\ Cardinality(Below(p)) <= Cardinality(Below(top)) /\ Cardinality(Below(p)) \in Nat
        /\ Cardinality(Below(top)) \in Nat /\ Cardinality(transient) \in Nat
    BY <1>2, <1>3, FS_Subset, FS_CardinalityType
  <1> QED
    BY <1>1, <1>4, Constants

\* What is granted is added to what is mapped already.
LEMMA MappingStaysWithin ==
    ASSUME TransientWithinLimit, transient \subseteq PageSet,
           NEW pages \in SUBSET PageSet, pages \cap mapped = {},
           NEW new \in SUBSET map_transient(pages), transient' = transient \cup new
    PROVE  TransientWithinLimit' /\ transient' \subseteq PageSet
  <1>1. IsFiniteSet(transient) /\ Cardinality(transient) \in 0 .. max_transient_regions
    <2>1. IsFiniteSet(transient)
      BY PagesFinite, FS_Subset
    <2>2. Cardinality(transient) \in Nat
      BY <2>1, FS_CardinalityType
    <2> QED
      BY <2>1, <2>2, Constants DEF TransientWithinLimit
  <1>2. /\ IsFiniteSet(map_transient(pages)) /\ map_transient(pages) \subseteq pages
        /\ Cardinality(map_transient(pages)) <= max_transient_regions - Cardinality(transient)
    BY <1>1, GrantedFewEnough DEF map_transient
  <1>3. /\ IsFiniteSet(new) /\ Cardinality(new) \in Nat
        /\ Cardinality(new) <= Cardinality(map_transient(pages))
        /\ Cardinality(map_transient(pages)) \in Nat
    BY <1>2, FS_Subset, FS_CardinalityType
  <1>4. /\ IsFiniteSet(transient \cap new) /\ Cardinality(transient \cap new) \in Nat
        /\ IsFiniteSet(transient \cup new) /\ Cardinality(transient \cup new) \in Nat
        /\ Cardinality(transient \cup new)
             = Cardinality(transient) + Cardinality(new) - Cardinality(transient \cap new)
    BY <1>1, <1>3, FS_Union, FS_Subset, FS_CardinalityType
  <1>5. Cardinality(transient \cup new) <= max_transient_regions
    BY <1>1, <1>2, <1>3, <1>4, Constants
  <1>6. transient' \cap CorePages = {} /\ transient' \subseteq PageSet
    BY <1>2 DEF TransientWithinLimit, mapped
  <1> QED
    BY <1>5, <1>6 DEF TransientWithinLimit

\* map_fault_region finds every page of the access that is not mapped, unless the access
\* reaches the last page of the address space.
LEMMA FaultPages ==
    ASSUME NEW acc \in Accesses
    PROVE  /\ fault_pages(acc) \subseteq PageSet /\ fault_pages(acc) \cap mapped = {}
           /\ last_page(acc) # TopPage => Touched(acc) \subseteq mapped \cup fault_pages(acc)
           /\ last_page(acc) = TopPage => fault_pages(acc) = {}
  <1>1. fault_pages(acc) \subseteq PageSet /\ fault_pages(acc) \cap mapped = {}
    BY DEF fault_pages
  <1>2. ASSUME last_page(acc) # TopPage, NEW p \in Touched(acc), p \notin mapped
        PROVE  p \in fault_pages(acc)
    <2> DEFINE x == last_byte(acc)
               last == last_page(acc)
    <2>1. x \in 0 .. (M - 1) /\ last \in PageSet /\ last # TopPage /\ p \in PageSet
          /\ first_page(acc) <= p /\ p <= last
      BY <1>2, AccessPages DEF Touched
    <2>2. last <= x /\ x < last + page_size /\ last = x - (x % page_size)
      BY <2>1, PageOfByte DEF last_page, page_of
    <2>3. last + page_size \in PageSet /\ last + page_size <= TopPage
      BY <2>1, NextPage, LastPageOfAll
    <2>4. x + page_size \in 0 .. (M - 1) /\ (x + page_size) % M = x + page_size
      <3>1. x + page_size < last + page_size + page_size /\ last + page_size + page_size <= M
        BY <2>1, <2>2, <2>3, Constants DEF TopPage
      <3>2. x + page_size \in 0 .. (M - 1)
        BY <2>1, <2>2, <2>3, <3>1, Constants
      <3> QED
        BY <3>2, Constants, RemainderSmall
    <2> HIDE DEF x, last
    <2>5. /\ page_of(x + page_size) \in PageSet /\ page_of(x + page_size) <= x + page_size
          /\ x + page_size < page_of(x + page_size) + page_size
      BY <2>4, PageOfByte
    <2>6. p < page_of(x + page_size)
      <3>1. /\ p \in Nat /\ last \in Nat /\ x \in Nat /\ page_size \in Nat
            /\ page_of(x + page_size) \in Nat
        <4>1. PageSet \subseteq Nat /\ 0 .. (M - 1) \subseteq Nat /\ page_size \in Nat
          BY Constants
        <4> QED
          BY <2>1, <2>5, <4>1
      <3>2. last < page_of(x + page_size)
        BY <2>2, <2>5, <3>1
      <3> QED
        BY <2>1, <3>1, <3>2
    <2> QED
      BY <1>2, <2>1, <2>4, <2>6 DEF fault_pages, x
  <1>3. ASSUME last_page(acc) = TopPage PROVE fault_pages(acc) = {}
    <2> DEFINE x == last_byte(acc)
               y == (x + page_size) % M
    <2>1. x \in 0 .. (M - 1) /\ TopPage = M - page_size /\ TopPage <= x
      BY <1>3, AccessPages, PageOfByte DEF last_page, TopPage
    <2>2. /\ x + page_size - M \in 0 .. (page_size - 1) /\ page_size <= M
          /\ x + page_size \in M .. (M + M - 1)
      BY <2>1, LastPageOfAll, Constants
    <2>3. y = x + page_size - M
      <3> DEFINE z == x + page_size
      <3>1. M \in Nat \ {0} /\ z \in M .. (M + M - 1)
        BY <2>2, Constants
      <3> HIDE DEF z
      <3>2. z % M = z - M
        BY <3>1, RemainderOnce
      <3>3. z - M = x + page_size - M
        BY <2>1, Constants DEF z
      <3>4. y = z % M
        BY DEF z
      <3> HIDE DEF x, y
      <3> QED
        BY <3>2, <3>3, <3>4
    <2>4. y \in 0 .. (M - 1) /\ y < page_size
      BY <2>2, <2>3, Constants
    <2> HIDE DEF x, y
    <2>5. page_of(y) = 0
      BY <2>4, Constants, RemainderSmall DEF page_of
    <2>6. \A p \in PageSet : ~(p < 0)
      BY Constants
    <2> QED
      BY <2>5, <2>6 DEF fault_pages, x, y
  <1> QED
    BY <1>1, <1>2, <1>3

-----------------------------------------------------------------------------
(* Merging *)

\* How many pages are dirty.
DirtyCount == Cardinality(dirty_pages)

\* The locals of the merging loop before and after its turns.
RegionSet == [start : PageSet, size : 0 .. (M - 1)]
LocalsSet == [regions : Seq(RegionSet), start : PageSet, end : 0 .. (M - 1)]

\* The dirty pages are finitely many numbers.
LEMMA DirtyFinite ==
    ASSUME dirty_pages \subseteq PageSet
    PROVE  /\ dirty_pages \subseteq Int /\ IsFiniteSet(dirty_pages) /\ DirtyCount \in Nat
           /\ dirty_pages # {} => 1 \in 1 .. DirtyCount /\ DirtyCount \in 1 .. DirtyCount
  <1>1. dirty_pages \subseteq Int /\ IsFiniteSet(dirty_pages)
    <2>1. \A p \in PageSet : p \in Int
      BY Constants
    <2> QED
      BY <2>1, PagesFinite, FS_Subset
  <1>2. DirtyCount \in Nat /\ (DirtyCount = 0 <=> dirty_pages = {})
    BY <1>1, FS_CardinalityType, FS_EmptySet DEF DirtyCount
  <1>3. dirty_pages # {} => 1 \in 1 .. DirtyCount /\ DirtyCount \in 1 .. DirtyCount
    BY <1>2
  <1> QED
    BY <1>1, <1>2, <1>3

\* The n-th page is dirty, and n - 1 dirty pages lie below it.
LEMMA SortedPlace ==
    ASSUME dirty_pages \subseteq PageSet, NEW n \in 1 .. DirtyCount
    PROVE  sorted[n] \in dirty_pages /\ Cardinality(MembersBelow(dirty_pages, sorted[n])) = n - 1
  <1>1. n - 1 \in 0 .. (Cardinality(dirty_pages) - 1)
    BY DirtyFinite DEF DirtyCount
  <1>2. \E p \in dirty_pages : Cardinality(MembersBelow(dirty_pages, p)) = n - 1
    BY <1>1, DirtyFinite, RankOnto
  <1>3. sorted[n] = CHOOSE p \in dirty_pages : Cardinality(MembersBelow(dirty_pages, p)) = n - 1
    BY DEF sorted, DirtyCount, MembersBelow
  <1> QED
    BY <1>2, <1>3

\* std::sort leaves the pages in ascending order.
LEMMA SortedAscends ==
    ASSUME dirty_pages \subseteq PageSet, NEW n \in 1 .. DirtyCount, NEW m \in 1 .. DirtyCount
    PROVE  sorted[n] < sorted[m] <=> n < m
  <1> DEFINE p == sorted[n]
             q == sorted[m]
  <1>1. /\ p \in dirty_pages /\ Cardinality(MembersBelow(dirty_pages, p)) = n - 1
        /\ q \in dirty_pages /\ Cardinality(MembersBelow(dirty_pages, q)) = m - 1
    BY SortedPlace
  <1>2. p \in Int /\ q \in Int /\ n \in Int /\ m \in Int
    BY <1>1, DirtyFinite
  <1> HIDE DEF p, q
  <1>3. p < q => n - 1 < m - 1
    BY <1>1, DirtyFinite, RankMonotone
  <1>4. q < p => m - 1 < n - 1
    BY <1>1, DirtyFinite, RankMonotone
  <1>5. p = q => n - 1 = m - 1
    BY <1>1
  <1> QED
    BY <1>2, <1>3, <1>4, <1>5 DEF p, q

\* std::sort leaves no page out.
LEMMA SortedOnto ==
    ASSUME dirty_pages \subseteq PageSet, NEW p \in dirty_pages
    PROVE  \E n \in 1 .. DirtyCount : sorted[n] = p
  <1> DEFINE n == Cardinality(MembersBelow(dirty_pages, p)) + 1
  <1>1. n \in 1 .. DirtyCount /\ n - 1 = Cardinality(MembersBelow(dirty_pages, p))
    BY DirtyFinite, RankRange DEF DirtyCount
  <1> HIDE DEF n
  <1>2. /\ sorted[n] \in dirty_pages
        /\ Cardinality(MembersBelow(dirty_pages, sorted[n])) = n - 1
    BY <1>1, SortedPlace
  <1>3. p \in Int /\ sorted[n] \in Int
    BY <1>2, DirtyFinite
  <1>4. p < sorted[n] => Cardinality(MembersBelow(dirty_pages, p)) < n - 1
    BY <1>2, DirtyFinite, RankMonotone
  <1>5. sorted[n] < p => n - 1 < Cardinality(MembersBelow(dirty_pages, p))
    BY <1>2, DirtyFinite, RankMonotone
  <1>6. ~(p < sorted[n]) /\ ~(sorted[n] < p)
    BY <1>1, <1>4, <1>5
  <1> QED
    BY <1>1, <1>3, <1>6

\* Nothing is dirty between one page and the next in order.
LEMMA SortedAdjacent ==
    ASSUME dirty_pages \subseteq PageSet, NEW n \in 1 .. DirtyCount, n + 1 \in 1 .. DirtyCount,
           NEW p \in dirty_pages, sorted[n] < p
    PROVE  sorted[n + 1] <= p
  <1>1. PICK m \in 1 .. DirtyCount : sorted[m] = p
    BY SortedOnto
  <1>2. n < m
    BY <1>1, SortedAscends
  <1>3. m = n + 1 \/ n + 1 < m
    BY <1>2
  <1>4. sorted[n + 1] \in Int /\ p \in Int
    BY SortedPlace, DirtyFinite
  <1> QED
    BY <1>1, <1>3, <1>4, SortedAscends

\* A region ends where its last page does.
EndOf(r) == r.start + r.size

\* A region is a pair of numbers.
LEMMA RegionNumbers ==
    ASSUME NEW r \in RegionSet
    PROVE  r.start \in PageSet /\ r.start \in Nat /\ r.size \in Nat /\ EndOf(r) \in Nat
  <1>1. PageSet \subseteq Nat /\ 0 .. (M - 1) \subseteq Nat
    BY Constants
  <1>2. r.start \in PageSet /\ r.size \in 0 .. (M - 1)
    BY DEF RegionSet
  <1>3. r.start \in Nat /\ r.size \in Nat
    BY <1>1, <1>2
  <1> QED
    BY <1>2, <1>3 DEF EndOf

\* A page lies in one of the regions.
Covers(regions, p) ==
    \E k \in 1 .. Len(regions) : regions[k].start <= p /\ p < EndOf(regions[k])

\* There is a gap between any two regions.
Separate(regions) ==
    \A k \in 1 .. (Len(regions) - 1) : EndOf(regions[k]) < regions[k + 1].start

\* When the loop has seen n pages, the closed regions and the open one cover the dirty
\* pages up to the n-th.
MergeInv(locals, n) ==
    /\ locals \in LocalsSet
    /\ locals.start <= sorted[n]
    /\ locals.end = sorted[n] + page_size
    /\ Separate(locals.regions)
    /\ \A k \in 1 .. Len(locals.regions) : EndOf(locals.regions[k]) < locals.start
    /\ \A p \in PageSet : p <= sorted[n] =>
           (p \in dirty_pages <=> locals.start <= p \/ Covers(locals.regions, p))

\* The end of the open region is no wrapped sum: the last page of the address space is
\* never dirty between two accesses.
LEMMA PageEnd ==
    ASSUME dirty_pages \subseteq PageSet, TopPage \notin dirty_pages, NEW p \in dirty_pages
    PROVE  /\ p \in Nat /\ p \in PageSet /\ (p + page_size) % M = p + page_size
           /\ p + page_size \in 0 .. (M - 1) /\ p + page_size \in PageSet
           /\ p + page_size <= TopPage
  <1>1. p \in PageSet /\ p # TopPage
    OBVIOUS
  <1>2. (p + page_size) % M = p + page_size /\ p + page_size \in PageSet
    BY <1>1, NextPage
  <1> QED
    BY <1>1, <1>2, LastPageOfAll, Constants

\* Closing the open region.
LEMMA RegionClosed ==
    ASSUME dirty_pages \subseteq PageSet, TopPage \notin dirty_pages,
           NEW n \in 1 .. DirtyCount, NEW locals, MergeInv(locals, n),
           NEW closed, closed = Append(locals.regions, Region(locals.start, locals.end))
    PROVE  /\ closed \in Seq(RegionSet) /\ Separate(closed)
           /\ \A k \in 1 .. Len(closed) : EndOf(closed[k]) <= sorted[n] + page_size
           /\ \A p \in PageSet : Covers(closed, p) <=> p \in dirty_pages /\ p <= sorted[n]
  <1> DEFINE new == Region(locals.start, locals.end)
             old == locals.regions
             first == locals.start
             end == locals.end
             top == sorted[n]
  <1>1. /\ top \in dirty_pages /\ top \in Nat /\ top \in PageSet
        /\ top + page_size \in 0 .. (M - 1)
    BY SortedPlace, PageEnd
  <1>2. /\ old \in Seq(RegionSet) /\ first \in PageSet /\ first \in Nat /\ end \in 0 .. (M - 1)
        /\ first <= top /\ end = top + page_size
    BY Constants DEF MergeInv, LocalsSet
  <1>3. /\ Separate(old)
        /\ \A k \in 1 .. Len(old) : EndOf(old[k]) < first
        /\ \A p \in PageSet : p <= top => (p \in dirty_pages <=> first <= p \/ Covers(old, p))
    BY DEF MergeInv
  <1>4. new \in RegionSet /\ new.start = first /\ EndOf(new) = end
    <2>1. end - first \in 0 .. (M - 1)
      BY <1>1, <1>2, Constants
    <2>2. (end - first) % M = end - first
      BY <2>1, Constants, RemainderSmall
    <2> QED
      BY <1>1, <1>2, <2>1, <2>2 DEF Region, RegionSet, EndOf
  <1> HIDE DEF new, old, first, end, top
  <1>5. /\ closed \in Seq(RegionSet) /\ Len(closed) = Len(old) + 1 /\ Len(old) \in Nat
        /\ closed[Len(old) + 1] = new
        /\ \A k \in 1 .. Len(old) : closed[k] = old[k]
    <2>1. closed = Append(old, new)
      BY DEF old, new
    <2> QED
      BY <1>2, <1>4, <2>1
  <1>6. \A k \in 1 .. Len(old) : EndOf(old[k]) \in Nat /\ old[k].start \in Nat
    <2> SUFFICES ASSUME NEW k \in 1 .. Len(old) PROVE EndOf(old[k]) \in Nat /\ old[k].start \in Nat
      OBVIOUS
    <2>1. old[k] \in RegionSet
      BY <1>2
    <2> QED
      BY <2>1, RegionNumbers
  <1>7. Separate(closed)
    <2> SUFFICES ASSUME NEW k \in 1 .. Len(old) PROVE EndOf(closed[k]) < closed[k + 1].start
      BY <1>5 DEF Separate
    <2>1. CASE k = Len(old)
      BY <1>3, <1>4, <1>5, <2>1
    <2>2. CASE k # Len(old)
      <3>1. k \in 1 .. (Len(old) - 1) /\ k + 1 \in 1 .. Len(old)
        BY <1>5, <2>2
      <3> QED
        BY <1>3, <1>5, <3>1 DEF Separate
    <2> QED
      BY <2>1, <2>2
  <1>8. \A k \in 1 .. Len(closed) : EndOf(closed[k]) <= top + page_size
    <2> SUFFICES ASSUME NEW k \in 1 .. Len(closed) PROVE EndOf(closed[k]) <= end
      BY <1>2
    <2>1. CASE k = Len(old) + 1
      BY <1>2, <1>4, <1>5, <2>1
    <2>2. CASE k # Len(old) + 1
      <3>1. k \in 1 .. Len(old)
        BY <1>5, <2>2
      <3> QED
        BY <1>1, <1>2, <1>3, <1>5, <1>6, <3>1, Constants
    <2> QED
      BY <2>1, <2>2
  <1>9. \A p \in PageSet : Covers(closed, p) <=> Covers(old, p) \/ (first <= p /\ p < end)
    <2> SUFFICES ASSUME NEW p \in PageSet
                 PROVE  Covers(closed, p) <=> Covers(old, p) \/ (first <= p /\ p < end)
      OBVIOUS
    <2>1. Covers(closed, p) <=> \/ \E k \in 1 .. Len(old) : closed[k].start <= p /\ p < EndOf(closed[k])
                                \/ new.start <= p /\ p < EndOf(new)
      <3>1. 1 .. Len(closed) = (1 .. Len(old)) \cup {Len(old) + 1}
        BY <1>5
      <3> QED
        BY <1>5, <3>1 DEF Covers
    <2> QED
      BY <1>4, <1>5, <2>1 DEF Covers
  <1>10. ASSUME NEW p \in PageSet
         PROVE  Covers(closed, p) <=> p \in dirty_pages /\ p <= top
    <2>1. p \in Nat /\ (p < end <=> p <= top)
      BY <1>1, <1>2, NoPageBetween, Constants
    <2>2. Covers(old, p) => p <= top
      <3> SUFFICES ASSUME NEW k \in 1 .. Len(old), p < EndOf(old[k]) PROVE p <= top
        BY DEF Covers
      <3> QED
        BY <1>1, <1>2, <1>3, <1>6, <2>1
    <2> QED
      BY <1>3, <1>9, <2>1, <2>2
  <1> QED
    BY <1>5, <1>7, <1>8, <1>10 DEF top

\* One more page (write_tracker.hpp:39-47).
LEMMA PageMerged ==
    ASSUME dirty_pages \subseteq PageSet, TopPage \notin dirty_pages,
           NEW n \in 1 .. DirtyCount, n + 1 \in 1 .. DirtyCount,
           NEW locals, MergeInv(locals, n)
    PROVE  MergeInv(extend(locals, sorted[n + 1]), n + 1)
  <1> DEFINE p == sorted[n]
             q == sorted[n + 1]
             closed == Append(locals.regions, Region(locals.start, locals.end))
  <1>1. /\ p \in dirty_pages /\ p \in Nat /\ p \in PageSet
        /\ q \in dirty_pages /\ q \in Nat /\ q \in PageSet
        /\ (q + page_size) % M = q + page_size /\ q + page_size \in 0 .. (M - 1)
    BY SortedPlace, PageEnd
  <1>2. p < q
    <2>1. n < n + 1
      OBVIOUS
    <2> QED
      BY <2>1, SortedAscends
  <1>3. p + page_size <= q
    BY <1>1, <1>2, NoPageBetween, Constants
  <1>4. \A d \in dirty_pages : p < d => q <= d
    BY SortedAdjacent
  <1>5. /\ locals.regions \in Seq(RegionSet) /\ locals.start \in PageSet /\ locals.start \in Nat
        /\ locals.end = p + page_size /\ locals.end \in Nat /\ locals.start <= p
    <2>1. /\ locals.regions \in Seq(RegionSet) /\ locals.start \in PageSet
          /\ locals.end = p + page_size /\ locals.start <= p
      BY DEF MergeInv, LocalsSet
    <2>2. PageSet \subseteq Nat /\ page_size \in Nat
      BY Constants
    <2>3. locals.start \in Nat
      BY <2>1, <2>2
    <2>4. p + page_size \in Nat
      BY <1>1, <2>2
    <2> QED
      BY <2>1, <2>3, <2>4
  <1>6. locals = [regions |-> locals.regions, start |-> locals.start, end |-> locals.end]
    BY DEF MergeInv, LocalsSet
  <1>7. CASE q <= locals.end
    <2>1. extend(locals, q) = [regions |-> locals.regions, start |-> locals.start,
                               end |-> q + page_size]
      BY <1>1, <1>6, <1>7 DEF extend
    <2>2. q = p + page_size
      BY <1>1, <1>3, <1>5, <1>7, Constants, SMTT(60)
    <2>3. ASSUME NEW d \in PageSet, d <= q
          PROVE  d \in dirty_pages <=> locals.start <= d \/ Covers(locals.regions, d)
      <3>1. d \in Nat
        BY Constants
      <3>2. CASE d <= p
        BY <3>2 DEF MergeInv
      <3>3. CASE p < d
        <4>1. p + page_size <= d
          BY <1>1, <3>1, <3>3, NoPageBetween, Constants
        <4>2. d = q
          BY <1>1, <2>2, <2>3, <3>1, <4>1
        <4>3. locals.start <= d
          BY <1>1, <1>5, <3>1, <3>3
        <4> QED
          BY <1>1, <4>2, <4>3
      <3> QED
        BY <1>1, <3>1, <3>2, <3>3
    <2>4. locals.start <= q
      BY <1>1, <1>2, <1>5
    <2>5. Separate(locals.regions)
          /\ \A k \in 1 .. Len(locals.regions) : EndOf(locals.regions[k]) < locals.start
      BY DEF MergeInv
    <2> HIDE DEF p, q
    <2> DEFINE after == [regions |-> locals.regions, start |-> locals.start, end |-> q + page_size]
    <2>6. /\ after \in LocalsSet /\ after.regions = locals.regions
          /\ after.start = locals.start /\ after.end = q + page_size
      BY <1>1, <1>5 DEF LocalsSet
    <2> HIDE DEF after
    <2>7. MergeInv(after, n + 1)
      BY <2>3, <2>4, <2>5, <2>6 DEF MergeInv, q
    <2> QED
      BY <2>1, <2>7 DEF q, after
  <1>8. CASE ~(q <= locals.end)
    <2>1. extend(locals, q) = [regions |-> closed, start |-> q, end |-> q + page_size]
      BY <1>1, <1>8 DEF extend
    <2>2. /\ closed \in Seq(RegionSet) /\ Separate(closed)
          /\ \A k \in 1 .. Len(closed) : EndOf(closed[k]) <= p + page_size
          /\ \A d \in PageSet : Covers(closed, d) <=> d \in dirty_pages /\ d <= p
      BY RegionClosed
    <2>3. p + page_size < q
      BY <1>1, <1>5, <1>8
    <2>4. \A k \in 1 .. Len(closed) : EndOf(closed[k]) < q
      <3> SUFFICES ASSUME NEW k \in 1 .. Len(closed) PROVE EndOf(closed[k]) < q
        OBVIOUS
      <3> HIDE DEF closed, p, q
      <3>1. closed[k] \in RegionSet
        BY <2>2
      <3>2. EndOf(closed[k]) \in Int
        BY <3>1, RegionNumbers
      <3> QED
        BY <1>1, <2>2, <2>3, <3>2, Constants
    <2>5. ASSUME NEW d \in PageSet, d <= q
          PROVE  d \in dirty_pages <=> q <= d \/ Covers(closed, d)
      <3>1. d \in Nat
        BY Constants
      <3> HIDE DEF closed, p, q
      <3>2. d \in dirty_pages => d <= p \/ q <= d
        BY <1>1, <1>4, <3>1
      <3>3. q <= d => d = q
        BY <1>1, <2>5, <3>1
      <3> QED
        BY <1>1, <2>2, <3>2, <3>3
    <2> HIDE DEF closed, p, q
    <2> DEFINE after == [regions |-> closed, start |-> q, end |-> q + page_size]
    <2>6. /\ after \in LocalsSet /\ after.regions = closed
          /\ after.start = q /\ after.end = q + page_size
      BY <1>1, <2>2 DEF LocalsSet
    <2> HIDE DEF after
    <2>7. q <= q
      BY <1>1
    <2>8. MergeInv(after, n + 1)
      BY <2>2, <2>4, <2>5, <2>6, <2>7 DEF MergeInv, q
    <2> QED
      BY <2>1, <2>8 DEF q, after
  <1> QED
    BY <1>7, <1>8

\* The loop starts with the lowest dirty page and an empty list.
LEMMA FirstMerged ==
    ASSUME dirty_pages \subseteq PageSet, TopPage \notin dirty_pages, dirty_pages # {},
           NEW locals,
           locals = [regions |-> <<>>, start |-> sorted[1], end |-> (sorted[1] + page_size) % M]
    PROVE  MergeInv(locals, 1)
  <1> DEFINE p == sorted[1]
  <1>1. 1 \in 1 .. DirtyCount /\ DirtyCount \in Nat
    BY DirtyFinite
  <1>2. /\ p \in dirty_pages /\ p \in Nat /\ p \in PageSet
        /\ (p + page_size) % M = p + page_size /\ p + page_size \in 0 .. (M - 1)
    BY <1>1, SortedPlace, PageEnd
  <1>3. ASSUME NEW d \in PageSet, d <= p PROVE d \in dirty_pages <=> p <= d
    <2>1. d \in Nat
      BY Constants
    <2>2. ASSUME d \in dirty_pages PROVE p <= d
      <3>1. PICK m \in 1 .. DirtyCount : sorted[m] = d
        BY <2>2, SortedOnto
      <3>2. m = 1 \/ 1 < m
        BY <3>1
      <3> QED
        BY <1>1, <1>2, <2>1, <3>1, <3>2, SortedAscends
    <2> QED
      BY <1>2, <1>3, <2>1, <2>2
  <1> HIDE DEF p
  <1>4. /\ locals.regions = <<>> /\ locals.start = p /\ locals.end = p + page_size
        /\ locals \in LocalsSet
    <2>1. <<>> \in Seq(RegionSet)
      OBVIOUS
    <2> QED
      BY <1>2, <2>1 DEF LocalsSet, p
  <1>5. Separate(<<>>) /\ \A k \in 1 .. Len(<<>>) : FALSE
    BY DEF Separate
  <1>6. p <= p
    BY <1>2
  <1> QED
    BY <1>3, <1>4, <1>5, <1>6 DEF MergeInv, Covers, p

\* The recursive function of the model has a value: the states of a loop of DirtyCount - 1
\* turns.
LEMMA MergingTurns ==
    ASSUME dirty_pages \subseteq PageSet, TopPage \notin dirty_pages, dirty_pages # {}
    PROVE  /\ merging[1] = [regions |-> <<>>, start |-> sorted[1],
                            end |-> (sorted[1] + page_size) % M]
           /\ \A n \in 2 .. DirtyCount : merging[n] = extend(merging[n - 1], sorted[n])
  <1> DEFINE base == [regions |-> <<>>, start |-> sorted[1], end |-> (sorted[1] + page_size) % M]
             turns == DirtyCount - 1
             next == [x \in LocalsSet \X (1 .. turns) |-> extend(x[1], sorted[x[2] + 1])]
  <1>1. DirtyCount \in Nat /\ turns \in Nat /\ 1 \in 1 .. DirtyCount
    BY DirtyFinite
  <1>2. base \in LocalsSet
    BY FirstMerged DEF MergeInv
  <1>3. next \in [LocalsSet \X (1 .. turns) -> LocalsSet]
    <2> SUFFICES ASSUME NEW locals \in LocalsSet, NEW n \in 1 .. turns
                 PROVE  extend(locals, sorted[n + 1]) \in LocalsSet
      OBVIOUS
    <2> DEFINE q == sorted[n + 1]
               new == Region(locals.start, locals.end)
    <2>1. n + 1 \in 1 .. DirtyCount
      BY <1>1
    <2>2. q \in PageSet /\ (q + page_size) % M \in 0 .. (M - 1)
      <3>1. q \in dirty_pages
        BY <2>1, SortedPlace
      <3>2. (q + page_size) % M \in PageSet
        BY <3>1, NextPage
      <3> QED
        BY <3>1, <3>2, Constants
    <2>3. locals.regions \in Seq(RegionSet) /\ locals.start \in PageSet /\ locals.end \in 0 .. (M - 1)
          /\ locals = [regions |-> locals.regions, start |-> locals.start, end |-> locals.end]
      BY DEF LocalsSet
    <2>4. new \in RegionSet
      <3>1. locals.end - locals.start \in Int
        BY <2>3, Constants
      <3>2. (locals.end - locals.start) % M \in 0 .. (M - 1)
        BY <3>1, Constants, RemainderRange
      <3> QED
        BY <2>3, <3>2 DEF Region, RegionSet
    <2> HIDE DEF new, q
    <2>5. Append(locals.regions, new) \in Seq(RegionSet)
      BY <2>3, <2>4
    <2>6. CASE q <= locals.end
      <3>1. extend(locals, q) = [regions |-> locals.regions, start |-> locals.start,
                                 end |-> (q + page_size) % M]
        BY <2>3, <2>6 DEF extend
      <3> QED
        BY <2>2, <2>3, <3>1 DEF LocalsSet, q
    <2>7. CASE ~(q <= locals.end)
      <3>1. extend(locals, q) = [regions |-> Append(locals.regions, new), start |-> q,
                                 end |-> (q + page_size) % M]
        BY <2>7 DEF extend, new
      <3> QED
        BY <2>2, <2>5, <3>1 DEF LocalsSet, q
    <2> QED
      BY <2>6, <2>7 DEF q
  <1> HIDE DEF base, turns, next
  <1>4. PICK f : TurnsUpTo(turns, f, LocalsSet, base, next)
    BY <1>1, <1>2, <1>3, LoopExists
  <1> DEFINE Body(g) == [n \in 1 .. DirtyCount |->
                            IF n = 1 THEN base ELSE extend(g[n - 1], sorted[n])]
             h == [n \in 1 .. DirtyCount |-> f[n - 1]]
  <1>5. h = Body(h)
    <2> SUFFICES ASSUME NEW n \in 1 .. DirtyCount
                 PROVE  f[n - 1] = IF n = 1 THEN base ELSE extend(h[n - 1], sorted[n])
      OBVIOUS
    <2>1. CASE n = 1
      BY <1>4, <2>1 DEF TurnsUpTo
    <2>2. CASE n # 1
      <3>1. /\ n - 1 \in 1 .. turns /\ (n - 1) - 1 \in 0 .. turns
            /\ (n - 1) + 1 = n /\ n - 1 \in 1 .. DirtyCount
        BY <1>1, <2>2 DEF turns
      <3>2. f[n - 1] = next[<<f[(n - 1) - 1], n - 1>>] /\ f[(n - 1) - 1] \in LocalsSet
        BY <1>4, <3>1 DEF TurnsUpTo
      <3>3. next[<<f[(n - 1) - 1], n - 1>>] = extend(f[(n - 1) - 1], sorted[n])
        BY <3>1, <3>2 DEF next
      <3>4. h[n - 1] = f[(n - 1) - 1]
        BY <3>1
      <3> QED
        BY <2>2, <3>2, <3>3, <3>4
    <2> QED
      BY <2>1, <2>2
  <1> HIDE DEF h
  <1>6. \E g : g = Body(g)
    BY <1>5
  <1>7. merging = CHOOSE g : g = Body(g)
    BY Zenon DEF merging, base, DirtyCount
  <1> HIDE DEF Body
  <1>8. merging = Body(merging)
    BY <1>6, <1>7, Zenon
  <1>9. \A n \in 1 .. DirtyCount :
            merging[n] = IF n = 1 THEN base ELSE extend(merging[n - 1], sorted[n])
    BY <1>8 DEF Body
  <1> QED
    BY <1>1, <1>9 DEF base

\* What the merging loop has done when it has seen all dirty pages.
LEMMA AllMerged ==
    ASSUME dirty_pages \subseteq PageSet, TopPage \notin dirty_pages, dirty_pages # {}
    PROVE  MergeInv(merging[DirtyCount], DirtyCount)
  <1> DEFINE Seen == {n \in Nat : n + 1 \in 1 .. DirtyCount => MergeInv(merging[n + 1], n + 1)}
  <1>1. DirtyCount \in Nat /\ DirtyCount # 0
    BY DirtyFinite
  <1>2. 0 \in Seen
    BY MergingTurns, FirstMerged
  <1>3. ASSUME NEW n \in Nat, n \in Seen PROVE n + 1 \in Seen
    <2> SUFFICES ASSUME (n + 1) + 1 \in 1 .. DirtyCount
                 PROVE  MergeInv(merging[(n + 1) + 1], (n + 1) + 1)
      OBVIOUS
    <2>1. /\ n + 1 \in 1 .. DirtyCount /\ (n + 1) + 1 \in 2 .. DirtyCount
          /\ ((n + 1) + 1) - 1 = n + 1
      BY <1>1, <1>3
    <2>2. MergeInv(merging[n + 1], n + 1)
      BY <1>3, <2>1
    <2>3. merging[(n + 1) + 1] = extend(merging[n + 1], sorted[(n + 1) + 1])
      BY <2>1, MergingTurns
    <2> QED
      BY <2>1, <2>2, <2>3, PageMerged
  <1> HIDE DEF Seen
  <1>4. Nat \subseteq Seen
    BY <1>2, <1>3, SetInduction
  <1>5. DirtyCount - 1 \in Seen /\ (DirtyCount - 1) + 1 = DirtyCount /\ DirtyCount \in 1 .. DirtyCount
    BY <1>1, <1>4
  <1> QED
    BY <1>5 DEF Seen

\* What get_dirty_regions returns.
LEMMA DirtyRegions ==
    ASSUME dirty_pages \subseteq PageSet, TopPage \notin dirty_pages
    PROVE  /\ get_dirty_regions \in Seq(RegionSet) /\ Separate(get_dirty_regions)
           /\ \A k \in 1 .. Len(get_dirty_regions) : EndOf(get_dirty_regions[k]) < M
           /\ \A p \in PageSet : Covers(get_dirty_regions, p) <=> p \in dirty_pages
  <1>1. CASE dirty_pages = {}
    BY <1>1 DEF get_dirty_regions, Separate, Covers
  <1>2. CASE dirty_pages # {}
    <2> DEFINE locals == merging[DirtyCount]
               closed == Append(locals.regions, Region(locals.start, locals.end))
               top == sorted[DirtyCount]
    <2>1. get_dirty_regions = closed
      BY <1>2 DEF get_dirty_regions, DirtyCount
    <2>2. MergeInv(locals, DirtyCount) /\ DirtyCount \in 1 .. DirtyCount /\ DirtyCount \in Nat
      BY <1>2, AllMerged, DirtyFinite
    <2>3. /\ closed \in Seq(RegionSet) /\ Separate(closed)
          /\ \A k \in 1 .. Len(closed) : EndOf(closed[k]) <= top + page_size
          /\ \A p \in PageSet : Covers(closed, p) <=> p \in dirty_pages /\ p <= top
      BY <2>2, RegionClosed
    <2>4. top \in dirty_pages /\ top \in Nat /\ top + page_size \in 0 .. (M - 1)
      BY <2>2, SortedPlace, PageEnd
    <2>5. \A p \in dirty_pages : p <= top
      <3> SUFFICES ASSUME NEW p \in dirty_pages PROVE p <= top
        OBVIOUS
      <3>1. PICK n \in 1 .. DirtyCount : sorted[n] = p
        BY SortedOnto
      <3>2. p \in Int /\ ~(top < p)
        BY <2>2, <3>1, SortedAscends, DirtyFinite
      <3> QED
        BY <2>4, <3>2
    <2> HIDE DEF locals, closed, top
    <2>6. \A k \in 1 .. Len(closed) : EndOf(closed[k]) < M
      <3> SUFFICES ASSUME NEW k \in 1 .. Len(closed) PROVE EndOf(closed[k]) < M
        OBVIOUS
      <3>1. closed[k] \in RegionSet
        BY <2>3
      <3>2. EndOf(closed[k]) \in Int
        BY <3>1, RegionNumbers
      <3> QED
        BY <2>3, <2>4, <3>2, Constants
    <2> QED
      BY <2>1, <2>3, <2>5, <2>6
  <1> QED
    BY <1>1, <1>2

-----------------------------------------------------------------------------
(* The steps *)

\* Before the first run no page is dirty and only the core is mapped.
LEMMA InitIInv == Init => IInv
  <1> SUFFICES ASSUME Init PROVE IInv
    OBVIOUS
  <1> USE DEF Init
  <1>1. TypeOK
    BY FirstPageOfAll DEF TypeOK
  <1>2. TransientWithinLimit
    BY FS_EmptySet, Constants DEF TransientWithinLimit
  <1>3. RecordInv /\ MappedInv /\ TopInv
    BY DEF RecordInv, MappedInv, TopInv
  <1> QED
    BY <1>1, <1>2, <1>3 DEF IInv

\* The engine looks at the memory, or the hook for stores is called.
LEMMA AccessBegins ==
    ASSUME IInv, NEW acc \in Accesses, Load(acc) \/ Store(acc) PROVE IInv'
  <1>1. CASE Load(acc)
    <2>1. TypeOK'
      BY <1>1 DEF Load, IInv, TypeOK
    <2>2. TransientWithinLimit' /\ RecordInv' /\ MappedInv' /\ TopInv'
      BY <1>1 DEF Load, IInv, TransientWithinLimit, RecordInv, MappedInv, TopInv, mapped
    <2> QED
      BY <2>1, <2>2 DEF IInv
  <1>2. CASE Store(acc)
    <2>1. first_page(acc) \in PageSet /\ Touched(acc) \subseteq PageSet
      BY AccessPages
    <2>2. TypeOK'
      BY <1>2, <2>1 DEF Store, IInv, TypeOK
    <2>3. TransientWithinLimit' /\ MappedInv' /\ TopInv'
      BY <1>2 DEF Store, IInv, TransientWithinLimit, MappedInv, TopInv, mapped
    <2>4. RecordInv'
      <3>1. \A p \in Touched(acc) : first_page(acc) <= p /\ p \in Nat
        BY <2>1, Constants DEF Touched
      <3>2. first_page(acc) \in Nat
        BY <2>1, Constants
      <3>3. {p \in Touched(acc) : p < first_page(acc)} = {} /\ first_page(acc) <= first_page(acc)
        BY <3>1, <3>2
      <3> QED
        BY <1>2, <3>3 DEF Store, IInv, RecordInv
    <2> QED
      BY <2>2, <2>3, <2>4 DEF IInv
  <1> QED
    BY <1>1, <1>2

\* One turn of the loop marks one page; at its end it has marked what it should.
LEMMA RecordWriteStep ==
    ASSUME IInv, RecordWrite PROVE IInv'
  <1>1. /\ pc = "recording" /\ access \in Accesses /\ page \in PageSet
        /\ UNCHANGED <<access, transient, limit_reached, refused>>
    BY DEF RecordWrite, IInv, TypeOK, RecordInv
  <1>2. /\ first_page(access) \in PageSet /\ last_page(access) \in PageSet
        /\ Touched(access) \subseteq PageSet
    BY <1>1, AccessPages
  <1>3. TransientWithinLimit'
    BY <1>1 DEF IInv, TransientWithinLimit
  <1>4. /\ page \in Nat /\ first_page(access) \in Nat /\ last_page(access) \in Nat
        /\ TopPage \in Nat /\ page_size \in Nat \ {0}
        /\ \A p \in Touched(access) : p \in Nat
    BY <1>1, <1>2, LastPageOfAll, Constants
  <1>5. CASE /\ page <= last_page(access)
             /\ dirty_pages' = dirty_pages \cup {page}
             /\ page' = (page + page_size) % M
             /\ UNCHANGED <<pc, stored>>
    <2>1. TypeOK'
      BY <1>1, <1>5, NextPage DEF IInv, TypeOK
    <2>2. MappedInv' /\ TopInv'
      BY <1>1, <1>5 DEF IInv, MappedInv, TopInv, mapped
    <2>3. RecordInv'
      <3> SUFFICES ASSUME last_page(access) # TopPage
                   PROVE  /\ first_page(access) <= page'
                          /\ dirty_pages' = stored \cup {p \in Touched(access) : p < page'}
        BY <1>1, <1>5 DEF RecordInv
      <3>1. /\ first_page(access) <= page
            /\ dirty_pages = stored \cup {p \in Touched(access) : p < page}
        BY <1>1 DEF IInv, RecordInv
      <3>2. page # TopPage
        <4>1. last_page(access) <= TopPage
          BY <1>2, LastPageOfAll
        <4> QED
          BY <1>5, <1>4, <4>1
      <3>3. page' = page + page_size
        BY <1>1, <1>5, <3>2, NextPage
      <3>4. \A p \in Touched(access) : p < page' <=> p < page \/ p = page
        <4>1. \A p \in Touched(access) : p < page + page_size <=> p <= page
          BY <1>1, <1>2, NoPageBetween
        <4> QED
          BY <1>4, <3>3, <4>1
      <3>5. page \in Touched(access)
        BY <1>1, <1>5, <3>1 DEF Touched
      <3> QED
        <4>1. first_page(access) <= page'
          BY <1>4, <3>1, <3>3
        <4>2. {p \in Touched(access) : p < page'} = {p \in Touched(access) : p < page} \cup {page}
          <5>1. ~(page < page)
            BY <1>4
          <5> QED
            BY <3>4, <3>5, <5>1
        <4> QED
          BY <1>5, <3>1, <4>1, <4>2
    <2> QED
      BY <1>3, <2>1, <2>2, <2>3 DEF IInv
  <1>6. CASE /\ page > last_page(access)
             /\ pc' = "accessing"
             /\ stored' = stored \cup Touched(access)
             /\ UNCHANGED <<page, dirty_pages>>
    <2>1. TypeOK'
      BY <1>1, <1>2, <1>6 DEF IInv, TypeOK
    <2>2. MappedInv'
      BY <1>1, <1>6 DEF IInv, MappedInv, mapped
    <2>3. last_page(access) # TopPage
      BY <1>1, <1>2, <1>6, LastPageOfAll, Constants
    <2>4. {p \in Touched(access) : p < page} = Touched(access)
      <3>1. \A p \in Touched(access) : p <= last_page(access)
        BY DEF Touched
      <3> QED
        BY <1>6, <1>4, <3>1
    <2>5. RecordInv'
      BY <1>1, <1>6, <2>3, <2>4 DEF IInv, RecordInv
    <2>6. TopInv'
      <3>1. last_page(access) < TopPage
        BY <1>2, <1>4, <2>3, LastPageOfAll
      <3>2. TopPage \notin Touched(access)
        BY <1>4, <3>1 DEF Touched
      <3> QED
        BY <1>6, <3>2 DEF IInv, TopInv
    <2> QED
      BY <1>3, <2>1, <2>2, <2>5, <2>6 DEF IInv
  <1> QED
    BY <1>5, <1>6 DEF RecordWrite

\* hook_mem maps what it may, and the access goes through when that is all of it.
LEMMA AccessStep ==
    ASSUME IInv, Access PROVE IInv'
  <1> DEFINE wanted == fault_pages(access)
             granted == map_transient(wanted)
  <1>1. /\ pc = "accessing" /\ pc' = "running" /\ access \in Accesses
        /\ transient' = transient \cup granted
        /\ limit_reached' = (limit_reached \/ granted # wanted)
        /\ refused' = refused \cup (((wanted \ granted)
                                        \cup (IF ReachesTop(access) THEN Touched(access) ELSE {}))
                                     \cap dirty_pages)
        /\ access' = NoAccess /\ page' = 0
        /\ UNCHANGED <<dirty_pages, stored>> /\ dirty_pages = stored
    BY DEF Access, Refuse, IInv, RecordInv
  <1>2. TransientWithinLimit' /\ transient' \subseteq PageSet
    BY <1>1, FaultPages, MappingStaysWithin DEF IInv, TypeOK
  <1>3. TypeOK'
    BY <1>1, <1>2, FaultPages, AccessPages, FirstPageOfAll DEF IInv, TypeOK
  <1>4. RecordInv' /\ TopInv'
    BY <1>1 DEF IInv, RecordInv, TopInv
  <1>5. MappedInv'
    <2>1. stored \cap Touched(access) \subseteq mapped \cup granted \cup refused'
      BY <1>1, FaultPages DEF ReachesTop
    <2>2. mapped' = mapped \cup granted
      BY <1>1 DEF mapped
    <2>3. stored \subseteq mapped \cup refused \cup Touched(access)
      BY <1>1 DEF IInv, MappedInv
    <2> HIDE DEF granted
    <2> QED
      BY <1>1, <2>1, <2>2, <2>3 DEF MappedInv
  <1> QED
    BY <1>2, <1>3, <1>4, <1>5 DEF IInv

\* uc_mem_map fails at one of the pages the limit allows.
LEMMA MapFailsStep ==
    ASSUME IInv, MapFails PROVE IInv'
  <1> DEFINE wanted == fault_pages(access)
  <1>1. /\ pc = "accessing" /\ pc' = "running" /\ access \in Accesses
        /\ access' = NoAccess /\ page' = 0
        /\ UNCHANGED <<dirty_pages, limit_reached, stored>> /\ dirty_pages = stored
    BY DEF MapFails, IInv, RecordInv
  <1>2. PICK failed \in map_transient(wanted) :
            /\ transient' = transient \cup {p \in wanted : p < failed}
            /\ refused' = refused \cup ({p \in wanted : p >= failed} \cap dirty_pages)
    BY DEF MapFails, Refuse
  <1>3. wanted \subseteq PageSet /\ wanted \cap mapped = {}
    BY <1>1, FaultPages
  <1>4. {p \in wanted : p < failed} \subseteq map_transient(wanted)
    BY <1>2, <1>3, LowerPagesFirst DEF IInv, TypeOK
  <1>5. TransientWithinLimit' /\ transient' \subseteq PageSet
    BY <1>2, <1>3, <1>4, MappingStaysWithin DEF IInv, TypeOK
  <1>6. TypeOK'
    BY <1>1, <1>2, <1>3, <1>5, FirstPageOfAll DEF IInv, TypeOK
  <1>7. RecordInv' /\ TopInv'
    BY <1>1 DEF IInv, RecordInv, TopInv
  <1>8. MappedInv'
    <2>1. stored \cap Touched(access) \subseteq mapped' \cup refused'
      <3>1. Touched(access) \subseteq mapped \cup wanted
        BY <1>1, <1>2, FaultPages DEF map_transient
      <3>2. \A p \in wanted : p < failed \/ p >= failed
        <4>1. wanted \subseteq Nat /\ failed \in wanted
          BY <1>2, <1>3, Constants DEF map_transient
        <4> HIDE DEF wanted
        <4> QED
          BY <4>1
      <3>3. mapped' = mapped \cup {p \in wanted : p < failed}
        BY <1>2 DEF mapped
      <3> HIDE DEF wanted
      <3> QED
        BY <1>1, <1>2, <3>1, <3>2, <3>3
    <2>2. mapped \subseteq mapped' /\ refused \subseteq refused'
      BY <1>2 DEF mapped
    <2>3. stored \subseteq mapped \cup refused \cup Touched(access)
      BY <1>1 DEF IInv, MappedInv
    <2> QED
      BY <1>1, <2>1, <2>2, <2>3 DEF MappedInv
  <1> QED
    BY <1>5, <1>6, <1>7, <1>8 DEF IInv

\* A new run (emulator.cpp:819-823) unmaps the transient pages and forgets the dirty ones.
LEMMA StartRunStep ==
    ASSUME IInv, StartRun PROVE IInv'
  <1>1. TypeOK'
    BY DEF StartRun, IInv, TypeOK
  <1>2. TransientWithinLimit'
    BY FS_EmptySet, Constants DEF StartRun, TransientWithinLimit
  <1>3. RecordInv' /\ MappedInv' /\ TopInv'
    BY DEF StartRun, IInv, RecordInv, MappedInv, TopInv
  <1> QED
    BY <1>1, <1>2, <1>3 DEF IInv

\* Every access, every turn of record_write and every scan preserves the invariant.
LEMMA NextIInv == IInv /\ [Next]_vars => IInv'
  <1> SUFFICES ASSUME IInv, [Next]_vars PROVE IInv'
    OBVIOUS
  <1>1. CASE \E acc \in Accesses : Load(acc) \/ Store(acc)
    BY <1>1, AccessBegins
  <1>2. CASE RecordWrite
    BY <1>2, RecordWriteStep
  <1>3. CASE Access
    BY <1>3, AccessStep
  <1>4. CASE MapFails
    BY <1>4, MapFailsStep
  <1>5. CASE StartRun
    BY <1>5, StartRunStep
  <1>6. CASE UNCHANGED vars
    BY <1>6 DEF vars, IInv, TypeOK, TransientWithinLimit, RecordInv, MappedInv, TopInv, mapped
  <1> QED
    BY <1>1, <1>2, <1>3, <1>4, <1>5, <1>6 DEF Next

-----------------------------------------------------------------------------
(* The theorems *)

\* The invariant holds in every reachable state.
THEOREM MemoryInductive == Spec => []IInv
  BY InitIInv, NextIInv, PTL DEF Spec

\* Types: in particular the loop variable of record_write is always a page.
THEOREM MemoryTypes == Spec => []TypeOK
  <1>1. IInv => TypeOK
    BY DEF IInv
  <1> QED
    BY <1>1, MemoryInductive, PTL

\* On-demand pages are beside the image, the stack and the arena, and within the limit
\* (hook_mem).
THEOREM TransientBounded == Spec => []TransientWithinLimit
  <1>1. IInv => TransientWithinLimit
    BY DEF IInv
  <1> QED
    BY <1>1, MemoryInductive, PTL

\* Between two accesses exactly the pages of the recorded stores are dirty (record_write).
THEOREM DirtyPagesAreStores == Spec => []DirtyPagesExact
  <1>1. IInv => DirtyPagesExact
    BY DEF IInv, RecordInv, DirtyPagesExact
  <1> QED
    BY <1>1, MemoryInductive, PTL

\* What a scan relies on: between two accesses every dirty page can be read, unless an
\* access was kept from that very page.
THEOREM DirtyPagesReadable ==
    Spec => [](pc = "running" => dirty_pages \subseteq mapped \cup refused)
  <1>1. IInv => (pc = "running" => dirty_pages \subseteq mapped \cup refused)
    BY DEF IInv, RecordInv, MappedInv
  <1> QED
    BY <1>1, MemoryInductive, PTL

\* Between two accesses the dirty pages are pages, and not the last of the address space.
LEMMA DirtyBelowTop ==
    ASSUME IInv, pc = "running"
    PROVE  dirty_pages \subseteq PageSet /\ TopPage \notin dirty_pages
  BY DEF IInv, TypeOK, RecordInv, TopInv

\* The merged regions are the dirty pages, in ascending order and with a gap between any
\* two (get_dirty_regions).
THEOREM RegionsAreDirtyPages == Spec => []RegionsExact
  <1>1. ASSUME IInv PROVE RegionsExact
    <2> SUFFICES ASSUME pc = "running"
                 PROVE  /\ Separate(get_dirty_regions)
                        /\ dirty_pages = {p \in PageSet : Covers(get_dirty_regions, p)}
      BY DEF RegionsExact, Separate, Covers, EndOf
    <2> QED
      BY <1>1, DirtyBelowTop, DirtyRegions
  <1> QED
    BY <1>1, MemoryInductive, PTL

\* A scan reads every dirty region of at most max_region_scan bytes, unless an access was
\* kept from one of its pages (dump_tracked_writes, hook_mem).
THEOREM SmallRegionsAreScanned == Spec => []SmallRegionsScanned
  <1>1. ASSUME IInv PROVE SmallRegionsScanned
    <2> SUFFICES ASSUME pc = "running",
                        NEW n \in 1 .. Len(get_dirty_regions),
                        get_dirty_regions[n].size <= max_region_scan,
                        refused \cap (get_dirty_regions[n].start
                          .. (get_dirty_regions[n].start + get_dirty_regions[n].size - 1)) = {}
                 PROVE  get_dirty_regions[n].start
                          .. (get_dirty_regions[n].start + get_dirty_regions[n].size - 1)
                            \subseteq dump_tracked_writes
      BY DEF SmallRegionsScanned
    <2> DEFINE regions == get_dirty_regions
               r == regions[n]
               bytes == r.start .. (r.start + r.size - 1)
    <2>1. dirty_pages \subseteq mapped \cup refused /\ refused \cap bytes = {}
      BY <1>1 DEF IInv, RecordInv, MappedInv
    <2>2. /\ regions \in Seq(RegionSet) /\ r \in RegionSet /\ EndOf(r) < M
          /\ \A p \in PageSet : Covers(regions, p) <=> p \in dirty_pages
      BY <1>1, DirtyBelowTop, DirtyRegions
    <2>3. r.start \in PageSet /\ r.start \in Nat /\ r.size \in Nat
      <3> HIDE DEF r
      <3> QED
        BY <2>2, RegionNumbers
    <2>4. ASSUME NEW x \in bytes PROVE page_of(x) \in mapped
      <3>1. x \in 0 .. (M - 1) /\ r.start <= x /\ x < EndOf(r) /\ EndOf(r) \in Int
        BY <2>2, <2>3, Constants, SMTT(60) DEF EndOf
      <3>2. page_of(x) \in PageSet /\ page_of(x) <= x /\ x < page_of(x) + page_size
        BY <3>1, PageOfByte
      <3>3. page_of(x) \in Nat /\ page_size \in Nat
        BY <3>2, Constants
      <3>4. r.start < page_of(x) + page_size
        BY <2>3, <3>1, <3>2, <3>3
      <3>5. r.start <= page_of(x)
        BY <2>3, <3>2, <3>4, NoPageBetween
      <3>6. page_of(x) < EndOf(r)
        BY <3>1, <3>2, <3>3
      <3>7. Covers(regions, page_of(x))
        BY <3>5, <3>6 DEF Covers
      <3>8. page_of(x) \in bytes
        BY <2>3, <3>3, <3>5, <3>6 DEF EndOf
      <3> QED
        BY <2>1, <2>2, <3>2, <3>7, <3>8
    <2> DEFINE ScanSize(s) == IF s.size <= max_region_scan THEN s.size ELSE max_region_scan
               Read(s) == s.start .. (s.start + ScanSize(s) - 1)
               Regions == {regions[k] : k \in 1 .. Len(regions)}
    <2>5. dump_tracked_writes
            = UNION {Read(s) : s \in {t \in Regions : \A x \in Read(t) : page_of(x) \in mapped}}
      BY DEF dump_tracked_writes
    <2>6. Read(r) = bytes /\ r \in Regions
      OBVIOUS
    <2> HIDE DEF regions, r, bytes, Read, Regions
    <2>7. Read(r) \subseteq dump_tracked_writes
      BY <2>4, <2>5, <2>6
    <2> QED
      BY <2>6, <2>7 DEF bytes, r, regions
  <1> QED
    BY <1>1, MemoryInductive, PTL
=============================================================================
