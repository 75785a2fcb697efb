----------------------------- MODULE PageMemory -----------------------------
(***************************************************************************)
(* The memory hooks of emulator.cpp and write_tracker.hpp.  Before every   *)
(* store the engine calls hook_mem_write, which marks the pages of the     *)
(* access dirty; when a page of an access is not mapped it calls hook_mem, *)
(* which maps up to max_transient_regions pages on demand.  The dirty      *)
(* pages, merged into regions, are what dump_tracked_writes reads.  The    *)
(* next run starts without the transient pages and with no page dirty.     *)
(*                                                                         *)
(* Addresses are modulo M (2^64).  The loop of record_write is modelled    *)
(* turn by turn, because its counter wraps.                                *)
(***************************************************************************)
EXTENDS Integers, FiniteSets, Sequences

CONSTANTS M,                      \* 2^64
          page_size,              \* 0x1000
          CorePages,              \* pages of the image, the stack and the heap arena
          max_transient_regions,  \* 2048
          max_region_scan,        \* 0x10000
          Accesses                \* <<address, size>> of the program's loads and stores

ASSUME MemoryAssumption ==
    /\ M \in Nat \ {0} /\ page_size \in Nat \ {0} /\ M % page_size = 0
    /\ max_transient_regions \in Nat
    /\ max_region_scan \in Nat
    /\ \A acc \in Accesses : acc[1] \in 0 .. (M - 1) /\ acc[2] \in 1 .. (M - 1)

\* x & page_mask
page_of(x) == x - (x % page_size)
PageSet == {p \in 0 .. (M - 1) : p % page_size = 0}
TopPage == M - page_size

ASSUME CoreAssumption == CorePages \subseteq PageSet

VARIABLES
    pc,           \* "running", "recording" a store, or "accessing" memory
    access,       \* the access under way
    page,         \* loop variable of record_write
    dirty_pages,  \* write_tracker_.dirty_pages_
    transient,    \* transient_mappings_
    limit_reached,  \* transient_limit_reached_
    \* history
    stored,       \* pages of the accesses that record_write has recorded in this run
    refused       \* dirty pages the limit, uc_mem_map or the end of the address space kept
                  \* their store from

vars == <<pc, access, page, dirty_pages, transient, limit_reached, stored, refused>>

\* The hooks' locals are gone between two accesses.
NoAccess == <<0, 1>>

mapped == CorePages \cup transient
last_byte(acc) == (acc[1] + acc[2] - 1) % M
Mut_first_page(acc) == acc[1]

first_page(acc) == page_of(acc[1])

last_page(acc) == page_of(last_byte(acc))
ReachesTop(acc) == last_page(acc) = TopPage \/ last_byte(acc) < acc[1]
Touched(acc) == {p \in PageSet : first_page(acc) <= p /\ p <= last_page(acc)}

-----------------------------------------------------------------------------

Init ==
    /\ pc = "running"
    /\ access = NoAccess
    /\ page = 0
    /\ dirty_pages = {}
    /\ transient = {}
    /\ limit_reached = FALSE
    /\ stored = {}
    /\ refused = {}

Load(acc) ==
    /\ pc = "running"
    /\ pc' = "accessing"
    /\ access' = acc
    /\ UNCHANGED <<page, dirty_pages, transient, limit_reached, stored, refused>>

\* hook_mem_write runs first.
Store(acc) ==
    /\ pc = "running"
    /\ pc' = "recording"
    /\ access' = acc
    /\ page' = first_page(acc)
    /\ UNCHANGED <<dirty_pages, transient, limit_reached, stored, refused>>

Mut_RecordWrite ==
    /\ pc = "recording"
    /\ pc' = "accessing"
    /\ dirty_pages' = dirty_pages \cup {page}
    /\ stored' = stored \cup Touched(access)
    /\ UNCHANGED <<page, access, transient, limit_reached, refused>>

Mut_RecordWriteStuck ==
    /\ pc = "recording"
    /\ \/ /\ page <= last_page(access)
          /\ dirty_pages' = dirty_pages \cup {page}
          /\ page' = IF page < last_page(access) THEN page + page_size ELSE page
          /\ UNCHANGED <<pc, stored>>
       \/ /\ page > last_page(access)
          /\ pc' = "accessing"
          /\ stored' = stored \cup Touched(access)
          /\ UNCHANGED <<page, dirty_pages>>
    /\ UNCHANGED <<access, transient, limit_reached, refused>>

\* One turn of record_write: for (page = first; page <= last; page += page_size)
RecordWrite ==
    /\ pc = "recording"
    /\ \/ /\ page <= last_page(access)
          /\ dirty_pages' = dirty_pages \cup {page}
          /\ page' = (page + page_size) % M
          /\ UNCHANGED <<pc, stored>>
       \/ /\ page > last_page(access)
          /\ pc' = "accessing"
          /\ stored' = stored \cup Touched(access)
          /\ UNCHANGED <<page, dirty_pages>>
    /\ UNCHANGED <<access, transient, limit_reached, refused>>

Mut_fault_pages(acc) ==
    {p \in {first_page(acc)} : p \notin mapped}

\* The pages map_fault_region finds unmapped: those from start up to end, where end
\* is 0 for an access that reaches the top page.
fault_pages(acc) ==
    LET end == page_of((last_byte(acc) + page_size) % M)
    IN {p \in PageSet : first_page(acc) <= p /\ p < end /\ p \notin mapped}

Mut_map_transient(pages) == pages

\* map_transient_page, lowest page first, until the limit is reached.
map_transient(pages) ==
    {p \in pages :
        Cardinality({q \in pages : q < p}) < max_transient_regions - Cardinality(transient)}

Refuse(pages) == refused' = refused \cup (pages \cap dirty_pages)

\* The engine goes through with the access when its pages are mapped; otherwise
\* hook_mem tries to map them, and the engine looks again.
Access ==
    LET wanted == fault_pages(access)
        granted == map_transient(wanted)
    IN /\ pc = "accessing"
       /\ pc' = "running"
       /\ transient' = transient \cup granted
       /\ limit_reached' = (limit_reached \/ granted # wanted)
       /\ Refuse((wanted \ granted) \cup (IF ReachesTop(access) THEN Touched(access) ELSE {}))
       /\ access' = NoAccess /\ page' = 0
       /\ UNCHANGED <<dirty_pages, stored>>

\* uc_mem_map itself fails for a page the limit would have allowed: the pages below
\* it are mapped already, those above are not tried.
MapFails ==
    /\ pc = "accessing"
    /\ \E failed \in map_transient(fault_pages(access)) :
           /\ transient' = transient \cup {p \in fault_pages(access) : p < failed}
           /\ Refuse({p \in fault_pages(access) : p >= failed})
    /\ pc' = "running"
    /\ access' = NoAccess /\ page' = 0
    /\ UNCHANGED <<dirty_pages, limit_reached, stored>>

\* The preamble of run: clear_transient_mappings, write_tracker_.clear, no hits.
StartRun ==
    /\ pc = "running"
    /\ transient' = {}
    /\ dirty_pages' = {}
    /\ limit_reached' = FALSE
    /\ stored' = {}
    /\ refused' = {}
    /\ UNCHANGED <<pc, access, page>>

Next ==
    \/ \E acc \in Accesses : Load(acc) \/ Store(acc)
    \/ RecordWrite
    \/ Access
    \/ MapFails
    \/ StartRun

Spec == Init /\ [][Next]_vars

\* The engine's thread keeps running.
FairSpec == Spec /\ WF_vars(RecordWrite) /\ WF_vars(Access)

-----------------------------------------------------------------------------
(* get_dirty_regions and dump_tracked_writes *)

Region(first, end) == [start |-> first, size |-> (end - first) % M]

Mut_extend(acc, p) ==
    IF p < acc.end
    THEN [acc EXCEPT !.end = (p + page_size) % M]
    ELSE [regions |-> Append(acc.regions, Region(acc.start, acc.end)),
          start |-> p, end |-> (p + page_size) % M]

\* One turn of the merging loop, for the next page in ascending order.
extend(acc, p) ==
    IF p <= acc.end
    THEN [acc EXCEPT !.end = (p + page_size) % M]
    ELSE [regions |-> Append(acc.regions, Region(acc.start, acc.end)),
          start |-> p, end |-> (p + page_size) % M]

\* std::sort: the n-th page is the one with n - 1 dirty pages below it.
sorted ==
    [n \in 1 .. Cardinality(dirty_pages) |->
        CHOOSE p \in dirty_pages : Cardinality({q \in dirty_pages : q < p}) = n - 1]

\* The locals of the merging loop when it has seen n pages.
merging ==
    LET after[n \in 1 .. Cardinality(dirty_pages)] ==
            IF n = 1
            THEN [regions |-> <<>>, start |-> sorted[1], end |-> (sorted[1] + page_size) % M]
            ELSE extend(after[n - 1], sorted[n])
    IN after

get_dirty_regions ==
    IF dirty_pages = {} THEN <<>>
    ELSE LET merged == merging[Cardinality(dirty_pages)]
         IN Append(merged.regions, Region(merged.start, merged.end))

\* The bytes of memory a scan passes to scan_buffer_for_strings, region by region:
\* the first max_region_scan bytes of a region, when all of them can be read.
dump_tracked_writes ==
    LET ScanSize(r) == IF r.size <= max_region_scan THEN r.size ELSE max_region_scan
        Read(r) == r.start .. (r.start + ScanSize(r) - 1)
        Regions == {get_dirty_regions[n] : n \in 1 .. Len(get_dirty_regions)}
    IN UNION {Read(r) : r \in {s \in Regions : \A x \in Read(s) : page_of(x) \in mapped}}

-----------------------------------------------------------------------------
(* Properties *)

TypeOK ==
    /\ pc \in {"running", "recording", "accessing"}
    /\ access \in {NoAccess} \cup Accesses
    /\ page \in PageSet
    /\ dirty_pages \subseteq PageSet
    /\ transient \subseteq PageSet
    /\ limit_reached \in BOOLEAN
    /\ stored \subseteq PageSet
    /\ refused \subseteq PageSet

\* Pages mapped on demand never overlap the image, the stack, the arena or each
\* other, and there are never more of them than the limit, also when one access
\* needs two pages and only one is left (emulator.cpp:590-649).
TransientWithinLimit ==
    /\ transient \cap CorePages = {}
    /\ Cardinality(transient) <= max_transient_regions

\* Between two accesses exactly the pages of the recorded stores are dirty.
DirtyPagesExact == pc = "running" => dirty_pages = stored

\* The merged regions are the dirty pages: in ascending order, with a gap between
\* any two, covering every dirty page and no other.
RegionsExact ==
    LET r == get_dirty_regions
        End(n) == r[n].start + r[n].size
    IN pc = "running" =>
       /\ \A n \in 1 .. (Len(r) - 1) : End(n) < r[n + 1].start
       /\ dirty_pages = {p \in PageSet : \E n \in 1 .. Len(r) : r[n].start <= p /\ p < End(n)}

\* A scan reads every byte of every dirty region that fits max_region_scan and none of
\* whose own pages was refused, at the limit too: what record_write marks is what hook_mem
\* maps, across page boundaries, what is mapped before an access is stopped is read, and no
\* dirty page outlives the run that its mapping belongs to (one page that cannot be read
\* hides its whole region).
SmallRegionsScanned ==
    pc = "running" =>
        \A n \in 1 .. Len(get_dirty_regions) :
            LET r == get_dirty_regions[n]
                bytes == r.start .. (r.start + r.size - 1)
            IN r.size <= max_region_scan /\ refused \cap bytes = {} =>
                   bytes \subseteq dump_tracked_writes

\* hook_mem_write returns, for every store that does not end in the last page of
\* the address space.
HookReturnsBelowTop ==
    (pc = "recording" /\ last_page(access) # TopPage) ~> (pc = "running")

-----------------------------------------------------------------------------
(* What the repository says of the program, and the code does not do *)

\* "Max time (ms)", plugin.cpp:53: a run comes back, so every hook it is in does.
HookReturns == (pc = "recording") ~> (pc = "running")
=============================================================================
