------------------------------ MODULE FakeHeap ------------------------------
(***************************************************************************)
(* The emulator's constructor, fake_heap.hpp, and the allocation stubs of  *)
(* api_stubs.hpp on top of it: the engine with its image and its stack, a  *)
(* bump allocator whose arena is placed after the image or after the       *)
(* stack, mapped once per emulator, and emptied before every run.          *)
(*                                                                         *)
(* Arithmetic is modulo M (2^64 in the code), so the two sums of alloc may *)
(* wrap; the history variable oversized remembers that one did.  Memory    *)
(* contents are abstracted to whether a byte is zero.                      *)
(***************************************************************************)
EXTENDS Integers, FiniteSets

CONSTANTS M,                \* 2^64
          max_vector,       \* largest std::vector<uint8_t>: 2^63 - 1
          alloc_alignment,  \* 16
          arena_size,       \* 0x1000000
          page_align,       \* 0x10000
          page_size,        \* 0x1000
          Layouts,          \* image_min and image_max of the database, and the stack
          Sizes,            \* sizes the program asks for
          Counts,           \* counts it passes to calloc
          MaxBlocks,        \* bound: blocks given to one run
          MaxStrays         \* bound: stray bytes in the arena

ASSUME ArenaAssumption ==
    /\ M \in Nat /\ max_vector \in Nat
    /\ alloc_alignment \in Nat \ {0}
    /\ page_align \in Nat \ {0}
    /\ arena_size \in Nat \ {0}
    /\ page_size \in Nat \ {0} /\ page_align % page_size = 0
    /\ arena_size <= max_vector
    /\ alloc_alignment < M /\ page_align < M
    /\ page_align % alloc_alignment = 0
    /\ Sizes \subseteq 0 .. (M - 1)
    /\ Counts \subseteq 0 .. (M - 1)
    /\ MaxBlocks \in Nat /\ MaxStrays \in Nat

\* The address space goes on for an arena after the image and after the stack.
ASSUME LayoutAssumption ==
    \A l \in Layouts :
        /\ l.image_min \in Nat /\ l.image_max \in Nat
        /\ l.stack_start \in Nat /\ l.stack_end \in Nat
        /\ page_size <= l.image_min
        /\ 0 < l.stack_start /\ l.stack_start < l.stack_end
        /\ l.image_max + page_size + page_align + arena_size < M
        /\ l.stack_end + page_align + arena_size < M

VARIABLES
    layout,       \* where the image and the stack are
    engine,       \* "none" before the constructor, then "ready" or "failed": nullptr
    enable_heap_stubs, enable_write_tracking,  \* the switches, as the emulator has them
    write_hook,   \* hook_mem_write is installed
    initialized,  \* initialized_
    arena_base,   \* arena_base_
    cursor,       \* cursor_
    alloc_sizes,  \* alloc_sizes_
    nonzero,      \* arena addresses whose byte is not zero
    crashed,      \* a std::vector was asked for more than it can hold: std::terminate
    \* history
    blocks,       \* [ptr, size]: what this run was given and what it asked for
    oversized,    \* a sum in alloc or a product in calloc wrapped
    strayed       \* how often the program wrote to the arena outside its blocks

heapVars == <<arena_base, cursor, alloc_sizes>>
setupVars == <<layout, engine, enable_heap_stubs, enable_write_tracking, write_hook, initialized>>
vars == <<setupVars, arena_base, cursor, alloc_sizes, nonzero, crashed,
          blocks, oversized, strayed>>

\* (x + al - 1) & ~(al - 1), for a power of two al
round_up(x, al) == LET y == (x + al - 1) % M IN y - (y % al)

Mut_compute_base(image_map_end, stack_start, stack_end) ==
    LET candidate == round_up(image_map_end, page_align)
    IN IF candidate >= stack_start /\ candidate < stack_end
       THEN round_up(stack_end, page_align)
       ELSE candidate

compute_base(image_map_end, stack_start, stack_end) ==
    LET candidate == round_up(image_map_end, page_align)
    IN IF (candidate + arena_size) % M > stack_start /\ candidate < stack_end
       THEN round_up(stack_end, page_align)
       ELSE candidate

\* capture_image_snapshot: the whole pages of the image, and whether there are any.
has_image(l) == l.image_min < l.image_max
map_start(l) == l.image_min - (l.image_min % page_size)
map_end(l) == round_up(l.image_max, page_size)

arena_end == arena_base + arena_size
Arena == arena_base .. (arena_end - 1)
Bytes(ptr, size) == ptr .. (ptr + size - 1)

-----------------------------------------------------------------------------

Init ==
    /\ layout \in Layouts
    /\ engine = "none"
    /\ enable_heap_stubs \in BOOLEAN
    /\ enable_write_tracking \in BOOLEAN
    /\ write_hook = FALSE
    /\ initialized = FALSE
    /\ arena_base = 0
    /\ cursor = 0
    /\ alloc_sizes = [p \in {} |-> 0]
    /\ nonzero = {}
    /\ crashed = FALSE
    /\ blocks = {}
    /\ oversized = FALSE
    /\ strayed = 0

unchangedByConstructor == <<layout, alloc_sizes, nonzero, crashed, blocks, oversized, strayed>>

Apart(p, m, q, n) == p + m <= q \/ q + n <= p

\* uc_mem_map refuses a range that overlaps a mapped one.
StackFits == Apart(map_start(layout), map_end(layout) - map_start(layout),
                   layout.stack_start, layout.stack_end - layout.stack_start)
ArenaFits(base) ==
    /\ Apart(base, arena_size, map_start(layout), map_end(layout) - map_start(layout))
    /\ Apart(base, arena_size, layout.stack_start, layout.stack_end - layout.stack_start)

\* Opening the engine, or mapping the image or the stack, may fail, and mapping them over
\* each other does: the constructor leaves no engine.  An empty image is not even tried.
ConstructorFails ==
    /\ engine = "none"
    /\ engine' = "failed"
    /\ UNCHANGED <<enable_heap_stubs, enable_write_tracking, write_hook, initialized,
                   arena_base, cursor, unchangedByConstructor>>

\* fake_heap::init at compute_base.  Without an arena there are no stubs.
InitHeap(mapped) ==
    IF enable_heap_stubs
    THEN /\ arena_base' = compute_base(map_end(layout), layout.stack_start, layout.stack_end)
         /\ cursor' = arena_base'
         /\ initialized' = (mapped /\ ArenaFits(arena_base'))
         /\ enable_heap_stubs' = initialized'
    ELSE UNCHANGED <<arena_base, cursor, initialized, enable_heap_stubs>>

\* With the image and the stack mapped: the arena, then the hooks.  Without the code hook
\* or the hook for unmapped memory there is no engine, without the one for stores no
\* tracking.
Construct ==
    /\ engine = "none"
    /\ has_image(layout) /\ StackFits
    /\ \E mapped \in BOOLEAN : InitHeap(mapped)
    /\ \/ /\ engine' = "failed"
          /\ UNCHANGED <<enable_write_tracking, write_hook>>
       \/ /\ engine' = "ready"
          /\ write_hook' \in {FALSE, enable_write_tracking}
          /\ enable_write_tracking' = write_hook'
    /\ UNCHANGED unchangedByConstructor

Wraps(size) ==
    \/ size + alloc_alignment - 1 >= M
    \/ cursor + round_up(size, alloc_alignment) >= M

\* The end of the arena is not looked at.
Mut_alloc_result(size) == IF ~initialized \/ size = 0 THEN 0 ELSE cursor

\* The pointer alloc returns, 0 when it refuses.
alloc_result(size) ==
    LET rounded == round_up(size, alloc_alignment)
    IN IF ~initialized \/ size = 0 \/ (cursor + rounded) % M > arena_end % M
       THEN 0
       ELSE cursor

\* Off by one unit of alignment.
Mut_alloc_effect(size) ==
    LET rounded == round_up(size, alloc_alignment)
    IN IF alloc_result(size) = 0
       THEN UNCHANGED heapVars
       ELSE /\ cursor' = (cursor + rounded - alloc_alignment) % M
            /\ alloc_sizes' = [p \in DOMAIN alloc_sizes \cup {cursor} |->
                                  IF p = cursor THEN rounded ELSE alloc_sizes[p]]
            /\ UNCHANGED arena_base

alloc_effect(size) ==
    LET rounded == round_up(size, alloc_alignment)
    IN IF alloc_result(size) = 0
       THEN UNCHANGED heapVars
       ELSE /\ cursor' = (cursor + rounded) % M
            /\ alloc_sizes' = [p \in DOMAIN alloc_sizes \cup {cursor} |->
                                  IF p = cursor THEN rounded ELSE alloc_sizes[p]]
            /\ UNCHANGED arena_base

\* The program asked for wanted bytes, alloc was asked for size.  After a request that wrapped no
\* more are followed: nothing is claimed of them.
Given(size, wanted) ==
    /\ engine = "ready" /\ enable_heap_stubs /\ ~oversized /\ Cardinality(blocks) < MaxBlocks
    /\ alloc_effect(size)
    /\ blocks' = IF alloc_result(size) = 0 THEN blocks
                 ELSE blocks \cup {[ptr |-> alloc_result(size), size |-> wanted]}
    /\ oversized' = ((size # 0 /\ Wraps(size)) \/ wanted # size)

-----------------------------------------------------------------------------

\* malloc, and HeapAlloc, LocalAlloc and GlobalAlloc without the zero flag
Alloc(size) ==
    /\ ~crashed
    /\ Given(size, size)
    /\ UNCHANGED <<setupVars, nonzero, crashed, strayed>>

\* VirtualAlloc, and the others with the zero flag: a vector of zeros is written
\* over the block.
ZeroAlloc(size) ==
    /\ ~crashed
    /\ Given(size, size)
    /\ crashed' = (alloc_result(size) # 0 /\ size > max_vector)
    /\ nonzero' = IF alloc_result(size) = 0 \/ crashed' THEN nonzero
                  ELSE nonzero \ Bytes(cursor, size)
    /\ UNCHANGED <<setupVars, strayed>>

\* calloc: the product is taken modulo M.
Calloc(count, elem_size) ==
    LET size == (count * elem_size) % M
    IN /\ ~crashed
       /\ Given(size, count * elem_size)
       /\ crashed' = (alloc_result(size) # 0 /\ size > max_vector)
       /\ nonzero' = IF alloc_result(size) = 0 \/ crashed' THEN nonzero
                     ELSE nonzero \ Bytes(cursor, size)
       /\ UNCHANGED <<setupVars, strayed>>

Smaller(x, y) == IF x <= y THEN x ELSE y

\* Bytes after copying size bytes from src to dst.
Copied(dst, src, size) ==
    (nonzero \ Bytes(dst, size)) \cup
        {dst + i : i \in {j \in 0 .. (size - 1) : src + j \in nonzero}}

Mut_Realloc(old_ptr, new_size) ==
    LET old_size == IF old_ptr \in DOMAIN alloc_sizes THEN alloc_sizes[old_ptr] ELSE 0
        moved == alloc_result(new_size) # 0 /\ old_size > alloc_alignment
    IN /\ ~crashed
       /\ old_ptr # 0 /\ new_size # 0
       /\ Given(new_size, new_size)
       /\ crashed' = FALSE
       /\ nonzero' = IF moved THEN Copied(cursor, old_ptr, Smaller(old_size, new_size))
                     ELSE nonzero
       /\ UNCHANGED <<setupVars, strayed>>

\* realloc and HeapReAlloc of a block; of address 0 it is Alloc, and to size 0 it
\* returns 0 and does nothing.
Realloc(old_ptr, new_size) ==
    LET old_size == IF old_ptr \in DOMAIN alloc_sizes THEN alloc_sizes[old_ptr] ELSE 0
        copy_size == Smaller(old_size, new_size)
        moved == alloc_result(new_size) # 0 /\ old_size > 0
    IN /\ ~crashed
       /\ old_ptr # 0 /\ new_size # 0
       /\ Given(new_size, new_size)
       /\ crashed' = (moved /\ copy_size > max_vector)
       /\ nonzero' = IF moved THEN Copied(cursor, old_ptr, copy_size) ELSE nonzero
       /\ UNCHANGED <<setupVars, strayed>>

Mut_Reset ==
    /\ ~crashed /\ engine = "ready" /\ enable_heap_stubs
    /\ crashed' = FALSE
    /\ cursor' = arena_base
    /\ alloc_sizes' = [p \in {} |-> 0]
    /\ nonzero' = nonzero \ Bytes(arena_base, cursor - arena_base - 1)
    /\ blocks' = {}
    /\ UNCHANGED <<setupVars, arena_base, oversized, strayed>>

\* At the start of every run: zeros over the used part, and everything is free again.
Reset ==
    LET used == (cursor - arena_base) % M
    IN /\ ~crashed /\ engine = "ready" /\ enable_heap_stubs
       /\ crashed' = (used > max_vector)
       /\ IF crashed'
          THEN UNCHANGED <<heapVars, nonzero, blocks>>
          ELSE /\ cursor' = arena_base
               /\ alloc_sizes' = [p \in {} |-> 0]
               /\ nonzero' = nonzero \ Bytes(arena_base, used)
               /\ blocks' = {}
               /\ UNCHANGED arena_base
       /\ UNCHANGED <<setupVars, oversized, strayed>>

\* The program fills one of its blocks.
Store(b) ==
    /\ ~crashed
    /\ b \in blocks
    /\ nonzero' = nonzero \cup (Bytes(b.ptr, b.size) \cap Arena)
    /\ UNCHANGED <<setupVars, heapVars, crashed, blocks, oversized, strayed>>

\* The program writes to the arena, which is mapped, without having been given it.
Stray(addr) ==
    /\ ~crashed /\ engine = "ready" /\ enable_heap_stubs
    /\ strayed < MaxStrays
    /\ \A b \in blocks : addr \notin Bytes(b.ptr, b.size)
    /\ nonzero' = nonzero \cup {addr}
    /\ strayed' = strayed + 1
    /\ UNCHANGED <<setupVars, heapVars, crashed, blocks, oversized>>

Next ==
    \/ ConstructorFails
    \/ Construct
    \/ Reset
    \/ \E size \in Sizes : Alloc(size) \/ ZeroAlloc(size)
    \/ \E count \in Counts, elem_size \in Sizes : Calloc(count, elem_size)
    \/ \E old_ptr \in DOMAIN alloc_sizes \cup {arena_end}, size \in Sizes : Realloc(old_ptr, size)
    \/ \E b \in blocks : Store(b)
    \/ \E addr \in Arena : Stray(addr)

Spec == Init /\ [][Next]_vars

-----------------------------------------------------------------------------
(* Properties *)

TypeOK ==
    /\ layout \in Layouts
    /\ engine \in {"none", "ready", "failed"}
    /\ {enable_heap_stubs, enable_write_tracking, write_hook, initialized} \subseteq BOOLEAN
    /\ arena_base \in 0 .. (M - 1)
    /\ cursor \in 0 .. (M - 1)
    /\ DOMAIN alloc_sizes \subseteq arena_base .. arena_end
    /\ \A p \in DOMAIN alloc_sizes : alloc_sizes[p] \in 0 .. (M - 1)
    /\ nonzero \subseteq Nat
    /\ crashed \in BOOLEAN
    /\ \A b \in blocks : b.ptr \in Nat /\ b.size \in Nat
    /\ oversized \in BOOLEAN
    /\ strayed \in 0 .. MaxStrays

\* "conflict-free memory space" (README.md:11): wherever the image and the stack
\* are, compute_base puts the whole arena beside both of them.
ArenaConflictFree == engine # "none" /\ arena_base # 0 => ArenaFits(arena_base)

\* As long as no request wrapped, the blocks one run was given, by any sequence of
\* malloc, calloc and realloc, are aligned, lie inside the arena and are pairwise
\* disjoint over the sizes the program asked for.
BlocksDisjoint ==
    ~oversized =>
        /\ \A b \in blocks : /\ b.ptr >= arena_base /\ b.ptr + b.size <= cursor
                             /\ b.ptr % alloc_alignment = 0
        /\ cursor <= arena_end
        /\ \A b, c \in blocks : b # c => Apart(b.ptr, b.size, c.ptr, c.size)

\* No data of one run reaches the next through the arena, however the runs filled
\* it: memory that has not been handed out is zero.
CleanAboveCursor ==
    ~oversized /\ strayed = 0 => \A addr \in nonzero : arena_base <= addr /\ addr < cursor

\* realloc keeps the contents of the block up to the smaller of the two sizes,
\* although only the rounded size of the old block is on record.
ReallocKeepsContents ==
    [][\A b \in blocks, n \in Sizes :
           /\ Realloc(b.ptr, n) /\ alloc_result(n) # 0 /\ ~oversized'
           => \A i \in 0 .. (Smaller(b.size, n) - 1) :
                  (cursor + i \in nonzero') <=> (b.ptr + i \in nonzero)]_vars

\* Only a request that wrapped can make the plugin throw.
NoThrow == ~oversized => ~crashed
=============================================================================
