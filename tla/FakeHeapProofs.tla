--------------------------- MODULE FakeHeapProofs ---------------------------
(***************************************************************************)
(* Proofs about FakeHeap, for every address space, layout, alignment and   *)
(* request.                                                                *)
(*                                                                         *)
(* The argument.  The address space goes on after the image and the stack  *)
(* (LayoutAssumption), so compute_base rounds without wrapping and its     *)
(* result is beside both.  From then on the used part of the arena, from   *)
(* arena_base to cursor, only grows by whole units of alignment: a block   *)
(* starts where the used part ended, so it is aligned and above every      *)
(* earlier block, its size on record is at least what was asked for, and   *)
(* nothing above the cursor has been written.  Everything is said of runs  *)
(* none of whose requests wrapped.                                         *)
(***************************************************************************)
EXTENDS FakeHeap, NaturalFacts

\* Where compute_base puts the arena of an emulator.
Base == compute_base(map_end(layout), layout.stack_start, layout.stack_end)

NothingYet ==
    /\ arena_base = 0 /\ cursor = 0 /\ ~initialized
    /\ DOMAIN alloc_sizes = {} /\ nonzero = {} /\ blocks = {} /\ ~crashed

\* An engine that is ready has the image, page by page, beside the stack, stubs only with an
\* arena and tracking only with its hook.
ReadyInv ==
    engine = "ready" =>
        /\ map_start(layout) <= layout.image_min /\ layout.image_max <= map_end(layout)
        /\ StackFits
        /\ enable_heap_stubs = initialized
        /\ enable_write_tracking = write_hook

\* What the constructor finds, and what it leaves behind.
SetupInv ==
    /\ engine = "none" => NothingYet
    /\ arena_base # 0 \/ initialized => has_image(layout) /\ StackFits /\ arena_base = Base
    /\ ReadyInv

\* The used part of the arena.
CursorInv ==
    /\ arena_base <= cursor
    /\ cursor <= arena_end
    /\ cursor % alloc_alignment = 0

\* The blocks of this run and what is on record for them.
BlocksInv ==
    /\ \A b \in blocks :
           /\ arena_base <= b.ptr /\ 0 < b.size /\ b.ptr + b.size <= cursor
           /\ b.ptr % alloc_alignment = 0
           /\ b.ptr \in DOMAIN alloc_sizes /\ b.size <= alloc_sizes[b.ptr]
    /\ \A b, c \in blocks : b # c => Apart(b.ptr, b.size, c.ptr, c.size)

IInv ==
    /\ TypeOK
    /\ SetupInv
    /\ ~oversized => CursorInv /\ BlocksInv /\ ~crashed
    /\ CleanAboveCursor

-----------------------------------------------------------------------------
(* Rounding *)

\* Rounding up, when the sum does not wrap.
LEMMA RoundUp ==
    ASSUME NEW x \in Nat, NEW al \in Nat \ {0}, x + al - 1 < M
    PROVE  /\ round_up(x, al) \in Nat
           /\ x <= round_up(x, al) /\ round_up(x, al) < x + al
           /\ round_up(x, al) % al = 0
  <1> DEFINE y == x + al - 1
  <1>1. y \in 0 .. (M - 1) /\ M \in Nat \ {0}
    BY ArenaAssumption
  <1>2. round_up(x, al) = y - (y % al)
    BY <1>1, RemainderSmall DEF round_up
  <1> QED
    BY <1>1, <1>2, MaskAligned

\* Rounding up always gives an address.
LEMMA RoundUpType ==
    ASSUME NEW x \in Nat, NEW al \in Nat \ {0}
    PROVE  round_up(x, al) \in 0 .. (M - 1)
  <1> DEFINE y == (x + al - 1) % M
  <1>1. y \in 0 .. (M - 1) /\ M \in Nat
    BY ArenaAssumption, RemainderRange
  <1>2. round_up(x, al) = y - (y % al)
    BY DEF round_up
  <1> HIDE DEF y
  <1>3. y - (y % al) \in Nat /\ y - (y % al) <= y
    BY <1>1, MaskAligned
  <1> QED
    BY <1>1, <1>2, <1>3

-----------------------------------------------------------------------------
(* The constructor *)

\* The snapshot of the image is whole pages around it (emulator.cpp).
LEMMA ImagePages ==
    ASSUME NEW l \in Layouts
    PROVE  /\ map_start(l) \in Nat /\ map_end(l) \in Nat
           /\ map_start(l) <= l.image_min /\ l.image_max <= map_end(l)
           /\ map_end(l) < l.image_max + page_size
  <1>1. /\ l.image_min \in Nat /\ l.image_max \in Nat
        /\ l.image_max + page_size - 1 < M
        /\ page_size \in Nat \ {0}
    BY ArenaAssumption, LayoutAssumption
  <1>2. l.image_min - (l.image_min % page_size) \in Nat
        /\ l.image_min - (l.image_min % page_size) <= l.image_min
    BY <1>1, MaskAligned
  <1> QED
    BY <1>1, <1>2, RoundUp DEF map_start, map_end

\* compute_base puts the arena beside the image and the stack, aligned, inside the
\* address space (fake_heap.hpp).
LEMMA BaseFits ==
    ASSUME layout \in Layouts, has_image(layout), StackFits
    PROVE  /\ Base \in Nat \ {0} /\ Base + arena_size < M
           /\ Base % alloc_alignment = 0
           /\ ArenaFits(Base)
  <1> DEFINE me == map_end(layout)
             ms == map_start(layout)
             ss == layout.stack_start
             se == layout.stack_end
             cand == round_up(me, page_align)
             up == round_up(se, page_align)
  <1>1. /\ page_align \in Nat \ {0} /\ page_size \in Nat \ {0} /\ arena_size \in Nat \ {0}
        /\ alloc_alignment \in Nat \ {0} /\ page_align % alloc_alignment = 0 /\ M \in Nat
    BY ArenaAssumption
  <1>2. /\ ss \in Nat /\ se \in Nat /\ 0 < ss /\ ss < se
        /\ se + page_align + arena_size < M
        /\ layout.image_min \in Nat /\ layout.image_max \in Nat
        /\ page_size <= layout.image_min
        /\ layout.image_max + page_size + page_align + arena_size < M
    BY LayoutAssumption
  <1>3. /\ me \in Nat /\ ms \in Nat /\ ms < me /\ 0 < me
        /\ me + page_align + arena_size < M
    BY <1>1, <1>2, ImagePages DEF has_image
  <1>4. cand \in Nat /\ me <= cand /\ cand < me + page_align /\ cand % page_align = 0
    BY <1>1, <1>3, RoundUp
  <1>5. up \in Nat /\ se <= up /\ up < se + page_align /\ up % page_align = 0
    BY <1>1, <1>2, RoundUp
  <1>6. me <= ss \/ se <= ms
    BY <1>2, <1>3 DEF StackFits, Apart
  <1>7. (cand + arena_size) % M = cand + arena_size
    <2>1. cand + arena_size \in 0 .. (M - 1) /\ M \in Nat \ {0}
      BY <1>1, <1>3, <1>4
    <2> QED
      BY <2>1, RemainderSmall
  <1>8. Base = IF cand + arena_size > ss /\ cand < se THEN up ELSE cand
    BY <1>7 DEF Base, compute_base
  <1> HIDE DEF me, ms, ss, se, cand, up
  <1>9. /\ Base \in Nat \ {0} /\ Base + arena_size < M /\ Base % page_align = 0
        /\ me <= Base
        /\ Base + arena_size <= ss \/ se <= Base
    BY <1>1, <1>2, <1>3, <1>4, <1>5, <1>6, <1>8
  <1>10. Base % alloc_alignment = 0
    BY <1>1, <1>9, AlignedFiner
  <1>11. ArenaFits(Base)
    BY <1>1, <1>2, <1>3, <1>9 DEF ArenaFits, Apart, me, ms, ss, se
  <1> QED
    BY <1>9, <1>10, <1>11

\* Before the constructor there is neither an arena nor a block.
LEMMA InitIInv == Init => IInv
  <1> SUFFICES ASSUME Init PROVE IInv
    OBVIOUS
  <1> USE DEF Init
  <1>1. /\ M \in Nat \ {0} /\ alloc_alignment \in Nat \ {0} /\ arena_size \in Nat \ {0}
        /\ MaxStrays \in Nat
    BY ArenaAssumption
  <1>2. TypeOK
    <2>1. {enable_heap_stubs, enable_write_tracking, write_hook, initialized} \subseteq BOOLEAN
      OBVIOUS
    <2>2. DOMAIN alloc_sizes = {}
      OBVIOUS
    <2>3. 0 \in 0 .. (M - 1) /\ 0 \in 0 .. MaxStrays
      BY <1>1
    <2> QED
      BY <2>1, <2>2, <2>3 DEF TypeOK
  <1>3. SetupInv
    BY DEF SetupInv, ReadyInv, NothingYet
  <1>4. CursorInv
    <2>1. 0 % alloc_alignment = 0
      BY <1>1, RemainderSmall
    <2> QED
      BY <1>1, <2>1 DEF CursorInv, arena_end
  <1>5. BlocksInv
    BY DEF BlocksInv
  <1>6. CleanAboveCursor
    BY DEF CleanAboveCursor
  <1> QED
    BY <1>2, <1>3, <1>4, <1>5, <1>6 DEF IInv

\* What every later step leaves alone.
LEMMA SetupStays ==
    ASSUME SetupInv, engine # "none", UNCHANGED <<setupVars, arena_base>>
    PROVE  SetupInv'
  BY DEF SetupInv, ReadyInv, setupVars, StackFits, Base

\* A constructor that fails (emulator.cpp:669-712) leaves an engine nothing runs on, and an arena
\* nothing is taken from.
LEMMA ConstructorFailsStep ==
    ASSUME IInv, ConstructorFails PROVE IInv'
  <1> USE DEF ConstructorFails, unchangedByConstructor, IInv
  <1>1. TypeOK'
    BY DEF TypeOK, arena_end
  <1>2. SetupInv'
    BY DEF SetupInv, ReadyInv, NothingYet
  <1>3. ~oversized' => CursorInv' /\ BlocksInv' /\ ~crashed'
    BY DEF CursorInv, BlocksInv, arena_end
  <1>4. CleanAboveCursor'
    BY DEF CleanAboveCursor
  <1> QED
    BY <1>1, <1>2, <1>3, <1>4

\* The arena comes into being empty.
LEMMA ConstructStep ==
    ASSUME IInv, Construct PROVE IInv'
  <1>1. /\ layout \in Layouts /\ has_image(layout) /\ StackFits
        /\ UNCHANGED unchangedByConstructor
        /\ engine = "none" /\ arena_base = 0 /\ cursor = 0 /\ ~initialized
        /\ {enable_heap_stubs, enable_write_tracking, write_hook, initialized} \subseteq BOOLEAN
    BY DEF Construct, IInv, TypeOK, SetupInv, NothingYet
  <1>2. PICK mapped \in BOOLEAN : InitHeap(mapped)
    BY DEF Construct
  <1>3. \/ /\ arena_base' = Base /\ cursor' = Base
           /\ initialized' = (mapped /\ ArenaFits(Base)) /\ enable_heap_stubs' = initialized'
        \/ UNCHANGED <<arena_base, cursor, initialized, enable_heap_stubs>> /\ ~enable_heap_stubs
    BY <1>2 DEF InitHeap, Base
  <1>4. /\ Base \in Nat \ {0} /\ Base + arena_size < M /\ Base % alloc_alignment = 0
    BY <1>1, BaseFits
  <1>5. /\ M \in Nat \ {0} /\ arena_size \in Nat \ {0} /\ alloc_alignment \in Nat \ {0}
    BY ArenaAssumption
  <1>6. /\ initialized' \in BOOLEAN /\ enable_heap_stubs' \in BOOLEAN
        /\ enable_heap_stubs' = initialized'
    BY <1>1, <1>3
  <1>7. /\ engine' \in {"ready", "failed"}
        /\ enable_write_tracking' \in BOOLEAN /\ write_hook' \in BOOLEAN
        /\ engine' = "ready" => enable_write_tracking' = write_hook'
    BY <1>1 DEF Construct
  <1>8. /\ arena_base' \in 0 .. (M - 1) /\ cursor' = arena_base'
        /\ cursor' % alloc_alignment = 0
    <2>1. 0 % alloc_alignment = 0
      BY <1>5, RemainderSmall
    <2> QED
      BY <1>1, <1>3, <1>4, <1>5, <2>1
  <1>9. DOMAIN alloc_sizes = {} /\ nonzero = {} /\ blocks = {} /\ ~crashed
    BY <1>1 DEF IInv, SetupInv, NothingYet
  <1>10. TypeOK'
    BY <1>1, <1>6, <1>7, <1>8, <1>9 DEF IInv, TypeOK, unchangedByConstructor
  <1>11. SetupInv'
    <2>1. Base' = Base /\ has_image(layout)' /\ StackFits'
      BY <1>1 DEF unchangedByConstructor, Base, StackFits
    <2>2. arena_base' # 0 \/ initialized' => arena_base' = Base
      BY <1>1, <1>3
    <2>3. ReadyInv'
      BY <1>1, <1>6, <1>7, <2>1, ImagePages DEF ReadyInv, unchangedByConstructor
    <2> QED
      BY <1>7, <2>1, <2>2, <2>3 DEF SetupInv
  <1>12. CursorInv'
    <2>1. \A a \in 0 .. (M - 1) : a <= a /\ a <= a + arena_size
      BY <1>5
    <2>2. arena_base' <= cursor' /\ cursor' <= cursor' + arena_size
      BY <1>8, <2>1
    <2> QED
      BY <1>1, <1>8, <2>2 DEF CursorInv, arena_end
  <1>13. BlocksInv' /\ ~crashed'
    BY <1>1, <1>9 DEF BlocksInv, unchangedByConstructor
  <1>14. CleanAboveCursor'
    BY <1>1, <1>9 DEF CleanAboveCursor, unchangedByConstructor
  <1> QED
    BY <1>10, <1>11, <1>12, <1>13, <1>14 DEF IInv

-----------------------------------------------------------------------------
(* Allocation *)

\* Where there are stubs there is an arena.
LEMMA Mapped ==
    ASSUME IInv, engine = "ready", enable_heap_stubs
    PROVE  /\ initialized
           /\ arena_base \in Nat \ {0} /\ arena_end \in Nat /\ arena_end < M
           /\ arena_base % alloc_alignment = 0
           /\ arena_end = arena_base + arena_size
  <1>1. /\ initialized /\ layout \in Layouts /\ has_image(layout) /\ StackFits
        /\ arena_base = Base
    BY DEF IInv, TypeOK, SetupInv, ReadyInv
  <1>2. arena_size \in Nat
    BY ArenaAssumption
  <1> QED
    BY <1>1, <1>2, BaseFits DEF arena_end

\* A request that is granted, and whose sums did not wrap, gets whole units of alignment
\* between the cursor and the end of the arena (alloc, fake_heap.hpp).
LEMMA Granted ==
    ASSUME IInv, ~oversized, engine = "ready", enable_heap_stubs,
           NEW size \in 0 .. (M - 1), alloc_result(size) # 0, ~Wraps(size)
    PROVE  /\ alloc_result(size) = cursor /\ 0 < size
           /\ size <= round_up(size, alloc_alignment)
           /\ round_up(size, alloc_alignment) \in Nat
           /\ round_up(size, alloc_alignment) % alloc_alignment = 0
           /\ cursor + round_up(size, alloc_alignment) <= arena_end
           /\ (cursor + round_up(size, alloc_alignment)) % M
                 = cursor + round_up(size, alloc_alignment)
           /\ size <= max_vector
  <1> DEFINE r == round_up(size, alloc_alignment)
  <1>1. /\ M \in Nat \ {0} /\ arena_size \in Nat /\ alloc_alignment \in Nat \ {0}
        /\ arena_size <= max_vector /\ max_vector \in Nat
    BY ArenaAssumption
  <1>2. cursor \in 0 .. (M - 1) /\ arena_base <= cursor
    BY DEF IInv, TypeOK, CursorInv
  <1>3. /\ alloc_result(size) = cursor /\ size # 0
        /\ ~((cursor + r) % M > arena_end % M)
    BY DEF alloc_result
  <1>4. r \in Nat /\ size <= r /\ r % alloc_alignment = 0
    BY <1>1, RoundUp DEF Wraps
  <1>5. cursor + r < M
    BY <1>1, <1>2, <1>4 DEF Wraps
  <1>6. arena_base \in Nat /\ arena_end \in 0 .. (M - 1) /\ arena_end = arena_base + arena_size
    BY <1>1, Mapped
  <1>7. arena_end % M = arena_end /\ (cursor + r) % M = cursor + r
    <2>1. cursor + r \in 0 .. (M - 1)
      BY <1>1, <1>2, <1>4, <1>5
    <2> QED
      BY <1>1, <1>6, <2>1, RemainderSmall
  <1> HIDE DEF r
  <1>8. cursor + r <= arena_end
    BY <1>2, <1>3, <1>4, <1>6, <1>7
  <1>9. size <= arena_size
    BY <1>1, <1>2, <1>4, <1>6, <1>8
  <1> QED
    BY <1>1, <1>3, <1>4, <1>7, <1>8, <1>9 DEF r

\* What every request leaves true, granted or not.
LEMMA GivenTypes ==
    ASSUME IInv, NEW size \in 0 .. (M - 1), NEW wanted \in Nat, Given(size, wanted)
    PROVE  /\ UNCHANGED arena_base
           /\ cursor' \in 0 .. (M - 1)
           /\ DOMAIN alloc_sizes' \subseteq arena_base .. arena_end
           /\ \A p \in DOMAIN alloc_sizes' : alloc_sizes'[p] \in 0 .. (M - 1)
           /\ \A b \in blocks' : b.ptr \in Nat /\ b.size \in Nat
           /\ oversized' \in BOOLEAN
  <1> DEFINE r == round_up(size, alloc_alignment)
  <1>1. M \in Nat \ {0} /\ alloc_alignment \in Nat \ {0}
    BY ArenaAssumption
  <1>2. r \in 0 .. (M - 1)
    BY <1>1, RoundUpType
  <1>3. /\ arena_base \in Nat /\ arena_end \in Nat /\ arena_end = arena_base + arena_size
        /\ engine = "ready" /\ enable_heap_stubs /\ ~oversized
    BY Mapped DEF Given
  <1>4. /\ cursor \in 0 .. (M - 1) /\ cursor \in arena_base .. arena_end
        /\ DOMAIN alloc_sizes \subseteq arena_base .. arena_end
        /\ \A p \in DOMAIN alloc_sizes : alloc_sizes[p] \in 0 .. (M - 1)
        /\ \A b \in blocks : b.ptr \in Nat /\ b.size \in Nat
    BY <1>1, <1>3 DEF IInv, TypeOK, CursorInv
  <1>5. oversized' \in BOOLEAN
    BY DEF Given
  <1>6. CASE alloc_result(size) = 0
    BY <1>4, <1>5, <1>6 DEF Given, alloc_effect, heapVars
  <1>7. CASE alloc_result(size) # 0
    <2>1. alloc_result(size) = cursor
      BY <1>7 DEF alloc_result
    <2>2. /\ UNCHANGED arena_base
          /\ cursor' = (cursor + r) % M
          /\ alloc_sizes' = [p \in DOMAIN alloc_sizes \cup {cursor} |->
                                IF p = cursor THEN r ELSE alloc_sizes[p]]
          /\ blocks' = blocks \cup {[ptr |-> cursor, size |-> wanted]}
      BY <1>7, <2>1 DEF Given, alloc_effect
    <2>3. cursor' \in 0 .. (M - 1)
      <3>1. cursor + r \in Int
        BY <1>1, <1>2, <1>4
      <3> QED
        BY <1>1, <2>2, <3>1, RemainderRange
    <2> HIDE DEF r
    <2>4. /\ DOMAIN alloc_sizes' \subseteq arena_base .. arena_end
          /\ \A p \in DOMAIN alloc_sizes' : alloc_sizes'[p] \in 0 .. (M - 1)
      BY <1>2, <1>4, <2>2
    <2>5. \A b \in blocks' : b.ptr \in Nat /\ b.size \in Nat
      BY <1>4, <2>2
    <2> QED
      BY <1>5, <2>2, <2>3, <2>4, <2>5
  <1> QED
    BY <1>6, <1>7

\* Unless it wrapped, a request moves the cursor past the new block and keeps every block
\* apart from every other.
LEMMA GivenBlocks ==
    ASSUME IInv, NEW size \in 0 .. (M - 1), NEW wanted \in Nat, Given(size, wanted),
           ~oversized'
    PROVE  /\ CursorInv' /\ BlocksInv'
           /\ cursor <= cursor'
           /\ alloc_result(size) # 0 => cursor + size <= cursor' /\ size <= max_vector
  <1> DEFINE r == round_up(size, alloc_alignment)
             new == [ptr |-> cursor, size |-> wanted]
  <1>1. M \in Nat \ {0} /\ alloc_alignment \in Nat \ {0} /\ arena_size \in Nat
    BY ArenaAssumption
  <1>2. engine = "ready" /\ enable_heap_stubs /\ ~oversized /\ UNCHANGED arena_base
    BY GivenTypes DEF Given
  <1>3. /\ arena_base \in Nat /\ arena_end \in Nat /\ arena_end' = arena_end
        /\ arena_end = arena_base + arena_size
    BY <1>2, Mapped DEF arena_end
  <1>4. CursorInv /\ BlocksInv /\ cursor \in Nat /\ cursor' \in Nat
    BY <1>1, <1>2, GivenTypes DEF IInv, TypeOK
  <1>5. CASE alloc_result(size) = 0
    <2>1. UNCHANGED <<heapVars, blocks>>
      BY <1>5 DEF Given, alloc_effect
    <2> QED
      BY <1>3, <1>4, <1>5, <2>1 DEF CursorInv, BlocksInv, heapVars
  <1>6. CASE alloc_result(size) # 0
    <2>1. wanted = size /\ ~Wraps(size)
      <3>1. size # 0
        BY <1>6 DEF alloc_result
      <3> QED
        BY <3>1 DEF Given
    <2>2. /\ alloc_result(size) = cursor /\ 0 < size /\ size <= r /\ r \in Nat
          /\ r % alloc_alignment = 0 /\ cursor + r <= arena_end
          /\ (cursor + r) % M = cursor + r /\ size <= max_vector
      BY <1>2, <1>6, <2>1, Granted
    <2>3. /\ cursor' = cursor + r
          /\ alloc_sizes' = [p \in DOMAIN alloc_sizes \cup {cursor} |->
                                IF p = cursor THEN r ELSE alloc_sizes[p]]
          /\ blocks' = blocks \cup {new}
      BY <1>6, <2>2 DEF Given, alloc_effect
    <2>4. cursor' % alloc_alignment = 0
      BY <1>1, <1>4, <2>2, <2>3, AlignedSum DEF CursorInv
    <2> HIDE DEF r
    <2>5. cursor <= cursor' /\ cursor + size <= cursor' /\ cursor' <= arena_end
      BY <1>3, <1>4, <2>2, <2>3
    <2>6. CursorInv'
      BY <1>2, <1>3, <1>4, <2>4, <2>5 DEF CursorInv
    <2>7. /\ \A b \in blocks : /\ b.ptr \in Nat /\ b.size \in Nat
                               /\ arena_base <= b.ptr /\ 0 < b.size /\ b.ptr + b.size <= cursor
                               /\ b.ptr < cursor
                               /\ b.ptr % alloc_alignment = 0
                               /\ b.ptr \in DOMAIN alloc_sizes
                               /\ b.size <= alloc_sizes[b.ptr]
          /\ \A b, c \in blocks : b # c => Apart(b.ptr, b.size, c.ptr, c.size)
      BY <1>4 DEF BlocksInv, IInv, TypeOK
    <2>8. \A b \in blocks' :
              /\ arena_base' <= b.ptr /\ 0 < b.size /\ b.ptr + b.size <= cursor'
              /\ b.ptr % alloc_alignment = 0
      <3>1. ASSUME NEW b \in blocks
            PROVE  b.ptr + b.size <= cursor'
        BY <1>4, <2>5, <2>7
      <3> QED
        BY <1>2, <1>4, <2>1, <2>2, <2>3, <2>5, <2>7, <3>1 DEF CursorInv
    <2>9. \A b \in blocks' : b.ptr \in DOMAIN alloc_sizes' /\ b.size <= alloc_sizes'[b.ptr]
      <3>1. ASSUME NEW b \in blocks
            PROVE  b.ptr # cursor
        BY <1>4, <2>7
      <3> QED
        BY <2>1, <2>2, <2>3, <2>7, <3>1
    <2>10. \A b, c \in blocks' : b # c => Apart(b.ptr, b.size, c.ptr, c.size)
      BY <2>3, <2>7 DEF Apart
    <2>11. BlocksInv'
      BY <2>8, <2>9, <2>10 DEF BlocksInv, Apart
    <2> QED
      BY <2>2, <2>5, <2>6, <2>11
  <1> QED
    BY <1>5, <1>6

\* What is left to show of a stub that asks the heap for memory.
LEMMA RequestStep ==
    ASSUME IInv, NEW size \in 0 .. (M - 1), NEW wanted \in Nat, Given(size, wanted),
           UNCHANGED <<setupVars, strayed>>,
           nonzero' \subseteq Nat, crashed' \in BOOLEAN,
           ~oversized' => ~crashed',
           ~oversized' => \A addr \in nonzero' :
               addr \in nonzero \/ (cursor <= addr /\ addr < cursor')
    PROVE  IInv'
  <1>1. engine # "none" /\ ~oversized /\ UNCHANGED arena_base /\ arena_end' = arena_end
    BY GivenTypes DEF Given, arena_end
  <1>2. TypeOK'
    BY <1>1, GivenTypes DEF IInv, TypeOK, setupVars
  <1>3. SetupInv'
    BY <1>1, SetupStays DEF IInv
  <1>4. ~oversized' => CursorInv' /\ BlocksInv'
    BY GivenBlocks
  <1>5. CleanAboveCursor'
    <2> SUFFICES ASSUME ~oversized', strayed' = 0, NEW addr \in nonzero'
                 PROVE  arena_base' <= addr /\ addr < cursor'
      BY DEF CleanAboveCursor
    <2>1. /\ arena_base <= cursor /\ cursor <= cursor'
          /\ arena_base \in Nat /\ cursor \in Nat /\ cursor' \in Nat /\ addr \in Nat
      <3>1. M \in Nat
        BY ArenaAssumption
      <3> QED
        BY <1>1, <3>1, GivenBlocks, GivenTypes DEF IInv, TypeOK, CursorInv
    <2>2. CASE addr \in nonzero
      <3>1. arena_base <= addr /\ addr < cursor
        BY <1>1, <2>2 DEF IInv, CleanAboveCursor
      <3> QED
        BY <1>1, <2>1, <3>1
    <2>3. CASE cursor <= addr /\ addr < cursor'
      BY <1>1, <2>1, <2>3
    <2> QED
      BY <2>2, <2>3
  <1> QED
    BY <1>2, <1>3, <1>4, <1>5 DEF IInv

\* What the program asks for fits a register.
LEMMA SizesAreAddresses ==
    /\ M \in Nat \ {0} /\ max_vector \in Nat
    /\ Sizes \subseteq 0 .. (M - 1) /\ Sizes \subseteq Nat
    /\ Counts \subseteq Nat
  BY ArenaAssumption

\* A plain allocation touches no byte.
LEMMA AllocStep ==
    ASSUME IInv, NEW size \in Sizes, Alloc(size) PROVE IInv'
  <1>1. nonzero' \subseteq Nat /\ crashed' = FALSE
    BY DEF IInv, TypeOK, Alloc
  <1> QED
    BY <1>1, SizesAreAddresses, RequestStep DEF Alloc

\* Zeros over the new block: fewer bytes are not zero.
LEMMA ZerosStep ==
    ASSUME IInv, NEW size \in 0 .. (M - 1), NEW wanted \in Nat, Given(size, wanted),
           UNCHANGED <<setupVars, strayed>>,
           crashed' = (alloc_result(size) # 0 /\ size > max_vector),
           nonzero' \subseteq nonzero
    PROVE  IInv'
  <1>1. ~oversized' => ~crashed'
    <2> SUFFICES ASSUME ~oversized', alloc_result(size) # 0 PROVE ~(size > max_vector)
      OBVIOUS
    <2>1. size <= max_vector
      BY GivenBlocks
    <2> QED
      BY <2>1, SizesAreAddresses
  <1>2. nonzero' \subseteq Nat /\ crashed' \in BOOLEAN
    BY DEF IInv, TypeOK
  <1> QED
    BY <1>1, <1>2, RequestStep

\* VirtualAlloc and the stubs with the zero flag: an allocation, then bytes that become zero.
LEMMA ZeroAllocStep ==
    ASSUME IInv, NEW size \in Sizes, ZeroAlloc(size) PROVE IInv'
  <1>1. nonzero' \subseteq nonzero
    BY DEF ZeroAlloc
  <1> QED
    BY <1>1, SizesAreAddresses, ZerosStep DEF ZeroAlloc

\* calloc allocates the product of its arguments, wrapped to 64 bits, and clears it.
LEMMA CallocStep ==
    ASSUME IInv, NEW count \in Counts, NEW elem_size \in Sizes, Calloc(count, elem_size)
    PROVE  IInv'
  <1> DEFINE size == (count * elem_size) % M
  <1>1. count * elem_size \in Nat /\ count * elem_size \in Int
    BY SizesAreAddresses
  <1>2. size \in 0 .. (M - 1)
    BY <1>1, SizesAreAddresses, RemainderRange
  <1>3. nonzero' \subseteq nonzero
    BY DEF Calloc
  <1>4. /\ Given(size, count * elem_size) /\ UNCHANGED <<setupVars, strayed>>
        /\ crashed' = (alloc_result(size) # 0 /\ size > max_vector)
    BY DEF Calloc
  <1> HIDE DEF size
  <1> QED
    BY <1>1, <1>2, <1>3, <1>4, ZerosStep

\* realloc writes into the new block only.
LEMMA ReallocStep ==
    ASSUME IInv, NEW old_ptr, NEW new_size \in Sizes, Realloc(old_ptr, new_size)
    PROVE  IInv'
  <1> DEFINE old_size == IF old_ptr \in DOMAIN alloc_sizes THEN alloc_sizes[old_ptr] ELSE 0
             copy_size == Smaller(old_size, new_size)
             moved == alloc_result(new_size) # 0 /\ old_size > 0
  <1>1. /\ Given(new_size, new_size) /\ UNCHANGED <<setupVars, strayed>>
        /\ crashed' = (moved /\ copy_size > max_vector)
        /\ nonzero' = IF moved THEN Copied(cursor, old_ptr, copy_size) ELSE nonzero
    BY DEF Realloc
  <1>2. /\ new_size \in 0 .. (M - 1) /\ new_size \in Nat /\ cursor \in Nat
        /\ nonzero \subseteq Nat /\ old_size \in Nat
    BY SizesAreAddresses DEF IInv, TypeOK
  <1>3. copy_size \in Nat /\ copy_size <= new_size
    BY <1>2 DEF Smaller
  <1>4. \A addr \in nonzero' : \/ addr \in nonzero
                               \/ moved /\ \E i \in 0 .. (copy_size - 1) : addr = cursor + i
    BY <1>1 DEF Copied
  <1> HIDE DEF copy_size, old_size
  <1>5. nonzero' \subseteq Nat
    <2>1. \A i \in 0 .. (copy_size - 1) : cursor + i \in Nat
      BY <1>2, <1>3
    <2> QED
      BY <1>2, <1>4, <2>1
  <1>6. ~oversized' => ~crashed'
    <2> SUFFICES ASSUME ~oversized', alloc_result(new_size) # 0
                 PROVE  ~(copy_size > max_vector)
      BY <1>1
    <2>1. new_size <= max_vector
      BY <1>1, <1>2, GivenBlocks
    <2> QED
      BY <1>2, <1>3, <2>1, SizesAreAddresses
  <1>7. ~oversized' => \A addr \in nonzero' :
               addr \in nonzero \/ (cursor <= addr /\ addr < cursor')
    <2> SUFFICES ASSUME ~oversized', alloc_result(new_size) # 0, NEW i \in 0 .. (copy_size - 1)
                 PROVE  cursor <= cursor + i /\ cursor + i < cursor'
      BY <1>4
    <2>1. cursor + new_size <= cursor' /\ cursor' \in Nat
      BY <1>1, <1>2, SizesAreAddresses, GivenBlocks, GivenTypes
    <2> QED
      BY <1>2, <1>3, <2>1
  <1> QED
    BY <1>1, <1>2, <1>5, <1>6, <1>7, RequestStep

-----------------------------------------------------------------------------
(* The run and its program *)

\* Emptying the arena: the zeros cover every byte that was handed out.
LEMMA ResetStep ==
    ASSUME IInv, Reset PROVE IInv'
  <1> DEFINE used == (cursor - arena_base) % M
  <1>1. /\ engine = "ready" /\ enable_heap_stubs /\ ~crashed
        /\ crashed' = (used > max_vector)
        /\ UNCHANGED <<setupVars, oversized, strayed>>
    BY DEF Reset
  <1>2. /\ arena_base \in Nat \ {0} /\ arena_end \in Nat /\ arena_end = arena_base + arena_size
        /\ arena_base % alloc_alignment = 0 /\ arena_end < M
    BY <1>1, Mapped
  <1>3. /\ M \in Nat \ {0} /\ arena_size \in Nat /\ arena_size <= max_vector /\ max_vector \in Nat
    BY ArenaAssumption
  <1>4. UNCHANGED arena_base
    BY DEF Reset, heapVars
  <1>5. cursor \in 0 .. (M - 1) /\ nonzero \subseteq Nat
    BY DEF IInv, TypeOK
  <1>6. SetupInv'
    BY <1>1, <1>4, SetupStays DEF IInv
  <1>7. ~oversized => used = cursor - arena_base /\ ~crashed'
    <2> SUFFICES ASSUME ~oversized PROVE used = cursor - arena_base /\ ~crashed'
      OBVIOUS
    <2>1. arena_base <= cursor /\ cursor <= arena_end
      BY DEF IInv, CursorInv
    <2>2. cursor - arena_base \in 0 .. (M - 1) /\ cursor - arena_base <= max_vector
      BY <1>2, <1>3, <1>5, <2>1
    <2>3. used = cursor - arena_base
      BY <1>3, <2>2, RemainderSmall
    <2> HIDE DEF used
    <2>4. ~(used > max_vector)
      BY <1>2, <1>3, <1>5, <2>2, <2>3
    <2> QED
      BY <1>1, <2>3, <2>4
  <1>8. CASE crashed'
    <2>1. oversized /\ UNCHANGED <<heapVars, nonzero, blocks>>
      BY <1>7, <1>8, <1>1 DEF Reset, IInv, TypeOK
    <2>2. TypeOK'
      BY <1>1, <1>8, <2>1 DEF IInv, TypeOK, setupVars, heapVars, arena_end
    <2>3. CleanAboveCursor'
      BY <1>1, <2>1 DEF CleanAboveCursor
    <2> QED
      BY <1>1, <1>6, <2>1, <2>2, <2>3 DEF IInv
  <1>9. CASE ~crashed'
    <2>1. /\ cursor' = arena_base
          /\ DOMAIN alloc_sizes' = {} /\ blocks' = {}
          /\ nonzero' = nonzero \ Bytes(arena_base, used)
      BY <1>1, <1>9 DEF Reset
    <2>2. arena_base \in 0 .. (M - 1) /\ crashed' \in BOOLEAN
      BY <1>1 DEF IInv, TypeOK
    <2>3. TypeOK'
      BY <1>1, <1>4, <1>9, <2>1, <2>2 DEF IInv, TypeOK, setupVars, arena_end
    <2>4. CursorInv'
      BY <1>2, <1>3, <1>4, <2>1 DEF CursorInv, arena_end
    <2>5. BlocksInv'
      BY <2>1 DEF BlocksInv
    <2> HIDE DEF used
    <2>6. ~oversized /\ strayed = 0 => nonzero' = {}
      <3> SUFFICES ASSUME ~oversized, strayed = 0, NEW addr \in nonzero
                   PROVE  addr \in Bytes(arena_base, used)
        BY <2>1
      <3>1. arena_base <= addr /\ addr < cursor /\ addr \in Nat
        BY <1>5 DEF IInv, CleanAboveCursor
      <3> QED
        BY <1>2, <1>5, <1>7, <3>1 DEF Bytes
    <2>7. CleanAboveCursor'
      BY <1>1, <2>6 DEF CleanAboveCursor
    <2> QED
      BY <1>6, <1>9, <2>3, <2>4, <2>5, <2>7 DEF IInv
  <1> QED
    BY <1>8, <1>9

\* A step of the program that leaves the heap alone.
LEMMA HeapUntouched ==
    ASSUME IInv, engine # "none",
           UNCHANGED <<setupVars, heapVars, crashed, blocks, oversized>>,
           nonzero' \subseteq Nat, strayed' \in 0 .. MaxStrays, CleanAboveCursor'
    PROVE  IInv'
  <1> USE DEF setupVars, heapVars
  <1>1. TypeOK'
    BY DEF IInv, TypeOK, arena_end
  <1>2. SetupInv'
    BY SetupStays DEF IInv
  <1>3. ~oversized' => CursorInv' /\ BlocksInv' /\ ~crashed'
    BY DEF IInv, CursorInv, BlocksInv, arena_end
  <1> QED
    BY <1>1, <1>2, <1>3 DEF IInv

\* A block lies below the cursor, so filling it keeps the rest of the arena clean.
LEMMA StoreStep ==
    ASSUME IInv, NEW b \in blocks, Store(b) PROVE IInv'
  <1>1. /\ UNCHANGED <<setupVars, heapVars, crashed, blocks, oversized, strayed>>
        /\ nonzero' = nonzero \cup (Bytes(b.ptr, b.size) \cap Arena)
        /\ strayed \in 0 .. MaxStrays
    BY DEF Store, IInv, TypeOK
  <1>2. engine # "none"
    BY DEF IInv, SetupInv, NothingYet
  <1>3. b.ptr \in Nat /\ b.size \in Nat /\ cursor \in Nat /\ arena_base \in Nat
    BY ArenaAssumption DEF IInv, TypeOK
  <1>4. Bytes(b.ptr, b.size) \subseteq Nat
    BY <1>3 DEF Bytes
  <1>5. nonzero' \subseteq Nat
    BY <1>1, <1>4 DEF IInv, TypeOK
  <1>6. CleanAboveCursor'
    <2> SUFFICES ASSUME ~oversized, strayed = 0, NEW addr \in nonzero'
                 PROVE  arena_base <= addr /\ addr < cursor
      BY <1>1 DEF CleanAboveCursor, heapVars
    <2>1. CASE addr \in nonzero
      BY <2>1 DEF IInv, CleanAboveCursor
    <2>2. CASE addr \in Bytes(b.ptr, b.size)
      <3>1. arena_base <= b.ptr /\ b.ptr + b.size <= cursor
        BY DEF IInv, BlocksInv
      <3> QED
        BY <1>3, <2>2, <3>1 DEF Bytes
    <2> QED
      BY <1>1, <2>1, <2>2
  <1> QED
    BY <1>1, <1>2, <1>5, <1>6, HeapUntouched

\* A stray byte is counted, and nothing is claimed of clean memory any more.
LEMMA StrayStep ==
    ASSUME IInv, NEW addr \in Arena, Stray(addr) PROVE IInv'
  <1>1. /\ engine = "ready" /\ enable_heap_stubs /\ strayed < MaxStrays
        /\ nonzero' = nonzero \cup {addr} /\ strayed' = strayed + 1
        /\ UNCHANGED <<setupVars, heapVars, crashed, blocks, oversized>>
    BY DEF Stray
  <1>2. strayed \in 0 .. MaxStrays /\ MaxStrays \in Nat
    BY ArenaAssumption DEF IInv, TypeOK
  <1>3. strayed' \in 0 .. MaxStrays /\ strayed' # 0
    BY <1>1, <1>2
  <1>4. addr \in Nat
    BY <1>1, Mapped DEF Arena
  <1>5. nonzero' \subseteq Nat
    BY <1>1, <1>4 DEF IInv, TypeOK
  <1>6. CleanAboveCursor'
    BY <1>3 DEF CleanAboveCursor
  <1> QED
    BY <1>1, <1>3, <1>5, <1>6, HeapUntouched

\* Every step of the constructor, the allocator and the stubs preserves the invariant.
LEMMA NextIInv == IInv /\ [Next]_vars => IInv'
  <1> SUFFICES ASSUME IInv, [Next]_vars PROVE IInv'
    OBVIOUS
  <1>1. CASE ConstructorFails
    BY <1>1, ConstructorFailsStep
  <1>2. CASE Construct
    BY <1>2, ConstructStep
  <1>3. CASE Reset
    BY <1>3, ResetStep
  <1>4. CASE \E size \in Sizes : Alloc(size) \/ ZeroAlloc(size)
    BY <1>4, AllocStep, ZeroAllocStep
  <1>5. CASE \E count \in Counts, elem_size \in Sizes : Calloc(count, elem_size)
    BY <1>5, CallocStep
  <1>6. CASE \E old_ptr \in DOMAIN alloc_sizes \cup {arena_end}, size \in Sizes :
                 Realloc(old_ptr, size)
    BY <1>6, ReallocStep
  <1>7. CASE \E b \in blocks : Store(b)
    BY <1>7, StoreStep
  <1>8. CASE \E addr \in Arena : Stray(addr)
    BY <1>8, StrayStep
  <1>9. CASE UNCHANGED vars
    <2> USE <1>9 DEF vars, setupVars
    <2>1. TypeOK'
      BY DEF IInv, TypeOK, arena_end
    <2>2. SetupInv'
      BY DEF IInv, SetupInv, ReadyInv, NothingYet, StackFits, Base
    <2>3. (~oversized => CursorInv /\ BlocksInv /\ ~crashed)'
      BY DEF IInv, CursorInv, BlocksInv, arena_end
    <2>4. CleanAboveCursor'
      BY DEF IInv, CleanAboveCursor
    <2> QED
      BY <2>1, <2>2, <2>3, <2>4 DEF IInv
  <1> QED
    BY <1>1, <1>2, <1>3, <1>4, <1>5, <1>6, <1>7, <1>8, <1>9 DEF Next

-----------------------------------------------------------------------------
(* The theorems *)

\* The invariant holds in every reachable state.
THEOREM HeapInductive == Spec => []IInv
  BY InitIInv, NextIInv, PTL DEF Spec

\* Types: every pointer the arena keeps on record is inside it.
THEOREM HeapTypes == Spec => []TypeOK
  <1>1. IInv => TypeOK
    BY DEF IInv
  <1> QED
    BY <1>1, HeapInductive, PTL

\* Wherever the image and the stack are, the arena is beside both of them (compute_base).
THEOREM ArenaBesideImageAndStack == Spec => []ArenaConflictFree
  <1>1. IInv => ArenaConflictFree
    <2> SUFFICES ASSUME IInv, arena_base # 0 PROVE ArenaFits(arena_base)
      BY DEF ArenaConflictFree
    <2> QED
      BY BaseFits DEF IInv, TypeOK, SetupInv
  <1> QED
    BY <1>1, HeapInductive, PTL

\* The blocks of a run are aligned, inside the arena and pairwise disjoint (fake_heap::alloc).
THEOREM BlocksNeverOverlap == Spec => []BlocksDisjoint
  <1>1. IInv => BlocksDisjoint
    BY DEF IInv, BlocksDisjoint, CursorInv, BlocksInv
  <1> QED
    BY <1>1, HeapInductive, PTL

\* Memory that has not been handed out is zero, run after run (fake_heap::reset).
THEOREM FreshMemoryClean == Spec => []CleanAboveCursor
  <1>1. IInv => CleanAboveCursor
    BY DEF IInv
  <1> QED
    BY <1>1, HeapInductive, PTL

\* Only a request that wrapped can make a stub throw: every other vector of zeros is at most
\* as large as the arena.
THEOREM OnlyWrappingThrows == Spec => []NoThrow
  <1>1. IInv => NoThrow
    BY DEF IInv, NoThrow
  <1> QED
    BY <1>1, HeapInductive, PTL

\* realloc copies the old contents up to the smaller of the two sizes asked for: the size
\* on record is at least the one asked for, and the new block is above the old one.
THEOREM ReallocCopies == Spec => ReallocKeepsContents
  <1>1. ASSUME IInv, NEW b \in blocks, NEW n \in Sizes,
               Realloc(b.ptr, n), alloc_result(n) # 0, ~oversized',
               NEW i \in 0 .. (Smaller(b.size, n) - 1)
        PROVE  (cursor + i \in nonzero') <=> (b.ptr + i \in nonzero)
    <2> DEFINE copy_size == Smaller(alloc_sizes[b.ptr], n)
    <2>1. /\ b.ptr \in DOMAIN alloc_sizes /\ 0 < b.size /\ b.size <= alloc_sizes[b.ptr]
          /\ alloc_sizes[b.ptr] \in Int /\ b.ptr \in Nat /\ b.size \in Nat /\ cursor \in Nat
          /\ n \in Nat
      BY <1>1, SizesAreAddresses DEF IInv, TypeOK, BlocksInv, Realloc, Given
    <2>2. nonzero' = Copied(cursor, b.ptr, copy_size)
      BY <1>1, <2>1 DEF Realloc
    <2>3. i \in 0 .. (copy_size - 1) /\ copy_size \in Int
      BY <1>1, <2>1 DEF Smaller
    <2> HIDE DEF copy_size
    <2>4. cursor + i \in Bytes(cursor, copy_size)
      BY <2>1, <2>3 DEF Bytes
    <2>5. (cursor + i \in nonzero') <=>
              \E j \in 0 .. (copy_size - 1) : b.ptr + j \in nonzero /\ cursor + i = cursor + j
      BY <2>2, <2>4 DEF Copied
    <2>6. \A j \in 0 .. (copy_size - 1) : cursor + i = cursor + j <=> i = j
      BY <2>1, <2>3
    <2> QED
      BY <2>3, <2>5, <2>6
  <1>2. IInv /\ [Next]_vars =>
          [\A b \in blocks, n \in Sizes :
               /\ Realloc(b.ptr, n) /\ alloc_result(n) # 0 /\ ~oversized'
               => \A i \in 0 .. (Smaller(b.size, n) - 1) :
                      (cursor + i \in nonzero') <=> (b.ptr + i \in nonzero)]_vars
    BY <1>1
  <1> QED
    BY <1>2, HeapInductive, PTL DEF Spec, ReallocKeepsContents
=============================================================================
