------------------------- MODULE MemoryStubsProofs -------------------------
(***************************************************************************)
(* Proofs about MemoryStubs.                                               *)
(***************************************************************************)
EXTENDS MemoryStubs, NaturalFacts

Byte == 0 .. 255

-----------------------------------------------------------------------------
(* Memory *)

\* The engine's memory after changed differs from the one before only in the n bytes from
\* a on.
Changes(before, after, a, n) ==
    /\ DOMAIN after = DOMAIN before
    /\ \A x \in DOMAIN before : after[x] # before[x] => x \in a .. a + n - 1

\* uc_mem_read of mapped bytes.
LEMMA ReadBytes ==
    ASSUME NEW D, NEW m \in [D -> Byte], NEW a \in Int, NEW n \in Nat, Has(m, a, n)
    PROVE  uc_mem_read(m, a, n) \in [0 .. n - 1 -> Byte]
  <1> SUFFICES ASSUME NEW i \in 0 .. n - 1 PROVE m[a + i] \in Byte
    BY DEF uc_mem_read
  <1>1. a + i \in a .. a + n - 1
    OBVIOUS
  <1> QED
    BY <1>1 DEF Has

\* uc_mem_write changes the bytes it is asked to, or none.
LEMMA WriteChanges ==
    ASSUME NEW D, D \subseteq Int, NEW m \in [D -> Byte], NEW a \in Int, NEW n \in Nat,
           NEW data \in [0 .. n - 1 -> Byte]
    PROVE  /\ uc_mem_write(m, a, data, n) \in [D -> Byte]
           /\ Changes(m, uc_mem_write(m, a, data, n), a, n)
  <1> DEFINE after == uc_mem_write(m, a, data, n)
  <1>1. CASE Has(m, a, n)
    <2>1. after = [x \in D |-> IF x \in a .. a + n - 1 THEN data[x - a] ELSE m[x]]
      BY <1>1 DEF uc_mem_write
    <2>2. \A x \in D : x \in a .. a + n - 1 => x - a \in 0 .. n - 1
      OBVIOUS
    <2>3. after \in [D -> Byte]
      BY <2>1, <2>2
    <2>4. \A x \in D : after[x] # m[x] => x \in a .. a + n - 1
      BY <2>1
    <2> QED
      BY <2>3, <2>4 DEF Changes
  <1>2. CASE ~Has(m, a, n)
    BY <1>2 DEF uc_mem_write, Changes
  <1> QED
    BY <1>1, <1>2

\* A change within some bytes is a change within more.
LEMMA ChangesWider ==
    ASSUME NEW before, NEW after, NEW a \in Int, NEW n \in Int, NEW b \in Int, NEW k \in Int,
           Changes(before, after, a, n), b <= a, a + n <= b + k, DOMAIN before \subseteq Int
    PROVE  Changes(before, after, b, k)
  BY DEF Changes

\* One change after another.
LEMMA ChangesTwice ==
    ASSUME NEW first, NEW second, NEW third, NEW a, NEW n,
           Changes(first, second, a, n), Changes(second, third, a, n)
    PROVE  Changes(first, third, a, n)
  BY DEF Changes

\* The bytes of a NUL.
LEMMA ZeroBytes ==
    ASSUME NEW n \in Nat
    PROVE  Zero(n) \in [0 .. n - 1 -> Byte]
  BY DEF Zero, Byte

-----------------------------------------------------------------------------
(* The loops *)

CopyStates(D) == [mem : [D -> Byte], stop : BOOLEAN]

\* A turn of the copying loop.
LEMMA CopyTurn ==
    ASSUME NEW D, D \subseteq Int, NEW p \in CopyStates(D), NEW c \in {1, 2},
           NEW to \in Int, NEW from \in Int
    PROVE  /\ copy_turn(p, c, to, from) \in CopyStates(D)
           /\ Changes(p.mem, copy_turn(p, c, to, from).mem, to, c)
  <1> DEFINE q == copy_turn(p, c, to, from)
  <1>1. p.mem \in [D -> Byte] /\ p.stop \in BOOLEAN /\ c \in Nat
        /\ p = [mem |-> p.mem, stop |-> p.stop]
    BY DEF CopyStates
  <1>2. CASE p.stop \/ ~Has(p.mem, from, c)
    <2>1. q = [mem |-> p.mem, stop |-> TRUE]
      BY <1>1, <1>2 DEF copy_turn
    <2> QED
      BY <1>1, <2>1 DEF CopyStates, Changes
  <1>3. CASE ~(p.stop \/ ~Has(p.mem, from, c))
    <2> DEFINE data == uc_mem_read(p.mem, from, c)
               mem == uc_mem_write(p.mem, to, data, c)
    <2>1. data \in [0 .. c - 1 -> Byte]
      BY <1>1, <1>3, ReadBytes
    <2>2. mem \in [D -> Byte] /\ Changes(p.mem, mem, to, c)
      BY <1>1, <2>1, WriteChanges
    <2>3. q = [mem |-> mem, stop |-> IsNul(p.mem, c, from)] /\ IsNul(p.mem, c, from) \in BOOLEAN
      BY <1>3 DEF copy_turn, IsNul
    <2> HIDE DEF mem
    <2> QED
      BY <2>2, <2>3 DEF CopyStates
  <1> QED
    BY <1>2, <1>3

\* The equations of the copying loop.
CopyLoop(f, m, c, dest, src, limit) ==
    /\ f[0] = [mem |-> m, stop |-> FALSE]
    /\ \A i \in 1 .. limit : f[i] = copy_turn(f[i - 1], c, dest + (i - 1) * c, src + (i - 1) * c)

\* The recursive function of the copying loop has a value.
LEMMA CopyingTurns ==
    ASSUME NEW D, D \subseteq Int, NEW m \in [D -> Byte], NEW c \in {1, 2},
           NEW dest \in Int, NEW src \in Int, NEW limit \in Nat
    PROVE  CopyLoop(copying(m, c, dest, src, limit), m, c, dest, src, limit)
  <1> DEFINE base == [mem |-> m, stop |-> FALSE]
             to(i) == dest + (i - 1) * c
             from(i) == src + (i - 1) * c
             next == [x \in CopyStates(D) \X (1 .. limit) |-> copy_turn(x[1], c, to(x[2]), from(x[2]))]
             Body(g) == [i \in 0 .. limit |->
                            IF i = 0 THEN base ELSE copy_turn(g[i - 1], c, to(i), from(i))]
             loop == copying(m, c, dest, src, limit)
  <1>1. base \in CopyStates(D)
    BY DEF CopyStates
  <1>2. \A i \in 1 .. limit : to(i) \in Int /\ from(i) \in Int
    OBVIOUS
  <1>3. next \in [CopyStates(D) \X (1 .. limit) -> CopyStates(D)]
    BY <1>2, CopyTurn
  <1>4. loop = CHOOSE g : g = Body(g)
    BY Zenon DEF copying
  <1> HIDE DEF base, to, from, next, loop
  <1>5. PICK f : TurnsUpTo(limit, f, CopyStates(D), base, next)
    BY <1>1, <1>3, LoopExists
  <1>6. f = Body(f)
    <2>1. f = [i \in 0 .. limit |-> f[i]]
      BY <1>5 DEF TurnsUpTo
    <2>2. \A i \in 0 .. limit : f[i] = IF i = 0 THEN base ELSE copy_turn(f[i - 1], c, to(i), from(i))
      <3> SUFFICES ASSUME NEW i \in 1 .. limit PROVE f[i] = copy_turn(f[i - 1], c, to(i), from(i))
        BY <1>5 DEF TurnsUpTo
      <3>1. f[i] = next[<<f[i - 1], i>>] /\ f[i - 1] \in CopyStates(D)
        BY <1>5 DEF TurnsUpTo
      <3> QED
        BY <3>1 DEF next
    <2> QED
      BY <2>1, <2>2
  <1>7. loop = Body(loop)
    <2>1. \E g : g = Body(g)
      BY <1>6
    <2> HIDE DEF Body
    <2> QED
      BY <1>4, <2>1, Zenon
  <1>8. \A i \in 0 .. limit : loop[i] = IF i = 0 THEN base ELSE copy_turn(loop[i - 1], c, to(i), from(i))
    BY <1>7
  <1>9. 0 \in 0 .. limit /\ \A i \in 1 .. limit : i \in 0 .. limit /\ i # 0
    OBVIOUS
  <1>10. loop[0] = base
         /\ \A i \in 1 .. limit : loop[i] = copy_turn(loop[i - 1], c, to(i), from(i))
    BY <1>8, <1>9
  <1> QED
    BY <1>10, Zenon DEF CopyLoop, loop, base, to, from

\* The least of some natural numbers.
LEMMA MinLeast ==
    ASSUME NEW T, T \subseteq Nat, T # {}
    PROVE  Min(T) \in T /\ \A k \in T : Min(T) <= k
  BY LeastNatural DEF Min

\* Characters are one or two bytes wide.
LEMMA CharacterWidth ==
    ASSUME NEW c \in {1, 2}
    PROVE  /\ \A i \in Int : i * c \in Int /\ (i - 1) * c + c = i * c
           /\ \A i, j \in Int : i <= j => i * c <= j * c
           /\ \A i, j \in Int : (i + j) * c = i * c + j * c
           /\ 0 * c = 0
  <1>1. CASE c = 1
    BY <1>1
  <1>2. CASE c = 2
    BY <1>2
  <1> QED
    BY <1>1, <1>2

\* copy changes at most limit characters, from dest on.
LEMMA CopyChanges ==
    ASSUME NEW D, D \subseteq Int, NEW m \in [D -> Byte], NEW c \in {1, 2},
           NEW dest \in Int, NEW src \in Int, NEW limit \in Nat
    PROVE  /\ copy(m, c, dest, src, limit) \in [D -> Byte]
           /\ Changes(m, copy(m, c, dest, src, limit), dest, limit * c)
  <1> DEFINE loop == copying(m, c, dest, src, limit)
             Kept_(i) == loop[i] \in CopyStates(D) /\ Changes(m, loop[i].mem, dest, i * c)
             T == {i \in 0 .. limit : Kept_(i)}
  <1>0. /\ loop[0] = [mem |-> m, stop |-> FALSE]
        /\ \A i \in 1 .. limit :
              loop[i] = copy_turn(loop[i - 1], c, dest + (i - 1) * c, src + (i - 1) * c)
    <2>1. CopyLoop(loop, m, c, dest, src, limit)
      BY CopyingTurns
    <2> QED
      BY <2>1, Zenon DEF CopyLoop
  <1>1. 0 \in T
    <2>1. loop[0] = [mem |-> m, stop |-> FALSE]
      BY <1>0
    <2> HIDE DEF loop
    <2>2. loop[0] \in CopyStates(D) /\ loop[0].mem = m
      BY <2>1 DEF CopyStates
    <2> QED
      BY <2>2 DEF Changes
  <1>2. ASSUME NEW i \in 1 .. limit, i - 1 \in T PROVE i \in T
    <2> DEFINE to == dest + (i - 1) * c
               from == src + (i - 1) * c
    <2>1. loop[i] = copy_turn(loop[i - 1], c, to, from)
      BY <1>0, Zenon
    <2>2. loop[i - 1] \in CopyStates(D) /\ Changes(m, loop[i - 1].mem, dest, (i - 1) * c)
      BY <1>2
    <2>3. /\ to \in Int /\ from \in Int /\ i * c \in Int /\ (i - 1) * c \in Int
          /\ (i - 1) * c + c = i * c /\ 0 <= (i - 1) * c /\ c \in Int /\ 0 <= c
      <3>1. i \in Int /\ i - 1 \in Int /\ 0 <= i - 1
        OBVIOUS
      <3> QED
        BY <3>1, CharacterWidth
    <2>3a. to \in Int /\ from \in Int
      BY <2>3
    <2> HIDE DEF loop, to, from
    <2>4. loop[i] \in CopyStates(D) /\ Changes(loop[i - 1].mem, loop[i].mem, to, c)
      <3> DEFINE p == loop[i - 1]
      <3>1. p \in CopyStates(D)
        BY <2>2
      <3> HIDE DEF p
      <3>2. /\ copy_turn(p, c, to, from) \in CopyStates(D)
            /\ Changes(p.mem, copy_turn(p, c, to, from).mem, to, c)
        BY <2>3a, <3>1, CopyTurn
      <3> QED
        BY <2>1, <3>2 DEF p
    <2>5. DOMAIN loop[i - 1].mem = D /\ DOMAIN m = D
      BY <2>2 DEF CopyStates
    <2>6. Changes(loop[i - 1].mem, loop[i].mem, dest, i * c)
      <3>1. dest <= to /\ to + c <= dest + i * c
        BY <2>3 DEF to
      <3> QED
        BY <2>3, <2>4, <2>5, <3>1, ChangesWider
    <2>7. Changes(m, loop[i - 1].mem, dest, i * c)
      <3>1. dest <= dest /\ dest + (i - 1) * c <= dest + i * c
        BY <2>3
      <3> QED
        BY <2>2, <2>3, <2>5, <3>1, ChangesWider
    <2>8. Changes(m, loop[i].mem, dest, i * c)
      BY <2>6, <2>7, ChangesTwice
    <2> QED
      BY <2>4, <2>8
  <1> HIDE DEF T
  <1>3. 0 .. limit \subseteq T
    BY <1>1, <1>2, IntervalInduction
  <1>4. limit \in T
    BY <1>3
  <1>5. copy(m, c, dest, src, limit) = loop[limit].mem
    BY DEF copy
  <1> HIDE DEF loop
  <1> QED
    BY <1>4, <1>5 DEF T, CopyStates

CountedStates(D) == [mem : [D -> Byte], hit_null : BOOLEAN]

\* A turn of the loop of strncpy.
LEMMA CountedTurn ==
    ASSUME NEW D, D \subseteq Int, NEW p \in CountedStates(D), NEW c \in {1, 2},
           NEW to \in Int, NEW from \in Int
    PROVE  /\ counted_turn(p, c, to, from) \in CountedStates(D)
           /\ Changes(p.mem, counted_turn(p, c, to, from).mem, to, c)
  <1> DEFINE hit == p.hit_null \/ ~Has(p.mem, from, c) \/ IsNul(p.mem, c, from)
             data == IF hit THEN Zero(c) ELSE uc_mem_read(p.mem, from, c)
             mem == uc_mem_write(p.mem, to, data, c)
  <1>1. p.mem \in [D -> Byte] /\ c \in Nat
    BY DEF CountedStates
  <1>2. data \in [0 .. c - 1 -> Byte]
    <2>1. CASE hit
      BY <1>1, <2>1, ZeroBytes
    <2>2. CASE ~hit
      BY <1>1, <2>2, ReadBytes
    <2> QED
      BY <2>1, <2>2
  <1>3. mem \in [D -> Byte] /\ Changes(p.mem, mem, to, c)
    BY <1>1, <1>2, WriteChanges
  <1>4. counted_turn(p, c, to, from) = [mem |-> mem, hit_null |-> hit] /\ hit \in BOOLEAN
    <2>1. p.hit_null \in BOOLEAN
      BY DEF CountedStates
    <2> QED
      BY <2>1 DEF counted_turn, IsNul
  <1> HIDE DEF mem, hit
  <1> QED
    BY <1>3, <1>4 DEF CountedStates

\* The equations of the loop of strncpy.
CountedLoop(f, m, c, dest, src, n) ==
    /\ f[0] = [mem |-> m, hit_null |-> FALSE]
    /\ \A i \in 1 .. n : f[i] = counted_turn(f[i - 1], c, dest + (i - 1) * c, src + (i - 1) * c)

\* The recursive function of the loop of strncpy has a value.
LEMMA CountedTurns ==
    ASSUME NEW D, D \subseteq Int, NEW m \in [D -> Byte], NEW c \in {1, 2},
           NEW dest \in Int, NEW src \in Int, NEW n \in Nat
    PROVE  CountedLoop(copying_counted(m, c, dest, src, n), m, c, dest, src, n)
  <1> DEFINE base == [mem |-> m, hit_null |-> FALSE]
             to(i) == dest + (i - 1) * c
             from(i) == src + (i - 1) * c
             next == [x \in CountedStates(D) \X (1 .. n) |->
                         counted_turn(x[1], c, to(x[2]), from(x[2]))]
             Body(g) == [i \in 0 .. n |->
                            IF i = 0 THEN base ELSE counted_turn(g[i - 1], c, to(i), from(i))]
             loop == copying_counted(m, c, dest, src, n)
  <1>1. base \in CountedStates(D)
    BY DEF CountedStates
  <1>2. \A i \in 1 .. n : to(i) \in Int /\ from(i) \in Int
    OBVIOUS
  <1>3. next \in [CountedStates(D) \X (1 .. n) -> CountedStates(D)]
    BY <1>2, CountedTurn
  <1>4. loop = CHOOSE g : g = Body(g)
    BY Zenon DEF copying_counted
  <1> HIDE DEF base, to, from, next, loop
  <1>5. PICK f : TurnsUpTo(n, f, CountedStates(D), base, next)
    BY <1>1, <1>3, LoopExists
  <1>6. f = Body(f)
    <2>1. f = [i \in 0 .. n |-> f[i]]
      BY <1>5 DEF TurnsUpTo
    <2>2. \A i \in 0 .. n : f[i] = IF i = 0 THEN base ELSE counted_turn(f[i - 1], c, to(i), from(i))
      <3> SUFFICES ASSUME NEW i \in 1 .. n PROVE f[i] = counted_turn(f[i - 1], c, to(i), from(i))
        BY <1>5 DEF TurnsUpTo
      <3>1. f[i] = next[<<f[i - 1], i>>] /\ f[i - 1] \in CountedStates(D)
        BY <1>5 DEF TurnsUpTo
      <3> QED
        BY <3>1 DEF next
    <2> QED
      BY <2>1, <2>2
  <1>7. loop = Body(loop)
    <2>1. \E g : g = Body(g)
      BY <1>6
    <2> HIDE DEF Body
    <2> QED
      BY <1>4, <2>1, Zenon
  <1>8. \A i \in 0 .. n : loop[i] = IF i = 0 THEN base ELSE counted_turn(loop[i - 1], c, to(i), from(i))
    BY <1>7
  <1>9. 0 \in 0 .. n /\ \A i \in 1 .. n : i \in 0 .. n /\ i # 0
    OBVIOUS
  <1>10. loop[0] = base
         /\ \A i \in 1 .. n : loop[i] = counted_turn(loop[i - 1], c, to(i), from(i))
    BY <1>8, <1>9
  <1> QED
    BY <1>10, Zenon DEF CountedLoop, loop, base, to, from

\* strncpy changes no more than it was asked to, from dest on.
LEMMA CountedChanges ==
    ASSUME NEW D, D \subseteq Int, NEW m \in [D -> Byte], NEW c \in {1, 2},
           NEW dest \in Int, NEW src \in Int, NEW n \in Nat
    PROVE  /\ copying_counted(m, c, dest, src, n)[n].mem \in [D -> Byte]
           /\ Changes(m, copying_counted(m, c, dest, src, n)[n].mem, dest, n * c)
  <1> DEFINE loop == copying_counted(m, c, dest, src, n)
             T == {i \in 0 .. n : loop[i] \in CountedStates(D) /\ Changes(m, loop[i].mem, dest, i * c)}
  <1>0. /\ loop[0] = [mem |-> m, hit_null |-> FALSE]
        /\ \A i \in 1 .. n :
              loop[i] = counted_turn(loop[i - 1], c, dest + (i - 1) * c, src + (i - 1) * c)
    <2>1. CountedLoop(loop, m, c, dest, src, n)
      BY CountedTurns
    <2> QED
      BY <2>1, Zenon DEF CountedLoop
  <1>1. 0 \in T
    <2>1. loop[0] = [mem |-> m, hit_null |-> FALSE]
      BY <1>0
    <2> HIDE DEF loop
    <2>2. loop[0] \in CountedStates(D) /\ loop[0].mem = m
      BY <2>1 DEF CountedStates
    <2> QED
      BY <2>2 DEF Changes
  <1>2. ASSUME NEW i \in 1 .. n, i - 1 \in T PROVE i \in T
    <2> DEFINE to == dest + (i - 1) * c
               from == src + (i - 1) * c
    <2>1. loop[i] = counted_turn(loop[i - 1], c, to, from)
      BY <1>0, Zenon
    <2>2. loop[i - 1] \in CountedStates(D) /\ Changes(m, loop[i - 1].mem, dest, (i - 1) * c)
      BY <1>2
    <2>3. /\ to \in Int /\ from \in Int /\ i * c \in Int /\ (i - 1) * c \in Int
          /\ (i - 1) * c + c = i * c /\ 0 <= (i - 1) * c /\ c \in Int /\ 0 <= c
      <3>1. i \in Int /\ i - 1 \in Int /\ 0 <= i - 1
        OBVIOUS
      <3> QED
        BY <3>1, CharacterWidth
    <2>3a. to \in Int /\ from \in Int
      BY <2>3
    <2> HIDE DEF loop, to, from
    <2>4. loop[i] \in CountedStates(D) /\ Changes(loop[i - 1].mem, loop[i].mem, to, c)
      <3> DEFINE p == loop[i - 1]
      <3>1. p \in CountedStates(D)
        BY <2>2
      <3> HIDE DEF p
      <3>2. /\ counted_turn(p, c, to, from) \in CountedStates(D)
            /\ Changes(p.mem, counted_turn(p, c, to, from).mem, to, c)
        BY <2>3a, <3>1, CountedTurn
      <3> QED
        BY <2>1, <3>2 DEF p
    <2>5. DOMAIN loop[i - 1].mem = D /\ DOMAIN m = D
      BY <2>2 DEF CountedStates
    <2>6. Changes(loop[i - 1].mem, loop[i].mem, dest, i * c)
      <3>1. dest <= to /\ to + c <= dest + i * c
        BY <2>3 DEF to
      <3> QED
        BY <2>3, <2>4, <2>5, <3>1, ChangesWider
    <2>7. Changes(m, loop[i - 1].mem, dest, i * c)
      <3>1. dest <= dest /\ dest + (i - 1) * c <= dest + i * c
        BY <2>3
      <3> QED
        BY <2>2, <2>3, <2>5, <3>1, ChangesWider
    <2>8. Changes(m, loop[i].mem, dest, i * c)
      BY <2>6, <2>7, ChangesTwice
    <2> QED
      BY <2>4, <2>8
  <1> HIDE DEF T
  <1>3. 0 .. n \subseteq T
    BY <1>1, <1>2, IntervalInduction
  <1>4. n \in T
    BY <1>3
  <1> HIDE DEF loop
  <1>5. loop[n] \in CountedStates(D) /\ Changes(m, loop[n].mem, dest, n * c)
    BY <1>4 DEF T
  <1> QED
    BY <1>5 DEF CountedStates, loop

-----------------------------------------------------------------------------
(* The stubs' writes *)

\* A string is no longer than max_buffer.
LEMMA LengthRange ==
    ASSUME NEW m, NEW c, NEW str
    PROVE  length(m, c, str) \in 0 .. max_buffer
  <1> DEFINE T == {i \in 0 .. max_buffer :
                      i = max_buffer \/ ~Has(m, str + i * c, c) \/ IsNul(m, c, str + i * c)}
  <1>1. max_buffer \in T /\ T \subseteq Nat
    BY StubAssumption
  <1>2. Min(T) \in T
    BY <1>1, MinLeast
  <1> QED
    BY <1>2 DEF length

\* A stub changes bytes from its first argument on, max_buffer characters at most.
LEMMA StubChanges ==
    ASSUME NEW D, D \subseteq Int, NEW m \in [D -> Byte],
           NEW g, g[1] \in Nat, g[2] \in Nat, g[3] \in Nat, NEW name
    PROVE  /\ stub_table(name, m, g).mem \in [D -> Byte]
           /\ Changes(m, stub_table(name, m, g).mem, g[1], max_buffer * Width(name))
  <1> DEFINE dest == g[1]
             src == g[2]
             count == g[3]
  <1>0. dest \in Int /\ dest \in Nat /\ src \in Int /\ src \in Nat /\ count \in Nat
    OBVIOUS
  <1> HIDE DEF dest, src, count
  <1> DEFINE Fine(done, c) == /\ done.mem \in [D -> Byte]
                              /\ Changes(m, done.mem, dest, max_buffer * c)
  <1>1. /\ max_buffer \in Nat /\ max_buffer * 1 = max_buffer /\ max_buffer * 2 \in Nat
        /\ 1 \in {1, 2} /\ 2 \in {1, 2}
    BY StubAssumption
  <1>2. ASSUME NEW n \in Nat, n <= max_buffer, NEW data \in [0 .. n - 1 -> Byte], NEW ret
        PROVE  Fine(Done(uc_mem_write(m, dest, data, n), ret), 1)
    <2>1. /\ uc_mem_write(m, dest, data, n) \in [D -> Byte]
          /\ Changes(m, uc_mem_write(m, dest, data, n), dest, n)
      BY <1>0, WriteChanges
    <2>2. dest <= dest /\ dest + n <= dest + max_buffer /\ DOMAIN m = D
      BY <1>0, <1>1, <1>2
    <2>3. Changes(m, uc_mem_write(m, dest, data, n), dest, max_buffer)
      <3>1. n \in Int /\ max_buffer \in Int /\ DOMAIN m \subseteq Int
        BY <1>1, <2>2
      <3> QED
        BY <1>0, <2>1, <2>2, <3>1, ChangesWider
    <2> QED
      BY <1>1, <2>1, <2>3 DEF Done
  <1>3. ASSUME NEW ret PROVE Fine(Done(m, ret), 1) /\ Fine(Done(m, ret), 2)
    BY DEF Done, Changes
  <1>4. Fine(stub_memcpy(m, g), 1)
    <2>1. CASE CountOk(count) /\ Has(m, src, count)
      <3>1. count \in Nat /\ count <= max_buffer /\ uc_mem_read(m, src, count) \in [0 .. count - 1 -> Byte]
        BY <1>0, <2>1, ReadBytes DEF CountOk
      <3> QED
        BY <1>2, <2>1, <3>1 DEF stub_memcpy, dest, src, count
    <2>2. CASE ~(CountOk(count) /\ Has(m, src, count))
      BY <1>3, <2>2 DEF stub_memcpy, dest, src, count
    <2> QED
      BY <2>1, <2>2
  <1>5. ASSUME NEW fill \in Nat, NEW size \in Nat, NEW ret
        PROVE  Fine(Done(Fill(m, dest, fill, size), ret), 1)
    <2>1. [i \in 0 .. size - 1 |-> fill % 256] \in [0 .. size - 1 -> Byte]
      BY DEF Byte
    <2>2. CASE CountOk(size)
      BY <1>2, <2>1, <2>2 DEF Fill, CountOk
    <2>3. CASE ~CountOk(size)
      BY <1>3, <2>3 DEF Fill
    <2> QED
      BY <2>2, <2>3
  <1>6. /\ Fine(stub_memset(m, g), 1) /\ Fine(stub_rtl_zero_memory(m, g), 1)
        /\ Fine(stub_rtl_fill_memory(m, g), 1)
    <2>1. 0 \in Nat
      OBVIOUS
    <2> HIDE DEF Fine
    <2> QED
      BY <1>0, <1>5, <2>1
      DEF stub_memset, stub_rtl_zero_memory, stub_rtl_fill_memory, dest, src, count
  <1>7. ASSUME NEW c \in {1, 2}, NEW ret
        PROVE  /\ Fine(Done(copy(m, c, dest, src, max_buffer), ret), c)
               /\ Fine(Done(copy_counted(m, c, dest, src, count), ret), c)
               /\ Fine(Done(concatenate(m, c, dest, src), ret), c)
    <2> DEFINE n == IF count > max_buffer THEN max_buffer ELSE count
               len == length(m, c, dest)
    <2>1. /\ copy(m, c, dest, src, max_buffer) \in [D -> Byte]
          /\ Changes(m, copy(m, c, dest, src, max_buffer), dest, max_buffer * c)
      BY <1>0, <1>1, CopyChanges
    <2>2. DOMAIN m = D /\ dest <= dest /\ max_buffer * c \in Int
      BY <1>0, <1>1, CharacterWidth
    <2>3. /\ copy_counted(m, c, dest, src, count) \in [D -> Byte]
          /\ Changes(m, copy_counted(m, c, dest, src, count), dest, max_buffer * c)
      <3>1. n \in Nat /\ n <= max_buffer
        BY <1>0, <1>1
      <3>2. copy_counted(m, c, dest, src, count) = copying_counted(m, c, dest, src, n)[n].mem
        BY DEF copy_counted
      <3> HIDE DEF n
      <3>3. n * c \in Int /\ dest + n * c <= dest + max_buffer * c
        <4>1. n * c \in Int /\ n * c <= max_buffer * c
          BY <1>1, <3>1, CharacterWidth
        <4> QED
          BY <1>0, <2>2, <4>1
      <3>4. /\ copying_counted(m, c, dest, src, n)[n].mem \in [D -> Byte]
            /\ Changes(m, copying_counted(m, c, dest, src, n)[n].mem, dest, n * c)
        BY <1>0, <3>1, CountedChanges
      <3> QED
        BY <1>0, <2>2, <3>2, <3>3, <3>4, ChangesWider
    <2>4. /\ concatenate(m, c, dest, src) \in [D -> Byte]
          /\ Changes(m, concatenate(m, c, dest, src), dest, max_buffer * c)
      <3>1. len \in 0 .. max_buffer
        BY LengthRange
      <3>2. concatenate(m, c, dest, src) = copy(m, c, dest + len * c, src, max_buffer - len)
        BY DEF concatenate
      <3> HIDE DEF len
      <3>3. max_buffer - len \in Nat /\ len \in Nat
        BY <1>1, <3>1
      <3>4. /\ len * c \in Int /\ (max_buffer - len) * c \in Int /\ 0 <= len * c
            /\ len * c + (max_buffer - len) * c = max_buffer * c
        <4>1. len + (max_buffer - len) = max_buffer
          BY <1>1, <3>3
        <4>2. len * c + (max_buffer - len) * c = (len + (max_buffer - len)) * c
          BY <3>3, CharacterWidth
        <4>3. len * c \in Int /\ (max_buffer - len) * c \in Int /\ 0 * c <= len * c /\ 0 * c = 0
          BY <3>3, CharacterWidth
        <4> QED
          BY <4>1, <4>2, <4>3
      <3>5. dest + len * c \in Int
        BY <1>0, <3>4
      <3>6. /\ copy(m, c, dest + len * c, src, max_buffer - len) \in [D -> Byte]
            /\ Changes(m, copy(m, c, dest + len * c, src, max_buffer - len),
                       dest + len * c, (max_buffer - len) * c)
        BY <1>0, <3>3, <3>5, CopyChanges
      <3>7. /\ dest <= dest + len * c
            /\ (dest + len * c) + (max_buffer - len) * c <= dest + max_buffer * c
        BY <1>0, <2>2, <3>4
      <3> QED
        BY <1>0, <2>2, <3>2, <3>4, <3>5, <3>6, <3>7, ChangesWider
    <2> QED
      BY <2>1, <2>3, <2>4 DEF Done
  <1> HIDE DEF Fine
  <1>8. /\ Fine(stub_memcmp(m, g), 1) /\ Fine(stub_strlen(m, g), 1) /\ Fine(stub_wcslen(m, g), 2)
        /\ Fine(stub_free(m, g), 1) /\ Fine(stub_get_process_heap(m, g), 1)
    BY <1>3 DEF stub_memcmp, stub_strlen, stub_wcslen, stub_free, stub_get_process_heap
  <1>9. /\ Fine(stub_strcpy(m, g), 1) /\ Fine(stub_wcscpy(m, g), 2)
        /\ Fine(stub_strncpy(m, g), 1) /\ Fine(stub_wcsncpy(m, g), 2)
        /\ Fine(stub_strcat(m, g), 1) /\ Fine(stub_wcscat(m, g), 2)
    BY <1>1, <1>7 DEF stub_strcpy, stub_wcscpy, stub_strncpy, stub_wcsncpy, stub_strcat, stub_wcscat,
       dest, src, count
  <1>10. Fine(stub_table(name, m, g), Width(name))
    BY <1>4, <1>6, <1>8, <1>9 DEF stub_table, Width
  <1> QED
    BY <1>10 DEF Fine, dest

\* RAX after a stub is a number.
LEMMA StubReturns ==
    ASSUME NEW m, NEW g, g[1] \in Nat, NEW name
    PROVE  stub_table(name, m, g).ret \in Int
  <1>1. \A x, ret : Done(x, ret).ret = ret
    BY DEF Done
  <1>2. stub_memcmp(m, g).ret \in Int
    BY <1>1 DEF stub_memcmp, Negative
  <1>3. stub_strlen(m, g).ret \in Int /\ stub_wcslen(m, g).ret \in Int
    BY <1>1, LengthRange, StubAssumption DEF stub_strlen, stub_wcslen
  <1>4. /\ stub_memcpy(m, g).ret \in Int /\ stub_memset(m, g).ret \in Int
        /\ stub_rtl_zero_memory(m, g).ret \in Int /\ stub_rtl_fill_memory(m, g).ret \in Int
        /\ stub_strcpy(m, g).ret \in Int /\ stub_wcscpy(m, g).ret \in Int
        /\ stub_strcat(m, g).ret \in Int /\ stub_wcscat(m, g).ret \in Int
        /\ stub_strncpy(m, g).ret \in Int /\ stub_wcsncpy(m, g).ret \in Int
        /\ stub_free(m, g).ret \in Int /\ stub_get_process_heap(m, g).ret \in Int
    <2>1. g[1] \in Int /\ Kept \in Int /\ 0 \in Int /\ fake_handle \in Int
      BY DEF Kept, fake_handle
    <2> QED
      BY <1>1, <2>1, Zenon
      DEF stub_memcpy, stub_memset, stub_rtl_zero_memory, stub_rtl_fill_memory, stub_strcpy,
          stub_wcscpy, stub_strcat, stub_wcscat, stub_strncpy, stub_wcsncpy, stub_free,
          stub_get_process_heap
  <1> QED
    BY <1>2, <1>3, <1>4 DEF stub_table

-----------------------------------------------------------------------------
(* What the library promises *)

\* m with the first k of the bytes val laid over it from dest on.
Overlay(m, dest, val, k) ==
    [x \in DOMAIN m |-> IF x \in dest .. dest + k - 1 THEN val[x - dest] ELSE m[x]]

\* The memory after is m with the first k of the bytes val laid over it from dest on.
Laid(after, m, dest, val, k) == after = Overlay(m, dest, val, k)

\* A write that is not refused lays its bytes over memory.
LEMMA WriteOverlays ==
    ASSUME NEW m, NEW a \in Int, NEW n \in Nat, NEW data, Has(m, a, n)
    PROVE  uc_mem_write(m, a, data, n) = Overlay(m, a, data, n)
  BY Zenon DEF uc_mem_write, Overlay

\* Laying no bytes over memory is leaving it alone.
LEMMA OverlayNone ==
    ASSUME NEW D, D \subseteq Int, NEW m \in [D -> Byte], NEW a \in Int, NEW data
    PROVE  Overlay(m, a, data, 0) = m
  <1>1. \A x \in D : ~(x \in a .. a + 0 - 1)
    OBVIOUS
  <1>2. Overlay(m, a, data, 0) = [x \in D |-> m[x]]
    BY <1>1 DEF Overlay
  <1> QED
    BY <1>2

\* Laying the same bytes over memory, however they are written down.
LEMMA OverlaySame ==
    ASSUME NEW m, DOMAIN m \subseteq Int, NEW a \in Int, NEW k \in Nat,
           NEW first, NEW second, \A j \in 0 .. k - 1 : first[j] = second[j]
    PROVE  Overlay(m, a, first, k) = Overlay(m, a, second, k)
  <1>1. \A x \in DOMAIN m : x \in a .. a + k - 1 => x - a \in 0 .. k - 1
    OBVIOUS
  <1>2. \A x \in DOMAIN m : x \in a .. a + k - 1 => first[x - a] = second[x - a]
    BY <1>1
  <1> QED
    BY <1>2 DEF Overlay

\* The c bytes data are those of val from the one numbered k on.
Piece(data, c, val, k) == \A i \in 0 .. c - 1 : data[i] = val[k + i]

\* The bytes that the next character is written to come after those already there.
LEMMA OverlayGrows ==
    ASSUME NEW m, DOMAIN m \subseteq Int, NEW dest \in Int, NEW k \in Nat,
           NEW c \in Nat, NEW val, NEW data, Piece(data, c, val, k),
           NEW to, to = dest + k, NEW both, both = k + c
    PROVE  Laid(Overlay(Overlay(m, dest, val, k), to, data, c), m, dest, val, both)
  <1> DEFINE first == Overlay(m, dest, val, k)
             second == Overlay(first, to, data, c)
             all == Overlay(m, dest, val, both)
  <1>1. DOMAIN first = DOMAIN m /\ DOMAIN second = DOMAIN m /\ DOMAIN all = DOMAIN m
    BY DEF Overlay
  <1>2. ASSUME NEW x \in DOMAIN m PROVE second[x] = all[x]
    <2>1. second[x] = IF x \in to .. to + c - 1 THEN data[x - to] ELSE first[x]
      BY <1>1 DEF Overlay
    <2>2. first[x] = IF x \in dest .. dest + k - 1 THEN val[x - dest] ELSE m[x]
      BY DEF Overlay
    <2>3. all[x] = IF x \in dest .. dest + both - 1 THEN val[x - dest] ELSE m[x]
      BY DEF Overlay
    <2>4. CASE x \in to .. to + c - 1
      <3>1. /\ x - to \in 0 .. c - 1 /\ k + (x - to) = x - dest
            /\ x \in dest .. dest + both - 1
        BY <2>4
      <3>2. data[x - to] = val[k + (x - to)]
        BY <3>1, Zenon DEF Piece
      <3>3. data[x - to] = val[x - dest]
        BY <3>1, <3>2, Zenon
      <3> QED
        BY <2>1, <2>3, <2>4, <3>1, <3>3, Zenon
    <2>5. CASE ~(x \in to .. to + c - 1)
      <3>1. x \in dest .. dest + both - 1 <=> x \in dest .. dest + k - 1
        BY <2>5
      <3> QED
        BY <2>1, <2>2, <2>3, <2>5, <3>1, Zenon
    <2> QED
      BY <2>4, <2>5
  <1>3. second = [x \in DOMAIN m |-> second[x]] /\ all = [x \in DOMAIN m |-> all[x]]
    BY <1>1 DEF Overlay
  <1> HIDE DEF first, second, all
  <1>4. second = all
    BY <1>2, <1>3
  <1> QED
    BY <1>4, Zenon DEF first, second, all, Laid

\* Bytes apart from those laid over memory read as before.
LEMMA OverlayRead ==
    ASSUME NEW m, DOMAIN m \subseteq Int, NEW dest \in Int, NEW k \in Nat,
           NEW val, NEW a \in Int, NEW n \in Nat, Has(m, a, n), Apart(dest, k, a, n)
    PROVE  /\ Has(Overlay(m, dest, val, k), a, n)
           /\ uc_mem_read(Overlay(m, dest, val, k), a, n) = uc_mem_read(m, a, n)
  <1> DEFINE o == Overlay(m, dest, val, k)
  <1>1. DOMAIN o = DOMAIN m
    BY DEF Overlay
  <1>2. ASSUME NEW i \in 0 .. n - 1 PROVE o[a + i] = m[a + i]
    <2>1. a + i \in a .. a + n - 1
      OBVIOUS
    <2>2. a + i \in DOMAIN m
      BY <2>1, Zenon DEF Has
    <2>3. ~(a + i \in dest .. dest + k - 1)
      BY DEF Apart
    <2> QED
      BY <2>2, <2>3, Zenon DEF Overlay
  <1> HIDE DEF o
  <1>3. uc_mem_read(o, a, n) = uc_mem_read(m, a, n)
    BY <1>2 DEF uc_mem_read
  <1>4. Has(o, a, n)
    BY <1>1, Zenon DEF Has
  <1> QED
    BY <1>3, <1>4, Zenon DEF o

\* A character of some mapped ones is mapped.
LEMMA CharacterMapped ==
    ASSUME NEW m, NEW c \in {1, 2}, NEW a \in Int, NEW n \in Nat, NEW i \in 0 .. n - 1,
           Has(m, a, n * c)
    PROVE  Has(m, a + i * c, c)
  <1>1. /\ i * c \in Int /\ n * c \in Int /\ 0 <= i * c /\ i * c + c <= n * c /\ c \in Int
    <2>1. CASE c = 1
      BY <2>1
    <2>2. CASE c = 2
      BY <2>2
    <2> QED
      BY <2>1, <2>2
  <1> DEFINE k == i * c
             size == n * c
  <1>2. k \in Int /\ size \in Int /\ 0 <= k /\ k + c <= size /\ Has(m, a, size)
    BY <1>1
  <1> HIDE DEF k, size
  <1>3. ASSUME NEW x \in a + k .. a + k + c - 1 PROVE x \in DOMAIN m
    <2>1. x \in a .. a + size - 1
      BY <1>1, <1>2, <1>3
    <2> QED
      BY <1>2, <2>1 DEF Has
  <1>4. Has(m, a + k, c)
    BY <1>3, Zenon DEF Has
  <1> QED
    BY <1>4 DEF k

\* The stubs find the NUL that ends a string.
LEMMA LengthIs ==
    ASSUME NEW m, NEW c \in {1, 2}, NEW a \in Int, NEW n \in Lengths(m, c, a)
    PROVE  length(m, c, a) = n
  <1> DEFINE T == {i \in 0 .. max_buffer :
                      i = max_buffer \/ ~Has(m, a + i * c, c) \/ IsNul(m, c, a + i * c)}
  <1>1. n \in 0 .. max_buffer /\ n \in Nat /\ max_buffer \in Nat
    BY StubAssumption DEF Lengths
  <1>2. /\ Has(m, a, (n + 1) * c) /\ IsNul(m, c, a + n * c)
        /\ \A i \in 0 .. n - 1 : ~IsNul(m, c, a + i * c)
    BY Zenon DEF Lengths, StringAt
  <1>3. n \in T
    BY <1>1, <1>2
  <1>4. ASSUME NEW i \in T PROVE n <= i
    <2> SUFFICES ASSUME i < n PROVE FALSE
      BY <1>1
    <2>1. i \in 0 .. n - 1 /\ i \in 0 .. (n + 1) - 1 /\ n + 1 \in Nat /\ i # max_buffer
      BY <1>1
    <2>2. Has(m, a + i * c, c)
      BY <1>2, <2>1, CharacterMapped
    <2>3. ~IsNul(m, c, a + i * c)
      BY <1>2, <2>1, Zenon
    <2> QED
      BY <2>1, <2>2, <2>3, Zenon
  <1>5. T \subseteq Nat
    BY <1>1
  <1>6. Min(T) \in T /\ \A k \in T : Min(T) <= k
    BY <1>3, <1>5, MinLeast
  <1>7. length(m, c, a) = Min(T)
    BY Zenon DEF length
  <1> DEFINE least == Min(T)
  <1> HIDE DEF T, least
  <1>8. least \in Nat /\ least <= n /\ n <= least
    BY <1>3, <1>4, <1>5, <1>6, Zenon DEF least
  <1>9. least = n
    BY <1>1, <1>8
  <1> QED
    BY <1>7, <1>9 DEF least, T

\* The length of a string, for the library and for the stubs.
LEMMA StrLenIs ==
    ASSUME NEW m, NEW c \in {1, 2}, NEW a \in Int, Lengths(m, c, a) # {}
    PROVE  /\ StrLen(m, c, a) \in 0 .. max_buffer
           /\ StringAt(m, c, a, StrLen(m, c, a))
           /\ length(m, c, a) = StrLen(m, c, a)
           /\ \A n \in Lengths(m, c, a) : n = StrLen(m, c, a)
  <1>1. StrLen(m, c, a) \in Lengths(m, c, a)
    BY Zenon DEF StrLen
  <1>2. \A n \in Lengths(m, c, a) : length(m, c, a) = n
    BY LengthIs
  <1>3. StrLen(m, c, a) \in 0 .. max_buffer /\ StringAt(m, c, a, StrLen(m, c, a))
    BY <1>1, Zenon DEF Lengths
  <1> QED
    BY <1>1, <1>2, <1>3, Zenon

\* Two objects that do not overlap, of which the second is copied to the first.
CopyPlan(m, dest, src, size, val) ==
    /\ Has(m, dest, size) /\ Has(m, src, size) /\ Apart(dest, size, src, size)
    /\ \A j \in 0 .. size - 1 : val[j] = m[src + j]

\* A part of such an object is mapped, and apart from any part of the other.
LEMMA PartsApart ==
    ASSUME NEW m, NEW dest \in Int, NEW src \in Int, NEW size \in Nat,
           Has(m, dest, size), Has(m, src, size), Apart(dest, size, src, size),
           NEW k \in Nat, NEW c \in Nat, k + c <= size,
           NEW to, to = dest + k, NEW from, from = src + k
    PROVE  Has(m, to, c) /\ Has(m, from, c) /\ Apart(dest, k, from, c)
  <1>1. to .. to + c - 1 \subseteq dest .. dest + size - 1
    OBVIOUS
  <1>2. from .. from + c - 1 \subseteq src .. src + size - 1
    OBVIOUS
  <1>3. Has(m, to, c) /\ Has(m, from, c)
    BY <1>1, <1>2 DEF Has
  <1>4. Apart(dest, k, from, c)
    BY DEF Apart
  <1> QED
    BY <1>3, <1>4

\* One turn of the loop of strcpy copies one character of the original string, and stops
\* behind the NUL.
LEMMA CopyTurnCopies ==
    ASSUME NEW m, DOMAIN m \subseteq Int, NEW c \in {1, 2},
           NEW dest \in Int, NEW src \in Int, NEW size \in Nat, NEW val,
           CopyPlan(m, dest, src, size, val),
           NEW k \in Nat, k + c <= size, NEW both, both = k + c,
           NEW to, to = dest + k, NEW from, from = src + k,
           NEW p, p = [mem |-> Overlay(m, dest, val, k), stop |-> FALSE]
    PROVE  copy_turn(p, c, to, from) = [mem |-> Overlay(m, dest, val, both), stop |-> IsNul(m, c, from)]
  <1> DEFINE o == Overlay(m, dest, val, k)
             data == uc_mem_read(m, from, c)
  <1>1. to \in Int /\ from \in Int /\ c \in Nat
    OBVIOUS
  <1>2. Has(m, to, c) /\ Has(m, from, c) /\ Apart(dest, k, from, c)
    BY <1>1, PartsApart DEF CopyPlan
  <1>3. Has(o, from, c) /\ uc_mem_read(o, from, c) = data
    BY <1>1, <1>2, OverlayRead
  <1>4. Has(o, to, c)
    BY <1>2 DEF Has, Overlay
  <1>5. uc_mem_write(o, to, data, c) = Overlay(o, to, data, c)
    BY <1>1, <1>4, WriteOverlays
  <1>6. Piece(data, c, val, k)
    <2> SUFFICES ASSUME NEW i \in 0 .. c - 1 PROVE data[i] = val[k + i]
      BY Zenon DEF Piece
    <2>1. data[i] = m[from + i]
      BY DEF uc_mem_read
    <2>2. from + i = src + (k + i) /\ k + i \in 0 .. size - 1
      BY <1>1
    <2>3. val[k + i] = m[src + (k + i)]
      BY <2>2, Zenon DEF CopyPlan
    <2> QED
      BY <2>1, <2>2, <2>3, Zenon
  <1> HIDE DEF data
  <1>7. Laid(Overlay(o, to, data, c), m, dest, val, both)
    BY <1>1, <1>6, OverlayGrows
  <1> HIDE DEF o
  <1>8. p.mem = o /\ p.stop = FALSE
    BY DEF o
  <1>9. copy_turn(p, c, to, from) = [mem |-> uc_mem_write(o, to, data, c), stop |-> IsNul(o, c, from)]
    BY <1>3, <1>8, Zenon DEF copy_turn
  <1>10. IsNul(o, c, from) = IsNul(m, c, from)
    BY <1>3, Zenon DEF IsNul, data
  <1> QED
    BY <1>5, <1>7, <1>9, <1>10, Zenon DEF Laid

\* strcpy copies the string with its NUL, and no more.
LEMMA CopyCopies ==
    ASSUME NEW D, D \subseteq Int, NEW m \in [D -> Byte], NEW c \in {1, 2},
           NEW dest \in Int, NEW src \in Int, NEW limit \in Nat, NEW n \in Nat, n < limit,
           StringAt(m, c, src, n), NEW size, size = (n + 1) * c, NEW val,
           CopyPlan(m, dest, src, size, val)
    PROVE  Laid(copy(m, c, dest, src, limit), m, dest, val, size)
  <1> DEFINE loop == copying(m, c, dest, src, limit)
             State(i) == IF i <= n THEN [mem |-> Overlay(m, dest, val, i * c), stop |-> FALSE]
                         ELSE [mem |-> Overlay(m, dest, val, size), stop |-> TRUE]
             T == {i \in 0 .. limit : loop[i] = State(i)}
  <1>0. /\ loop[0] = [mem |-> m, stop |-> FALSE]
        /\ \A i \in 1 .. limit :
              loop[i] = copy_turn(loop[i - 1], c, dest + (i - 1) * c, src + (i - 1) * c)
    <2>1. CopyLoop(loop, m, c, dest, src, limit)
      BY CopyingTurns
    <2> QED
      BY <2>1, Zenon DEF CopyLoop
  <1> HIDE DEF loop
  <1>1. 0 \in T
    <2>1. State(0) = [mem |-> Overlay(m, dest, val, 0), stop |-> FALSE]
      <3>1. 0 <= n /\ 0 * c = 0
        BY CharacterWidth
      <3> QED
        BY <3>1, Zenon
    <2>2. Overlay(m, dest, val, 0) = m
      BY OverlayNone
    <2>3. 0 \in 0 .. limit
      OBVIOUS
    <2> QED
      BY <1>0, <2>1, <2>2, <2>3, Zenon
  <1>2. ASSUME NEW i \in 1 .. limit, i - 1 \in T PROVE i \in T
    <2>1. /\ i \in Nat /\ i - 1 \in Nat /\ i - 1 \in Int /\ i \in Int /\ n + 1 \in Int
          /\ loop[i - 1] = State(i - 1)
      BY <1>2
    <2> DEFINE k == (i - 1) * c
               both == i * c
               to == dest + k
               from == src + k
    <2>2. loop[i] = copy_turn(loop[i - 1], c, to, from)
      BY <1>0, Zenon
    <2>3. CASE i - 1 <= n
      <3>1. k \in Nat /\ both = k + c /\ both <= size /\ size \in Nat
        <4>1. i <= n + 1 /\ 0 <= i - 1 /\ 0 <= n + 1
          BY <2>1, <2>3
        <4>2. /\ k \in Int /\ k + c = both /\ both <= (n + 1) * c /\ (n + 1) * c \in Int
              /\ 0 * c <= k /\ 0 * c <= (n + 1) * c /\ 0 * c = 0
          BY <2>1, <4>1, CharacterWidth
        <4> QED
          BY <4>2
      <3>2. loop[i - 1] = [mem |-> Overlay(m, dest, val, k), stop |-> FALSE]
        BY <2>1, <2>3, Zenon
      <3>3. [mem |-> Overlay(m, dest, val, both), stop |-> IsNul(m, c, from)] = State(i)
        <4>1. IsNul(m, c, src + n * c) /\ \A j \in 0 .. n - 1 : ~IsNul(m, c, src + j * c)
          BY Zenon DEF StringAt
        <4>2. CASE i <= n
          <5>1. i - 1 \in 0 .. n - 1
            BY <2>1, <4>2
          <5>2. IsNul(m, c, from) = FALSE
            BY <4>1, <5>1, Zenon DEF IsNul
          <5> QED
            BY <4>2, <5>2, Zenon
        <4>3. CASE ~(i <= n)
          <5>1. i - 1 = n /\ n + 1 = i
            BY <2>1, <2>3, <4>3
          <5>2. IsNul(m, c, from) = TRUE
            BY <4>1, <5>1, Zenon DEF IsNul
          <5> QED
            BY <4>3, <5>1, <5>2, Zenon
        <4> QED
          BY <4>2, <4>3
      <3>5. k + c <= size /\ DOMAIN m \subseteq Int
        BY <3>1
      <3> DEFINE p == loop[i - 1]
      <3>6. p = [mem |-> Overlay(m, dest, val, k), stop |-> FALSE]
        BY <3>2
      <3>7. loop[i] = copy_turn(p, c, to, from) /\ to = dest + k /\ from = src + k
        BY <2>2
      <3> HIDE DEF k, both, to, from, p
      <3>8. copy_turn(p, c, to, from) = [mem |-> Overlay(m, dest, val, both), stop |-> IsNul(m, c, from)]
        BY <3>1, <3>5, <3>6, <3>7, CopyTurnCopies, SMTT(60)
      <3>9. loop[i] = State(i)
        BY <3>3, <3>7, <3>8, Zenon DEF both, from
      <3>10. i \in 0 .. limit
        OBVIOUS
      <3> QED
        BY <3>9, <3>10, Zenon
    <2>4. CASE ~(i - 1 <= n)
      <3>1. ~(i <= n)
        BY <2>1, <2>4
      <3>2. State(i - 1) = State(i) /\ State(i) = [mem |-> Overlay(m, dest, val, size), stop |-> TRUE]
        BY <2>4, <3>1
      <3>3. copy_turn(State(i), c, to, from) = State(i)
        <4> DEFINE q == State(i)
                   o == Overlay(m, dest, val, size)
        <4>1. q = [mem |-> o, stop |-> TRUE]
          BY <3>2
        <4> HIDE DEF q, o
        <4>2. copy_turn(q, c, to, from) = [q EXCEPT !.stop = TRUE]
          BY <4>1 DEF copy_turn
        <4>3. [q EXCEPT !.stop = TRUE] = [mem |-> o, stop |-> TRUE]
          <5>1. \A b : [[mem |-> o, stop |-> b] EXCEPT !.stop = b] = [mem |-> o, stop |-> b]
            OBVIOUS
          <5> QED
            BY <4>1, <5>1, Zenon
        <4> QED
          BY <4>1, <4>2, <4>3, Zenon DEF q
      <3> QED
        BY <2>1, <2>2, <3>2, <3>3
    <2> QED
      BY <2>3, <2>4
  <1>3. 0 .. limit \subseteq T
    <2> HIDE DEF T
    <2> QED
      BY <1>1, <1>2, IntervalInduction
  <1>4. limit \in T
    <2>1. limit \in 0 .. limit
      OBVIOUS
    <2> QED
      BY <1>3, <2>1, Zenon
  <1>5. State(limit).mem = Overlay(m, dest, val, size)
    <2>1. ~(limit <= n)
      OBVIOUS
    <2> QED
      BY <2>1
  <1> QED
    BY <1>4, <1>5, Zenon DEF copy, loop, Laid

\* Bytes laid behind some that stay are all of them laid over memory.
LEMMA OverlayBehind ==
    ASSUME NEW D, D \subseteq Int, NEW m \in [D -> Byte], NEW dest \in Int, NEW k \in Nat,
           NEW size \in Nat, NEW val, NEW bytes, NEW to, to = dest + k, NEW both, both = k + size,
           Piece(bytes, k, m, dest), Piece(val, size, bytes, k)
    PROVE  Laid(Overlay(m, to, val, size), m, dest, bytes, both)
  <1>1. DOMAIN m \subseteq Int /\ DOMAIN m = D
    OBVIOUS
  <1>2. Laid(Overlay(Overlay(m, dest, bytes, k), to, val, size), m, dest, bytes, both)
    BY <1>1, OverlayGrows, Zenon
  <1>3. Overlay(m, dest, bytes, k) = m
    <2>1. ASSUME NEW x \in D, x \in dest .. dest + k - 1 PROVE bytes[x - dest] = m[x]
      <3>1. x - dest \in 0 .. k - 1 /\ dest + (x - dest) = x
        BY <2>1
      <3>2. bytes[x - dest] = m[dest + (x - dest)]
        BY <3>1, Zenon DEF Piece
      <3> QED
        BY <3>1, <3>2, Zenon
    <2>2. Overlay(m, dest, bytes, k) = [x \in D |-> m[x]]
      BY <1>1, <2>1 DEF Overlay
    <2> QED
      BY <2>2
  <1> QED
    BY <1>2, <1>3, Zenon DEF Laid

\* strcat leaves the string that is there and copies the other behind it.
LEMMA ConcatenateCopies ==
    ASSUME NEW D, D \subseteq Int, NEW m \in [D -> Byte], NEW c \in {1, 2},
           NEW dest \in Int, NEW src \in Int,
           Lengths(m, c, dest) # {}, Lengths(m, c, src) # {},
           NEW old, old = StrLen(m, c, dest), NEW n, n = StrLen(m, c, src),
           old + n + 1 <= max_buffer, NEW all, all = (old + n + 1) * c, NEW k, k = old * c,
           NEW size, size = (n + 1) * c,
           Has(m, dest, all), Apart(dest, all, src, size),
           NEW bytes, Piece(bytes, k, m, dest), \A j \in 0 .. size - 1 : bytes[k + j] = m[src + j]
    PROVE  Laid(concatenate(m, c, dest, src), m, dest, bytes, all)
  <1> DEFINE val == [j \in 0 .. size - 1 |-> m[src + j]]
             limit == max_buffer - old
             to == dest + k
  <1>1. old \in Nat /\ n \in Nat /\ max_buffer \in Nat /\ limit \in Nat /\ n < limit
        /\ StringAt(m, c, src, n) /\ length(m, c, dest) = old
    BY StrLenIs, StubAssumption
  <1>2. k \in Nat /\ size \in Nat /\ all = k + size /\ to \in Int
    <2>1. (old + n + 1) * c = old * c + (n + 1) * c
      <3>1. old \in Int /\ n + 1 \in Int /\ old + n + 1 = old + (n + 1)
        BY <1>1
      <3> QED
        BY <3>1, CharacterWidth
    <2>2. old * c \in Int /\ (n + 1) * c \in Int /\ 0 * c <= old * c /\ 0 * c <= (n + 1) * c /\ 0 * c = 0
      <3>1. old \in Int /\ n + 1 \in Int /\ 0 <= old /\ 0 <= n + 1 /\ 0 \in Int
        BY <1>1
      <3> QED
        BY <3>1, CharacterWidth
    <2> QED
      BY <2>1, <2>2
  <1>3. CopyPlan(m, to, src, size, val)
    <2>1. Has(m, to, size)
      <3>1. to .. to + size - 1 \subseteq dest .. dest + all - 1
        BY <1>2
      <3> QED
        BY <3>1 DEF Has
    <2>2. Has(m, src, size)
      BY <1>1, Zenon DEF StringAt
    <2>3. Apart(to, size, src, size)
      BY <1>2 DEF Apart
    <2> QED
      BY <2>1, <2>2, <2>3 DEF CopyPlan
  <1>4. Piece(val, size, bytes, k)
    BY Zenon DEF Piece
  <1>5. concatenate(m, c, dest, src) = copy(m, c, to, src, limit)
    BY <1>1, Zenon DEF concatenate
  <1>6. to = dest + k
    OBVIOUS
  <1> HIDE DEF val, limit, to
  <1>7. Laid(copy(m, c, to, src, limit), m, to, val, size)
    BY <1>1, <1>2, <1>3, CopyCopies, Zenon
  <1>8. Laid(Overlay(m, to, val, size), m, dest, bytes, all)
    BY <1>2, <1>4, <1>6, OverlayBehind
  <1> QED
    BY <1>5, <1>7, <1>8, Zenon DEF Laid

\* At character j the string at src has ended.
Ended(m, c, src, j) == \E nul \in Lengths(m, c, src) : j >= nul

\* strncpy sees that the string has ended at its NUL, and not before.
LEMMA EndedAt ==
    ASSUME NEW m, NEW c \in {1, 2}, NEW src \in Int, NEW n \in Nat, n <= max_buffer,
           Has(m, src, n * c) \/ Lengths(m, c, src) # {}, NEW j \in 0 .. n - 1
    PROVE  Ended(m, c, src, j) <=> \/ Ended(m, c, src, j - 1)
                                   \/ ~Has(m, src + j * c, c) \/ IsNul(m, c, src + j * c)
  <1> DEFINE L == Lengths(m, c, src)
  <1>1. /\ L \subseteq 0 .. max_buffer /\ max_buffer \in Nat /\ j \in Nat
        /\ \A nul \in L : /\ Has(m, src, (nul + 1) * c) /\ IsNul(m, c, src + nul * c)
                          /\ \A i \in 0 .. nul - 1 : ~IsNul(m, c, src + i * c)
    <2>1. L \subseteq 0 .. max_buffer /\ max_buffer \in Nat /\ j \in Nat
      BY StubAssumption DEF Lengths
    <2>2. \A nul \in L : /\ Has(m, src, (nul + 1) * c) /\ IsNul(m, c, src + nul * c)
                         /\ \A i \in 0 .. nul - 1 : ~IsNul(m, c, src + i * c)
      BY Zenon DEF Lengths, StringAt
    <2> QED
      BY <2>1, <2>2
  <1>2. ASSUME NEW nul \in L, j >= nul
        PROVE  Ended(m, c, src, j - 1) \/ IsNul(m, c, src + j * c)
    <2>1. CASE nul = j
      BY <1>1, <2>1, Zenon
    <2>2. CASE nul # j
      <3>1. j - 1 >= nul
        BY <1>1, <1>2, <2>2
      <3> QED
        BY <3>1, Zenon DEF Ended
    <2> QED
      BY <2>1, <2>2
  <1>3. ASSUME NEW nul \in L, j - 1 >= nul PROVE j >= nul
    BY <1>1, <1>3
  <1>4. ASSUME NEW nul \in L, ~(j >= nul)
        PROVE  Has(m, src + j * c, c) /\ ~IsNul(m, c, src + j * c)
    <2>1. j \in 0 .. nul - 1 /\ j \in 0 .. (nul + 1) - 1 /\ nul + 1 \in Nat
      BY <1>1, <1>4
    <2>2. Has(m, src, (nul + 1) * c) /\ ~IsNul(m, c, src + j * c)
      BY <1>1, <2>1, Zenon
    <2> QED
      BY <2>1, <2>2, CharacterMapped
  <1>5. ASSUME L = {}
        PROVE  Has(m, src + j * c, c) /\ ~IsNul(m, c, src + j * c)
    <2>1. Has(m, src, n * c)
      BY <1>5
    <2>2. Has(m, src + j * c, c)
      BY <2>1, CharacterMapped
    <2>3. ASSUME IsNul(m, c, src + j * c) PROVE FALSE
      <3> DEFINE T == {i \in 0 .. j : IsNul(m, c, src + i * c)}
                 first == Min(T)
      <3>1. j \in T /\ T \subseteq Nat /\ T \subseteq 0 .. j
        BY <1>1, <2>3
      <3>2. first \in T /\ \A k \in T : first <= k
        BY <3>1, MinLeast
      <3>3. first \in 0 .. j /\ IsNul(m, c, src + first * c)
        BY <3>2
      <3> HIDE DEF first
      <3>4. first \in 0 .. max_buffer /\ first \in Nat
        BY <1>1, <3>3
      <3>5. \A i \in 0 .. first - 1 : ~IsNul(m, c, src + i * c)
        <4> SUFFICES ASSUME NEW i \in 0 .. first - 1 PROVE ~IsNul(m, c, src + i * c)
          OBVIOUS
        <4>1. ~(first <= i) /\ i \in 0 .. j
          BY <3>3, <3>4
        <4>2. i \notin T
          BY <3>2, <4>1, Zenon DEF first
        <4> QED
          BY <4>1, <4>2, Zenon
      <3>6. Has(m, src, (first + 1) * c)
        <4>1. (first + 1) * c <= n * c /\ (first + 1) * c \in Int /\ n * c \in Int
          <5>1. first + 1 <= n /\ first + 1 \in Int /\ n \in Int
            BY <3>3
          <5> QED
            BY <5>1, CharacterWidth
        <4> DEFINE k == (first + 1) * c
                   size == n * c
        <4>2. k <= size /\ k \in Int /\ size \in Int /\ Has(m, src, size)
          BY <2>1, <4>1
        <4> HIDE DEF k, size
        <4>3. src .. src + k - 1 \subseteq src .. src + size - 1
          BY <4>2
        <4>4. Has(m, src, k)
          BY <4>2, <4>3 DEF Has
        <4> QED
          BY <4>4 DEF k
      <3>7. first \in L
        BY <3>3, <3>4, <3>5, <3>6, Zenon DEF Lengths, StringAt
      <3> QED
        BY <1>5, <3>7
    <2> QED
      BY <2>2, <2>3
  <1> QED
    BY <1>2, <1>3, <1>4, <1>5, Zenon DEF Ended

\* What strncpy is to leave at dest: the string, then NULs.
Padded(m, c, src, size, val) ==
    \A i \in 0 .. size - 1 : val[i] = IF Ended(m, c, src, i \div c) THEN 0 ELSE m[src + i]

\* The bytes of character j.
LEMMA CharacterBytes ==
    ASSUME NEW c \in {1, 2}, NEW j \in Nat, NEW i \in 0 .. c - 1, NEW k, k = j * c
    PROVE  k + i \in Nat /\ (k + i) \div c = j
  <1>1. CASE c = 1
    BY <1>1
  <1>2. CASE c = 2
    BY <1>2
  <1> QED
    BY <1>1, <1>2

\* After i turns the loop of strncpy has met the end of the string.
HitAfter(m, c, src, i) == IF i > 0 /\ Ended(m, c, src, i - 1) THEN TRUE ELSE FALSE

\* The loop of strncpy has written k bytes, and a NUL among them or not.
CountedTo(p, m, dest, val, k, hit) == p = [mem |-> Overlay(m, dest, val, k), hit_null |-> hit]

\* One turn of the loop of strncpy writes one character of them.
LEMMA CountedTurnCopies ==
    ASSUME NEW m, DOMAIN m \subseteq Int, NEW c \in {1, 2},
           NEW dest \in Int, NEW src \in Int, NEW size \in Nat, NEW val,
           Has(m, dest, size), Apart(dest, size, src, size), Padded(m, c, src, size, val),
           NEW j \in Nat, NEW k, k = j * c, k + c <= size, NEW both, both = k + c,
           NEW to, to = dest + k, NEW from, from = src + k,
           NEW n \in Nat, n <= max_buffer, j < n, NEW next, next = j + 1,
           Has(m, src, n * c) \/ Lengths(m, c, src) # {},
           NEW p, CountedTo(p, m, dest, val, k, HitAfter(m, c, src, j))
    PROVE  CountedTo(counted_turn(p, c, to, from), m, dest, val, both, HitAfter(m, c, src, next))
  <1> DEFINE before == HitAfter(m, c, src, j)
             hit == HitAfter(m, c, src, next)
             o == Overlay(m, dest, val, k)
             data == IF hit THEN Zero(c) ELSE uc_mem_read(o, from, c)
  <1>1. k \in Nat /\ c \in Nat
    <2>1. CASE c = 1
      BY <2>1
    <2>2. CASE c = 2
      BY <2>2
    <2> QED
      BY <2>1, <2>2
  <1>2. to \in Int /\ from \in Int /\ c \in Nat /\ k \in Nat
    BY <1>1
  <1>3. Has(m, to, c) /\ Apart(dest, k, from, c)
    <2>1. to .. to + c - 1 \subseteq dest .. dest + size - 1
      BY <1>2
    <2>2. Has(m, to, c)
      BY <2>1 DEF Has
    <2>3. Apart(dest, k, from, c)
      BY <1>2 DEF Apart
    <2> QED
      BY <2>2, <2>3
  <1>4. Has(m, from, c) => Has(o, from, c) /\ uc_mem_read(o, from, c) = uc_mem_read(m, from, c)
    BY <1>2, <1>3, OverlayRead
  <1>5. Has(o, to, c) /\ (Has(o, from, c) <=> Has(m, from, c))
    BY <1>3, Zenon DEF Has, Overlay
  <1>6. before \in {TRUE, FALSE} /\ hit \in {TRUE, FALSE}
    BY Zenon DEF HitAfter
  <1>7. hit <=> Ended(m, c, src, j)
    <2>1. next > 0 /\ next - 1 = j
      OBVIOUS
    <2> QED
      BY <2>1, Zenon DEF HitAfter
  <1>8. hit <=> (before \/ ~Has(m, from, c) \/ IsNul(m, c, from))
    <2>1. before <=> Ended(m, c, src, j - 1)
      <3>1. CASE j > 0
        BY <3>1, Zenon DEF HitAfter
      <3>2. CASE ~(j > 0)
        <4>1. \A nul \in Lengths(m, c, src) : ~(j - 1 >= nul)
          BY <3>2 DEF Lengths
        <4>2. ~Ended(m, c, src, j - 1)
          BY <4>1, Zenon DEF Ended
        <4> QED
          BY <3>2, <4>2, Zenon DEF HitAfter
      <3> QED
        BY <3>1, <3>2
    <2>2. j \in 0 .. n - 1
      OBVIOUS
    <2>3. Ended(m, c, src, j) <=> \/ Ended(m, c, src, j - 1)
                                  \/ ~Has(m, src + j * c, c) \/ IsNul(m, c, src + j * c)
      BY <2>2, EndedAt
    <2> QED
      BY <1>7, <2>1, <2>3, Zenon
  <1>9. hit <=> (before \/ ~Has(o, from, c) \/ IsNul(o, c, from))
    <2>1. Has(m, from, c) => (IsNul(o, c, from) <=> IsNul(m, c, from))
      BY <1>4, Zenon DEF IsNul
    <2> QED
      BY <1>5, <1>8, <2>1
  <1>10. uc_mem_write(o, to, data, c) = Overlay(o, to, data, c)
    BY <1>2, <1>5, WriteOverlays
  <1>11. Piece(data, c, val, k)
    <2> SUFFICES ASSUME NEW i \in 0 .. c - 1 PROVE data[i] = val[k + i]
      BY Zenon DEF Piece
    <2>1. k + i \in 0 .. size - 1 /\ (k + i) \div c = j
      <3>1. k + i <= size - 1
        BY <1>2
      <3>2. k + i \in Nat /\ (k + i) \div c = j
        BY CharacterBytes
      <3> QED
        BY <3>1, <3>2
    <2>2. val[k + i] = IF Ended(m, c, src, (k + i) \div c) THEN 0 ELSE m[src + (k + i)]
      BY <2>1, Zenon DEF Padded
    <2>3. val[k + i] = IF hit THEN 0 ELSE m[src + (k + i)]
      BY <1>7, <2>1, <2>2, Zenon
    <2>4. CASE hit
      <3>1. data[i] = 0
        BY <2>4 DEF Zero
      <3> QED
        BY <2>3, <2>4, <3>1
    <2>5. CASE ~hit
      <3>1. data = uc_mem_read(m, from, c)
        BY <1>4, <1>8, <2>5, Zenon
      <3> HIDE DEF data
      <3>2. data[i] = m[from + i]
        BY <3>1 DEF uc_mem_read
      <3>3. from + i = src + (k + i)
        BY <1>2
      <3> QED
        BY <2>3, <2>5, <3>2, <3>3, Zenon
    <2> QED
      BY <2>4, <2>5
  <1>12. p.mem = o /\ p.hit_null = before
    BY DEF CountedTo
  <1> HIDE DEF o
  <1>13. counted_turn(p, c, to, from) = [mem |-> uc_mem_write(o, to, data, c), hit_null |-> hit]
    <2>1. (before \/ ~Has(o, from, c) \/ IsNul(o, c, from)) = hit
      BY <1>6, <1>9 DEF IsNul
    <2> QED
      BY <1>12, <2>1, Zenon DEF counted_turn
  <1> HIDE DEF data
  <1>14. Laid(Overlay(o, to, data, c), m, dest, val, both)
    BY <1>2, <1>11, OverlayGrows DEF o
  <1> QED
    BY <1>10, <1>13, <1>14, Zenon DEF Laid, CountedTo

\* strncpy copies the string, at most n characters of it, and fills the rest with NULs.
LEMMA CountedCopies ==
    ASSUME NEW D, D \subseteq Int, NEW m \in [D -> Byte], NEW c \in {1, 2},
           NEW dest \in Int, NEW src \in Int, NEW n \in Nat, n <= max_buffer,
           NEW size, size = n * c, NEW val,
           Has(m, dest, size), Apart(dest, size, src, size),
           Has(m, src, n * c) \/ Lengths(m, c, src) # {}, Padded(m, c, src, size, val)
    PROVE  Laid(copy_counted(m, c, dest, src, n), m, dest, val, size)
  <1> DEFINE loop == copying_counted(m, c, dest, src, n)
             State(i) == [mem |-> Overlay(m, dest, val, i * c), hit_null |-> HitAfter(m, c, src, i)]
             T == {i \in 0 .. n : loop[i] = State(i)}
  <1>0. /\ loop[0] = [mem |-> m, hit_null |-> FALSE]
        /\ \A i \in 1 .. n :
              loop[i] = counted_turn(loop[i - 1], c, dest + (i - 1) * c, src + (i - 1) * c)
    <2>1. CountedLoop(loop, m, c, dest, src, n)
      BY CountedTurns
    <2> QED
      BY <2>1, Zenon DEF CountedLoop
  <1> HIDE DEF loop
  <1>1. 0 \in T
    <2>1. HitAfter(m, c, src, 0) = FALSE /\ 0 * c = 0
      <3>1. ~(0 > 0) /\ 0 * c = 0
        BY CharacterWidth
      <3> QED
        BY <3>1, Zenon DEF HitAfter
    <2>2. Overlay(m, dest, val, 0) = m
      BY OverlayNone
    <2>3. 0 \in 0 .. n
      OBVIOUS
    <2> QED
      BY <1>0, <2>1, <2>2, <2>3, Zenon
  <1>2. ASSUME NEW i \in 1 .. n, i - 1 \in T PROVE i \in T
    <2>1. /\ i \in Nat /\ i - 1 \in Nat /\ i - 1 \in Int /\ i \in Int /\ i - 1 \in 0 .. n - 1
          /\ i \in 0 .. n
      OBVIOUS
    <2>2. loop[i - 1] = State(i - 1)
      BY <1>2, Zenon
    <2> DEFINE j == i - 1
               k == j * c
               both == i * c
               to == dest + k
               from == src + k
               p == loop[j]
    <2>3. CountedTo(p, m, dest, val, k, HitAfter(m, c, src, j))
      BY <2>2, Zenon DEF CountedTo
    <2>4. loop[i] = counted_turn(p, c, to, from)
      BY <1>0, Zenon
    <2>5. k \in Nat /\ both = k + c /\ k + c <= size /\ size \in Nat
      <3>1. i <= n /\ 0 <= i - 1 /\ 0 <= n /\ n \in Int /\ 0 \in Int
        BY <2>1
      <3>2. /\ k \in Int /\ k + c = both /\ both <= n * c /\ n * c \in Int
            /\ 0 * c <= k /\ 0 * c <= n * c /\ 0 * c = 0
        BY <2>1, <3>1, CharacterWidth
      <3> QED
        BY <3>2
    <2>9. k = j * c /\ to = dest + k /\ from = src + k /\ j \in Nat /\ DOMAIN m \subseteq Int
          /\ j < n /\ i = j + 1
      BY <2>1
    <2> HIDE DEF j, k, both, to, from, p
    <2>10. CountedTo(counted_turn(p, c, to, from), m, dest, val, both, HitAfter(m, c, src, i))
      BY <2>3, <2>5, <2>9, CountedTurnCopies
    <2> QED
      BY <2>1, <2>4, <2>10, Zenon DEF both, CountedTo
  <1>3. 0 .. n \subseteq T
    <2> HIDE DEF T
    <2> QED
      BY <1>1, <1>2, IntervalInduction
  <1>4. n \in T
    <2>1. n \in 0 .. n
      OBVIOUS
    <2> QED
      BY <1>3, <2>1, Zenon
  <1>5. State(n).mem = Overlay(m, dest, val, size)
    OBVIOUS
  <1>6. copy_counted(m, c, dest, src, n) = loop[n].mem
    <2>1. ~(n > max_buffer)
      BY StubAssumption
    <2> QED
      BY <2>1, Zenon DEF copy_counted, loop
  <1> QED
    BY <1>4, <1>5, <1>6, Zenon DEF Laid

\* What a stub has done is what the library says of the call, whatever was in RAX before.
AsLibrary(done, name, m, g) ==
    /\ done.mem = LibMem(name, m, g)
    /\ \A rax : LibReturns(name, m, g, IF done.ret = Kept THEN rax ELSE done.ret)

\* The library's memory is its bytes laid over the old one.
LEMMA LaidAsLibrary ==
    ASSUME NEW D, D \subseteq Int, NEW m \in [D -> Byte], NEW g, g[1] \in Nat, NEW name,
           NEW k \in Nat, DOMAIN LibBytes(name, m, g) = 0 .. k - 1,
           NEW after, Laid(after, m, g[1], LibBytes(name, m, g), k)
    PROVE  after = LibMem(name, m, g)
  <1> DEFINE bytes == LibBytes(name, m, g)
             dest == g[1]
  <1>1. dest \in Int /\ DOMAIN bytes = 0 .. k - 1
    OBVIOUS
  <1>2. LibMem(name, m, g) = [x \in DOMAIN m |-> IF x - dest \in DOMAIN bytes THEN bytes[x - dest] ELSE m[x]]
    BY Zenon DEF LibMem
  <1>3. after = [x \in DOMAIN m |-> IF x \in dest .. dest + k - 1 THEN bytes[x - dest] ELSE m[x]]
    BY Zenon DEF Laid, Overlay
  <1> HIDE DEF bytes, dest
  <1>4. \A x \in DOMAIN m : x - dest \in DOMAIN bytes <=> x \in dest .. dest + k - 1
    <2> SUFFICES ASSUME NEW x \in D PROVE x - dest \in 0 .. k - 1 <=> x \in dest .. dest + k - 1
      BY <1>1
    <2> QED
      BY <1>1
  <1>5. \A x \in DOMAIN m : (IF x - dest \in DOMAIN bytes THEN bytes[x - dest] ELSE m[x])
                            = (IF x \in dest .. dest + k - 1 THEN bytes[x - dest] ELSE m[x])
    BY <1>4, Zenon
  <1> QED
    BY <1>2, <1>3, <1>5, Zenon

\* A stub that returns its first argument.
LEMMA ReturnsArgument ==
    ASSUME NEW g, g[1] \in Nat, NEW name, NEW m, NEW after, after = LibMem(name, m, g),
           name \notin {"strlen", "wcslen", "lstrlenA", "lstrlenW", "memcmp"}
    PROVE  AsLibrary(Done(after, g[1]), name, m, g)
  <1>1. g[1] # Kept
    BY DEF Kept
  <1>2. Done(after, g[1]).mem = after /\ Done(after, g[1]).ret = g[1]
    BY DEF Done
  <1>3. LibReturns(name, m, g, g[1])
    BY DEF LibReturns
  <1> QED
    BY <1>1, <1>2, <1>3, Zenon DEF AsLibrary

\* memcpy, and memmove with objects that may overlap.
LEMMA CopyAsLibrary ==
    ASSUME NEW D, D \subseteq Int, NEW m \in [D -> Byte],
           NEW g, g[1] \in Nat, g[2] \in Nat, g[3] \in Nat,
           NEW name \in {"memcpy", "memmove", "RtlMoveMemory"}, LibDefined(name, m, g)
    PROVE  AsLibrary(stub_memcpy(m, g), name, m, g)
  <1> DEFINE bytes == uc_mem_read(m, g[2], g[3])
             after == IF CountOk(g[3]) /\ Has(m, g[2], g[3]) THEN uc_mem_write(m, g[1], bytes, g[3]) ELSE m
  <1>1. g[3] <= max_buffer /\ Has(m, g[1], g[3]) /\ Has(m, g[2], g[3])
    BY DEF LibDefined
  <1>2. LibBytes(name, m, g) = bytes
    BY DEF LibBytes
  <1>3. DOMAIN bytes = 0 .. g[3] - 1
    BY DEF uc_mem_read
  <1>4. Laid(after, m, g[1], bytes, g[3])
    <2>1. CASE g[3] = 0
      <3>1. ~CountOk(g[3])
        BY <2>1 DEF CountOk
      <3> HIDE DEF bytes
      <3>2. Overlay(m, g[1], bytes, 0) = m
        <4>1. g[1] \in Int
          OBVIOUS
        <4> QED
          BY <4>1, OverlayNone, Zenon
      <3> QED
        BY <2>1, <3>1, <3>2, Zenon DEF Laid
    <2>2. CASE g[3] # 0
      <3>1. CountOk(g[3])
        BY <1>1, <2>2 DEF CountOk
      <3> HIDE DEF bytes
      <3>2. uc_mem_write(m, g[1], bytes, g[3]) = Overlay(m, g[1], bytes, g[3])
        BY <1>1, WriteOverlays
      <3> QED
        BY <1>1, <3>1, <3>2, Zenon DEF Laid
    <2> QED
      BY <2>1, <2>2
  <1>5. stub_memcpy(m, g) = Done(after, g[1])
    BY Zenon DEF stub_memcpy
  <1> HIDE DEF bytes, after
  <1>6. after = LibMem(name, m, g)
    BY <1>2, <1>3, <1>4, LaidAsLibrary
  <1> QED
    BY <1>5, <1>6, ReturnsArgument

\* memset, RtlZeroMemory and RtlFillMemory.
LEMMA FillLays ==
    ASSUME NEW D, D \subseteq Int, NEW m \in [D -> Byte], NEW dest \in Int, NEW fill \in Nat,
           NEW size \in Nat, size <= max_buffer, Has(m, dest, size)
    PROVE  Laid(Fill(m, dest, fill, size), m, dest, [i \in 0 .. size - 1 |-> fill % 256], size)
  <1> DEFINE bytes == [i \in 0 .. size - 1 |-> fill % 256]
  <1>1. CASE size = 0
    <2>1. ~CountOk(size)
      BY <1>1 DEF CountOk
    <2> HIDE DEF bytes
    <2>2. Overlay(m, dest, bytes, 0) = m
      BY OverlayNone
    <2>3. Laid(Fill(m, dest, fill, size), m, dest, bytes, size)
      BY <1>1, <2>1, <2>2, Zenon DEF Laid, Fill
    <2> QED
      BY <2>3 DEF bytes
  <1>2. CASE size # 0
    <2>1. CountOk(size)
      BY <1>2 DEF CountOk
    <2>2. Fill(m, dest, fill, size) = uc_mem_write(m, dest, bytes, size)
      BY <2>1, Zenon DEF Fill
    <2> HIDE DEF bytes
    <2>3. uc_mem_write(m, dest, bytes, size) = Overlay(m, dest, bytes, size)
      BY WriteOverlays
    <2>4. Laid(Fill(m, dest, fill, size), m, dest, bytes, size)
      BY <2>2, <2>3, Zenon DEF Laid
    <2> QED
      BY <2>4 DEF bytes
  <1> QED
    BY <1>1, <1>2

\* The three stubs that fill memory, each with its own order of arguments.
LEMMA FillAsLibrary ==
    ASSUME NEW D, D \subseteq Int, NEW m \in [D -> Byte],
           NEW g, g[1] \in Nat, g[2] \in Nat, g[3] \in Nat
    PROVE  /\ LibDefined("memset", m, g) => AsLibrary(stub_memset(m, g), "memset", m, g)
           /\ LibDefined("RtlZeroMemory", m, g) =>
                 AsLibrary(stub_rtl_zero_memory(m, g), "RtlZeroMemory", m, g)
           /\ LibDefined("RtlFillMemory", m, g) =>
                 AsLibrary(stub_rtl_fill_memory(m, g), "RtlFillMemory", m, g)
  <1>1. ASSUME NEW name, NEW fill \in Nat, NEW size \in Nat, size <= max_buffer, Has(m, g[1], size),
               LibBytes(name, m, g) = [i \in 0 .. size - 1 |-> fill % 256]
        PROVE  Fill(m, g[1], fill, size) = LibMem(name, m, g)
    <2>1. g[1] \in Int /\ DOMAIN LibBytes(name, m, g) = 0 .. size - 1
      BY <1>1
    <2> DEFINE bytes == [i \in 0 .. size - 1 |-> fill % 256]
               after == Fill(m, g[1], fill, size)
    <2>2. Laid(after, m, g[1], bytes, size)
      BY <1>1, <2>1, FillLays, Zenon
    <2>3. Laid(after, m, g[1], LibBytes(name, m, g), size)
      BY <1>1, <2>2, Zenon
    <2> HIDE DEF after
    <2>4. after = LibMem(name, m, g)
      BY <2>1, <2>3, LaidAsLibrary
    <2> QED
      BY <2>4 DEF after
  <1>2. ASSUME LibDefined("memset", m, g) PROVE AsLibrary(stub_memset(m, g), "memset", m, g)
    <2>1. g[3] <= max_buffer /\ Has(m, g[1], g[3])
      BY <1>2 DEF LibDefined
    <2>2. LibBytes("memset", m, g) = [i \in 0 .. g[3] - 1 |-> g[2] % 256]
      BY DEF LibBytes
    <2> DEFINE after == Fill(m, g[1], g[2], g[3])
    <2>3. after = LibMem("memset", m, g) /\ stub_memset(m, g) = Done(after, g[1])
      BY <1>1, <2>1, <2>2, Zenon DEF stub_memset
    <2> HIDE DEF after
    <2>4. "memset" \notin {"strlen", "wcslen", "lstrlenA", "lstrlenW", "memcmp"}
      OBVIOUS
    <2> QED
      BY <2>3, <2>4, ReturnsArgument
  <1>3. ASSUME NEW name \in {"RtlZeroMemory", "RtlFillMemory"}, NEW after, after = LibMem(name, m, g)
        PROVE  AsLibrary(Done(after, Kept), name, m, g)
    <2>1. \A ret : LibReturns(name, m, g, ret)
      BY DEF LibReturns
    <2>2. Done(after, Kept).mem = after
      BY DEF Done
    <2> QED
      BY <1>3, <2>1, <2>2, Zenon DEF AsLibrary
  <1>4. ASSUME LibDefined("RtlZeroMemory", m, g)
        PROVE  AsLibrary(stub_rtl_zero_memory(m, g), "RtlZeroMemory", m, g)
    <2>1. g[2] <= max_buffer /\ Has(m, g[1], g[2]) /\ 0 \in Nat
      BY <1>4 DEF LibDefined
    <2>2. LibBytes("RtlZeroMemory", m, g) = [i \in 0 .. g[2] - 1 |-> 0 % 256]
      <3>1. LibBytes("RtlZeroMemory", m, g) = Zero(g[2])
        BY DEF LibBytes
      <3>2. 0 % 256 = 0
        OBVIOUS
      <3> QED
        BY <3>1, <3>2, Zenon DEF Zero
    <2> DEFINE after == Fill(m, g[1], 0, g[2])
    <2>3. after = LibMem("RtlZeroMemory", m, g) /\ stub_rtl_zero_memory(m, g) = Done(after, Kept)
      BY <1>1, <2>1, <2>2, Zenon DEF stub_rtl_zero_memory
    <2> HIDE DEF after
    <2> QED
      BY <1>3, <2>3
  <1>5. ASSUME LibDefined("RtlFillMemory", m, g)
        PROVE  AsLibrary(stub_rtl_fill_memory(m, g), "RtlFillMemory", m, g)
    <2>1. g[2] <= max_buffer /\ Has(m, g[1], g[2])
      BY <1>5 DEF LibDefined
    <2>2. LibBytes("RtlFillMemory", m, g) = [i \in 0 .. g[2] - 1 |-> g[3] % 256]
      BY DEF LibBytes
    <2> DEFINE after == Fill(m, g[1], g[3], g[2])
    <2>3. after = LibMem("RtlFillMemory", m, g) /\ stub_rtl_fill_memory(m, g) = Done(after, Kept)
      BY <1>1, <2>1, <2>2, Zenon DEF stub_rtl_fill_memory
    <2> HIDE DEF after
    <2> QED
      BY <1>3, <2>3
  <1> QED
    BY <1>2, <1>4, <1>5

\* Stubs that only read leave memory to the library's empty change.
LEMMA ReadsAsLibrary ==
    ASSUME NEW D, D \subseteq Int, NEW m \in [D -> Byte], NEW g, g[1] \in Nat,
           NEW name \in {"strlen", "wcslen", "lstrlenA", "lstrlenW", "memcmp"}
    PROVE  m = LibMem(name, m, g)
  <1>1. LibBytes(name, m, g) = Zero(0)
    BY DEF LibBytes
  <1>2. DOMAIN LibBytes(name, m, g) = 0 .. 0 - 1
    BY <1>1 DEF Zero
  <1>3. Laid(m, m, g[1], LibBytes(name, m, g), 0)
    <2>1. g[1] \in Int
      OBVIOUS
    <2>2. Overlay(m, g[1], LibBytes(name, m, g), 0) = m
      BY <2>1, OverlayNone, Zenon
    <2> QED
      BY <2>2, Zenon DEF Laid
  <1> QED
    BY <1>2, <1>3, LaidAsLibrary

\* strlen and wcslen.
LEMMA LengthAsLibrary ==
    ASSUME NEW D, D \subseteq Int, NEW m \in [D -> Byte], NEW g, g[1] \in Nat,
           NEW name \in {"strlen", "wcslen", "lstrlenA", "lstrlenW"}, LibDefined(name, m, g)
    PROVE  AsLibrary(Done(m, length(m, Width(name), g[1])), name, m, g)
  <1> DEFINE c == Width(name)
             n == StrLen(m, c, g[1])
  <1>1. c \in {1, 2} /\ g[1] \in Int
    BY DEF Width
  <1>2. Lengths(m, c, g[1]) # {}
    BY DEF LibDefined
  <1>3. length(m, c, g[1]) = n /\ n \in 0 .. max_buffer
    <2> HIDE DEF c
    <2> QED
      BY <1>1, <1>2, StrLenIs
  <1>4. n # Kept
    BY <1>3, StubAssumption DEF Kept
  <1>5. LibReturns(name, m, g, n)
    BY DEF LibReturns
  <1>6. m = LibMem(name, m, g)
    <2>1. name \in {"strlen", "wcslen", "lstrlenA", "lstrlenW", "memcmp"}
      OBVIOUS
    <2> QED
      BY <2>1, ReadsAsLibrary, Zenon
  <1>7. Done(m, n).mem = m /\ Done(m, n).ret = n
    BY DEF Done
  <1>8. AsLibrary(Done(m, n), name, m, g)
    BY <1>4, <1>5, <1>6, <1>7, Zenon DEF AsLibrary
  <1> QED
    BY <1>3, <1>8, Zenon

\* memcmp: the sign of the first difference.
LEMMA CompareAsLibrary ==
    ASSUME NEW D, D \subseteq Int, NEW m \in [D -> Byte],
           NEW g, g[1] \in Nat, g[2] \in Nat, g[3] \in Nat, LibDefined("memcmp", m, g)
    PROVE  AsLibrary(stub_memcmp(m, g), "memcmp", m, g)
  <1> DEFINE n == g[3]
             a == uc_mem_read(m, g[1], n)
             b == uc_mem_read(m, g[2], n)
             T == {i \in DOMAIN a : a[i] # b[i]}
             first == Min(T)
             ret == IF a = b THEN 0 ELSE IF a[first] < b[first] THEN Negative ELSE 1
             unknown == IF ~CountOk(n) \/ ~Has(m, g[1], n) \/ ~Has(m, g[2], n) \/ a = b THEN 0
                        ELSE IF a[first] < b[first] THEN Negative ELSE 1
  <1>1. n <= max_buffer /\ Has(m, g[1], n) /\ Has(m, g[2], n) /\ n \in Nat
    BY DEF LibDefined
  <1>2. /\ a = [i \in 0 .. n - 1 |-> m[g[1] + i]] /\ b = [i \in 0 .. n - 1 |-> m[g[2] + i]]
        /\ DOMAIN a = 0 .. n - 1 /\ DOMAIN b = 0 .. n - 1
    BY DEF uc_mem_read
  <1>3. unknown = ret
    <2>1. CASE CountOk(n)
      BY <1>1, <2>1, Zenon
    <2>2. CASE ~CountOk(n)
      <3>1. 0 .. n - 1 = {}
        BY <1>1, <2>2 DEF CountOk
      <3> HIDE DEF a, b
      <3>2. a = b
        BY <1>2, <3>1
      <3> QED
        BY <2>2, <3>2, Zenon
    <2> QED
      BY <2>1, <2>2
  <1>4. stub_memcmp(m, g) = Done(m, unknown)
    BY Zenon DEF stub_memcmp
  <1>5. ret # Kept
    BY DEF Negative, Kept
  <1>6. LibReturns("memcmp", m, g, ret)
    <2>1. ASSUME a = b, NEW i \in 0 .. n - 1 PROVE m[g[1] + i] = m[g[2] + i]
      <3>1. a[i] = m[g[1] + i] /\ b[i] = m[g[2] + i]
        BY Zenon DEF uc_mem_read
      <3> QED
        BY <2>1, <3>1, Zenon
    <2>2. ASSUME a # b
          PROVE  /\ first \in 0 .. n - 1 /\ FirstDifference(m, g, first)
                 /\ ret = IF m[g[1] + first] < m[g[2] + first] THEN Negative ELSE 1
      <3>1. T # {} /\ T \subseteq Nat /\ T \subseteq 0 .. n - 1
        <4> HIDE DEF a, b
        <4>1. T \subseteq 0 .. n - 1 /\ 0 .. n - 1 \subseteq Nat
          BY <1>1, <1>2
        <4>2. ASSUME \A i \in 0 .. n - 1 : a[i] = b[i] PROVE FALSE
          <5>1. a = [i \in 0 .. n - 1 |-> a[i]] /\ b = [i \in 0 .. n - 1 |-> b[i]]
            BY <1>2
          <5> QED
            BY <2>2, <4>2, <5>1
        <4> QED
          BY <1>2, <4>1, <4>2
      <3>2. first \in T /\ \A k \in T : first <= k
        BY <3>1, MinLeast
      <3>3. first \in 0 .. n - 1 /\ a[first] # b[first]
        BY <1>2, <3>2, Zenon
      <3>4. /\ a[first] = m[g[1] + first] /\ b[first] = m[g[2] + first]
            /\ \A i \in 0 .. n - 1 : a[i] = m[g[1] + i] /\ b[i] = m[g[2] + i]
        <4> HIDE DEF first
        <4> QED
          BY <3>3, Zenon DEF uc_mem_read
      <3>5. \A j \in 0 .. first - 1 : m[g[1] + j] = m[g[2] + j]
        <4> SUFFICES ASSUME NEW j \in 0 .. first - 1 PROVE m[g[1] + j] = m[g[2] + j]
          OBVIOUS
        <4> HIDE DEF first
        <4>1. j \in 0 .. n - 1 /\ ~(first <= j)
          BY <1>1, <3>3
        <4>2. j \notin T
          BY <3>2, <4>1, Zenon
        <4>3. a[j] = b[j]
          BY <1>2, <4>1, <4>2, Zenon
        <4> QED
          BY <3>4, <4>1, <4>3, Zenon
      <3>6. FirstDifference(m, g, first)
        BY <3>3, <3>4, <3>5, Zenon DEF FirstDifference
      <3>7. ret = IF m[g[1] + first] < m[g[2] + first] THEN Negative ELSE 1
        BY <2>2, <3>4, Zenon
      <3> QED
        BY <3>3, <3>6, <3>7
    <2> DEFINE same == \A i \in 0 .. g[3] - 1 : m[g[1] + i] = m[g[2] + i]
               differ == \E i \in 0 .. g[3] - 1 :
                            /\ FirstDifference(m, g, i)
                            /\ ret = IF m[g[1] + i] < m[g[2] + i] THEN Negative ELSE 1
    <2>3. CASE a = b
      <3>1. ret = 0 /\ same
        BY <2>1, <2>3, Zenon
      <3> HIDE DEF ret
      <3> QED
        BY <3>1 DEF LibReturns
    <2>4. CASE a # b
      <3>1. differ
        BY <2>2, <2>4, Zenon
      <3> HIDE DEF ret
      <3> QED
        BY <3>1 DEF LibReturns
    <2> QED
      BY <2>3, <2>4
  <1>7. m = LibMem("memcmp", m, g)
    <2>1. "memcmp" \in {"strlen", "wcslen", "lstrlenA", "lstrlenW", "memcmp"}
      OBVIOUS
    <2> QED
      BY <2>1, ReadsAsLibrary, Zenon
  <1> HIDE DEF ret, unknown
  <1>8. Done(m, ret).mem = m /\ Done(m, ret).ret = ret
    BY DEF Done
  <1> QED
    BY <1>3, <1>4, <1>5, <1>6, <1>7, <1>8, Zenon DEF AsLibrary

\* The functions of strings that return their destination.
CopyNames == {"strcpy", "wcscpy", "lstrcpyA", "lstrcpyW"}
PadNames == {"strncpy", "wcsncpy"}
BoundedNames == {"lstrcpynA", "lstrcpynW"}
AppendNames == {"strcat", "wcscat"}

\* What has been laid over memory at their destination is what the library says.
LEMMA StringAsLibrary ==
    ASSUME NEW D, D \subseteq Int, NEW m \in [D -> Byte], NEW g, g[1] \in Nat,
           NEW name \in CopyNames \cup PadNames \cup BoundedNames \cup AppendNames,
           NEW k \in Nat, DOMAIN LibBytes(name, m, g) = 0 .. k - 1,
           NEW after, Laid(after, m, g[1], LibBytes(name, m, g), k)
    PROVE  AsLibrary(Done(after, g[1]), name, m, g)
  <1>1. after = LibMem(name, m, g)
    BY LaidAsLibrary, Zenon
  <1>2. name \notin {"strlen", "wcslen", "lstrlenA", "lstrlenW", "memcmp"}
    BY DEF CopyNames, PadNames, BoundedNames, AppendNames
  <1> QED
    BY <1>1, <1>2, ReturnsArgument

\* strcpy, wcscpy and their Win32 names.
LEMMA CopyStringAsLibrary ==
    ASSUME NEW D, D \subseteq Int, NEW m \in [D -> Byte],
           NEW g, g[1] \in Nat, g[2] \in Nat, NEW name \in CopyNames, LibDefined(name, m, g)
    PROVE  AsLibrary(Done(copy(m, Width(name), g[1], g[2], max_buffer), g[1]), name, m, g)
  <1> DEFINE c == Width(name)
             n == StrLen(m, c, g[2])
             size == (n + 1) * c
             bytes == uc_mem_read(m, g[2], size)
  <1>1. /\ Lengths(m, c, g[2]) # {} /\ size <= max_buffer * c
        /\ Has(m, g[1], size) /\ Apart(g[1], size, g[2], size)
    BY DEF LibDefined, CopyNames
  <1>2. LibBytes(name, m, g) = bytes
    BY DEF LibBytes, CopyNames
  <1>3. c \in {1, 2} /\ g[1] \in Int /\ g[2] \in Int /\ max_buffer \in Nat
    BY StubAssumption DEF Width
  <1>4. size = (n + 1) * c /\ DOMAIN bytes = 0 .. size - 1
        /\ \A j \in 0 .. size - 1 : bytes[j] = m[g[2] + j]
    BY DEF uc_mem_read
  <1> HIDE DEF c, n, bytes
  <1>5. n \in Nat /\ StringAt(m, c, g[2], n)
    BY <1>1, <1>3, StrLenIs DEF n
  <1>6. n < max_buffer /\ size \in Nat
    <2>1. CASE c = 1
      BY <1>1, <1>3, <1>5, <2>1
    <2>2. CASE c = 2
      BY <1>1, <1>3, <1>5, <2>2
    <2> QED
      BY <1>3, <2>1, <2>2
  <1>7. CopyPlan(m, g[1], g[2], size, bytes)
    <2>1. Has(m, g[2], size)
      BY <1>4, <1>5, Zenon DEF StringAt
    <2> QED
      BY <1>1, <1>4, <2>1, Zenon DEF CopyPlan
  <1> HIDE DEF size
  <1> DEFINE after == copy(m, c, g[1], g[2], max_buffer)
  <1>8. Laid(after, m, g[1], bytes, size)
    BY <1>3, <1>4, <1>5, <1>6, <1>7, CopyCopies
  <1> HIDE DEF after
  <1>9. Laid(after, m, g[1], LibBytes(name, m, g), size) /\ DOMAIN LibBytes(name, m, g) = 0 .. size - 1
    BY <1>2, <1>4, <1>8, Zenon
  <1>10. AsLibrary(Done(after, g[1]), name, m, g)
    BY <1>6, <1>9, StringAsLibrary
  <1> QED
    BY <1>10 DEF after, c

\* strncpy and wcsncpy: they pad, and leave out the NUL where there is no room for it.
LEMMA PadAsLibrary ==
    ASSUME NEW D, D \subseteq Int, NEW m \in [D -> Byte],
           NEW g, g[1] \in Nat, g[2] \in Nat, g[3] \in Nat, NEW name \in PadNames,
           LibDefined(name, m, g)
    PROVE  AsLibrary(Done(copy_counted(m, Width(name), g[1], g[2], g[3]), g[1]), name, m, g)
  <1> DEFINE c == Width(name)
             n == g[3]
             size == n * c
             bytes == [i \in 0 .. size - 1 |->
                          IF \E nul \in Lengths(m, c, g[2]) : i \div c >= nul THEN 0 ELSE m[g[2] + i]]
  <1>1. /\ n <= max_buffer /\ Has(m, g[1], size) /\ Apart(g[1], size, g[2], size)
        /\ Has(m, g[2], size) \/ Lengths(m, c, g[2]) # {}
    BY DEF LibDefined, PadNames
  <1>2. LibBytes(name, m, g) = bytes
    BY DEF LibBytes, PadNames
  <1>3. c \in {1, 2} /\ g[1] \in Int /\ g[2] \in Int /\ n \in Nat
    BY DEF Width
  <1>4. size = n * c /\ DOMAIN bytes = 0 .. size - 1 /\ Padded(m, c, g[2], size, bytes)
        /\ (Has(m, g[2], n * c) \/ Lengths(m, c, g[2]) # {})
    BY <1>1, Zenon DEF Padded, Ended
  <1> HIDE DEF c, bytes, n
  <1>5. size \in Nat
    <2>1. CASE c = 1
      BY <1>3, <2>1
    <2>2. CASE c = 2
      BY <1>3, <2>2
    <2> QED
      BY <1>3, <2>1, <2>2
  <1> HIDE DEF size
  <1> DEFINE after == copy_counted(m, c, g[1], g[2], n)
  <1>6. Laid(after, m, g[1], bytes, size)
    BY <1>1, <1>3, <1>4, CountedCopies
  <1> HIDE DEF after
  <1>7. Laid(after, m, g[1], LibBytes(name, m, g), size) /\ DOMAIN LibBytes(name, m, g) = 0 .. size - 1
    BY <1>2, <1>4, <1>6, Zenon
  <1>8. AsLibrary(Done(after, g[1]), name, m, g)
    BY <1>5, <1>7, StringAsLibrary
  <1> QED
    BY <1>8 DEF after, c, n

\* The bytes of a NUL are zero.
LEMMA NulBytes ==
    ASSUME NEW m, NEW c \in {1, 2}, NEW a \in Int, IsNul(m, c, a), NEW d \in 0 .. c - 1
    PROVE  m[a + d] = 0
  <1>1. uc_mem_read(m, a, c)[d] = m[a + d] /\ Zero(c)[d] = 0
    BY DEF uc_mem_read, Zero
  <1> QED
    BY <1>1, Zenon DEF IsNul

\* A byte of character n of a string of n characters is one of its NUL.
LEMMA LastCharacter ==
    ASSUME NEW c \in {1, 2}, NEW n \in Nat, NEW size, size = (n + 1) * c, NEW i \in 0 .. size - 1
    PROVE  /\ i \div c \in 0 .. n
           /\ i \div c = n => i - n * c \in 0 .. c - 1 /\ n * c + (i - n * c) = i /\ n * c \in Int
  <1>1. CASE c = 1
    BY <1>1
  <1>2. CASE c = 2
    BY <1>2
  <1> QED
    BY <1>1, <1>2

\* lstrcpynA and lstrcpynW, which share strncpy's stubs, where the string and its NUL just fit.
LEMMA BoundedAsLibrary ==
    ASSUME NEW D, D \subseteq Int, NEW m \in [D -> Byte],
           NEW g, g[1] \in Nat, g[2] \in Nat, g[3] \in Nat, NEW name \in BoundedNames,
           LibDefined(name, m, g)
    PROVE  AsLibrary(Done(copy_counted(m, Width(name), g[1], g[2], g[3]), g[1]), name, m, g)
  <1> DEFINE c == Width(name)
             src == g[2]
             n == StrLen(m, c, src)
             size == (n + 1) * c
             bytes == uc_mem_read(m, src, size)
  <1>1. /\ g[3] <= max_buffer /\ Has(m, g[1], g[3] * c) /\ Apart(g[1], g[3] * c, src, g[3] * c)
        /\ Lengths(m, c, src) = {g[3] - 1}
    BY DEF LibDefined, BoundedNames
  <1>2. LibBytes(name, m, g) = bytes
    BY DEF LibBytes, BoundedNames
  <1>3. c \in {1, 2} /\ g[1] \in Int /\ src \in Int
    BY DEF Width
  <1>4. DOMAIN bytes = 0 .. size - 1 /\ \A j \in 0 .. size - 1 : bytes[j] = m[src + j]
    BY DEF uc_mem_read
  <1> HIDE DEF c, n, src, bytes
  <1>5. n \in Nat /\ StringAt(m, c, src, n) /\ n = g[3] - 1
    <2>1. Lengths(m, c, src) # {} /\ g[3] - 1 \in Lengths(m, c, src)
      BY <1>1
    <2>2. n \in 0 .. max_buffer /\ StringAt(m, c, src, n) /\ g[3] - 1 = n
      BY <1>3, <2>1, StrLenIs DEF n
    <2> QED
      BY <2>2
  <1>6. g[3] = n + 1 /\ g[3] * c = size /\ size \in Nat
    <2>1. g[3] = n + 1
      BY <1>5
    <2>2. CASE c = 1
      BY <1>5, <2>2
    <2>3. CASE c = 2
      BY <1>5, <2>3
    <2> QED
      BY <1>3, <2>1, <2>2, <2>3
  <1>7. Padded(m, c, src, size, bytes)
    <2> SUFFICES ASSUME NEW i \in 0 .. size - 1
                 PROVE  bytes[i] = IF Ended(m, c, src, i \div c) THEN 0 ELSE m[src + i]
      BY Zenon DEF Padded
    <2>1. /\ i \div c \in 0 .. n
          /\ i \div c = n => i - n * c \in 0 .. c - 1 /\ n * c + (i - n * c) = i /\ n * c \in Int
      BY <1>3, <1>5, LastCharacter
    <2>2. bytes[i] = m[src + i]
      BY <1>4
    <2>3. ASSUME Ended(m, c, src, i \div c) PROVE m[src + i] = 0
      <3>1. i \div c >= n
        BY <1>1, <1>5, <2>3 DEF Ended
      <3>2. i \div c = n
        <4> DEFINE q == i \div c
        <4>1. q \in 0 .. n /\ q >= n
          BY <2>1, <3>1
        <4> HIDE DEF q
        <4>2. q = n
          BY <1>5, <4>1
        <4> QED
          BY <4>2 DEF q
      <3> DEFINE k == n * c
                 d == i - n * c
                 a == src + k
      <3>3. d \in 0 .. c - 1 /\ k + d = i /\ k \in Int
        BY <2>1, <3>2
      <3>4. IsNul(m, c, a)
        BY <1>5, Zenon DEF StringAt
      <3>5. a \in Int /\ a + d = src + i
        <4> HIDE DEF k, d
        <4> QED
          BY <1>3, <3>3
      <3> HIDE DEF a, d
      <3>6. m[a + d] = 0
        BY <1>3, <3>3, <3>4, <3>5, NulBytes
      <3> QED
        BY <3>5, <3>6, Zenon
    <2> QED
      BY <2>2, <2>3, Zenon
  <1> HIDE DEF size
  <1> DEFINE count == g[3]
             after == copy_counted(m, c, g[1], src, count)
  <1>8. count \in Nat /\ count <= max_buffer /\ size = count * c /\ Has(m, g[1], size)
        /\ Apart(g[1], size, src, size) /\ (Has(m, src, count * c) \/ Lengths(m, c, src) # {})
    BY <1>1, <1>6
  <1> HIDE DEF count
  <1>9. Laid(after, m, g[1], bytes, size)
    BY <1>3, <1>7, <1>8, CountedCopies
  <1> HIDE DEF after
  <1>10. Laid(after, m, g[1], LibBytes(name, m, g), size) /\ DOMAIN LibBytes(name, m, g) = 0 .. size - 1
    BY <1>2, <1>4, <1>9, Zenon DEF size
  <1>11. AsLibrary(Done(after, g[1]), name, m, g)
    BY <1>6, <1>10, StringAsLibrary
  <1> QED
    BY <1>11 DEF after, c, src, count

\* strcat and wcscat.
LEMMA AppendAsLibrary ==
    ASSUME NEW D, D \subseteq Int, NEW m \in [D -> Byte],
           NEW g, g[1] \in Nat, g[2] \in Nat, NEW name \in AppendNames, LibDefined(name, m, g)
    PROVE  AsLibrary(Done(concatenate(m, Width(name), g[1], g[2]), g[1]), name, m, g)
  <1> DEFINE c == Width(name)
             dest == g[1]
             src == g[2]
             old == StrLen(m, c, dest)
             n == StrLen(m, c, src)
             k == old * c
             size == (n + 1) * c
             all == (old + n + 1) * c
             bytes == [i \in 0 .. k + size - 1 |-> IF i < k THEN m[dest + i] ELSE m[src + i - k]]
  <1>1. /\ Lengths(m, c, dest) # {} /\ Lengths(m, c, src) # {}
        /\ old + n + 1 <= max_buffer /\ Has(m, dest, all) /\ Apart(dest, all, src, size)
    BY DEF LibDefined, AppendNames
  <1>2. LibBytes(name, m, g) = bytes
    BY DEF LibBytes, AppendNames
  <1>3. c \in {1, 2} /\ dest \in Int /\ src \in Int
    BY DEF Width
  <1> HIDE DEF c, dest, src
  <1>4. old \in Nat /\ n \in Nat
    BY <1>1, <1>3, StrLenIs
  <1>5. old = StrLen(m, c, dest) /\ n = StrLen(m, c, src)
    OBVIOUS
  <1> HIDE DEF old, n
  <1>6. k \in Nat /\ size \in Nat /\ all = k + size /\ all \in Nat
    <2>1. CASE c = 1
      BY <1>4, <2>1
    <2>2. CASE c = 2
      BY <1>4, <2>2
    <2> QED
      BY <1>3, <2>1, <2>2
  <1>7. k = old * c /\ size = (n + 1) * c /\ all = (old + n + 1) * c
    OBVIOUS
  <1> HIDE DEF k, size, all
  <1>8. DOMAIN bytes = 0 .. all - 1
    BY <1>6
  <1>9. Piece(bytes, k, m, dest)
    <2> SUFFICES ASSUME NEW i \in 0 .. k - 1 PROVE bytes[i] = m[dest + i]
      BY Zenon DEF Piece
    <2>1. i \in 0 .. k + size - 1 /\ i < k
      BY <1>6
    <2> QED
      BY <2>1, Zenon
  <1>10. \A j \in 0 .. size - 1 : bytes[k + j] = m[src + j]
    <2> SUFFICES ASSUME NEW j \in 0 .. size - 1 PROVE bytes[k + j] = m[src + j]
      OBVIOUS
    <2> DEFINE i == k + j
    <2>1. i \in 0 .. k + size - 1 /\ ~(i < k) /\ src + i - k = src + j
      BY <1>3, <1>6
    <2> HIDE DEF i
    <2>2. bytes[i] = m[src + j]
      BY <2>1, Zenon
    <2> QED
      BY <2>2, Zenon DEF i
  <1> HIDE DEF bytes
  <1> DEFINE after == concatenate(m, c, dest, src)
  <1>11. Laid(after, m, dest, bytes, all)
    BY <1>1, <1>3, <1>5, <1>7, <1>9, <1>10, ConcatenateCopies
  <1> HIDE DEF after
  <1>12. Laid(after, m, g[1], LibBytes(name, m, g), all) /\ DOMAIN LibBytes(name, m, g) = 0 .. all - 1
    BY <1>2, <1>8, <1>11, Zenon DEF dest
  <1>13. AsLibrary(Done(after, g[1]), name, m, g)
    BY <1>6, <1>12, StringAsLibrary
  <1> QED
    BY <1>13 DEF after, c, dest, src

\* Every stub does what the library says of the function it stands in for, whenever the
\* library defines the call.
LEMMA StubsFollowLibrary ==
    ASSUME NEW D, D \subseteq Int, NEW m \in [D -> Byte],
           NEW g, g[1] \in Nat, g[2] \in Nat, g[3] \in Nat, NEW name, LibDefined(name, m, g)
    PROVE  name \in Stubs /\ AsLibrary(stub_table(name, m, g), name, m, g)
  <1>1. \/ name \in {"memcpy", "memmove", "RtlMoveMemory"}
        \/ name \in {"memset", "RtlZeroMemory", "RtlFillMemory"} \/ name = "memcmp"
        \/ name \in {"strlen", "wcslen", "lstrlenA", "lstrlenW"} \/ name \in CopyNames
        \/ name \in PadNames \/ name \in BoundedNames \/ name \in AppendNames
    BY DEF LibDefined, CopyNames, PadNames, BoundedNames, AppendNames
  <1>2. name \in Stubs
    BY <1>1 DEF Stubs, CopyNames, PadNames, BoundedNames, AppendNames
  <1>3. CASE name \in {"memcpy", "memmove", "RtlMoveMemory"}
    <2>1. stub_table(name, m, g) = stub_memcpy(m, g)
      BY <1>3 DEF stub_table
    <2> QED
      BY <1>2, <1>3, <2>1, CopyAsLibrary, Zenon
  <1>4. CASE name \in {"memset", "RtlZeroMemory", "RtlFillMemory"}
    <2>1. /\ stub_table("memset", m, g) = stub_memset(m, g)
          /\ stub_table("RtlZeroMemory", m, g) = stub_rtl_zero_memory(m, g)
          /\ stub_table("RtlFillMemory", m, g) = stub_rtl_fill_memory(m, g)
      BY DEF stub_table
    <2>2. /\ LibDefined("memset", m, g) => AsLibrary(stub_memset(m, g), "memset", m, g)
          /\ LibDefined("RtlZeroMemory", m, g) =>
                AsLibrary(stub_rtl_zero_memory(m, g), "RtlZeroMemory", m, g)
          /\ LibDefined("RtlFillMemory", m, g) =>
                AsLibrary(stub_rtl_fill_memory(m, g), "RtlFillMemory", m, g)
      BY FillAsLibrary
    <2> QED
      BY <1>2, <1>4, <2>1, <2>2, Zenon
  <1>5. CASE name = "memcmp"
    <2>1. stub_table("memcmp", m, g) = stub_memcmp(m, g)
      BY DEF stub_table
    <2>2. AsLibrary(stub_memcmp(m, g), "memcmp", m, g)
      BY <1>5, CompareAsLibrary
    <2> QED
      BY <1>2, <1>5, <2>1, <2>2, Zenon
  <1>6. CASE name \in {"strlen", "wcslen", "lstrlenA", "lstrlenW"}
    <2>1. stub_table(name, m, g) = Done(m, length(m, Width(name), g[1]))
      BY <1>6 DEF stub_table, stub_strlen, stub_wcslen, Width
    <2> QED
      BY <1>2, <1>6, <2>1, LengthAsLibrary, Zenon
  <1>7. CASE name \in CopyNames
    <2>1. stub_table(name, m, g) = Done(copy(m, Width(name), g[1], g[2], max_buffer), g[1])
      BY <1>7 DEF stub_table, stub_strcpy, stub_wcscpy, Width, CopyNames
    <2> QED
      BY <1>2, <1>7, <2>1, CopyStringAsLibrary, Zenon
  <1>8. CASE name \in PadNames \cup BoundedNames
    <2>1. stub_table(name, m, g) = Done(copy_counted(m, Width(name), g[1], g[2], g[3]), g[1])
      BY <1>8 DEF stub_table, stub_strncpy, stub_wcsncpy, Width, PadNames, BoundedNames
    <2> QED
      BY <1>2, <1>8, <2>1, PadAsLibrary, BoundedAsLibrary, Zenon
  <1>9. CASE name \in AppendNames
    <2>1. stub_table(name, m, g) = Done(concatenate(m, Width(name), g[1], g[2]), g[1])
      BY <1>9 DEF stub_table, stub_strcat, stub_wcscat, Width, AppendNames
    <2> QED
      BY <1>2, <1>9, <2>1, AppendAsLibrary, Zenon
  <1> QED
    BY <1>1, <1>3, <1>4, <1>5, <1>6, <1>7, <1>8, <1>9
=============================================================================
