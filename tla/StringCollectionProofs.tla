----------------------- MODULE StringCollectionProofs -----------------------
(***************************************************************************)
(* Proofs about StringCollection and the scanner.                          *)
(***************************************************************************)
EXTENDS StringCollection, MemoryStubsProofs

-----------------------------------------------------------------------------
(* Sequences *)

\* Induction, for the set of the sequences a property holds of.
LEMMA AppendInduction ==
    ASSUME NEW S, NEW T, <<>> \in T, \A s \in Seq(S) : s \in T => \A e \in S : Append(s, e) \in T
    PROVE  Seq(S) \subseteq T
  <1> DEFINE Lengths_ == {n \in Nat : \A s \in Seq(S) : Len(s) = n => s \in T}
  <1>1. 0 \in Lengths_
    <2>1. \A s \in Seq(S) : Len(s) = 0 => s = <<>>
      OBVIOUS
    <2> QED
      BY <2>1
  <1>2. ASSUME NEW n \in Nat, n \in Lengths_ PROVE n + 1 \in Lengths_
    <2> SUFFICES ASSUME NEW s \in Seq(S), Len(s) = n + 1 PROVE s \in T
      OBVIOUS
    <2> DEFINE t == SubSeq(s, 1, n)
    <2>1. t \in Seq(S) /\ Len(t) = n
      OBVIOUS
    <2>2. s = Append(t, s[n + 1]) /\ s[n + 1] \in S
      OBVIOUS
    <2>3. t \in T
      BY <1>2, <2>1
    <2> HIDE DEF t
    <2> QED
      BY <2>1, <2>2, <2>3
  <1> HIDE DEF Lengths_
  <1>3. Nat \subseteq Lengths_
    BY <1>1, <1>2, SetInduction
  <1> SUFFICES ASSUME NEW s \in Seq(S) PROVE s \in T
    OBVIOUS
  <1>4. Len(s) \in Lengths_
    BY <1>3
  <1> QED
    BY <1>4 DEF Lengths_

\* The turns of FlattenSeq.
Flattening(f, ss, S) ==
    /\ f \in [1 .. Len(ss) -> Seq(S)]
    /\ f[1] = ss[1]
    /\ \A i \in 2 .. Len(ss) : f[i] = f[i - 1] \o ss[i]
    /\ FlattenSeq(ss) = f[Len(ss)]

\* FlattenSeq has them.
LEMMA FlattenTurns ==
    ASSUME NEW S, NEW ss \in Seq(Seq(S)), Len(ss) # 0
    PROVE  \E f : Flattening(f, ss, S)
  <1> DEFINE N == Len(ss) - 1
             next == [x \in Seq(S) \X (1 .. N) |-> x[1] \o ss[x[2] + 1]]
             Body(g) == [i \in 1 .. Len(ss) |-> IF i = 1 THEN ss[i] ELSE g[i - 1] \o ss[i]]
             loop == CHOOSE g : g = Body(g)
  <1>1. N \in Nat /\ Len(ss) \in Nat /\ ss[1] \in Seq(S)
    OBVIOUS
  <1>2. next \in [Seq(S) \X (1 .. N) -> Seq(S)]
    <2> SUFFICES ASSUME NEW t \in Seq(S), NEW n \in 1 .. N PROVE t \o ss[n + 1] \in Seq(S)
      OBVIOUS
    <2>1. ss[n + 1] \in Seq(S)
      OBVIOUS
    <2> QED
      BY <2>1
  <1> HIDE DEF N, next
  <1>3. PICK f : TurnsUpTo(N, f, Seq(S), ss[1], next)
    BY <1>1, <1>2, LoopExists
  <1> DEFINE h == [i \in 1 .. Len(ss) |-> f[i - 1]]
  <1>4. h \in [1 .. Len(ss) -> Seq(S)] /\ h = Body(h)
    <2>1. \A i \in 1 .. Len(ss) : i - 1 \in 0 .. N
      BY <1>1 DEF N
    <2>2. h \in [1 .. Len(ss) -> Seq(S)]
      BY <1>3, <2>1 DEF TurnsUpTo
    <2> SUFFICES ASSUME NEW i \in 1 .. Len(ss)
                 PROVE  f[i - 1] = IF i = 1 THEN ss[i] ELSE h[i - 1] \o ss[i]
      BY <2>2
    <2>3. CASE i = 1
      BY <1>3, <2>3 DEF TurnsUpTo
    <2>4. CASE i # 1
      <3>1. i - 1 \in 1 .. N /\ (i - 1) - 1 \in 0 .. N /\ i - 1 \in 1 .. Len(ss) /\ (i - 1) + 1 = i
        BY <1>1, <2>4 DEF N
      <3>2. f[i - 1] = next[<<f[(i - 1) - 1], i - 1>>] /\ f[(i - 1) - 1] \in Seq(S)
        BY <1>3, <3>1 DEF TurnsUpTo
      <3>3. h[i - 1] = f[(i - 1) - 1]
        BY <3>1
      <3> QED
        BY <2>4, <3>1, <3>2, <3>3 DEF next
    <2> QED
      BY <2>3, <2>4
  <1> HIDE DEF h
  <1>5. loop = Body(loop)
    <2>1. \E g : g = Body(g)
      BY <1>4
    <2> HIDE DEF Body
    <2> QED
      BY <2>1, Zenon
  <1>6. FlattenSeq(ss) = loop[Len(ss)]
    BY Zenon DEF FlattenSeq
  <1> HIDE DEF loop
  <1>7. /\ loop[1] = ss[1]
        /\ \A i \in 2 .. Len(ss) : loop[i] = loop[i - 1] \o ss[i]
        /\ DOMAIN loop = 1 .. Len(ss)
    <2>1. 1 \in 1 .. Len(ss) /\ \A i \in 2 .. Len(ss) : i \in 1 .. Len(ss) /\ i # 1
      BY <1>1
    <2>2. \A i \in 1 .. Len(ss) : loop[i] = IF i = 1 THEN ss[i] ELSE loop[i - 1] \o ss[i]
      BY <1>5
    <2>3. DOMAIN loop = 1 .. Len(ss)
      BY <1>5
    <2> QED
      BY <2>1, <2>2, <2>3
  <1> DEFINE T == {i \in 0 .. N : loop[i + 1] \in Seq(S)}
  <1>8. 0 \in T
    BY <1>1, <1>7
  <1>9. ASSUME NEW i \in 1 .. N, i - 1 \in T PROVE i \in T
    <2>1. /\ i + 1 \in 2 .. Len(ss) /\ i + 1 \in 1 .. Len(ss) /\ i \in 0 .. N
          /\ (i + 1) - 1 = i /\ (i - 1) + 1 = i
      BY <1>1 DEF N
    <2>2. loop[i + 1] = loop[(i + 1) - 1] \o ss[i + 1]
      BY <1>7, <2>1, Zenon
    <2>3. loop[i] \in Seq(S)
      BY <1>9, <2>1
    <2>4. ss[i + 1] \in Seq(S)
      BY <2>1
    <2>5. loop[i + 1] \in Seq(S)
      BY <2>1, <2>2, <2>3, <2>4
    <2> QED
      BY <2>1, <2>5
  <1> HIDE DEF T
  <1>10. 0 .. N \subseteq T
    BY <1>1, <1>8, <1>9, IntervalInduction
  <1>11. \A i \in 1 .. Len(ss) : loop[i] \in Seq(S)
    <2> SUFFICES ASSUME NEW i \in 1 .. Len(ss) PROVE loop[i] \in Seq(S)
      OBVIOUS
    <2>1. i - 1 \in 0 .. N /\ (i - 1) + 1 = i
      BY <1>1 DEF N
    <2> QED
      BY <1>10, <2>1 DEF T
  <1>12. loop \in [1 .. Len(ss) -> Seq(S)]
    <2>1. loop = [i \in 1 .. Len(ss) |-> loop[i]]
      BY <1>5, <1>7
    <2> QED
      BY <1>11, <2>1
  <1>13. Flattening(loop, ss, S)
    BY <1>6, <1>7, <1>12 DEF Flattening
  <1> QED
    BY <1>13

\* One sequence more.
LEMMA FlattenAppend ==
    ASSUME NEW S, NEW ss \in Seq(Seq(S)), NEW t \in Seq(S)
    PROVE  /\ FlattenSeq(ss) \in Seq(S)
           /\ FlattenSeq(Append(ss, t)) = FlattenSeq(ss) \o t
  <1> DEFINE longer == Append(ss, t)
  <1>1. /\ longer \in Seq(Seq(S)) /\ Len(longer) = Len(ss) + 1 /\ Len(ss) \in Nat
        /\ longer[Len(ss) + 1] = t /\ \A i \in 1 .. Len(ss) : longer[i] = ss[i]
    OBVIOUS
  <1> HIDE DEF longer
  <1>2. PICK g : Flattening(g, longer, S)
    BY <1>1, FlattenTurns
  <1>3. CASE Len(ss) = 0
    <2>1. FlattenSeq(ss) = <<>> /\ FlattenSeq(ss) \in Seq(S)
      <3>1. ss = <<>>
        BY <1>3
      <3> QED
        BY <3>1 DEF FlattenSeq
    <2>2. FlattenSeq(longer) = t
      BY <1>1, <1>2, <1>3 DEF Flattening
    <2> QED
      BY <2>1, <2>2 DEF longer
  <1>4. CASE Len(ss) # 0
    <2>1. PICK f : Flattening(f, ss, S)
      BY <1>4, FlattenTurns
    <2> DEFINE N == Len(ss) - 1
               T == {i \in 0 .. N : f[i + 1] = g[i + 1]}
    <2>2. N \in Nat
      BY <1>1, <1>4
    <2>3. 0 \in T
      BY <1>1, <1>2, <1>4, <2>1 DEF Flattening
    <2>4. ASSUME NEW i \in 1 .. N, i - 1 \in T PROVE i \in T
      <3>1. /\ i + 1 \in 2 .. Len(ss) /\ i + 1 \in 2 .. Len(longer) /\ i + 1 \in 1 .. Len(ss)
            /\ (i + 1) - 1 = i /\ (i - 1) + 1 = i
        BY <1>1
      <3>2. f[i + 1] = f[i] \o ss[i + 1] /\ g[i + 1] = g[i] \o longer[i + 1]
        <4>1. /\ f[i + 1] = f[(i + 1) - 1] \o ss[i + 1]
              /\ g[i + 1] = g[(i + 1) - 1] \o longer[i + 1]
          BY <1>2, <2>1, <3>1, Zenon DEF Flattening
        <4> QED
          BY <3>1, <4>1
      <3>3. f[i] = g[i] /\ longer[i + 1] = ss[i + 1]
        BY <1>1, <2>4, <3>1
      <3>4. i \in 0 .. N
        BY <2>2
      <3> QED
        BY <3>2, <3>3, <3>4
    <2> HIDE DEF T
    <2>5. 0 .. N \subseteq T
      BY <2>2, <2>3, <2>4, IntervalInduction
    <2>6. f[Len(ss)] = g[Len(ss)]
      <3>1. N \in 0 .. N /\ N + 1 = Len(ss)
        BY <2>2
      <3> QED
        BY <2>5, <3>1 DEF T
    <2>7. /\ Len(ss) + 1 \in 2 .. Len(longer) /\ (Len(ss) + 1) - 1 = Len(ss)
          /\ Len(ss) \in 1 .. Len(ss)
      BY <1>1, <1>4
    <2>8. g[Len(ss) + 1] = g[Len(ss)] \o t
      BY <1>1, <1>2, <2>7 DEF Flattening
    <2> QED
      BY <1>1, <1>2, <2>1, <2>6, <2>7, <2>8 DEF Flattening, longer
  <1> QED
    BY <1>3, <1>4
-----------------------------------------------------------------------------
(* Least and greatest numbers *)

\* The least of a set is what is in it and below all of it.
LEMMA MinIs ==
    ASSUME NEW T, T \subseteq Int, NEW k \in T, \A j \in T : k <= j
    PROVE  Min(T) = k
  <1>1. \A x \in T : (\A y \in T : x <= y) => x = k
    OBVIOUS
  <1>2. \E x \in T : \A y \in T : x <= y
    OBVIOUS
  <1>3. Min(T) \in T /\ \A y \in T : Min(T) <= y
    BY <1>2, Zenon DEF Min
  <1> QED
    BY <1>1, <1>3

\* The same for the greatest.
LEMMA MaxIs ==
    ASSUME NEW T, T \subseteq Int, NEW k \in T, \A j \in T : k >= j
    PROVE  Max(T) = k
  <1>1. \A x \in T : (\A y \in T : x >= y) => x = k
    OBVIOUS
  <1>2. \E x \in T : \A y \in T : x >= y
    OBVIOUS
  <1>3. Max(T) \in T /\ \A y \in T : Max(T) >= y
    BY <1>2, Zenon DEF Max
  <1> QED
    BY <1>1, <1>3

\* Some numbers of an interval have a least and a greatest.
LEMMA IntervalEnds ==
    ASSUME NEW a \in Int, NEW b \in Int, NEW T, T \subseteq a .. b, T # {}
    PROVE  /\ Min(T) \in T /\ \A k \in T : Min(T) <= k
           /\ Max(T) \in T /\ \A k \in T : Max(T) >= k
  <1> DEFINE Up == {j \in Nat : a + j \in T}
             Down == {j \in Nat : b - j \in T}
  <1>1. \E k \in T : (k - a \in Nat /\ a + (k - a) = k) /\ (b - k \in Nat /\ b - (b - k) = k)
    <2>1. PICK k \in T : TRUE
      OBVIOUS
    <2>2. k \in Int /\ a <= k /\ k <= b
      BY <2>1
    <2> QED
      BY <2>2
  <1>2. Up \subseteq Nat /\ Up # {} /\ Down \subseteq Nat /\ Down # {}
    BY <1>1
  <1>3. PICK low \in Up : \A j \in Up : low <= j
    BY <1>2, LeastNatural
  <1>4. PICK high \in Down : \A j \in Down : high <= j
    BY <1>2, LeastNatural
  <1>5. \A k \in T : k - a \in Up /\ b - k \in Down
    <2> SUFFICES ASSUME NEW k \in T PROVE k - a \in Up /\ b - k \in Down
      OBVIOUS
    <2>1. k \in Int /\ k - a \in Nat /\ a + (k - a) = k /\ b - k \in Nat /\ b - (b - k) = k
      OBVIOUS
    <2> QED
      BY <2>1
  <1>6. a + low \in T /\ b - high \in T /\ low \in Nat /\ high \in Nat /\ T \subseteq Int
    BY <1>3, <1>4
  <1> HIDE DEF Up, Down
  <1>7. \A k \in T : a + low <= k
    BY <1>3, <1>5, <1>6
  <1>8. \A k \in T : b - high >= k
    BY <1>4, <1>5, <1>6
  <1>9. Min(T) = a + low
    BY <1>6, <1>7, MinIs
  <1>10. Max(T) = b - high
    BY <1>6, <1>8, MaxIs
  <1> QED
    BY <1>6, <1>7, <1>8, <1>9, <1>10

-----------------------------------------------------------------------------
(* Escaping and trimming *)

Printable == 32 .. 126 \cup {9, 10, 13}
Visible == 32 .. 126
Spaces == {32}

\* Concatenation is associative.
LEMMA ConcatThree ==
    ASSUME NEW S, NEW a \in Seq(S), NEW b \in Seq(S), NEW c \in Seq(S)
    PROVE  (a \o b) \o c = a \o (b \o c)
  OBVIOUS

\* The parts of a concatenation.
LEMMA ConcatParts ==
    ASSUME NEW S, NEW a \in Seq(S), NEW b \in Seq(S), NEW c, c = a \o b
    PROVE  /\ c \in Seq(S) /\ Len(c) = Len(a) + Len(b)
           /\ \A k \in 1 .. Len(a) : c[k] = a[k]
           /\ \A k \in 1 .. Len(b) : c[Len(a) + k] = b[k]
  OBVIOUS

\* A sequence whose elements are in another set too.
LEMMA ElementsIn ==
    ASSUME NEW S, NEW T, NEW s \in Seq(S), \A k \in 1 .. Len(s) : s[k] \in T
    PROVE  s \in Seq(T)
  OBVIOUS

\* What a character is shown as.
Escaped(c) == IF c \in 7 .. 13 THEN <<92, Letter[c]>> ELSE <<c>>

\* One character more.
LEMMA EscapeAppend ==
    ASSUME NEW S, NEW V, \A c \in S : Escaped(c) \in Seq(V), NEW s \in Seq(S), NEW e \in S
    PROVE  /\ escape_control_chars(s) \in Seq(V)
           /\ escape_control_chars(Append(s, e)) = escape_control_chars(s) \o Escaped(e)
  <1> DEFINE Pieces(t) == [k \in DOMAIN t |-> Escaped(t[k])]
  <1>1. \A t : escape_control_chars(t) = FlattenSeq(Pieces(t))
    BY DEF escape_control_chars, Escaped
  <1>2. Pieces(s) \in Seq(Seq(V))
    <2>1. \A k \in 1 .. Len(s) : s[k] \in S
      OBVIOUS
    <2>2. DOMAIN s = 1 .. Len(s) /\ Len(s) \in Nat
      OBVIOUS
    <2> HIDE DEF Escaped
    <2> QED
      BY <2>1, <2>2
  <1>3. Pieces(Append(s, e)) = Append(Pieces(s), Escaped(e))
    OBVIOUS
  <1>4. Escaped(e) \in Seq(V)
    OBVIOUS
  <1> HIDE DEF Pieces
  <1>5. /\ FlattenSeq(Pieces(s)) \in Seq(V)
        /\ FlattenSeq(Append(Pieces(s), Escaped(e))) = FlattenSeq(Pieces(s)) \o Escaped(e)
    BY <1>2, <1>4, FlattenAppend
  <1> QED
    BY <1>1, <1>3, <1>5, Zenon

\* Nothing, and one character.
LEMMA EscapeOne ==
    ASSUME NEW S, NEW V, \A c \in S : Escaped(c) \in Seq(V), NEW e \in S
    PROVE  escape_control_chars(<<>>) = <<>> /\ escape_control_chars(<<e>>) = Escaped(e)
  <1>1. escape_control_chars(<<>>) = <<>>
    <2>1. [k \in DOMAIN <<>> |-> IF <<>>[k] \in 7 .. 13 THEN <<92, Letter[<<>>[k]]>> ELSE <<<<>>[k]>>] = <<>>
      OBVIOUS
    <2>2. FlattenSeq(<<>>) = <<>>
      BY DEF FlattenSeq
    <2> QED
      BY <2>1, <2>2 DEF escape_control_chars
  <1>2. escape_control_chars(Append(<<>>, e)) = escape_control_chars(<<>>) \o Escaped(e)
    <2>1. <<>> \in Seq(S)
      OBVIOUS
    <2> HIDE DEF Escaped
    <2> QED
      BY <2>1, EscapeAppend
  <1>3. Append(<<>>, e) = <<e>> /\ Escaped(e) \in Seq(V) /\ (\A x \in Seq(V) : <<>> \o x = x)
    OBVIOUS
  <1> QED
    BY <1>1, <1>2, <1>3

\* Escaping is done character by character.
LEMMA EscapeConcat ==
    ASSUME NEW S, NEW V, \A c \in S : Escaped(c) \in Seq(V), NEW s \in Seq(S), NEW t \in Seq(S)
    PROVE  /\ escape_control_chars(t) \in Seq(V)
           /\ escape_control_chars(s \o t) = escape_control_chars(s) \o escape_control_chars(t)
  <1> DEFINE E(x) == escape_control_chars(x)
             T == {x \in Seq(S) : E(x) \in Seq(V) /\ E(s \o x) = E(s) \o E(x)}
  <1> HIDE DEF Escaped, E
  <1>1. \A x \in Seq(S), e \in S : E(x) \in Seq(V) /\ E(Append(x, e)) = E(x) \o Escaped(e)
    BY EscapeAppend DEF E
  <1>2. <<>> \in T
    <2>1. E(<<>>) = <<>>
      BY DEF E, escape_control_chars, FlattenSeq
    <2>2. s \o <<>> = s /\ <<>> \in Seq(S) /\ <<>> \in Seq(V)
      OBVIOUS
    <2>3. E(s) \in Seq(V)
      <3>1. CASE \E e \in S : TRUE
        BY <1>1, <3>1
      <3>2. CASE ~\E e \in S : TRUE
        <4>1. s = <<>>
          BY <3>2
        <4> QED
          BY <2>1, <2>2, <4>1
      <3> QED
        BY <3>1, <3>2
    <2>4. E(s) \o <<>> = E(s)
      BY <2>3
    <2> QED
      BY <2>1, <2>2, <2>4
  <1>3. ASSUME NEW x \in Seq(S), x \in T, NEW e \in S PROVE Append(x, e) \in T
    <2>1. s \o Append(x, e) = Append(s \o x, e) /\ s \o x \in Seq(S) /\ Append(x, e) \in Seq(S)
      BY SMTT(60)
    <2>2. /\ E(Append(s \o x, e)) = E(s \o x) \o Escaped(e)
          /\ E(Append(x, e)) = E(x) \o Escaped(e)
          /\ E(s) \in Seq(V) /\ E(x) \in Seq(V) /\ Escaped(e) \in Seq(V)
          /\ E(Append(x, e)) \in Seq(V)
      BY <1>1, <2>1
    <2>3. E(s \o x) = E(s) \o E(x)
      BY <1>3
    <2>4. (E(s) \o E(x)) \o Escaped(e) = E(s) \o (E(x) \o Escaped(e))
      BY <2>2, ConcatThree, SMTT(60)
    <2> QED
      BY <2>1, <2>2, <2>3, <2>4
  <1> HIDE DEF T
  <1>4. Seq(S) \subseteq T
    BY <1>2, <1>3, AppendInduction
  <1> QED
    BY <1>4 DEF T, E

\* Printable characters become visible ones, and spaces stay spaces.
LEMMA Pieces ==
    /\ \A c \in Printable : /\ Escaped(c) \in Seq(Visible) /\ Len(Escaped(c)) \in {1, 2}
                            /\ c # 32 => Escaped(c)[1] # 32 /\ Escaped(c)[Len(Escaped(c))] # 32
    /\ \A c \in Spaces : Escaped(c) \in Seq(Spaces)
  <1>1. ASSUME NEW c \in {9, 10, 13}
        PROVE  Escaped(c) = <<92, Letter[c]>> /\ Letter[c] \in 97 .. 118
    BY DEF Escaped, Letter
  <1>2. ASSUME NEW c \in Visible PROVE Escaped(c) = <<c>>
    BY DEF Escaped, Visible
  <1>3. \A c \in Printable : c \in {9, 10, 13} \/ c \in Visible
    BY DEF Printable, Visible
  <1>4. \A c \in Spaces : c = 32 /\ c \in Visible
    BY DEF Spaces, Visible
  <1>5. ASSUME NEW c \in {9, 10, 13}
        PROVE  /\ Escaped(c) \in Seq(Visible) /\ Len(Escaped(c)) \in {1, 2}
               /\ Escaped(c)[1] # 32 /\ Escaped(c)[Len(Escaped(c))] # 32
    <2> DEFINE x == Letter[c]
    <2>1. 92 \in Visible /\ x \in Visible /\ x # 32
      BY <1>1 DEF Visible
    <2>2. Escaped(c) = <<92, x>>
      BY <1>1
    <2> HIDE DEF x
    <2> QED
      BY <2>1, <2>2
  <1>6. ASSUME NEW c \in Visible
        PROVE  /\ Escaped(c) \in Seq(Visible) /\ Len(Escaped(c)) \in {1, 2}
               /\ c # 32 => Escaped(c)[1] # 32 /\ Escaped(c)[Len(Escaped(c))] # 32
    <2>1. Escaped(c) = <<c>>
      BY <1>2
    <2> QED
      BY <2>1
  <1>7. \A c \in Spaces : Escaped(c) \in Seq(Spaces)
    <2> SUFFICES ASSUME NEW c \in Spaces PROVE Escaped(c) \in Seq(Spaces)
      OBVIOUS
    <2>1. Escaped(c) = <<c>>
      BY <1>2, <1>4
    <2> QED
      BY <2>1
  <1> HIDE DEF Escaped
  <1> QED
    BY <1>3, <1>5, <1>6, <1>7, Zenon

\* A text that starts with no space is shown as one that does not, and so for its end.
LEMMA EscapeSolid ==
    ASSUME NEW s \in Seq(Printable), Len(s) # 0, s[1] # 32, s[Len(s)] # 32
    PROVE  LET e == escape_control_chars(s)
           IN e \in Seq(Visible) /\ Len(e) # 0 /\ e[1] # 32 /\ e[Len(e)] # 32
  <1> DEFINE n == Len(s)
             rest == SubSeq(s, 2, n)
             front == SubSeq(s, 1, n - 1)
             E(x) == escape_control_chars(x)
  <1>1. n \in Nat /\ n >= 1 /\ rest \in Seq(Printable) /\ front \in Seq(Printable)
    OBVIOUS
  <1>2. /\ s = <<s[1]>> \o rest /\ s[1] \in Printable /\ <<s[1]>> \in Seq(Printable)
        /\ s = Append(front, s[n]) /\ s[n] \in Printable
    BY <1>1
  <1> HIDE DEF rest, front, n, E
  <1>3. \A c \in Printable : Escaped(c) \in Seq(Visible)
    BY Pieces
  <1>4. E(s) = Escaped(s[1]) \o E(rest) /\ E(rest) \in Seq(Visible)
    <2>1. /\ E(<<s[1]>> \o rest) = E(<<s[1]>>) \o E(rest)
          /\ E(rest) \in Seq(Visible)
      BY <1>1, <1>2, <1>3, EscapeConcat DEF E
    <2>2. E(<<s[1]>>) = Escaped(s[1])
      BY <1>2, <1>3, EscapeOne DEF E
    <2> QED
      BY <1>2, <2>1, <2>2
  <1>5. E(s) = E(front) \o Escaped(s[n]) /\ E(front) \in Seq(Visible)
    BY <1>1, <1>2, <1>3, EscapeAppend DEF E
  <1>6. /\ Escaped(s[1]) \in Seq(Visible) /\ Len(Escaped(s[1])) \in {1, 2} /\ Escaped(s[1])[1] # 32
        /\ Escaped(s[n]) \in Seq(Visible) /\ Len(Escaped(s[n])) \in {1, 2}
        /\ Escaped(s[n])[Len(Escaped(s[n]))] # 32
    BY <1>2, Pieces DEF n
  <1> HIDE DEF Escaped
  <1>7. E(s) \in Seq(Visible) /\ Len(E(s)) # 0 /\ E(s)[1] # 32
    BY <1>4, <1>6, SMTT(60)
  <1>8. E(s)[Len(E(s))] # 32
    <2> DEFINE h == E(front)
               t == Escaped(s[n])
    <2>1. Len(h) \in Nat /\ Len(t) \in 1 .. Len(t) /\ t[Len(t)] # 32 /\ h \in Seq(Visible) /\ t \in Seq(Visible)
      BY <1>5, <1>6
    <2>2. E(s) = h \o t
      BY <1>5
    <2> HIDE DEF h, t
    <2>3. (h \o t)[Len(h) + Len(t)] = t[Len(t)] /\ Len(h \o t) = Len(h) + Len(t)
      BY <2>1, ConcatParts
    <2> QED
      BY <2>1, <2>2, <2>3
  <1> QED
    BY <1>7, <1>8 DEF E

\* Spaces around a text are trimmed.
LEMMA TrimAround ==
    ASSUME NEW l \in Seq(Spaces), NEW r \in Seq(Spaces), NEW x \in Seq(Visible),
           Len(x) # 0, x[1] # 32, x[Len(x)] # 32
    PROVE  trim((l \o x) \o r) = x
  <1> DEFINE w == (l \o x) \o r
             kept == {k \in DOMAIN w : ~is_trim_space(w[k])}
             a == Len(l)
             b == Len(l) + Len(x)
  <1>1. /\ a \in Nat /\ Len(x) \in Nat /\ Len(x) >= 1 /\ Len(r) \in Nat
        /\ DOMAIN w = 1 .. (a + Len(x) + Len(r))
    OBVIOUS
  <1>2. \A k \in DOMAIN w : /\ k <= a => w[k] \in Spaces
                            /\ k > a /\ k <= b => w[k] = x[k - a]
                            /\ k > b => w[k] \in Spaces
    OBVIOUS
  <1>3. \A k \in 1 .. Len(x) : x[k] \in Visible
    OBVIOUS
  <1>4. \A c \in Visible : is_trim_space(c) <=> c = 32
    BY DEF Visible, is_trim_space
  <1>5. SubSeq(w, a + 1, b) = x
    <2>1. w \in Seq(Visible)
      BY DEF Spaces, Visible
    <2>2. SubSeq(w, a + 1, b) \in Seq(Visible) /\ Len(SubSeq(w, a + 1, b)) = Len(x)
      BY <1>1, <2>1
    <2>3. \A k \in 1 .. Len(x) : SubSeq(w, a + 1, b)[k] = x[k]
      BY <1>1, <1>2, <2>1
    <2> QED
      BY <2>2, <2>3
  <1> HIDE DEF w
  <1>6. \A k \in kept : k >= a + 1 /\ k <= b /\ k \in Int
    <2> SUFFICES ASSUME NEW k \in kept PROVE k >= a + 1 /\ k <= b /\ k \in Int
      OBVIOUS
    <2>1. k \in DOMAIN w /\ ~is_trim_space(w[k]) /\ k \in Int
      BY <1>1
    <2>2. w[k] \notin Spaces
      BY <2>1 DEF is_trim_space, Spaces
    <2>3. ~(k <= a) /\ ~(k > b)
      BY <1>2, <2>1, <2>2
    <2> QED
      BY <1>1, <2>1, <2>3
  <1>7. a + 1 \in kept /\ b \in kept
    <2>1. a + 1 \in DOMAIN w /\ b \in DOMAIN w
      BY <1>1
    <2>2. w[a + 1] = x[1] /\ w[b] = x[Len(x)]
      <3>1. w[a + 1] = x[(a + 1) - a] /\ w[b] = x[b - a]
        <4>1. a + 1 > a /\ a + 1 <= b /\ b > a /\ b <= b
          BY <1>1
        <4> HIDE DEF a, b
        <4> QED
          BY <1>2, <2>1, <4>1
      <3>2. (a + 1) - a = 1 /\ b - a = Len(x)
        BY <1>1
      <3> QED
        BY <3>1, <3>2
    <2>3. x[1] \in Visible /\ x[Len(x)] \in Visible
      BY <1>1, <1>3
    <2> QED
      BY <1>4, <2>1, <2>2, <2>3
  <1> HIDE DEF kept, a, b
  <1>8. Min(kept) = a + 1
    <2>1. kept \subseteq Int /\ \A j \in kept : a + 1 <= j
      BY <1>1, <1>6
    <2> QED
      BY <1>7, <2>1, MinIs
  <1>9. Max(kept) = b
    <2>1. kept \subseteq Int /\ \A j \in kept : b >= j
      BY <1>6 DEF b
    <2> QED
      BY <1>7, <2>1, MaxIs
  <1>10. trim(w) = SubSeq(w, Min(kept), Max(kept))
    <2>1. kept # {}
      BY <1>7
    <2> QED
      BY <2>1 DEF trim, kept
  <1> QED
    BY <1>5, <1>8, <1>9, <1>10 DEF w

\* What is left after trimming has no spaces around it, and trimming it again leaves it.
LEMMA TrimVisible ==
    ASSUME NEW s \in Seq(Visible)
    PROVE  trim(s) \in Seq(Visible) /\ trim(trim(s)) = trim(s)
  <1> DEFINE kept == {k \in DOMAIN s : ~is_trim_space(s[k])}
             a == Min(kept)
             b == Max(kept)
  <1>1. CASE kept = {}
    <2>1. trim(s) = <<>>
      BY <1>1 DEF trim
    <2>2. trim(<<>>) = <<>>
      BY DEF trim
    <2> QED
      BY <2>1, <2>2
  <1>2. CASE kept # {}
    <2>1. kept \subseteq 1 .. Len(s) /\ Len(s) \in Int
      OBVIOUS
    <2>2. a \in kept /\ b \in kept /\ a <= b
      <3> HIDE DEF kept
      <3>1. /\ Min(kept) \in kept /\ \A k \in kept : Min(kept) <= k
            /\ Max(kept) \in kept
        <4>1. 1 \in Int
          OBVIOUS
        <4> QED
          BY <1>2, <2>1, <4>1, IntervalEnds, Zenon
      <3> QED
        BY <3>1
    <2>3. trim(s) = SubSeq(s, a, b)
      BY <1>2 DEF trim
    <2>4. a \in 1 .. Len(s) /\ b \in 1 .. Len(s) /\ s[a] # 32 /\ s[b] # 32
      BY <2>1, <2>2 DEF is_trim_space
    <2> HIDE DEF a, b
    <2> DEFINE x == SubSeq(s, a, b)
    <2>5. x \in Seq(Visible) /\ Len(x) = b - a + 1 /\ Len(x) # 0
      BY <2>1, <2>2, <2>4
    <2>6. x[1] = s[a] /\ x[b - a + 1] = s[b]
      BY <2>1, <2>2, <2>4
    <2> HIDE DEF x
    <2>7. trim((<<>> \o x) \o <<>>) = x
      <3>1. <<>> \in Seq(Spaces)
        OBVIOUS
      <3>2. x[1] # 32 /\ x[Len(x)] # 32
        BY <2>4, <2>5, <2>6
      <3> QED
        BY <2>5, <3>1, <3>2, TrimAround
    <2>8. (<<>> \o x) \o <<>> = x
      BY <2>5
    <2> QED
      BY <2>3, <2>5, <2>7, <2>8 DEF x
  <1> QED
    BY <1>1, <1>2

\* What is left of spaces.
LEMMA TrimSpaces ==
    ASSUME NEW s \in Seq(Spaces)
    PROVE  trim(s) = <<>>
  <1>1. \A k \in DOMAIN s : s[k] = 32
    BY DEF Spaces
  <1> QED
    BY <1>1 DEF trim, is_trim_space

\* The bytes of m from p on.
Text(m, p, len) == [k \in 1 .. len |-> m[p + k - 1]]

\* What push_string makes of printable bytes is what they are to be shown as.
LEMMA ShownText ==
    ASSUME NEW m, NEW p \in Int, NEW len \in Nat,
           \A a \in p .. p + len - 1 : m[a] \in Printable
    PROVE  /\ Text(m, p, len) \in Seq(Printable)
           /\ trim(escape_control_chars(Text(m, p, len))) = Shown(m, p, len)
  <1> DEFINE solid == {a \in p .. p + len - 1 : m[a] # 32}
             text == Text(m, p, len)
             E(x) == escape_control_chars(x)
  <1>1. text \in Seq(Printable) /\ Len(text) = len /\ \A k \in 1 .. len : text[k] = m[p + k - 1]
    <2>1. \A k \in 1 .. len : p + k - 1 \in p .. p + len - 1
      OBVIOUS
    <2> QED
      BY <2>1 DEF Text
  <1>2. /\ \A c \in Printable : Escaped(c) \in Seq(Visible)
        /\ \A c \in Spaces : Escaped(c) \in Seq(Spaces)
    BY Pieces
  <1> HIDE DEF text, Escaped
  <1>3. ASSUME NEW s \in Seq(Spaces) PROVE E(s) \in Seq(Spaces)
    BY <1>2, EscapeConcat
  <1>4. CASE solid = {}
    <2>1. \A k \in 1 .. len : text[k] \in Spaces
      <3> SUFFICES ASSUME NEW k \in 1 .. len PROVE m[p + k - 1] = 32
        BY <1>1 DEF Spaces
      <3>1. p + k - 1 \in p .. p + len - 1
        OBVIOUS
      <3> QED
        BY <1>4, <3>1
    <2>2. text \in Seq(Spaces)
      BY <1>1, <2>1
    <2>3. trim(E(text)) = <<>>
      BY <1>3, <2>2, TrimSpaces
    <2> QED
      BY <1>1, <1>4, <2>3 DEF Shown, text
  <1>5. CASE solid # {}
    <2> DEFINE a == Min(solid)
               b == Max(solid)
               x == Text(m, a, b - a + 1)
               l == SubSeq(text, 1, a - p)
               r == SubSeq(text, b - p + 2, len)
    <2>1. /\ a \in solid /\ b \in solid /\ \A k \in solid : a <= k /\ k <= b
      <3>1. solid \subseteq p .. p + len - 1 /\ p + len - 1 \in Int
        OBVIOUS
      <3> HIDE DEF solid
      <3> QED
        BY <1>5, <3>1, IntervalEnds
    <2>2. a \in p .. p + len - 1 /\ b \in p .. p + len - 1 /\ m[a] # 32 /\ m[b] # 32 /\ a <= b
      BY <2>1
    <2>3. \A k \in p .. p + len - 1 : k < a \/ k > b => m[k] = 32
      BY <2>1
    <2>4. Shown(m, p, len) = E(x)
      BY <1>5 DEF Shown, Text
    <2> HIDE DEF a, b, solid
    <2>5. x \in Seq(Printable) /\ Len(x) = b - a + 1 /\ x[1] = m[a] /\ x[b - a + 1] = m[b]
      <3>1. b - a + 1 \in Nat /\ b - a + 1 >= 1 /\ a + 1 - 1 = a /\ a + (b - a + 1) - 1 = b
        BY <2>2
      <3>2. \A k \in 1 .. b - a + 1 : a + k - 1 \in p .. p + len - 1
        BY <2>2
      <3>3. \A k \in 1 .. b - a + 1 : m[a + k - 1] \in Printable
        BY <3>2
      <3> QED
        BY <3>1, <3>3 DEF Text
    <2>6. l \in Seq(Spaces)
      <3>1. Len(l) = a - p /\ a - p \in Nat /\ \A k \in 1 .. a - p : l[k] = text[k]
        BY <1>1, <2>2
      <3>2. \A k \in 1 .. a - p : text[k] \in Spaces
        BY <1>1, <2>2, <2>3 DEF Spaces
      <3>3. l \in Seq(Printable)
        BY <1>1, <2>2
      <3> HIDE DEF l
      <3> QED
        BY <3>1, <3>2, <3>3, ElementsIn
    <2>7. r \in Seq(Spaces)
      <3>1. /\ Len(r) = (p + len - 1) - b /\ (p + len - 1) - b \in Nat
            /\ \A k \in 1 .. (p + len - 1) - b : r[k] = text[k + (b - p + 2) - 1]
        BY <1>1, <2>2
      <3>2. \A k \in 1 .. (p + len - 1) - b : text[k + (b - p + 2) - 1] \in Spaces
        BY <1>1, <2>2, <2>3 DEF Spaces
      <3>3. r \in Seq(Printable)
        BY <1>1, <2>2
      <3> HIDE DEF r
      <3> QED
        BY <3>1, <3>2, <3>3, ElementsIn
    <2>8. text = (l \o x) \o r
      <3>1. Len(l) = a - p /\ a - p \in Nat /\ \A k \in 1 .. a - p : l[k] = text[k]
        BY <1>1, <2>2
      <3>2. /\ Len(r) = (p + len - 1) - b /\ (p + len - 1) - b \in Nat
            /\ \A k \in 1 .. (p + len - 1) - b : r[k] = text[k + (b - p + 2) - 1]
        BY <1>1, <2>2
      <3>3. \A k \in 1 .. b - a + 1 : x[k] = text[(a - p) + k]
        <4> SUFFICES ASSUME NEW k \in 1 .. b - a + 1 PROVE x[k] = text[(a - p) + k]
          OBVIOUS
        <4>1. (a - p) + k \in 1 .. len /\ p + ((a - p) + k) - 1 = a + k - 1
          BY <2>2
        <4> QED
          BY <1>1, <4>1 DEF Text
      <3> HIDE DEF l, x, r
      <3> DEFINE lx == l \o x
                 w == lx \o r
      <3>4. l \in Seq(Printable) /\ r \in Seq(Printable)
        BY <2>6, <2>7 DEF Spaces, Printable
      <3>10. lx = l \o x /\ w = lx \o r
        OBVIOUS
      <3> HIDE DEF lx, w
      <3>5. /\ lx \in Seq(Printable) /\ Len(lx) = Len(l) + Len(x)
            /\ \A k \in 1 .. Len(l) : lx[k] = l[k]
            /\ \A k \in 1 .. Len(x) : lx[Len(l) + k] = x[k]
        <4>1. x \in Seq(Printable)
          BY <2>5
        <4> QED
          BY <3>4, <3>10, <4>1, ConcatParts
      <3>6. /\ w \in Seq(Printable) /\ Len(w) = Len(lx) + Len(r)
            /\ \A k \in 1 .. Len(lx) : w[k] = lx[k]
            /\ \A k \in 1 .. Len(r) : w[Len(lx) + k] = r[k]
        BY <3>4, <3>5, <3>10, ConcatParts
      <3>7. Len(lx) = b - p + 1 /\ Len(w) = len
        BY <2>2, <2>5, <3>1, <3>2, <3>5, <3>6
      <3>8. ASSUME NEW k \in 1 .. len PROVE w[k] = text[k]
        <4>1. CASE k <= a - p
          <5>1. k \in 1 .. Len(l) /\ k \in 1 .. Len(lx) /\ k \in 1 .. a - p
            BY <2>2, <3>1, <3>7, <4>1
          <5> QED
            BY <3>1, <3>5, <3>6, <5>1
        <4>2. CASE k > a - p /\ k <= b - p + 1
          <5> DEFINE j == k - (a - p)
          <5>1. /\ j \in 1 .. Len(x) /\ j \in 1 .. b - a + 1 /\ Len(l) + j = k
                /\ k \in 1 .. Len(lx) /\ (a - p) + j = k
            <6>1. j \in 1 .. b - a + 1 /\ k \in 1 .. b - p + 1 /\ (a - p) + j = k
              BY <2>2, <4>2
            <6>2. Len(x) = b - a + 1 /\ Len(l) = a - p /\ Len(lx) = b - p + 1
              BY <2>5, <3>1, <3>7
            <6> QED
              BY <6>1, <6>2, Zenon
          <5> HIDE DEF j
          <5>2. w[k] = lx[k]
            BY <3>6, <5>1
          <5>3. lx[Len(l) + j] = x[j] /\ x[j] = text[(a - p) + j]
            BY <3>3, <3>5, <5>1
          <5> QED
            BY <5>1, <5>2, <5>3
        <4>3. CASE k > b - p + 1
          <5> DEFINE j == k - (b - p + 1)
          <5>1. /\ j \in 1 .. Len(r) /\ j \in 1 .. (p + len - 1) - b
                /\ Len(lx) + j = k /\ j + (b - p + 2) - 1 = k
            BY <2>2, <3>2, <3>7, <4>3
          <5> HIDE DEF j
          <5>2. w[Len(lx) + j] = r[j] /\ r[j] = text[j + (b - p + 2) - 1]
            BY <3>2, <3>6, <5>1
          <5> QED
            BY <5>1, <5>2
        <4> QED
          BY <2>2, <4>1, <4>2, <4>3
      <3>9. w = text
        BY <1>1, <3>6, <3>7, <3>8
      <3> QED
        BY <3>9, <3>10
    <2> HIDE DEF l, x, r
    <2>9. E(text) = (E(l) \o E(x)) \o E(r)
      <3>1. /\ l \in Seq(Printable) /\ r \in Seq(Printable) /\ l \o x \in Seq(Printable)
        BY <2>5, <2>6, <2>7 DEF Spaces, Printable
      <3>2. E((l \o x) \o r) = E(l \o x) \o E(r)
        BY <1>2, <3>1, EscapeConcat, ZenonT(60)
      <3>3. E(l \o x) = E(l) \o E(x)
        BY <1>2, <2>5, <3>1, EscapeConcat, ZenonT(60)
      <3> QED
        BY <2>8, <3>2, <3>3
    <2>10. E(x) \in Seq(Visible) /\ Len(E(x)) # 0 /\ E(x)[1] # 32 /\ E(x)[Len(E(x))] # 32
      <3>1. Len(x) # 0 /\ x[1] # 32 /\ x[Len(x)] # 32
        BY <2>2, <2>5
      <3> QED
        BY <2>5, <3>1, EscapeSolid
    <2>11. E(l) \in Seq(Spaces) /\ E(r) \in Seq(Spaces)
      BY <1>3, <2>6, <2>7
    <2>12. trim(E(text)) = E(x)
      <3> HIDE DEF E
      <3> QED
        BY <2>9, <2>10, <2>11, TrimAround
    <2> QED
      BY <1>1, <2>4, <2>12 DEF text
  <1> QED
    BY <1>4, <1>5

-----------------------------------------------------------------------------
(* The scan of a buffer *)

Entries == [ptr : Int, data : Seq(Visible)]

\* What the list of strings always is.
ListOK(list) ==
    /\ list \subseteq Entries
    /\ \A e \in list : e.data # <<>> /\ trim(e.data) = e.data
    /\ \A e, f \in list : e.data = f.data => e = f

\* What is shown of printable bytes is visible, and trimmed.
LEMMA ShownVisible ==
    ASSUME NEW data \in Seq(Printable), NEW shown, shown = trim(escape_control_chars(data))
    PROVE  shown \in Seq(Visible) /\ trim(shown) = shown
  <1>1. escape_control_chars(data) \in Seq(Visible)
    <2>1. \A c \in Printable : Escaped(c) \in Seq(Visible)
      BY Pieces
    <2> QED
      BY <2>1, EscapeConcat
  <1> QED
    BY <1>1, TrimVisible

\* push_string adds what is shown of a string, unless it is nothing or there.
LEMMA Pushed ==
    ASSUME NEW list, NEW ptr \in Int, NEW data \in Seq(Printable), NEW shown, NEW after,
           shown = trim(escape_control_chars(data)),
           after = push_string(list, [ptr |-> ptr, data |-> data])
    PROVE  /\ list \subseteq Entries => after \subseteq Entries
           /\ ListOK(list) => ListOK(after)
           /\ list \subseteq after
           /\ shown = <<>> \/ \E e \in after : e.data = shown
           /\ \A e \in after \ list : e.ptr = ptr /\ e.data = shown
  <1> DEFINE new == [ptr |-> ptr, data |-> shown]
             known == shown = <<>> \/ \E e \in list : e.data = shown
  <1>1. shown \in Seq(Visible) /\ trim(shown) = shown
    BY ShownVisible
  <1>2. after = IF known THEN list ELSE list \cup {new}
    BY DEF push_string
  <1>3. new \in Entries /\ new.ptr = ptr /\ new.data = shown
    BY <1>1 DEF Entries
  <1>4. CASE known
    BY <1>2, <1>4
  <1>5. CASE ~known
    <2>1. after = list \cup {new} /\ shown # <<>> /\ \A e \in list : e.data # shown
      BY <1>2, <1>5
    <2> HIDE DEF new, known
    <2>2. list \subseteq Entries => after \subseteq Entries
      BY <1>3, <2>1
    <2>3. ASSUME ListOK(list) PROVE ListOK(after)
      <3>1. \A e \in after : e.data # <<>> /\ trim(e.data) = e.data
        BY <1>1, <1>3, <2>1, <2>3, Zenon DEF ListOK
      <3>2. \A e, f \in after : e.data = f.data => e = f
        BY <1>3, <2>1, <2>3, Zenon DEF ListOK
      <3> QED
        BY <2>2, <2>3, <3>1, <3>2 DEF ListOK
    <2> QED
      BY <1>3, <2>1, <2>2, <2>3
  <1> QED
    BY <1>4, <1>5

ScanStates == [i : Nat, list : SUBSET Entries]

\* The end of the printable bytes from i on.
LEMMA AsciiEnd ==
    ASSUME NEW n \in Nat, NEW buf, NEW i \in 0 .. n - 1, is_ascii_printable(buf[i])
    PROVE  LET end == ascii_end(buf, n, i)
           IN /\ end \in i + 1 .. n
              /\ end = n \/ ~is_ascii_printable(buf[end])
              /\ \A j \in i .. end - 1 : is_ascii_printable(buf[j])
  <1> DEFINE stops == {j \in i .. n : j = n \/ ~is_ascii_printable(buf[j])}
             end == Min(stops)
  <1>1. stops \subseteq i .. n /\ n \in stops /\ i \in Int /\ n \in Int
    OBVIOUS
  <1>2. end \in stops /\ \A k \in stops : end <= k
    <2>1. stops # {}
      BY <1>1
    <2> HIDE DEF stops
    <2> QED
      BY <1>1, <2>1, IntervalEnds
  <1>3. ascii_end(buf, n, i) = end
    BY DEF ascii_end
  <1> HIDE DEF end
  <1>4. /\ end \in i .. n
        /\ end = n \/ ~is_ascii_printable(buf[end])
    BY <1>2
  <1>5. end \in i .. n /\ i \in Int /\ end # i
    <2>1. i # n /\ i \in Int
      OBVIOUS
    <2>2. end # i
      BY <1>4, <2>1, Zenon
    <2> QED
      BY <1>4, <2>1, <2>2, Zenon
  <1>6. ASSUME NEW j \in i .. end - 1 PROVE is_ascii_printable(buf[j])
    <2>1. j \notin stops
      BY <1>2, <1>4
    <2>2. j \in i .. n /\ j # n
      BY <1>5
    <2> QED
      BY <2>1, <2>2
  <1>7. end \in i + 1 .. n
    BY <1>5
  <1> QED
    BY <1>3, <1>4, <1>6, <1>7

\* The turn at printable bytes: after them.
AsciiTurn(base, buf, n, p, after, end) ==
    /\ p.i < n /\ is_ascii_printable(buf[p.i])
    /\ end \in p.i + 1 .. n
    /\ end = n \/ ~is_ascii_printable(buf[end])
    /\ \A j \in p.i .. end - 1 : is_ascii_printable(buf[j])
    /\ after.i = end + 1
    /\ after.list = IF end - p.i >= 4 /\ end < n /\ buf[end] = 0
                    THEN push_string(p.list, [ptr |-> base + p.i, data |-> Text(buf, p.i, end - p.i)])
                    ELSE p.list

\* What a turn of the scan over bytes does.  It never sees a wide string: the first byte of
\* one is a printable byte too, which is tested before.
LEMMA ScanTurn ==
    ASSUME NEW base \in Int, NEW n \in Nat, NEW buf \in [0 .. n - 1 -> Byte],
           NEW p \in ScanStates, NEW after, after = scan_turn(base, buf, n, p)
    PROVE  /\ after \in ScanStates
           /\ \/ p.i >= n /\ after = p
              \/ \E end \in Int : AsciiTurn(base, buf, n, p, after, end)
              \/ p.i < n /\ ~is_ascii_printable(buf[p.i]) /\ after.i = p.i + 1 /\ after.list = p.list
  <1>0. p.i \in Nat /\ p.list \subseteq Entries /\ p = [i |-> p.i, list |-> p.list]
    BY DEF ScanStates
  <1>1. CASE p.i >= n
    BY <1>1 DEF scan_turn
  <1>2. CASE p.i < n /\ is_ascii_printable(buf[p.i])
    <2> DEFINE end == ascii_end(buf, n, p.i)
               text == Text(buf, p.i, end - p.i)
               list == IF end - p.i >= 4 /\ end < n /\ buf[end] = 0
                       THEN push_string(p.list, [ptr |-> base + p.i, data |-> text]) ELSE p.list
    <2>1. p.i \in 0 .. n - 1 /\ ~(p.i >= n)
      BY <1>0, <1>2
    <2>2. /\ end \in p.i + 1 .. n
          /\ end = n \/ ~is_ascii_printable(buf[end])
          /\ \A j \in p.i .. end - 1 : is_ascii_printable(buf[j])
      BY <1>2, <2>1, AsciiEnd
    <2>3. after = [i |-> end + 1, list |-> list]
      BY <1>2, <2>1 DEF scan_turn, Text
    <2> HIDE DEF end
    <2>4. text \in Seq(Printable)
      <3>1. end - p.i \in Nat /\ p.i + (end - p.i) - 1 = end - 1 /\ p.i \in Int
        BY <1>0, <2>2
      <3>2. \A a \in p.i .. p.i + (end - p.i) - 1 : buf[a] \in Printable
        BY <2>2, <3>1 DEF is_ascii_printable, Printable
      <3> QED
        BY <3>1, <3>2, ShownText
    <2> HIDE DEF text
    <2>5. list \subseteq Entries
      <3>1. base + p.i \in Int
        BY <1>0
      <3> DEFINE pushed == push_string(p.list, [ptr |-> base + p.i, data |-> text])
      <3>2. p.list \subseteq Entries => pushed \subseteq Entries
        <4> DEFINE shown == trim(escape_control_chars(text))
        <4>1. shown \in Seq(Visible)
          BY <2>4, ShownVisible
        <4>2. \/ pushed = p.list
              \/ pushed = p.list \cup {[ptr |-> base + p.i, data |-> shown]}
          BY DEF push_string
        <4> HIDE DEF shown, pushed
        <4> QED
          BY <3>1, <4>1, <4>2 DEF Entries
      <3> HIDE DEF pushed
      <3> QED
        BY <1>0, <3>2 DEF pushed
    <2>6. after.i = end + 1 /\ after.list = list
      BY <2>3
    <2>7. AsciiTurn(base, buf, n, p, after, end)
      <3> HIDE DEF list
      <3>1. after.list = IF end - p.i >= 4 /\ end < n /\ buf[end] = 0
                         THEN push_string(p.list, [ptr |-> base + p.i, data |-> Text(buf, p.i, end - p.i)])
                         ELSE p.list
        BY <2>6 DEF list, text
      <3> QED
        BY <1>2, <2>2, <2>6, <3>1 DEF AsciiTurn
    <2>8. end \in Int /\ end + 1 \in Nat
      BY <1>0, <2>2
    <2> HIDE DEF list
    <2>9. after \in ScanStates
      BY <2>3, <2>5, <2>8 DEF ScanStates
    <2> QED
      BY <2>7, <2>8, <2>9
  <1>3. CASE p.i < n /\ ~is_ascii_printable(buf[p.i])
    <2>1. ~(p.i + 1 < n /\ is_utf16_printable(read_u16le(buf, p.i)))
      <3> SUFFICES ASSUME p.i + 1 < n, is_utf16_printable(read_u16le(buf, p.i)) PROVE FALSE
        OBVIOUS
      <3>1. p.i \in 0 .. n - 1 /\ p.i + 1 \in 0 .. n - 1
        BY <1>0, <1>3
      <3> DEFINE low == buf[p.i]
                 high == buf[p.i + 1]
      <3>2. low \in Byte /\ high \in Byte
        BY <3>1
      <3>3. low + 256 * high \in Printable /\ low \notin Printable
        BY <1>3 DEF is_utf16_printable, is_ascii_printable, read_u16le, Printable
      <3> HIDE DEF low, high
      <3>4. low + 256 * high <= 126
        BY <3>2, <3>3 DEF Printable, Byte
      <3>5. high = 0
        <4>1. low >= 0 /\ high >= 0 /\ low \in Int /\ high \in Int
          BY <3>2 DEF Byte
        <4>2. ~(high >= 1)
          BY <3>4, <4>1, SMTT(30)
        <4> QED
          BY <4>1, <4>2
      <3>6. low + 256 * high = low
        BY <3>2, <3>5 DEF Byte
      <3> QED
        BY <3>3, <3>6
    <2>2. after = [i |-> p.i + 1, list |-> p.list]
      <3>1. ~(p.i >= n)
        BY <1>0, <1>3
      <3>2. after = [p EXCEPT !.i = p.i + 1]
        BY <1>3, <2>1, <3>1, Zenon DEF scan_turn
      <3> QED
        BY <1>0, <3>2
    <2>3. after \in ScanStates
      BY <1>0, <2>2 DEF ScanStates
    <2> QED
      BY <1>3, <2>2, <2>3
  <1> QED
    BY <1>0, <1>1, <1>2, <1>3

\* What a scan that has come to the byte i of buf has added to the list.
Found(old, new, base, buf, n) ==
    \A e \in new \ old : \E q \in 0 .. n - 1 : \E nul \in 0 .. n - 1 :
        IsString(buf, q, nul - q) /\ e.ptr = base + q /\ e.data = Shown(buf, q, nul - q)

Covered(list, buf, n, i) ==
    \A q \in 0 .. n - 1 : \A nul \in q + 4 .. n - 1 :
        /\ q < i /\ IsString(buf, q, nul - q)
        /\ q = 0 \/ ~is_ascii_printable(buf[q - 1])
        => Listed(list, buf, q, nul - q)

\* The scan after t turns.
ScanInv(t, p, list, base, buf, n) ==
    /\ p \in ScanStates /\ p.i >= t
    /\ ListOK(p.list) /\ list \subseteq p.list
    /\ Found(list, p.list, base, buf, n)
    /\ Covered(p.list, buf, n, p.i)

\* A turn covers what it passes: no string starts behind printable bytes or at others.
LEMMA ScanKeeps ==
    ASSUME NEW list, NEW base \in Int, NEW n \in Nat, NEW buf \in [0 .. n - 1 -> Byte],
           NEW t \in Nat, t < n, NEW p, ScanInv(t, p, list, base, buf, n),
           NEW after, after = scan_turn(base, buf, n, p)
    PROVE  ScanInv(t + 1, after, list, base, buf, n)
  <1>0. /\ p \in ScanStates /\ p.i \in Nat /\ p.i >= t /\ ListOK(p.list) /\ list \subseteq p.list
        /\ Found(list, p.list, base, buf, n) /\ Covered(p.list, buf, n, p.i)
        /\ after \in ScanStates
    BY ScanTurn DEF ScanInv, ScanStates
  <1>1. CASE p.i >= n /\ after = p
    BY <1>0, <1>1 DEF ScanInv
  <1>2. ASSUME NEW end \in Int, AsciiTurn(base, buf, n, p, after, end)
        PROVE  ScanInv(t + 1, after, list, base, buf, n)
    <2> DEFINE i == p.i
               len == end - i
               shown == Shown(buf, i, len)
               whole == len >= 4 /\ end < n /\ buf[end] = 0
    <2>1. /\ i \in Nat /\ i < n /\ is_ascii_printable(buf[i])
          /\ end \in i + 1 .. n
          /\ end = n \/ ~is_ascii_printable(buf[end])
          /\ \A j \in i .. end - 1 : is_ascii_printable(buf[j])
          /\ after.i = end + 1
          /\ after.list = IF whole
                          THEN push_string(p.list, [ptr |-> base + i, data |-> Text(buf, i, len)])
                          ELSE p.list
      BY <1>0, <1>2 DEF AsciiTurn
    <2> HIDE DEF i
    <2>2. len \in Nat /\ i + len = end /\ i + len - 1 = end - 1 /\ i \in 0 .. n - 1
      BY <2>1
    <2>3. /\ Text(buf, i, len) \in Seq(Printable)
          /\ shown = trim(escape_control_chars(Text(buf, i, len)))
      <3>1. \A a \in i .. i + len - 1 : buf[a] \in Printable
        BY <2>1, <2>2 DEF is_ascii_printable, Printable
      <3>2. i \in Int
        BY <2>1
      <3> QED
        BY <2>2, <3>1, <3>2, ShownText
    <2> HIDE DEF len, shown
    <2>4. /\ ListOK(after.list) /\ p.list \subseteq after.list
          /\ whole => shown = <<>> \/ \E e \in after.list : e.data = shown
          /\ \A e \in after.list \ p.list : whole /\ e.ptr = base + i /\ e.data = shown
      <3> DEFINE pushed == push_string(p.list, [ptr |-> base + i, data |-> Text(buf, i, len)])
      <3>1. base + i \in Int
        BY <2>1
      <3>2. /\ ListOK(p.list) => ListOK(pushed)
            /\ p.list \subseteq pushed
            /\ shown = <<>> \/ \E e \in pushed : e.data = shown
            /\ \A e \in pushed \ p.list : e.ptr = base + i /\ e.data = shown
        BY <2>3, <3>1, Pushed
      <3>3. after.list = IF whole THEN pushed ELSE p.list
        BY <2>1
      <3> HIDE DEF pushed, whole
      <3> QED
        BY <1>0, <3>2, <3>3
    <2>5. whole => IsString(buf, i, len)
      <3> SUFFICES ASSUME whole PROVE IsString(buf, i, len)
        OBVIOUS
      <3>1. i .. i + len \subseteq DOMAIN buf
        BY <2>1, <2>2
      <3>2. \A a \in i .. i + len - 1 : is_ascii_printable(buf[a])
        BY <2>1, <2>2
      <3>3. len >= 4 /\ buf[i + len] = 0
        BY <2>2
      <3> QED
        BY <3>1, <3>2, <3>3 DEF IsString
    <2>6. Found(list, after.list, base, buf, n)
      <3> SUFFICES ASSUME NEW e \in after.list, e \notin list
                   PROVE  \E q \in 0 .. n - 1 : \E nul \in 0 .. n - 1 :
                             IsString(buf, q, nul - q) /\ e.ptr = base + q /\ e.data = Shown(buf, q, nul - q)
        BY DEF Found
      <3>1. CASE e \in p.list
        BY <1>0, <3>1 DEF Found
      <3>2. CASE e \notin p.list
        <4>1. whole /\ e.ptr = base + i /\ e.data = Shown(buf, i, len) /\ IsString(buf, i, len)
          BY <2>4, <2>5, <3>2 DEF shown
        <4>2. end \in 0 .. n - 1 /\ end - i = len
          BY <2>1, <4>1 DEF len
        <4> HIDE DEF whole
        <4> QED
          BY <2>2, <4>1, <4>2
      <3> QED
        BY <3>1, <3>2
    <2>7. Covered(after.list, buf, n, after.i)
      <3> SUFFICES ASSUME NEW q \in 0 .. n - 1, NEW nul \in q + 4 .. n - 1,
                          q < end + 1, IsString(buf, q, nul - q),
                          q = 0 \/ ~is_ascii_printable(buf[q - 1])
                   PROVE  Listed(after.list, buf, q, nul - q)
        BY <2>1 DEF Covered
      <3>1. CASE q < i
        <4>1. Listed(p.list, buf, q, nul - q)
          BY <1>0, <3>1 DEF Covered, i
        <4> QED
          BY <2>4, <4>1 DEF Listed
      <3>2. CASE q = i
        <4>1. nul = end /\ whole
          <5>0. /\ i \in Int /\ nul \in i .. n - 1 /\ IsString(buf, i, nul - i)
                /\ end \in i + 1 .. n
                /\ end = n \/ ~is_ascii_printable(buf[end])
                /\ \A j \in i .. end - 1 : is_ascii_printable(buf[j])
            BY <2>1, <3>2
          <5>1. i + (nul - i) = nul /\ i + (nul - i) - 1 = nul - 1
            BY <5>0
          <5>2. /\ nul - i >= 4 /\ buf[nul] = 0
                /\ \A a \in i .. nul - 1 : is_ascii_printable(buf[a])
            BY <5>0, <5>1 DEF IsString
          <5>3. ~is_ascii_printable(buf[nul])
            BY <5>2 DEF is_ascii_printable
          <5>4. nul \notin i .. end - 1
            BY <5>0, <5>3
          <5>5. nul >= end /\ end < n
            BY <5>0, <5>4
          <5>6. end \notin i .. nul - 1
            BY <5>0, <5>2, <5>5
          <5>7. nul = end
            BY <5>0, <5>5, <5>6
          <5> QED
            BY <5>2, <5>5, <5>7 DEF len
        <4>2. nul - q = len
          BY <3>2, <4>1 DEF len
        <4> HIDE DEF whole
        <4> QED
          BY <2>4, <3>2, <4>1, <4>2 DEF Listed, shown
      <3>3. CASE q > i
        <4>1. i \in Int /\ q \in Int /\ end \in Int
          BY <2>1
        <4>2. q - 1 \in i .. end - 1 /\ q # 0
          BY <2>1, <3>3, <4>1
        <4> QED
          BY <2>1, <4>2
      <3> QED
        BY <2>1, <3>1, <3>2, <3>3
    <2>8. after.i >= t + 1
      BY <1>0, <2>1 DEF i
    <2> HIDE DEF whole
    <2> QED
      BY <1>0, <2>4, <2>6, <2>7, <2>8 DEF ScanInv
  <1>3. CASE p.i < n /\ ~is_ascii_printable(buf[p.i]) /\ after.i = p.i + 1 /\ after.list = p.list
    <2>1. Covered(after.list, buf, n, after.i)
      <3> SUFFICES ASSUME NEW q \in 0 .. n - 1, NEW nul \in q + 4 .. n - 1,
                          q < p.i + 1, IsString(buf, q, nul - q),
                          q = 0 \/ ~is_ascii_printable(buf[q - 1])
                   PROVE  Listed(p.list, buf, q, nul - q)
        BY <1>3 DEF Covered
      <3>1. CASE q < p.i
        BY <1>0, <3>1 DEF Covered
      <3>2. CASE q = p.i
        <4>1. q \in q .. q + (nul - q) - 1
          OBVIOUS
        <4>2. is_ascii_printable(buf[q])
          BY <4>1 DEF IsString
        <4> QED
          BY <1>3, <3>2, <4>2
      <3> QED
        BY <1>0, <3>1, <3>2
    <2>2. after.i >= t + 1
      BY <1>0, <1>3
    <2> QED
      BY <1>0, <1>3, <2>1, <2>2 DEF ScanInv
  <1>4. \/ p.i >= n /\ after = p
        \/ \E end \in Int : AsciiTurn(base, buf, n, p, after, end)
        \/ p.i < n /\ ~is_ascii_printable(buf[p.i]) /\ after.i = p.i + 1 /\ after.list = p.list
    <2>1. p \in ScanStates
      BY <1>0
    <2> QED
      BY <2>1, ScanTurn
  <1> QED
    BY <1>1, <1>2, <1>3, <1>4

\* The equations of the scan.
ScanLoop(f, list, base, buf, n) ==
    /\ f[0] = [i |-> 0, list |-> list]
    /\ \A t \in 1 .. n : f[t] = scan_turn(base, buf, n, f[t - 1])

\* The recursive function of the scan has a value.
LEMMA ScanningTurns ==
    ASSUME NEW list, list \subseteq Entries, NEW base \in Int, NEW n \in Nat,
           NEW buf \in [0 .. n - 1 -> Byte]
    PROVE  ScanLoop(scanning(list, base, buf, n), list, base, buf, n)
  <1> DEFINE first == [i |-> 0, list |-> list]
             next == [x \in ScanStates \X (1 .. n) |-> scan_turn(base, buf, n, x[1])]
             Body(g) == [t \in 0 .. n |-> IF t = 0 THEN first ELSE scan_turn(base, buf, n, g[t - 1])]
             loop == scanning(list, base, buf, n)
  <1>1. first \in ScanStates
    BY DEF ScanStates
  <1>2. next \in [ScanStates \X (1 .. n) -> ScanStates]
    BY ScanTurn
  <1>3. loop = CHOOSE g : g = Body(g)
    BY Zenon DEF scanning
  <1> HIDE DEF first, next, loop
  <1>4. PICK f : TurnsUpTo(n, f, ScanStates, first, next)
    BY <1>1, <1>2, LoopExists
  <1>5. f = Body(f)
    <2>1. f = [t \in 0 .. n |-> f[t]]
      BY <1>4 DEF TurnsUpTo
    <2>2. \A t \in 0 .. n : f[t] = IF t = 0 THEN first ELSE scan_turn(base, buf, n, f[t - 1])
      <3> SUFFICES ASSUME NEW t \in 1 .. n PROVE f[t] = scan_turn(base, buf, n, f[t - 1])
        BY <1>4 DEF TurnsUpTo
      <3>1. f[t] = next[<<f[t - 1], t>>] /\ f[t - 1] \in ScanStates
        BY <1>4 DEF TurnsUpTo
      <3> QED
        BY <3>1 DEF next
    <2> QED
      BY <2>1, <2>2
  <1>6. loop = Body(loop)
    <2>1. \E g : g = Body(g)
      BY <1>5
    <2> HIDE DEF Body
    <2> QED
      BY <1>3, <2>1, Zenon
  <1>7. \A t \in 0 .. n : loop[t] = IF t = 0 THEN first ELSE scan_turn(base, buf, n, loop[t - 1])
    BY <1>6
  <1>8. 0 \in 0 .. n /\ \A t \in 1 .. n : t \in 0 .. n /\ t # 0
    OBVIOUS
  <1>9. loop[0] = first /\ \A t \in 1 .. n : loop[t] = scan_turn(base, buf, n, loop[t - 1])
    BY <1>7, <1>8
  <1> QED
    BY <1>9, Zenon DEF ScanLoop, loop, first

\* The scan of a buffer adds what is a string in it, every one unless it is listed.
LEMMA ScanBuffer ==
    ASSUME NEW list, ListOK(list), NEW base \in Int, NEW n \in Nat,
           NEW buf \in [0 .. n - 1 -> Byte], NEW after,
           after = scan_buffer_for_strings(list, base, buf, n)
    PROVE  /\ ListOK(after) /\ list \subseteq after
           /\ Found(list, after, base, buf, n) /\ Covered(after, buf, n, n)
  <1> DEFINE loop == scanning(list, base, buf, n)
             T == {t \in 0 .. n : ScanInv(t, loop[t], list, base, buf, n)}
  <1>1. /\ loop[0] = [i |-> 0, list |-> list]
        /\ \A t \in 1 .. n : loop[t] = scan_turn(base, buf, n, loop[t - 1])
    <2>1. list \subseteq Entries
      BY DEF ListOK
    <2>2. ScanLoop(loop, list, base, buf, n)
      BY <2>1, ScanningTurns
    <2> QED
      BY <2>2, Zenon DEF ScanLoop
  <1>2. after = loop[n].list
    BY DEF scan_buffer_for_strings
  <1> HIDE DEF loop
  <1>3. 0 \in T
    <2> DEFINE p == loop[0]
    <2>1. p = [i |-> 0, list |-> list] /\ list \subseteq Entries
      BY <1>1 DEF ListOK
    <2> HIDE DEF p
    <2>2. p \in ScanStates /\ p.i = 0 /\ p.list = list
      BY <2>1 DEF ScanStates
    <2>3. Found(list, p.list, base, buf, n) /\ Covered(p.list, buf, n, p.i)
      BY <2>2 DEF Found, Covered
    <2>4. ScanInv(0, p, list, base, buf, n)
      BY <2>2, <2>3 DEF ScanInv
    <2> QED
      BY <2>4 DEF p
  <1>4. ASSUME NEW t \in 1 .. n, t - 1 \in T PROVE t \in T
    <2> DEFINE p == loop[t - 1]
               q == loop[t]
    <2>1. q = scan_turn(base, buf, n, p) /\ ScanInv(t - 1, p, list, base, buf, n)
      BY <1>1, <1>4
    <2>2. t - 1 \in Nat /\ t - 1 < n /\ (t - 1) + 1 = t /\ t \in 0 .. n
      OBVIOUS
    <2> HIDE DEF p, q
    <2>3. ScanInv((t - 1) + 1, q, list, base, buf, n)
      BY <2>1, <2>2, ScanKeeps
    <2> QED
      BY <2>2, <2>3 DEF q
  <1> HIDE DEF T
  <1>5. 0 .. n \subseteq T
    BY <1>3, <1>4, IntervalInduction
  <1>6. ScanInv(n, loop[n], list, base, buf, n)
    <2>1. n \in 0 .. n
      OBVIOUS
    <2> QED
      BY <1>5, <2>1 DEF T
  <1> DEFINE last == loop[n]
  <1>7. /\ last.i \in Nat /\ last.i >= n /\ ListOK(after) /\ list \subseteq after
        /\ Found(list, after, base, buf, n) /\ Covered(after, buf, n, last.i)
    BY <1>2, <1>6 DEF ScanInv, ScanStates
  <1> HIDE DEF last
  <1>8. Covered(after, buf, n, n)
    <2> SUFFICES ASSUME NEW q \in 0 .. n - 1, NEW nul \in q + 4 .. n - 1,
                        IsString(buf, q, nul - q),
                        q = 0 \/ ~is_ascii_printable(buf[q - 1])
                 PROVE  Listed(after, buf, q, nul - q)
      BY DEF Covered
    <2>1. q < last.i
      BY <1>7
    <2> QED
      BY <1>7, <2>1 DEF Covered
  <1> QED
    BY <1>7, <1>8

-----------------------------------------------------------------------------
(* Memory *)

\* Memory stays bytes at the addresses of the image.
MemInv == mem \in [DOMAIN Image -> Byte]

\* The names the stubs are found under end as the import does.
LEMMA StubName ==
    ASSUME NEW name \in Seq(STRING) \ {<<>>}, NEW p \in find_stub(name)
    PROVE  p[1] = name[Len(name)]
  <1>1. Len(name) \in Nat /\ Len(name) >= 1 /\ Len(p) = 1
    <2>1. name # <<>> => Len(name) # 0
      OBVIOUS
    <2> QED
      BY <2>1 DEF find_stub
  <1>2. CASE p = name
    BY <1>1, <1>2
  <1>3. CASE p = <<name[Len(name)]>>
    BY <1>3
  <1>4. CASE p = stripped(name)
    <2> DEFINE starts == {i \in DOMAIN name : name[i] # ""} \cup {Len(name) + 1}
               first == Min(starts)
    <2>0. DOMAIN name = 1 .. Len(name)
      OBVIOUS
    <2>1. starts \subseteq 1 .. Len(name) + 1 /\ Len(name) + 1 \in starts
      <3>1. \A i \in 1 .. Len(name) : i \in 1 .. Len(name) + 1
        BY <1>1
      <3>2. Len(name) + 1 \in 1 .. Len(name) + 1
        BY <1>1
      <3> QED
        BY <2>0, <3>1, <3>2
    <2> HIDE DEF starts
    <2>2. first \in starts
      <3>1. 1 .. Len(name) + 1 \subseteq Nat
        BY <1>1
      <3> QED
        BY <2>1, <3>1, MinLeast
    <2>3. first \in 1 .. Len(name) + 1
      BY <2>1, <2>2
    <2> HIDE DEF first
    <2>4. p = SubSeq(name, first, Len(name))
      BY <1>4, Zenon DEF stripped, first, starts
    <2>5. Len(name) - first + 1 = 1
      BY <1>1, <2>3, <2>4
    <2>6. p[1] = name[first]
      BY <1>1, <2>3, <2>4, <2>5
    <2>7. first = Len(name)
      BY <1>1, <2>3, <2>5
    <2> QED
      BY <2>6, <2>7
  <1> QED
    BY <1>2, <1>3, <1>4 DEF find_stub

\* What a call does to memory: changes where the stub of its name may write.
LEMMA CallChanges ==
    ASSUME MemInv, NEW c \in CallMenu, ExternalCall(c[1], c[2])
    PROVE  /\ MemInv'
           /\ \A a \in DOMAIN mem : mem'[a] # mem[a] =>
                 /\ setting.stubs
                 /\ a \in c[2][1] .. c[2][1] + max_buffer * Width(c[1][Len(c[1])]) - 1
  <1> DEFINE name == c[1]
             g == c[2]
             stubs == IF setting.stubs THEN find_stub(name) ELSE {}
  <1>1. name \in Seq(STRING) \ {<<>>} /\ g \in [1 .. 3 -> Nat] /\ DOMAIN Image \subseteq Int
    BY CollectionAssumption
  <1>2. g[1] \in Nat /\ g[2] \in Nat /\ g[3] \in Nat
    BY <1>1
  <1>3. CASE stubs = {}
    <2>1. mem' = mem
      BY <1>3 DEF ExternalCall, Done
    <2> QED
      BY <2>1 DEF MemInv
  <1>4. CASE stubs # {}
    <2> DEFINE p == CHOOSE q \in stubs : TRUE
    <2>1. mem' = stub_table(p[1], mem, g).mem
      BY <1>4 DEF ExternalCall
    <2>2. p \in find_stub(name) /\ setting.stubs
      BY <1>4
    <2>3. p[1] = name[Len(name)]
      BY <1>1, <2>2, StubName
    <2> HIDE DEF p, g, name, stubs
    <2>4. mem' \in [DOMAIN Image -> Byte] /\ Changes(mem, mem', g[1], max_buffer * Width(p[1]))
      BY <1>1, <1>2, <2>1, StubChanges DEF MemInv
    <2> QED
      BY <2>2, <2>3, <2>4 DEF MemInv, Changes, g, name
  <1> QED
    BY <1>3, <1>4

\* Every step keeps memory a function to bytes.
LEMMA MemStep ==
    ASSUME MemInv, [Next]_vars
    PROVE  MemInv'
  <1>1. ASSUME NEW s \in StoreMenu, Store(s[1], s[2]) PROVE MemInv'
    <2> DEFINE n == Cardinality(DOMAIN s[2])
    <2>1. s[1] \in Int /\ n \in Nat /\ s[2] \in [0 .. n - 1 -> Byte]
      <3>1. /\ s[1] \in Nat /\ IsFiniteSet(DOMAIN s[2])
            /\ s[2] \in [0 .. Cardinality(DOMAIN s[2]) - 1 -> 0 .. 255]
        BY CollectionAssumption, Zenon
      <3>2. n \in Nat
        BY <3>1, FS_CardinalityType
      <3> QED
        BY <3>1, <3>2 DEF Byte
    <2>2. mem' = uc_mem_write(mem, s[1], s[2], n)
      BY <1>1 DEF Store
    <2>3. DOMAIN Image \subseteq Int
      BY CollectionAssumption
    <2> HIDE DEF n
    <2> QED
      BY <2>1, <2>2, <2>3, WriteChanges DEF MemInv
  <1>2. ASSUME NEW c \in CallMenu, ExternalCall(c[1], c[2]) PROVE MemInv'
    BY <1>2, CallChanges
  <1>3. CASE mem' = mem
    BY <1>3 DEF MemInv
  <1> QED
    BY <1>1, <1>2, <1>3 DEF Next, vars, MoveStack, Ret, JumpToImport, EndSlice

\* Memory holds bytes, at the same addresses, in every run.
THEOREM MemoryIsBytes == Spec => []MemInv
  <1>1. Init => MemInv
    BY CollectionAssumption DEF Init, MemInv, Byte
  <1> QED
    BY <1>1, MemStep, PTL DEF Spec

\* A stub of any name, on any arguments, changes no byte in front of its first argument
\* and none from max_buffer characters behind it on; nothing else that is called changes
\* memory at all.
THEOREM StubsWriteTheirBuffers == Spec => StubWritesBounded
  <1>1. ASSUME MemInv, Next, Len(instr') = 3
        PROVE  LET last == instr'[2][Len(instr'[2])]
                   dest == instr'[3][1]
               IN \A a \in DOMAIN mem : mem'[a] # mem[a] =>
                     setting.stubs /\ a \in dest .. dest + max_buffer * Width(last) - 1
    <2>1. CASE mem' = mem
      BY <2>1
    <2>2. ASSUME NEW c \in CallMenu, ExternalCall(c[1], c[2])
          PROVE  LET last == instr'[2][Len(instr'[2])]
                     dest == instr'[3][1]
                 IN \A a \in DOMAIN mem : mem'[a] # mem[a] =>
                       setting.stubs /\ a \in dest .. dest + max_buffer * Width(last) - 1
      <3>1. instr' = <<"call", c[1], c[2]>>
        BY <2>2 DEF ExternalCall
      <3> QED
        BY <1>1, <2>2, <3>1, CallChanges
    <2>3. \/ mem' = mem
          \/ \E c \in CallMenu : ExternalCall(c[1], c[2])
      <3>1. \A x : Len(<<x>>) # 3
        OBVIOUS
      <3> QED
        BY <1>1, <3>1 DEF Next, Store, MoveStack, Ret, JumpToImport, EndSlice
    <2> QED
      BY <2>1, <2>2, <2>3
  <1>2. ASSUME MemInv, [Next]_vars
        PROVE  [steps' # steps /\ Len(instr') = 3 =>
                  LET last == instr'[2][Len(instr'[2])]
                      dest == instr'[3][1]
                  IN \A a \in DOMAIN mem : mem'[a] # mem[a] =>
                        setting.stubs /\ a \in dest .. dest + max_buffer * Width(last) - 1]_vars
    BY <1>1, <1>2
  <1> QED
    BY <1>2, MemoryIsBytes, PTL DEF Spec, StubWritesBounded

\* What a call does to memory and to RAX, when stubs are on and the library defines it.
LEMMA CallFollows ==
    ASSUME MemInv, NEW c \in CallMenu, ExternalCall(c[1], c[2]), setting.stubs,
           LibDefined(c[1][Len(c[1])], mem, c[2])
    PROVE  /\ mem' = LibMem(c[1][Len(c[1])], mem, c[2])
           /\ LibReturns(c[1][Len(c[1])], mem, c[2], regs'[1])
  <1> DEFINE name == c[1]
             g == c[2]
             last == name[Len(name)]
             p == CHOOSE q \in find_stub(name) : TRUE
             done == stub_table(p[1], mem, g)
             r == <<regs[1], g[1], g[2], g[3]>>
  <1>1. /\ name \in Seq(STRING) \ {<<>>} /\ DOMAIN Image \subseteq Int
        /\ g[1] \in Nat /\ g[2] \in Nat /\ g[3] \in Nat
    <2>1. g \in [1 .. 3 -> Nat]
      BY CollectionAssumption
    <2> QED
      BY <2>1, CollectionAssumption, SMTT(60)
  <1>2. last \in Stubs /\ AsLibrary(stub_table(last, mem, g), last, mem, g)
    <2> HIDE DEF g, name
    <2> QED
      BY <1>1, StubsFollowLibrary DEF MemInv, g, name
  <1>3. <<last>> \in find_stub(name)
    <2>1. Len(<<last>>) = 1 /\ <<last>>[1] = last
      OBVIOUS
    <2> HIDE DEF last
    <2>2. <<last>> \in {name, stripped(name), <<last>>}
      OBVIOUS
    <2> QED
      BY <1>2, <2>1, <2>2, Zenon DEF find_stub, last
  <1>4. p \in find_stub(name)
    BY <1>3, Zenon
  <1>5. p[1] = last
    BY <1>1, <1>4, StubName
  <1>6. find_stub(name) # {}
    BY <1>3
  <1>7. /\ mem' = done.mem
        /\ regs' = IF done.ret = Kept THEN r ELSE [r EXCEPT ![1] = done.ret]
    BY <1>6, Zenon DEF ExternalCall, Loaded
  <1>8. AsLibrary(done, last, mem, g)
    BY <1>2, <1>5, Zenon
  <1> HIDE DEF done
  <1>9. regs'[1] = IF done.ret = Kept THEN regs[1] ELSE done.ret
    BY <1>7
  <1> QED
    BY <1>7, <1>8, <1>9, Zenon DEF AsLibrary

\* A call of an import of any name that ends in a library function's changes memory and
\* RAX as that function does, for all arguments and memory for which the library defines
\* it: overlapping moves, padding, appending and the signs of comparisons included.
THEOREM CallsFollowTheLibrary == Spec => CLibraryFollowed
  <1>1. ASSUME MemInv, Next, instr'[1] = "call", setting.stubs
        PROVE  AsTheLibrarySays
    <2>1. PICK c \in CallMenu : ExternalCall(c[1], c[2])
      <3>1. ASSUME NEW st \in StoreMenu, Store(st[1], st[2]) PROVE FALSE
        BY <1>1, <3>1 DEF Store
      <3>2. ASSUME NEW c \in JumpMenu, JumpToImport(c[1], c[2]) PROVE FALSE
        BY <1>1, <3>2 DEF JumpToImport
      <3>3. ASSUME NEW to \in RspMenu, MoveStack(to) PROVE FALSE
        BY <1>1, <3>3 DEF MoveStack
      <3>4. ASSUME Ret PROVE FALSE
        BY <1>1, <3>4 DEF Ret
      <3>5. ASSUME EndSlice PROVE FALSE
        BY <1>1, <3>5 DEF EndSlice
      <3> QED
        BY <1>1, <3>1, <3>2, <3>3, <3>4, <3>5 DEF Next
    <2>2. instr' = <<"call", c[1], c[2]>>
      BY <2>1 DEF ExternalCall
    <2>3. instr'[2] = c[1] /\ instr'[3] = c[2]
      BY <2>2
    <2> QED
      BY <1>1, <2>1, <2>3, CallFollows, Zenon DEF AsTheLibrarySays
  <1>2. ASSUME MemInv, [Next]_vars
        PROVE  [steps' # steps /\ instr'[1] = "call" /\ setting.stubs => AsTheLibrarySays]_vars
    BY <1>1, <1>2, Zenon
  <1> QED
    BY <1>2, MemoryIsBytes, PTL DEF Spec, CLibraryFollowed

-----------------------------------------------------------------------------
(* The scans of memory *)

\* A list that scans of m have made of an older one.
Grows(old, new, m) ==
    /\ ListOK(new) /\ old \subseteq new
    /\ \A e \in new \ old : \E nul \in DOMAIN m :
          IsString(m, e.ptr, nul - e.ptr) /\ Shown(m, e.ptr, nul - e.ptr) = e.data

\* One scan after another.
LEMMA GrowsTwice ==
    ASSUME NEW first, NEW second, NEW third, NEW m, Grows(first, second, m), Grows(second, third, m)
    PROVE  Grows(first, third, m)
  <1>1. ListOK(third) /\ first \subseteq third
    BY DEF Grows
  <1>2. ASSUME NEW e \in third \ first
        PROVE  \E nul \in DOMAIN m :
                  IsString(m, e.ptr, nul - e.ptr) /\ Shown(m, e.ptr, nul - e.ptr) = e.data
    <2>1. e \in second \ first \/ e \in third \ second
      OBVIOUS
    <2> QED
      BY <2>1, Zenon DEF Grows
  <1> QED
    BY <1>1, <1>2 DEF Grows

\* What a list holds, a longer one does.
LEMMA ListedMore ==
    ASSUME NEW old, NEW new, old \subseteq new, NEW m, NEW start, NEW end,
           AllListed(old, m, start, end)
    PROVE  AllListed(new, m, start, end)
  BY Zenon DEF AllListed, Listed

\* len bytes of two memories are the same string, or neither is one.
SameString(m, p, k, q, len) ==
    /\ IsString(m, p, len) <=> IsString(k, q, len)
    /\ IsString(k, q, len) => Shown(m, p, len) = Shown(k, q, len)

\* The strings of a buffer are those of the memory that was read into it.
LEMMA BufferStrings ==
    ASSUME NEW D, D \subseteq Int, NEW m \in [D -> Byte], NEW start \in Int, NEW n \in Nat,
           Has(m, start, n), NEW buf, buf = uc_mem_read(m, start, n),
           NEW q \in 0 .. n - 1, NEW nul \in 0 .. n - 1, NEW p, p = start + q,
           NEW len, len = nul - q
    PROVE  SameString(buf, q, m, p, len)
  <1>1. buf \in [0 .. n - 1 -> Byte] /\ \A i \in 0 .. n - 1 : buf[i] = m[start + i]
    BY ReadBytes, ZenonT(60) DEF uc_mem_read
  <1>2. q \in Int /\ len \in Int /\ p \in Int /\ q + len = nul
    OBVIOUS
  <1>3. CASE len < 4
    BY <1>2, <1>3 DEF IsString, SameString
  <1>4. CASE len >= 4
    <2>1. \A i \in 0 .. len : /\ q + i \in 0 .. n - 1 /\ start + (q + i) = p + i
                              /\ buf[q + i] = m[p + i]
      <3> SUFFICES ASSUME NEW i \in 0 .. len
                   PROVE  /\ q + i \in 0 .. n - 1 /\ start + (q + i) = p + i
                          /\ buf[q + i] = m[p + i]
        OBVIOUS
      <3>1. q + i \in 0 .. n - 1 /\ start + (q + i) = p + i
        BY <1>2
      <3> QED
        BY <1>1, <3>1
    <2>2. q .. q + len \subseteq DOMAIN buf
      BY <1>1, <1>2
    <2>3. p .. p + len \subseteq DOMAIN m
      <3>1. \A a \in p .. p + len : a \in start .. start + n - 1
        BY <1>2
      <3> QED
        BY <3>1 DEF Has
    <2>4. (\A a \in q .. q + len - 1 : is_ascii_printable(buf[a]))
            <=> (\A a \in p .. p + len - 1 : is_ascii_printable(m[a]))
      <3>1. ASSUME \A a \in q .. q + len - 1 : is_ascii_printable(buf[a]), NEW a \in p .. p + len - 1
            PROVE  is_ascii_printable(m[a])
        <4> DEFINE i == a - p
        <4>1. i \in 0 .. len /\ q + i \in q .. q + len - 1 /\ p + i = a
          BY <1>2
        <4> HIDE DEF i
        <4> QED
          BY <2>1, <3>1, <4>1
      <3>2. ASSUME \A a \in p .. p + len - 1 : is_ascii_printable(m[a]), NEW a \in q .. q + len - 1
            PROVE  is_ascii_printable(buf[a])
        <4> DEFINE i == a - q
        <4>1. i \in 0 .. len /\ p + i \in p .. p + len - 1 /\ q + i = a
          BY <1>2
        <4> HIDE DEF i
        <4>2. is_ascii_printable(m[p + i])
          BY <3>2, <4>1
        <4> QED
          BY <2>1, <4>1, <4>2
      <3> QED
        BY <3>1, <3>2
    <2>5. buf[q + len] = m[p + len]
      <3>1. len \in 0 .. len
        BY <1>2, <1>4
      <3> QED
        BY <2>1, <3>1
    <2>6. IsString(buf, q, len) <=> IsString(m, p, len)
      BY <2>2, <2>3, <2>4, <2>5 DEF IsString
    <2>7. ASSUME IsString(m, p, len) PROVE Shown(buf, q, len) = Shown(m, p, len)
      <3>1. len \in Nat
        BY <1>2, <1>4
      <3>2. \A a \in p .. p + len - 1 : m[a] \in Printable
        BY <2>7 DEF IsString, is_ascii_printable, Printable
      <3>3. \A a \in q .. q + len - 1 : buf[a] \in Printable
        BY <2>4, <2>7 DEF IsString, is_ascii_printable, Printable
      <3>4. Text(buf, q, len) = Text(m, p, len)
        <4>1. \A k \in 1 .. len : buf[q + k - 1] = m[p + k - 1]
          <5> SUFFICES ASSUME NEW k \in 1 .. len PROVE buf[q + k - 1] = m[p + k - 1]
            OBVIOUS
          <5>1. k - 1 \in 0 .. len /\ q + (k - 1) = q + k - 1 /\ p + (k - 1) = p + k - 1
            BY <1>2, <3>1
          <5> QED
            BY <2>1, <5>1
        <4> QED
          BY <4>1 DEF Text
      <3> QED
        BY <1>2, <3>1, <3>2, <3>3, <3>4, ShownText
    <2> QED
      BY <2>6, <2>7 DEF SameString
  <1> QED
    BY <1>2, <1>3, <1>4

\* The scan of a part of memory lists its strings, and only strings.
LEMMA ScanRegion ==
    ASSUME NEW D, D \subseteq Int, NEW m \in [D -> Byte], NEW start \in Int, NEW n \in Nat,
           Has(m, start, n), NEW list, ListOK(list), NEW after,
           after = scan_buffer_for_strings(list, start, uc_mem_read(m, start, n), n)
    PROVE  Grows(list, after, m) /\ AllListed(after, m, start, start + n)
  <1> DEFINE buf == uc_mem_read(m, start, n)
  <1>1. buf \in [0 .. n - 1 -> Byte] /\ \A i \in 0 .. n - 1 : buf[i] = m[start + i]
    BY ReadBytes, ZenonT(60) DEF uc_mem_read
  <1>2. after = scan_buffer_for_strings(list, start, buf, n) /\ buf = uc_mem_read(m, start, n)
    OBVIOUS
  <1> HIDE DEF buf
  <1>3. /\ ListOK(after) /\ list \subseteq after
        /\ Found(list, after, start, buf, n) /\ Covered(after, buf, n, n)
    BY <1>1, <1>2, ScanBuffer
  <1>4. \A q \in 0 .. n - 1, nul \in 0 .. n - 1 :
           /\ IsString(buf, q, nul - q) <=> IsString(m, start + q, nul - q)
           /\ IsString(m, start + q, nul - q) =>
                 Shown(buf, q, nul - q) = Shown(m, start + q, nul - q)
    <2> SUFFICES ASSUME NEW q \in 0 .. n - 1, NEW nul \in 0 .. n - 1, NEW p, p = start + q,
                        NEW len, len = nul - q
                 PROVE  SameString(buf, q, m, p, len)
      BY DEF SameString
    <2> QED
      BY <1>2, BufferStrings
  <1>5. ASSUME NEW e \in after \ list
        PROVE  \E nul \in DOMAIN m :
                  IsString(m, e.ptr, nul - e.ptr) /\ Shown(m, e.ptr, nul - e.ptr) = e.data
    <2>1. PICK q \in 0 .. n - 1, nul \in 0 .. n - 1 :
             IsString(buf, q, nul - q) /\ e.ptr = start + q /\ e.data = Shown(buf, q, nul - q)
      BY <1>3 DEF Found
    <2>2. /\ start + nul \in start .. start + n - 1
          /\ (start + nul) - (start + q) = nul - q
      OBVIOUS
    <2>3. start + nul \in DOMAIN m
      BY <2>2 DEF Has
    <2>4. IsString(m, e.ptr, nul - q) /\ Shown(m, e.ptr, nul - q) = e.data
      BY <1>4, <2>1
    <2> QED
      BY <2>1, <2>2, <2>3, <2>4
  <1>6. AllListed(after, m, start, start + n)
    <2> SUFFICES ASSUME NEW p \in start .. start + n - 1, NEW end \in p + 4 .. start + n - 1,
                        IsString(m, p, end - p), p = start \/ ~is_ascii_printable(m[p - 1])
                 PROVE  Listed(after, m, p, end - p)
      BY DEF AllListed
    <2> DEFINE q == p - start
               nul == end - start
    <2>1. /\ q \in 0 .. n - 1 /\ nul \in q + 4 .. n - 1 /\ nul \in 0 .. n - 1 /\ q < n
          /\ start + q = p /\ nul - q = end - p
      OBVIOUS
    <2>2. q = 0 \/ ~is_ascii_printable(buf[q - 1])
      <3>1. CASE p = start
        BY <2>1, <3>1
      <3>2. CASE p # start
        <4>1. q - 1 \in 0 .. n - 1 /\ start + (q - 1) = p - 1
          BY <3>2
        <4> QED
          BY <1>1, <3>2, <4>1
      <3> QED
        BY <3>1, <3>2
    <2> HIDE DEF q, nul
    <2>3. IsString(buf, q, nul - q) /\ Shown(buf, q, nul - q) = Shown(m, p, end - p)
      BY <1>4, <2>1
    <2>4. Listed(after, buf, q, nul - q)
      BY <1>3, <2>1, <2>2, <2>3 DEF Covered
    <2> QED
      BY <2>3, <2>4 DEF Listed
  <1> QED
    BY <1>3, <1>5, <1>6 DEF Grows

\* A scan that fails to read leaves the list.
LEMMA ScanMemory ==
    ASSUME NEW D, D \subseteq Int, NEW m \in [D -> Byte], NEW start \in Int, NEW n \in Nat,
           NEW list, ListOK(list), NEW after, after = scan_memory(list, m, start, n)
    PROVE  /\ Grows(list, after, m)
           /\ Has(m, start, n) => AllListed(after, m, start, start + n)
  <1>1. CASE Has(m, start, n)
    BY <1>1, ScanRegion DEF scan_memory
  <1>2. CASE ~Has(m, start, n)
    BY <1>2 DEF scan_memory, Grows
  <1> QED
    BY <1>1, <1>2

-----------------------------------------------------------------------------
(* Several scans *)

Lists == {l \in SUBSET Entries : ListOK(l)}

\* The lists after each of N scans; scan n is made, of size[n] bytes from place[n] on, if n
\* is in chosen.
ScanEach(f, N, list, m, chosen, place, size) ==
    /\ f[0] = list
    /\ \A n \in 1 .. N : f[n] = IF n \in chosen THEN scan_memory(f[n - 1], m, place[n], size[n])
                                ELSE f[n - 1]

\* There are such lists.
LEMMA ScansExist ==
    ASSUME NEW D, D \subseteq Int, NEW m \in [D -> Byte], NEW N \in Nat, NEW chosen,
           NEW place \in [1 .. N -> Int], NEW size \in [1 .. N -> Nat], NEW list, ListOK(list)
    PROVE  \E f : f = [n \in 0 .. N |-> f[n]] /\ ScanEach(f, N, list, m, chosen, place, size)
  <1> DEFINE turn(l, n) == IF n \in chosen THEN scan_memory(l, m, place[n], size[n]) ELSE l
             next == [x \in Lists \X (1 .. N) |-> turn(x[1], x[2])]
  <1>1. list \in Lists
    BY DEF Lists, ListOK
  <1>2. ASSUME NEW l \in Lists, NEW n \in 1 .. N PROVE turn(l, n) \in Lists
    <2> DEFINE after == scan_memory(l, m, place[n], size[n])
    <2>1. ListOK(l) /\ place[n] \in Int /\ size[n] \in Nat
      BY DEF Lists
    <2>2. Grows(l, after, m)
      BY <2>1, ScanMemory
    <2>3. after \in Lists
      BY <2>2 DEF Grows, Lists, ListOK
    <2> HIDE DEF after
    <2> QED
      BY <2>3 DEF after
  <1>3. next \in [Lists \X (1 .. N) -> Lists]
    <2> HIDE DEF turn
    <2> QED
      BY <1>2
  <1> HIDE DEF next
  <1>4. PICK f : TurnsUpTo(N, f, Lists, list, next)
    BY <1>1, <1>3, LoopExists
  <1>5. ASSUME NEW n \in 1 .. N PROVE f[n] = turn(f[n - 1], n)
    <2>1. f[n] = next[<<f[n - 1], n>>] /\ f[n - 1] \in Lists
      BY <1>4 DEF TurnsUpTo
    <2> HIDE DEF turn
    <2> QED
      BY <2>1 DEF next
  <1>6. f = [n \in 0 .. N |-> f[n]] /\ f[0] = list
    BY <1>4 DEF TurnsUpTo
  <1>7. ScanEach(f, N, list, m, chosen, place, size)
    BY <1>5, <1>6 DEF ScanEach
  <1> QED
    BY <1>6, <1>7

\* All of them together.
LEMMA ScansGrow ==
    ASSUME NEW D, D \subseteq Int, NEW m \in [D -> Byte], NEW N \in Nat, NEW chosen,
           NEW place \in [1 .. N -> Int], NEW size \in [1 .. N -> Nat], NEW list, ListOK(list),
           NEW f, ScanEach(f, N, list, m, chosen, place, size)
    PROVE  /\ Grows(list, f[N], m)
           /\ \A n \in 1 .. N : n \in chosen /\ Has(m, place[n], size[n]) =>
                 AllListed(f[N], m, place[n], place[n] + size[n])
  <1> DEFINE Holds(l, n) == n \in chosen /\ Has(m, place[n], size[n]) =>
                               AllListed(l, m, place[n], place[n] + size[n])
             T == {n \in 0 .. N : Grows(list, f[n], m) /\ \A j \in 1 .. n : Holds(f[n], j)}
  <1>1. 0 \in T
    <2>1. f[0] = list
      BY DEF ScanEach
    <2>2. Grows(list, list, m)
      BY DEF Grows
    <2>3. 0 \in 0 .. N /\ 1 .. 0 = {}
      OBVIOUS
    <2> QED
      BY <2>1, <2>2, <2>3
  <1>2. ASSUME NEW n \in 1 .. N, n - 1 \in T PROVE n \in T
    <2> DEFINE old == f[n - 1]
               new == f[n]
    <2>1. new = IF n \in chosen THEN scan_memory(old, m, place[n], size[n]) ELSE old
      BY Zenon DEF ScanEach
    <2>2. Grows(list, old, m) /\ \A j \in 1 .. n - 1 : Holds(old, j)
      BY <1>2
    <2>3. ListOK(old) /\ place[n] \in Int /\ size[n] \in Nat
      BY <2>2 DEF Grows
    <2> HIDE DEF old, new
    <2>4. Grows(old, new, m) /\ Holds(new, n)
      <3>1. CASE n \in chosen
        BY <2>1, <2>3, <3>1, ScanMemory
      <3>2. CASE n \notin chosen
        BY <2>1, <2>3, <3>2 DEF Grows
      <3> QED
        BY <3>1, <3>2
    <2>5. Grows(list, new, m)
      BY <2>2, <2>4, GrowsTwice
    <2>6. ASSUME NEW j \in 1 .. n PROVE Holds(new, j)
      <3>1. CASE j = n
        BY <2>4, <3>1
      <3>2. CASE j # n
        <4>1. j \in 1 .. n - 1 /\ old \subseteq new
          BY <2>4, <3>2 DEF Grows
        <4>2. Holds(old, j)
          BY <2>2, <4>1
        <4> QED
          BY <4>1, <4>2, ListedMore
      <3> QED
        BY <3>1, <3>2
    <2>7. n \in 0 .. N
      OBVIOUS
    <2> HIDE DEF Holds
    <2> QED
      BY <2>5, <2>6, <2>7 DEF new
  <1> HIDE DEF T
  <1>3. 0 .. N \subseteq T
    BY <1>1, <1>2, IntervalInduction
  <1>4. N \in T
    BY <1>3
  <1> QED
    BY <1>4 DEF T

\* The scans of what the registers point to: all of them, each once.
LEMMA RegisterScans ==
    ASSUME NEW D, D \subseteq Int, NEW m \in [D -> Byte], NEW r \in [1 .. 4 -> Int],
           NEW list, ListOK(list), NEW after, after = dump_register_strings(list, m, r)
    PROVE  /\ Grows(list, after, m)
           /\ \A k \in 1 .. 4 : r[k] # 0 /\ Has(m, r[k], register_scan_size) =>
                 AllListed(after, m, r[k], r[k] + register_scan_size)
  <1> DEFINE scanned == {i \in DOMAIN r : r[i] # 0 /\ \A j \in 1 .. i - 1 : r[j] # r[i]}
             size == [i \in 1 .. 4 |-> register_scan_size]
             Body(g) == [i \in 0 .. 4 |->
                           IF i = 0 THEN list
                           ELSE IF i \in scanned THEN scan_memory(g[i - 1], m, r[i], register_scan_size)
                           ELSE g[i - 1]]
             loop == dumping_registers(list, m, r)
  <1>1. loop = CHOOSE g : g = Body(g)
    BY Zenon DEF dumping_registers
  <1> HIDE DEF scanned
  <1>2. size \in [1 .. 4 -> Nat] /\ \A i \in 1 .. 4 : size[i] = register_scan_size
    BY CollectionAssumption
  <1> HIDE DEF size
  <1>3. PICK f : f = [n \in 0 .. 4 |-> f[n]] /\ ScanEach(f, 4, list, m, scanned, r, size)
    BY <1>2, ScansExist
  <1>4. f = Body(f)
    <2>1. \A i \in 0 .. 4 : f[i] = IF i = 0 THEN list
                           ELSE IF i \in scanned THEN scan_memory(f[i - 1], m, r[i], register_scan_size)
                           ELSE f[i - 1]
      <3> SUFFICES ASSUME NEW i \in 1 .. 4
                   PROVE  f[i] = IF i \in scanned THEN scan_memory(f[i - 1], m, r[i], register_scan_size)
                                 ELSE f[i - 1]
        BY <1>3 DEF ScanEach
      <3> QED
        BY <1>2, <1>3 DEF ScanEach
    <2> QED
      BY <1>3, <2>1
  <1> HIDE DEF loop
  <1>5. loop = Body(loop)
    <2>1. \E g : g = Body(g)
      BY <1>4
    <2> HIDE DEF Body
    <2> QED
      BY <1>1, <2>1, Zenon
  <1>6. ScanEach(loop, 4, list, m, scanned, r, size)
    <2>1. \A i \in 0 .. 4 : loop[i] = IF i = 0 THEN list
                           ELSE IF i \in scanned THEN scan_memory(loop[i - 1], m, r[i], register_scan_size)
                           ELSE loop[i - 1]
      BY <1>5
    <2>2. 0 \in 0 .. 4 /\ \A i \in 1 .. 4 : i \in 0 .. 4 /\ i # 0
      OBVIOUS
    <2> QED
      BY <1>2, <2>1, <2>2 DEF ScanEach
  <1>7. after = loop[4]
    BY DEF dump_register_strings, loop
  <1>8. /\ Grows(list, after, m)
        /\ \A n \in 1 .. 4 : n \in scanned /\ Has(m, r[n], register_scan_size) =>
              AllListed(after, m, r[n], r[n] + register_scan_size)
    <2>1. 4 \in Nat
      OBVIOUS
    <2>2. /\ Grows(list, loop[4], m)
          /\ \A n \in 1 .. 4 : n \in scanned /\ Has(m, r[n], size[n]) =>
                AllListed(loop[4], m, r[n], r[n] + size[n])
      BY <1>2, <1>6, <2>1, ScansGrow
    <2> QED
      BY <1>2, <1>7, <2>2
  <1>9. ASSUME NEW k \in 1 .. 4, r[k] # 0 PROVE \E n \in scanned : r[n] = r[k] /\ n \in 1 .. 4
    <2> DEFINE same == {j \in 1 .. 4 : r[j] = r[k]}
    <2>1. same \subseteq Nat /\ same # {}
      OBVIOUS
    <2>2. PICK n \in same : \A j \in same : n <= j
      BY <2>1, LeastNatural
    <2>3. n \in 1 .. 4 /\ r[n] = r[k] /\ \A j \in 1 .. n - 1 : r[j] # r[k]
      <3>1. n \in 1 .. 4 /\ r[n] = r[k]
        BY <2>2
      <3>2. ASSUME NEW j \in 1 .. n - 1 PROVE r[j] # r[k]
        <4>1. j \in 1 .. 4 /\ ~(n <= j)
          BY <3>1
        <4> QED
          BY <2>2, <4>1
      <3> QED
        BY <3>1, <3>2
    <2>4. n \in scanned
      BY <1>9, <2>3 DEF scanned
    <2> QED
      BY <2>3, <2>4
  <1> QED
    BY <1>8, <1>9

\* Of two numbers, the smaller.
LEMMA MinOfTwo ==
    ASSUME NEW a \in Int, NEW b \in Int
    PROVE  Min({a, b}) = IF a <= b THEN a ELSE b
  <1>1. CASE a <= b
    <2>1. {a, b} \subseteq Int /\ a \in {a, b} /\ \A j \in {a, b} : a <= j
      BY <1>1
    <2> QED
      BY <1>1, <2>1, MinIs
  <1>2. CASE ~(a <= b)
    <2>1. {a, b} \subseteq Int /\ b \in {a, b} /\ \A j \in {a, b} : b <= j
      BY <1>2
    <2> QED
      BY <1>2, <2>1, MinIs
  <1> QED
    BY <1>1, <1>2

\* The scan of the used stack.
LEMMA StackScan ==
    ASSUME NEW m \in [DOMAIN Image -> Byte], rsp \in RspMenu,
           NEW list, ListOK(list), NEW after, after = dump_stack_strings(list, m)
    PROVE  /\ Grows(list, after, m)
           /\ rsp \in stack_begin .. stack_base - 1 =>
                 AllListed(after, m, rsp, Min({stack_base, rsp + max_scan}))
  <1>1. /\ rsp \in Nat /\ stack_begin \in Nat /\ stack_base \in Nat /\ max_scan \in Nat
        /\ DOMAIN Image \subseteq Int /\ stack_begin .. stack_base - 1 \subseteq DOMAIN Image
    BY CollectionAssumption
  <1>2. CASE rsp < stack_begin \/ rsp >= stack_base
    <2>1. after = list
      BY <1>2 DEF dump_stack_strings
    <2>2. rsp \notin stack_begin .. stack_base - 1
      BY <1>1, <1>2
    <2> QED
      BY <2>1, <2>2 DEF Grows
  <1>3. CASE ~(rsp < stack_begin \/ rsp >= stack_base)
    <2> DEFINE n == Min({stack_base - rsp, max_scan})
    <2>1. /\ n = IF stack_base - rsp <= max_scan THEN stack_base - rsp ELSE max_scan
          /\ Min({stack_base, rsp + max_scan})
                = IF stack_base <= rsp + max_scan THEN stack_base ELSE rsp + max_scan
      BY <1>1, MinOfTwo
    <2>2. after = scan_buffer_for_strings(list, rsp, uc_mem_read(m, rsp, n), n)
      BY <1>3 DEF dump_stack_strings
    <2> HIDE DEF n
    <2>3. n \in Nat /\ n <= stack_base - rsp /\ Min({stack_base, rsp + max_scan}) = rsp + n
      BY <1>1, <1>3, <2>1
    <2>4. Has(m, rsp, n)
      <3>1. rsp .. rsp + n - 1 \subseteq stack_begin .. stack_base - 1
        BY <1>1, <1>3, <2>3
      <3> QED
        BY <1>1, <3>1 DEF Has
    <2>5. Grows(list, after, m) /\ AllListed(after, m, rsp, rsp + n)
      <3>1. rsp \in Int
        BY <1>1
      <3> QED
        BY <1>1, <2>2, <2>3, <2>4, <3>1, ScanRegion
    <2> QED
      BY <2>3, <2>5
  <1> QED
    BY <1>2, <1>3

\* Finitely many pages: after one of them there is an address that is none.
LEMMA RegionStops ==
    ASSUME NEW D, D \subseteq Nat, IsFiniteSet(D), NEW p \in D
    PROVE  \E n \in page_size .. (Cardinality(D) * page_size) : n % page_size = 0 /\ p + n \notin D
  <1> DEFINE C == Cardinality(D)
             page == [k \in 0 .. C |-> p + page_size * k]
  <1>1. C \in Nat /\ page_size \in Nat \ {0} /\ p \in Nat
    BY CollectionAssumption, FS_CardinalityType
  <1>2. CASE \E k \in 1 .. C : p + page_size * k \notin D
    <2>1. PICK k \in 1 .. C : p + page_size * k \notin D
      BY <1>2
    <2> DEFINE n == page_size * k
    <2>2. n \in Nat /\ n % page_size = 0
      BY <1>1, MultipleAligned
    <2>3. page_size <= n
      <3>1. page_size * 0 + page_size <= page_size * k
        <4>1. 0 \in Nat /\ k \in Nat /\ 0 < k
          OBVIOUS
        <4> QED
          BY <1>1, <4>1, MultiplesApart
      <3> QED
        BY <1>1, <3>1
    <2>4. n <= C * page_size
      <3>1. C * page_size = page_size * C
        BY <1>1
      <3>2. CASE k = C
        BY <1>1, <3>1, <3>2
      <3>3. CASE k # C
        <4>1. k \in Nat /\ k < C
          BY <1>1, <3>3
        <4>2. page_size * k \in Nat /\ page_size * k + page_size <= page_size * C
          BY <1>1, <4>1, MultiplesApart
        <4> QED
          BY <1>1, <3>1, <4>2
      <3> QED
        BY <3>2, <3>3
    <2>5. C * page_size \in Nat
      BY <1>1
    <2> HIDE DEF n, C
    <2>6. n \in page_size .. C * page_size
      BY <1>1, <2>2, <2>3, <2>4, <2>5
    <2> QED
      BY <2>1, <2>2, <2>6 DEF n, C
  <1>3. CASE \A k \in 1 .. C : p + page_size * k \in D
    <2>1. page \in [0 .. C -> D]
      <3> SUFFICES ASSUME NEW k \in 0 .. C PROVE p + page_size * k \in D
        OBVIOUS
      <3>1. CASE k = 0
        BY <1>1, <3>1
      <3>2. CASE k # 0
        BY <1>3, <3>2
      <3> QED
        BY <3>1, <3>2
    <2>2. IsFiniteSet(0 .. C) /\ Cardinality(0 .. C) = C + 1
      <3>1. 0 \in Int /\ C \in Int /\ C - 0 + 1 = C + 1 /\ ~(0 > C)
        BY <1>1
      <3> HIDE DEF C
      <3> QED
        BY <3>1, FS_Interval
    <2>3. Cardinality(D) < Cardinality(0 .. C)
      BY <1>1, <2>2
    <2>4. PICK x, y \in 0 .. C : x # y /\ page[x] = page[y]
      <3> HIDE DEF page
      <3> HIDE DEF C
      <3> QED
        BY <2>1, <2>2, <2>3, FS_PigeonHole
    <2>5. x \in Nat /\ y \in Nat /\ page[x] = p + page_size * x /\ page[y] = p + page_size * y
      OBVIOUS
    <2>6. page_size * x \in Nat /\ page_size * y \in Nat
      BY <1>1, <2>5
    <2>7. ~(x < y)
      <3> SUFFICES ASSUME x < y PROVE FALSE
        OBVIOUS
      <3>1. page_size * x + page_size <= page_size * y
        BY <1>1, <2>5, MultiplesApart
      <3> QED
        BY <1>1, <2>4, <2>5, <2>6, <3>1
    <2>8. ~(y < x)
      <3> SUFFICES ASSUME y < x PROVE FALSE
        OBVIOUS
      <3>1. page_size * y + page_size <= page_size * x
        BY <1>1, <2>5, MultiplesApart
      <3> QED
        BY <1>1, <2>4, <2>5, <2>6, <3>1
    <2> QED
      BY <2>4, <2>5, <2>7, <2>8
  <1> QED
    BY <1>2, <1>3

DirtyOK ==
    /\ dirty_pages \subseteq Nat /\ IsFiniteSet(dirty_pages)
    /\ \A p \in dirty_pages : p % page_size = 0

\* A region is the pages up to the first that is not dirty.
LEMMA RegionSize ==
    ASSUME DirtyOK, NEW p \in dirty_pages
    PROVE  /\ region_size(p) \in Nat /\ region_size(p) >= page_size
           /\ region_size(p) % page_size = 0 /\ p + region_size(p) \notin dirty_pages
           /\ \A k \in 1 .. region_size(p) - 1 : page_of(p + k) \in dirty_pages
           /\ page_of(p + region_size(p)) \notin dirty_pages
  <1> DEFINE top == Cardinality(dirty_pages) * page_size
             stops == {n \in page_size .. top : n % page_size = 0 /\ p + n \notin dirty_pages}
             size == region_size(p)
  <1>1. /\ Cardinality(dirty_pages) \in Nat /\ page_size \in Nat \ {0} /\ p \in Nat
        /\ p % page_size = 0
    BY CollectionAssumption, FS_CardinalityType DEF DirtyOK
  <1>2. page_size \in Int /\ top \in Int
    BY <1>1
  <1>3. stops # {}
    BY RegionStops DEF DirtyOK
  <1>4. size = Min(stops)
    BY DEF region_size
  <1> HIDE DEF top, size
  <1>5. size \in stops /\ \A n \in stops : size <= n
    <2>1. stops \subseteq page_size .. top
      OBVIOUS
    <2> HIDE DEF stops
    <2>2. /\ Min(stops) \in stops /\ \A k \in stops : Min(stops) <= k
      BY <1>2, <1>3, <2>1, IntervalEnds, Zenon
    <2> QED
      BY <1>4, <2>2
  <1>6. size \in Nat /\ size >= page_size /\ size <= top /\ size % page_size = 0 /\ p + size \notin dirty_pages
    BY <1>1, <1>2, <1>5
  <1>7. ASSUME NEW k \in 1 .. size - 1 PROVE page_of(p + k) \in dirty_pages
    <2> DEFINE low == k - (k % page_size)
    <2>1. k \in Nat /\ k < size
      BY <1>6
    <2>2. low \in Nat /\ low % page_size = 0 /\ low <= k
      BY <1>1, <2>1, MaskAligned
    <2>3. page_of(p + k) = p + low
      <3>1. (p + k) % page_size = k % page_size
        BY <1>1, <2>1, AlignedShift
      <3>2. k % page_size \in Int
        BY <1>1, <2>1
      <3> QED
        BY <1>1, <2>1, <3>1, <3>2 DEF page_of
    <2> HIDE DEF low
    <2>4. CASE low = 0
      BY <1>1, <2>3, <2>4
    <2>5. CASE low # 0
      <3>1. page_size <= low
        <4>1. 0 \in Nat /\ 0 % page_size = 0 /\ 0 < low /\ 0 + page_size = page_size
          BY <1>1, <2>2, <2>5
        <4> QED
          BY <1>1, <2>2, <4>1, AlignedApart
      <3>2. low \in page_size .. top /\ ~(size <= low)
        BY <1>1, <1>2, <1>6, <2>1, <2>2, <3>1
      <3>3. low \notin stops
        BY <1>5, <3>2
      <3> QED
        BY <2>2, <2>3, <3>2, <3>3
    <2> QED
      BY <2>4, <2>5
  <1>8. page_of(p + size) = p + size
    <2>1. (p + size) % page_size = 0 /\ p + size \in Nat
      <3>1. size \in Nat /\ size % page_size = 0
        BY <1>6
      <3>2. p + size \in Nat
        BY <1>1, <3>1
      <3>3. (p + size) % page_size = 0
        BY <1>1, <3>1, AlignedSum, Zenon
      <3> QED
        BY <3>2, <3>3
    <2> QED
      BY <2>1 DEF page_of
  <1> QED
    BY <1>6, <1>7, <1>8 DEF size

\* The bytes of a region that are scanned are those TrackedStringsListed asks for.
LEMMA RegionEnds ==
    ASSUME DirtyOK, NEW p \in dirty_pages, dirty_pages' = dirty_pages
    PROVE  /\ Min({region_size(p), max_region_scan}) \in Nat
           /\ RegionEnd(p) = p + Min({region_size(p), max_region_scan})
  <1> DEFINE size == region_size(p)
             ends == {max_region_scan} \cup
                        {n \in 1 .. max_region_scan : page_of(p + n) \notin dirty_pages}
  <1>1. /\ size \in Nat /\ size >= page_size /\ page_of(p + size) \notin dirty_pages
        /\ \A k \in 1 .. size - 1 : page_of(p + k) \in dirty_pages
    BY RegionSize
  <1>2. /\ max_region_scan \in Nat /\ page_size >= 1 /\ ends \subseteq Int
        /\ RegionEnd(p) = p + Min(ends)
    BY CollectionAssumption DEF RegionEnd
  <1> HIDE DEF size
  <1>3. Min({size, max_region_scan}) = IF size <= max_region_scan THEN size ELSE max_region_scan
    BY <1>1, <1>2, MinOfTwo
  <1>4. \A n \in 1 .. max_region_scan : page_of(p + n) \notin dirty_pages => n >= size
    <2> SUFFICES ASSUME NEW n \in 1 .. max_region_scan, page_of(p + n) \notin dirty_pages
                 PROVE  n >= size
      OBVIOUS
    <2>1. n \notin 1 .. size - 1
      BY <1>1
    <2> QED
      BY <1>1, <2>1
  <1>5. CASE size <= max_region_scan
    <2>1. size \in ends
      <3>1. size \in 1 .. max_region_scan
        BY <1>1, <1>2, <1>5, CollectionAssumption
      <3> QED
        BY <1>1, <3>1
    <2>2. \A j \in ends : size <= j
      BY <1>4, <1>5
    <2> HIDE DEF ends
    <2>3. Min(ends) = size
      BY <1>2, <2>1, <2>2, MinIs
    <2> QED
      BY <1>1, <1>2, <1>3, <1>5, <2>3 DEF size
  <1>6. CASE ~(size <= max_region_scan)
    <2>1. max_region_scan \in ends
      OBVIOUS
    <2>2. \A j \in ends : max_region_scan <= j
      BY <1>1, <1>2, <1>4, <1>6
    <2> HIDE DEF ends
    <2>3. Min(ends) = max_region_scan
      BY <1>2, <2>1, <2>2, MinIs
    <2> QED
      BY <1>2, <1>3, <1>6, <2>3 DEF size
  <1> QED
    BY <1>5, <1>6

\* The scans of the regions.
LEMMA RegionScans ==
    ASSUME DirtyOK, NEW D, D \subseteq Int, NEW m \in [D -> Byte], NEW list, ListOK(list),
           NEW after, after = dump_tracked_writes(list, m)
    PROVE  /\ Grows(list, after, m)
           /\ \A p \in region_starts : \A n \in Nat :
                 n = Min({region_size(p), max_region_scan}) /\ Has(m, p, n) =>
                    AllListed(after, m, p, p + n)
  <1> DEFINE N == Cardinality(region_starts)
             start(n) == CHOOSE p \in region_starts :
                            Cardinality({q \in region_starts : q < p}) = n - 1
             bytes(p) == Min({region_size(p), max_region_scan})
             place == [n \in 1 .. N |-> start(n)]
             size == [n \in 1 .. N |-> bytes(start(n))]
             Body(g) == [n \in 0 .. N |->
                           IF n = 0 THEN list
                           ELSE scan_memory(g[n - 1], m, start(n), bytes(start(n)))]
             loop == dumping_regions(list, m)
  <1>1. loop = CHOOSE g : g = Body(g)
    BY Zenon DEF dumping_regions
  <1> HIDE DEF loop
  <1>2. /\ region_starts \subseteq Int /\ IsFiniteSet(region_starts) /\ N \in Nat
        /\ \A p \in region_starts : p \in dirty_pages
    <2>1. region_starts \subseteq dirty_pages
      BY DEF region_starts
    <2>2. dirty_pages \subseteq Nat /\ IsFiniteSet(dirty_pages)
      BY DEF DirtyOK
    <2>3. IsFiniteSet(region_starts) /\ N \in Nat
      BY <2>1, <2>2, FS_Subset, FS_CardinalityType
    <2> QED
      BY <2>1, <2>2, <2>3
  <1>3. \A p : {q \in region_starts : q < p} = MembersBelow(region_starts, p)
    BY DEF MembersBelow
  <1>4. ASSUME NEW n \in 1 .. N
        PROVE  /\ start(n) \in region_starts
               /\ Cardinality(MembersBelow(region_starts, start(n))) = n - 1
    <2>1. n - 1 \in 0 .. N - 1
      BY <1>2
    <2>2. \E p \in region_starts : Cardinality(MembersBelow(region_starts, p)) = n - 1
      BY <1>2, <2>1, RankOnto
    <2> QED
      BY <1>3, <2>2, Zenon
  <1>5. ASSUME NEW p \in region_starts
        PROVE  \E n \in 1 .. N : start(n) = p
    <2> DEFINE n == Cardinality(MembersBelow(region_starts, p)) + 1
    <2>1. n \in 1 .. N /\ n - 1 = Cardinality(MembersBelow(region_starts, p))
      <3>1. Cardinality(MembersBelow(region_starts, p)) \in 0 .. N - 1
        BY <1>2, RankRange
      <3> QED
        BY <1>2, <3>1
    <2> HIDE DEF n
    <2> DEFINE q == start(n)
    <2>2. /\ q \in region_starts
          /\ Cardinality(MembersBelow(region_starts, q)) = Cardinality(MembersBelow(region_starts, p))
      BY <1>4, <2>1
    <2> HIDE DEF q
    <2>3. p \in Int /\ q \in Int /\ Cardinality(MembersBelow(region_starts, p)) \in Int
      BY <1>2, <2>1, <2>2
    <2>4. ~(p < q)
      <3> SUFFICES ASSUME p < q PROVE FALSE
        OBVIOUS
      <3>1. Cardinality(MembersBelow(region_starts, p)) < Cardinality(MembersBelow(region_starts, q))
        BY <1>2, <2>2, RankMonotone
      <3> QED
        BY <2>2, <2>3, <3>1
    <2>5. ~(q < p)
      <3> SUFFICES ASSUME q < p PROVE FALSE
        OBVIOUS
      <3>1. Cardinality(MembersBelow(region_starts, q)) < Cardinality(MembersBelow(region_starts, p))
        BY <1>2, <2>2, RankMonotone
      <3> QED
        BY <2>2, <2>3, <3>1
    <2>6. p = q
      BY <2>3, <2>4, <2>5
    <2> QED
      BY <2>1, <2>6 DEF q
  <1>6. \A p \in region_starts : bytes(p) \in Nat
    <2> SUFFICES ASSUME NEW p \in region_starts PROVE bytes(p) \in Nat
      OBVIOUS
    <2>1. region_size(p) \in Nat /\ max_region_scan \in Nat
      BY <1>2, RegionSize, CollectionAssumption
    <2> QED
      BY <2>1, MinOfTwo
  <1> HIDE DEF start, bytes, N
  <1>7. /\ place \in [1 .. N -> Int] /\ \A n \in 1 .. N : place[n] = start(n)
        /\ size \in [1 .. N -> Nat] /\ \A n \in 1 .. N : size[n] = bytes(start(n))
    BY <1>2, <1>4, <1>6
  <1> HIDE DEF place, size
  <1>8. PICK f : f = [n \in 0 .. N |-> f[n]] /\ ScanEach(f, N, list, m, 1 .. N, place, size)
    BY <1>2, <1>7, ScansExist
  <1>9. f = Body(f)
    <2>1. f[0] = list
      BY <1>8 DEF ScanEach
    <2>2. \A n \in 1 .. N : f[n] = scan_memory(f[n - 1], m, start(n), bytes(start(n)))
      BY <1>7, <1>8 DEF ScanEach
    <2>3. \A n \in 0 .. N : n # 0 => n \in 1 .. N
      BY <1>2
    <2>4. \A n \in 0 .. N : f[n] = IF n = 0 THEN list
                                   ELSE scan_memory(f[n - 1], m, start(n), bytes(start(n)))
      BY <2>1, <2>2, <2>3
    <2> QED
      BY <1>8, <2>4
  <1>10. loop = Body(loop)
    <2>1. \E g : g = Body(g)
      BY <1>9
    <2> HIDE DEF Body
    <2> QED
      BY <1>1, <2>1, Zenon DEF Body, N, start, bytes
  <1>11. ScanEach(loop, N, list, m, 1 .. N, place, size)
    <2>1. \A n \in 0 .. N : loop[n] = IF n = 0 THEN list
                                      ELSE scan_memory(loop[n - 1], m, start(n), bytes(start(n)))
      BY <1>10
    <2>2. 0 \in 0 .. N /\ \A n \in 1 .. N : n \in 0 .. N /\ n # 0
      BY <1>2
    <2> QED
      BY <1>7, <2>1, <2>2 DEF ScanEach
  <1>12. after = loop[N]
    BY DEF dump_tracked_writes, loop, N
  <1>13. /\ Grows(list, loop[N], m)
         /\ \A n \in 1 .. N : n \in 1 .. N /\ Has(m, place[n], size[n]) =>
               AllListed(loop[N], m, place[n], place[n] + size[n])
    BY <1>2, <1>7, <1>11, ScansGrow
  <1>14. ASSUME NEW p \in region_starts, NEW k \in Nat,
                k = Min({region_size(p), max_region_scan}), Has(m, p, k)
         PROVE  AllListed(after, m, p, p + k)
    <2>1. PICK n \in 1 .. N : start(n) = p
      BY <1>5
    <2>2. place[n] = p /\ size[n] = k
      BY <1>7, <1>14, <2>1 DEF bytes
    <2> QED
      BY <1>12, <1>13, <1>14, <2>2
  <1> QED
    BY <1>12, <1>13, <1>14

-----------------------------------------------------------------------------
(* The collection *)

\* The inductive invariant.  The list is what TypeOK says because it is never shortened:
\* the scans rely on it when they leave out what is listed.
IInv ==
    /\ setting \in Settings /\ MemInv /\ DirtyOK
    /\ ~setting.tracking => dirty_pages = {}
    /\ regs \in [1 .. 4 -> Int] /\ rsp \in RspMenu
    /\ ListOK(string_list_)

\* The list before an instruction executes.
LEMMA ScanBefore ==
    ASSUME IInv, NEW c \in BOOLEAN, NEW d \in BOOLEAN, NEW r \in [1 .. 4 -> Int],
           NEW after, after = scan_before(c, d, r)
    PROVE  /\ Grows(string_list_, after, mem)
           /\ setting.tracking /\ c => after = dump_tracked_writes(string_list_, mem)
           /\ ~setting.tracking /\ d =>
                 /\ rsp \in stack_begin .. stack_base - 1 =>
                       AllListed(after, mem, rsp, Min({stack_base, rsp + max_scan}))
                 /\ setting.registers =>
                       \A k \in 1 .. 4 : r[k] # 0 /\ Has(mem, r[k], register_scan_size) =>
                          AllListed(after, mem, r[k], r[k] + register_scan_size)
  <1> DEFINE list == string_list_
             stack == dump_stack_strings(list, mem)
             all == dump_register_strings(stack, mem, r)
             tracked == dump_tracked_writes(list, mem)
  <1>1. /\ DirtyOK /\ mem \in [DOMAIN Image -> Byte] /\ DOMAIN Image \subseteq Int
        /\ rsp \in RspMenu /\ ListOK(list)
    <2>1. DOMAIN Image \subseteq Int
      BY CollectionAssumption
    <2> QED
      BY <2>1 DEF IInv, MemInv
  <1>2. Grows(list, list, mem)
    BY <1>1 DEF Grows
  <1>3. Grows(list, tracked, mem)
    BY <1>1, RegionScans
  <1>4. /\ Grows(list, stack, mem)
        /\ rsp \in stack_begin .. stack_base - 1 =>
              AllListed(stack, mem, rsp, Min({stack_base, rsp + max_scan}))
    BY <1>1, StackScan
  <1>5. ListOK(stack)
    BY <1>4 DEF Grows
  <1> HIDE DEF stack
  <1>6. /\ Grows(stack, all, mem)
        /\ \A k \in 1 .. 4 : r[k] # 0 /\ Has(mem, r[k], register_scan_size) =>
              AllListed(all, mem, r[k], r[k] + register_scan_size)
    BY <1>1, <1>5, RegisterScans
  <1>7. after = IF setting.tracking THEN IF c THEN tracked ELSE list
                ELSE IF ~d THEN list
                ELSE IF setting.registers THEN all ELSE stack
    BY DEF scan_before, stack
  <1> HIDE DEF all, tracked
  <1>8. CASE setting.tracking
    BY <1>2, <1>3, <1>7, <1>8 DEF tracked
  <1>9. CASE ~setting.tracking /\ ~d
    BY <1>2, <1>7, <1>9
  <1>10. CASE ~setting.tracking /\ d /\ ~setting.registers
    BY <1>4, <1>7, <1>10
  <1>11. CASE ~setting.tracking /\ d /\ setting.registers
    <2>1. after = all /\ stack \subseteq all
      BY <1>6, <1>7, <1>11 DEF Grows
    <2>2. Grows(list, after, mem)
      BY <1>4, <1>6, <2>1, GrowsTwice
    <2>3. rsp \in stack_begin .. stack_base - 1 =>
             AllListed(after, mem, rsp, Min({stack_base, rsp + max_scan}))
      BY <1>4, <2>1, ListedMore
    <2> QED
      BY <1>6, <1>11, <2>1, <2>2, <2>3
  <1> QED
    BY <1>8, <1>9, <1>10, <1>11

\* The pages a store marks.
LEMMA StoredPages ==
    ASSUME NEW a \in Nat, NEW n \in Nat
    PROVE  LET pages == {page_of(x) : x \in a .. a + n - 1}
           IN pages \subseteq Nat /\ IsFiniteSet(pages) /\ \A p \in pages : p % page_size = 0
  <1> DEFINE pages == {page_of(x) : x \in a .. a + n - 1}
  <1>1. ASSUME NEW x \in a .. a + n - 1
        PROVE  page_of(x) \in Nat /\ page_of(x) % page_size = 0 /\ page_of(x) <= a + n
    <2>1. x \in Nat /\ page_size \in Nat \ {0}
      BY CollectionAssumption
    <2>2. page_of(x) \in Nat /\ page_of(x) % page_size = 0 /\ page_of(x) <= x
      BY <2>1, MaskAligned DEF page_of
    <2> QED
      BY <2>2
  <1>2. IsFiniteSet(pages)
    <2>1. pages \in SUBSET Nat /\ a + n \in Nat /\ \A p \in pages : p <= a + n
      BY <1>1
    <2> HIDE DEF pages
    <2> QED
      BY <2>1, FS_BoundedSetOfNaturals
  <1> QED
    BY <1>1, <1>2

\* Loading arguments leaves four integers in the registers.
LEMMA LoadedRegs ==
    ASSUME IInv, NEW g \in [1 .. 3 -> Nat]
    PROVE  Loaded(g) \in [1 .. 4 -> Int]
  <1>1. regs[1] \in Int /\ g[1] \in Int /\ g[2] \in Int /\ g[3] \in Int
    BY DEF IInv
  <1>2. <<regs[1], g[1], g[2], g[3]>> \in Seq(Int) /\ Len(<<regs[1], g[1], g[2], g[3]>>) = 4
    BY <1>1
  <1> QED
    BY <1>2 DEF Loaded

\* What a call of an import does to the registers and to the list.
LEMMA CallScans ==
    ASSUME IInv, NEW c \in CallMenu, ExternalCall(c[1], c[2])
    PROVE  LET r == Loaded(c[2])
               before == scan_before(TRUE, TRUE, r)
           IN /\ r \in [1 .. 4 -> Int] /\ regs' \in [1 .. 4 -> Int]
              /\ Grows(string_list_, before, mem)
              /\ setting.tracking => string_list_' = dump_tracked_writes(before, mem')
              /\ ~setting.tracking => string_list_' = before
              /\ Grows(before, string_list_', mem')
  <1> DEFINE name == c[1]
             g == c[2]
             r == Loaded(g)
             before == scan_before(TRUE, TRUE, r)
             stubs == IF setting.stubs THEN find_stub(name) ELSE {}
             p == CHOOSE q \in stubs : TRUE
             done == IF stubs = {} THEN Done(mem, 0) ELSE stub_table(p[1], mem, g)
  <1>1. g \in [1 .. 3 -> Nat] /\ DOMAIN Image \subseteq Int
    BY CollectionAssumption
  <1>2. g[1] \in Nat /\ g[2] \in Nat /\ g[3] \in Nat
    BY <1>1
  <1>3. r \in [1 .. 4 -> Int]
    BY <1>1, LoadedRegs
  <1>4. Grows(string_list_, before, mem)
    <2>1. TRUE \in BOOLEAN
      OBVIOUS
    <2> HIDE DEF r
    <2> QED
      BY <1>3, <2>1, ScanBefore
  <1>5. /\ mem' = done.mem
        /\ regs' = IF done.ret = Kept THEN r ELSE [r EXCEPT ![1] = done.ret]
        /\ string_list_' = IF setting.tracking THEN dump_tracked_writes(before, done.mem) ELSE before
    BY Zenon DEF ExternalCall
  <1>6. done.ret \in Int
    <2>1. Done(mem, 0).ret \in Int
      BY DEF Done
    <2>2. stub_table(p[1], mem, g).ret \in Int
      <3> HIDE DEF p, g
      <3> QED
        BY <1>2, StubReturns
    <2> QED
      BY <2>1, <2>2
  <1> HIDE DEF r, before, done
  <1>7. regs' \in [1 .. 4 -> Int]
    BY <1>3, <1>5, <1>6
  <1>8. MemInv'
    BY CallChanges DEF IInv
  <1>9. Grows(before, string_list_', mem')
    <2>1. ListOK(before)
      BY <1>4 DEF Grows
    <2>2. CASE setting.tracking
      <3>1. DirtyOK /\ mem' \in [DOMAIN Image -> Byte]
        BY <1>8 DEF IInv, MemInv
      <3>2. string_list_' = dump_tracked_writes(before, mem')
        BY <1>5, <2>2
      <3> QED
        BY <1>1, <2>1, <3>1, <3>2, RegionScans
    <2>3. CASE ~setting.tracking
      <3>1. string_list_' = before
        BY <1>5, <2>3
      <3> QED
        BY <2>1, <3>1 DEF Grows
    <2> QED
      BY <2>2, <2>3
  <1>10. /\ setting.tracking => string_list_' = dump_tracked_writes(before, mem')
         /\ ~setting.tracking => string_list_' = before
    BY <1>5
  <1> QED
    BY <1>3, <1>4, <1>7, <1>9, <1>10 DEF r, before

\* Every step scans memory as it was, and then as it is.
LEMMA StepScans ==
    ASSUME IInv, Next
    PROVE  \E between : Grows(string_list_, between, mem) /\ Grows(between, string_list_', mem')
  <1>0. /\ regs \in [1 .. 4 -> Int] /\ DirtyOK /\ ListOK(string_list_)
        /\ mem \in [DOMAIN Image -> Byte] /\ DOMAIN Image \subseteq Int
        /\ TRUE \in BOOLEAN /\ FALSE \in BOOLEAN
    BY CollectionAssumption, SMTT(60) DEF IInv, MemInv
  <1>1. ASSUME NEW list, Grows(string_list_, list, mem), string_list_' = list
        PROVE  \E between : Grows(string_list_, between, mem) /\ Grows(between, string_list_', mem')
    <2>1. Grows(list, string_list_', mem')
      BY <1>1 DEF Grows
    <2> QED
      BY <1>1, <2>1
  <1>2. ASSUME NEW s \in StoreMenu, Store(s[1], s[2])
        PROVE  \E between : Grows(string_list_, between, mem) /\ Grows(between, string_list_', mem')
    <2> DEFINE list == scan_before(FALSE, FALSE, regs)
    <2>1. string_list_' = list
      BY <1>2 DEF Store
    <2>2. Grows(string_list_, list, mem)
      BY <1>0, ScanBefore
    <2> HIDE DEF list
    <2> QED
      BY <1>1, <2>1, <2>2
  <1>3. ASSUME NEW to \in RspMenu, MoveStack(to)
        PROVE  \E between : Grows(string_list_, between, mem) /\ Grows(between, string_list_', mem')
    <2> DEFINE list == scan_before(FALSE, TRUE, regs)
    <2>1. string_list_' = list
      BY <1>3 DEF MoveStack
    <2>2. Grows(string_list_, list, mem)
      BY <1>0, ScanBefore
    <2> HIDE DEF list
    <2> QED
      BY <1>1, <2>1, <2>2
  <1>4. CASE Ret
    <2> DEFINE list == scan_before(TRUE, TRUE, regs)
    <2>1. string_list_' = list
      BY <1>4 DEF Ret
    <2>2. Grows(string_list_, list, mem)
      BY <1>0, ScanBefore
    <2> HIDE DEF list
    <2> QED
      BY <1>1, <2>1, <2>2
  <1>5. ASSUME NEW c \in CallMenu, ExternalCall(c[1], c[2])
        PROVE  \E between : Grows(string_list_, between, mem) /\ Grows(between, string_list_', mem')
    BY <1>5, CallScans
  <1>6. ASSUME NEW c \in JumpMenu, JumpToImport(c[1], c[2])
        PROVE  \E between : Grows(string_list_, between, mem) /\ Grows(between, string_list_', mem')
    <2> DEFINE r == Loaded(c[2])
               list == scan_before(FALSE, TRUE, r)
    <2>1. string_list_' = list
      BY <1>6 DEF JumpToImport
    <2>2. Grows(string_list_, list, mem)
      <3>1. c[2] \in [1 .. 3 -> Nat]
        BY CollectionAssumption, Zenon
      <3>2. r \in [1 .. 4 -> Int]
        BY <3>1, LoadedRegs
      <3> HIDE DEF r
      <3> QED
        BY <1>0, <3>2, ScanBefore
    <2> HIDE DEF list
    <2> QED
      BY <1>1, <2>1, <2>2
  <1>7. CASE EndSlice
    <2> DEFINE list == IF setting.tracking THEN dump_tracked_writes(string_list_, mem)
                       ELSE string_list_
    <2>1. string_list_' = list
      BY <1>7 DEF EndSlice
    <2>2. Grows(string_list_, list, mem)
      <3>1. Grows(string_list_, dump_tracked_writes(string_list_, mem), mem)
        BY <1>0, RegionScans
      <3>2. Grows(string_list_, string_list_, mem)
        BY <1>0 DEF Grows
      <3> QED
        BY <3>1, <3>2
    <2> HIDE DEF list
    <2> QED
      BY <1>1, <2>1, <2>2
  <1> QED
    BY <1>2, <1>3, <1>4, <1>5, <1>6, <1>7 DEF Next

\* When a run begins nothing is dirty or listed.
LEMMA IInvInit == Init => IInv
  <1> SUFFICES ASSUME Init PROVE IInv
    OBVIOUS
  <1>1. MemInv
    BY CollectionAssumption DEF Init, MemInv, Byte
  <1>2. DirtyOK
    BY FS_EmptySet DEF Init, DirtyOK
  <1>3. regs \in [1 .. 4 -> Int]
    BY DEF Init
  <1>4. ListOK(string_list_)
    BY DEF Init, ListOK
  <1> QED
    BY <1>1, <1>2, <1>3, <1>4 DEF Init, IInv

\* Every instruction, scan and stub preserves it.
LEMMA IInvStep ==
    ASSUME IInv, [Next]_vars
    PROVE  IInv'
  <1>1. CASE UNCHANGED vars
    BY <1>1 DEF vars, IInv, MemInv, DirtyOK
  <1>2. CASE Next
    <2>1. MemInv'
      BY MemStep DEF IInv
    <2>2. ListOK(string_list_)'
      <3>1. PICK between : Grows(between, string_list_', mem')
        BY <1>2, StepScans
      <3>2. ListOK(string_list_')
        BY <3>1 DEF Grows
      <3> QED
        BY <3>2 DEF ListOK, Entries, Visible
    <2>3. setting' = setting
      BY <1>2 DEF Next
    <2>4. DirtyOK' /\ (~setting.tracking => dirty_pages' = {})
      <3>1. CASE dirty_pages' = dirty_pages
        BY <3>1 DEF IInv, DirtyOK
      <3>2. ASSUME NEW s \in StoreMenu, Store(s[1], s[2]), dirty_pages' # dirty_pages
            PROVE  DirtyOK' /\ (~setting.tracking => dirty_pages' = {})
        <4> DEFINE a == s[1]
                   n == Cardinality(DOMAIN s[2])
                   pages == {page_of(x) : x \in a .. a + n - 1}
        <4>1. a \in Nat /\ n \in Nat
          <5>1. a \in Nat /\ IsFiniteSet(DOMAIN s[2])
            BY CollectionAssumption, Zenon
          <5> QED
            BY <5>1, FS_CardinalityType
        <4>2. dirty_pages' = IF setting.tracking THEN dirty_pages \cup pages ELSE dirty_pages
          BY <3>2 DEF Store
        <4> HIDE DEF a, n
        <4>3. pages \subseteq Nat /\ IsFiniteSet(pages) /\ \A p \in pages : p % page_size = 0
          BY <4>1, StoredPages
        <4> HIDE DEF pages
        <4>4. IsFiniteSet(dirty_pages \cup pages)
          BY <4>3, FS_Union DEF IInv, DirtyOK
        <4>5. setting.tracking /\ dirty_pages' = dirty_pages \cup pages
          BY <3>2, <4>2
        <4> QED
          BY <4>3, <4>4, <4>5 DEF IInv, DirtyOK
      <3> QED
        BY <1>2, <3>1, <3>2 DEF Next, MoveStack, Ret, ExternalCall, JumpToImport, EndSlice
    <2>5. regs' \in [1 .. 4 -> Int] /\ rsp' \in RspMenu
      <3>1. ASSUME NEW c \in CallMenu, ExternalCall(c[1], c[2])
            PROVE  regs' \in [1 .. 4 -> Int] /\ rsp' \in RspMenu
        <4>1. rsp' = rsp
          BY <3>1 DEF ExternalCall
        <4>2. regs' \in [1 .. 4 -> Int]
          BY <3>1, CallScans
        <4> QED
          BY <4>1, <4>2 DEF IInv
      <3>2. ASSUME NEW c \in JumpMenu, JumpToImport(c[1], c[2])
            PROVE  regs' \in [1 .. 4 -> Int] /\ rsp' \in RspMenu
        <4>1. rsp' = rsp /\ regs' = Loaded(c[2])
          BY <3>2 DEF JumpToImport
        <4>2. c[2] \in [1 .. 3 -> Nat]
          BY CollectionAssumption, Zenon
        <4> QED
          BY <4>1, <4>2, LoadedRegs DEF IInv
      <3> QED
        BY <1>2, <3>1, <3>2 DEF Next, Store, MoveStack, Ret, EndSlice, IInv
    <2> QED
      BY <2>1, <2>2, <2>3, <2>4, <2>5 DEF IInv
  <1> QED
    BY <1>1, <1>2

\* It holds in every run.
THEOREM Collects == Spec => []IInv
  BY IInvInit, IInvStep, PTL DEF Spec

\* Bytes stay bytes where memory is mapped, only whole pages are dirty and none without
\* write tracking; the list has nonempty trimmed strings without control characters, each
\* once.
THEOREM TypeCorrect == Spec => []TypeOK
  <1>1. IInv => TypeOK
    <2> SUFFICES ASSUME IInv PROVE TypeOK
      OBVIOUS
    <2>1. DOMAIN mem = DOMAIN Image /\ \A a \in DOMAIN mem : mem[a] \in 0 .. 255
      BY DEF IInv, MemInv, Byte
    <2>2. \A p \in dirty_pages : p % page_size = 0
      BY DEF IInv, DirtyOK
    <2>3. DOMAIN regs = 1 .. 4
      BY DEF IInv
    <2>4. ASSUME NEW e \in string_list_
          PROVE  /\ e.data # <<>> /\ trim(e.data) = e.data
                 /\ \A k \in DOMAIN e.data : e.data[k] \in 32 .. 126
                 /\ \A f \in string_list_ : e.data = f.data => e = f
      <3>1. e.data \in Seq(Visible)
        BY DEF IInv, ListOK, Entries
      <3>2. \A k \in DOMAIN e.data : e.data[k] \in 32 .. 126
        <4> DEFINE d == e.data
        <4>1. d \in Seq(Visible)
          BY <3>1
        <4> HIDE DEF d
        <4>2. \A k \in DOMAIN d : d[k] \in Visible
          BY <4>1
        <4> QED
          BY <4>2 DEF d, Visible
      <3> QED
        BY <3>2 DEF IInv, ListOK
    <2> QED
      BY <2>1, <2>2, <2>3, <2>4 DEF IInv, TypeOK
  <1> QED
    BY <1>1, Collects, PTL

\* A step, of any instruction, adds to the list only what is a string in memory before or
\* after it, loses nothing and lists nothing twice.
THEOREM OnlyStringsAreListed == Spec => ListedStringsExist
  <1>1. ASSUME IInv, Next
        PROVE  /\ string_list_ \subseteq string_list_'
               /\ \A e \in string_list_' \ string_list_ :
                     \E m \in {mem, mem'} : \E nul \in DOMAIN m :
                        /\ IsString(m, e.ptr, nul - e.ptr)
                        /\ Shown(m, e.ptr, nul - e.ptr) = e.data
               /\ \A e, f \in string_list_' : e.data = f.data => e = f
    <2>1. PICK between : Grows(string_list_, between, mem) /\ Grows(between, string_list_', mem')
      BY <1>1, StepScans
    <2>2. /\ string_list_ \subseteq between /\ between \subseteq string_list_'
          /\ \A e, f \in string_list_' : e.data = f.data => e = f
      BY <2>1 DEF Grows, ListOK
    <2>3. ASSUME NEW e \in string_list_', e \notin string_list_
          PROVE  \E m \in {mem, mem'} : \E nul \in DOMAIN m :
                    IsString(m, e.ptr, nul - e.ptr) /\ Shown(m, e.ptr, nul - e.ptr) = e.data
      <3>1. CASE e \in between
        <4>1. \E nul \in DOMAIN mem :
                 IsString(mem, e.ptr, nul - e.ptr) /\ Shown(mem, e.ptr, nul - e.ptr) = e.data
          BY <2>1, <2>3, <3>1, Zenon DEF Grows
        <4> QED
          BY <4>1, Zenon
      <3>2. CASE e \notin between
        <4>1. \E nul \in DOMAIN mem' :
                 IsString(mem', e.ptr, nul - e.ptr) /\ Shown(mem', e.ptr, nul - e.ptr) = e.data
          BY <2>1, <2>3, <3>2, Zenon DEF Grows
        <4> QED
          BY <4>1, Zenon
      <3> QED
        BY <3>1, <3>2
    <2> QED
      BY <2>2, <2>3, Zenon
  <1>2. ASSUME IInv, [Next]_vars
        PROVE  [/\ string_list_ \subseteq string_list_'
                /\ \A e \in string_list_' \ string_list_ :
                      \E m \in {mem, mem'} : \E nul \in DOMAIN m :
                         /\ IsString(m, e.ptr, nul - e.ptr)
                         /\ Shown(m, e.ptr, nul - e.ptr) = e.data
                /\ \A e, f \in string_list_' : e.data = f.data => e = f]_vars
    BY <1>1, <1>2, Zenon
  <1> QED
    BY <1>2, Collects, PTL DEF Spec, ListedStringsExist

\* With write tracking, a call, a return and the end of a slice scan the dirty pages last,
\* in memory as they leave it.
LEMMA TrackedScan ==
    ASSUME IInv, Next, setting.tracking, instr'[1] \in {"call", "ret", "end"}
    PROVE  /\ dirty_pages' = dirty_pages /\ MemInv'
           /\ \E list : ListOK(list) /\ string_list_' = dump_tracked_writes(list, mem')
  <1>0. MemInv' /\ ListOK(string_list_)
    BY MemStep DEF IInv
  <1>1. ASSUME NEW s \in StoreMenu, Store(s[1], s[2]) PROVE FALSE
    BY <1>1 DEF Store
  <1>2. ASSUME NEW to \in RspMenu, MoveStack(to) PROVE FALSE
    BY <1>2 DEF MoveStack
  <1>3. CASE Ret
    <2> DEFINE list == scan_before(TRUE, TRUE, regs)
    <2>1. string_list_' = list /\ mem' = mem /\ dirty_pages' = dirty_pages
      BY <1>3 DEF Ret
    <2>2. list = dump_tracked_writes(string_list_, mem)
      BY DEF scan_before
    <2> QED
      BY <1>0, <2>1, <2>2
  <1>4. CASE EndSlice
    BY <1>0, <1>4 DEF EndSlice
  <1>5. ASSUME NEW c \in JumpMenu, JumpToImport(c[1], c[2]) PROVE FALSE
    BY <1>5 DEF JumpToImport
  <1>6. ASSUME NEW c \in CallMenu, ExternalCall(c[1], c[2])
        PROVE  /\ dirty_pages' = dirty_pages
               /\ \E list : ListOK(list) /\ string_list_' = dump_tracked_writes(list, mem')
    <2> DEFINE before == scan_before(TRUE, TRUE, Loaded(c[2]))
    <2>1. Grows(string_list_, before, mem) /\ string_list_' = dump_tracked_writes(before, mem')
      BY <1>6, CallScans
    <2>2. dirty_pages' = dirty_pages
      BY <1>6 DEF ExternalCall
    <2> HIDE DEF before
    <2> QED
      BY <2>1, <2>2 DEF Grows
  <1> QED
    BY <1>0, <1>1, <1>2, <1>3, <1>4, <1>5, <1>6 DEF Next

\* With write tracking nothing a decoder has put in the dirty pages is missed, across their
\* borders, and by a call's stub at its very end, too.
THEOREM TrackedStringsAreListed == Spec => TrackedStringsListed
  <1>1. ASSUME IInv, Next, setting.tracking, instr'[1] \in {"call", "ret", "end"},
               NEW p \in dirty_pages', p - page_size \notin dirty_pages',
               p .. RegionEnd(p) - 1 \subseteq DOMAIN mem
        PROVE  AllListed(string_list_', mem', p, RegionEnd(p))
    <2>1. /\ dirty_pages' = dirty_pages /\ mem' \in [DOMAIN Image -> Byte]
          /\ mem \in [DOMAIN Image -> Byte] /\ DirtyOK
      BY <1>1, TrackedScan DEF IInv, MemInv
    <2>2. PICK list : ListOK(list) /\ string_list_' = dump_tracked_writes(list, mem')
      BY <1>1, TrackedScan
    <2>3. p \in region_starts /\ p \in dirty_pages
      BY <1>1, <2>1 DEF region_starts
    <2> DEFINE n == Min({region_size(p), max_region_scan})
    <2>4. n \in Nat /\ RegionEnd(p) = p + n
      BY <2>1, <2>3, RegionEnds
    <2>5. DOMAIN Image \subseteq Int
      BY CollectionAssumption
    <2>6. n = Min({region_size(p), max_region_scan})
      OBVIOUS
    <2> DEFINE e == RegionEnd(p)
    <2>7. e = p + n /\ p .. e - 1 \subseteq DOMAIN mem
      BY <1>1, <2>4
    <2> HIDE DEF n, e
    <2>8. Has(mem', p, n)
      <3>0. p \in Int
        BY <2>1, <2>3 DEF DirtyOK
      <3>1. DOMAIN mem' = DOMAIN mem
        BY <2>1
      <3>2. e - 1 = p + n - 1
        BY <2>4, <2>7, <3>0
      <3>3. p .. p + n - 1 \subseteq DOMAIN mem
        BY <2>7, <3>2, Zenon
      <3> QED
        BY <3>1, <3>3, Zenon DEF Has
    <2>9. AllListed(string_list_', mem', p, p + n)
      BY <2>1, <2>2, <2>3, <2>4, <2>5, <2>6, <2>8, RegionScans
    <2> QED
      BY <2>4, <2>9
  <1>2. ASSUME IInv, [Next]_vars
        PROVE  [setting.tracking /\ steps' # steps /\ instr'[1] \in {"call", "ret", "end"} =>
                  \A p \in dirty_pages' :
                     p - page_size \notin dirty_pages'
                     /\ p .. RegionEnd(p) - 1 \subseteq DOMAIN mem =>
                        AllListed(string_list_', mem', p, RegionEnd(p))]_vars
    BY <1>1, <1>2, Zenon
  <1> QED
    BY <1>2, Collects, PTL DEF Spec, TrackedStringsListed

\* Without write tracking the used stack, and with the option what the three arguments of
\* a call point to, are read before the call's stub writes over them.
THEOREM StackStringsAreListed == Spec => StackStringsListed
  <1> DEFINE Stacked == rsp \in stack_begin .. stack_base - 1 =>
                           AllListed(string_list_', mem, rsp, Min({stack_base, rsp + max_scan}))
             Pointed == setting.registers /\ Len(instr') = 3 =>
                           \A k \in 1 .. 3 : LET p == instr'[3][k]
                                             IN p # 0 /\ Has(mem, p, register_scan_size) =>
                                                AllListed(string_list_', mem, p, p + register_scan_size)
  <1>1. ASSUME IInv, Next, ~setting.tracking, instr'[1] \in {"sub", "ret", "call", "jmp"}
        PROVE  Stacked /\ Pointed
    <2>0. regs \in [1 .. 4 -> Int] /\ TRUE \in BOOLEAN
      <3>1. TRUE \in BOOLEAN
        OBVIOUS
      <3> QED
        BY <1>1, <3>1 DEF IInv
    <2>1. ASSUME NEW c \in BOOLEAN, string_list_' = scan_before(c, TRUE, regs), Len(instr') # 3
          PROVE  Stacked /\ Pointed
      BY <1>1, <2>0, <2>1, ScanBefore
    <2>2. ASSUME NEW op \in {"call", "jmp"}, NEW name, NEW g \in [1 .. 3 -> Nat],
                 NEW ret \in BOOLEAN, instr' = <<op, name, g>>,
                 string_list_' = scan_before(ret, TRUE, Loaded(g))
          PROVE  Stacked /\ Pointed
      <3> DEFINE r == Loaded(g)
                 before == scan_before(ret, TRUE, r)
      <3>1. r \in [1 .. 4 -> Int] /\ string_list_' = before
        BY <1>1, <2>2, LoadedRegs
      <3>2. r[2] = g[1] /\ r[3] = g[2] /\ r[4] = g[3]
        BY DEF Loaded
      <3> HIDE DEF r
      <3>3. /\ rsp \in stack_begin .. stack_base - 1 =>
                  AllListed(before, mem, rsp, Min({stack_base, rsp + max_scan}))
            /\ setting.registers =>
                  \A k \in 1 .. 4 : r[k] # 0 /\ Has(mem, r[k], register_scan_size) =>
                     AllListed(before, mem, r[k], r[k] + register_scan_size)
        BY <1>1, <2>0, <3>1, ScanBefore
      <3> HIDE DEF before
      <3>4. ASSUME setting.registers, NEW k \in 1 .. 3, instr'[3][k] # 0,
                   Has(mem, instr'[3][k], register_scan_size)
            PROVE  AllListed(string_list_', mem, instr'[3][k], instr'[3][k] + register_scan_size)
        <4>1. instr'[3][k] = g[k]
          BY <2>2
        <4>2. k + 1 \in 1 .. 4 /\ r[k + 1] = g[k]
          BY <3>2
        <4> QED
          BY <3>1, <3>3, <3>4, <4>1, <4>2
      <3> QED
        BY <3>1, <3>3, <3>4
    <2>3. ASSUME NEW s \in StoreMenu, Store(s[1], s[2]) PROVE FALSE
      BY <1>1, <2>3 DEF Store
    <2>4. ASSUME NEW to \in RspMenu, MoveStack(to) PROVE Stacked /\ Pointed
      <3>1. string_list_' = scan_before(FALSE, TRUE, regs) /\ instr' = <<"sub">> /\ FALSE \in BOOLEAN
        BY <2>4 DEF MoveStack
      <3>2. Len(instr') # 3
        BY <3>1
      <3> QED
        BY <2>1, <3>1, <3>2
    <2>5. CASE Ret
      <3>1. string_list_' = scan_before(TRUE, TRUE, regs) /\ instr' = <<"ret">>
        BY <2>5 DEF Ret
      <3>2. Len(instr') # 3
        BY <3>1
      <3> QED
        BY <2>0, <2>1, <3>1, <3>2
    <2>6. CASE EndSlice
      BY <1>1, <2>6 DEF EndSlice
    <2>7. ASSUME NEW c \in CallMenu, ExternalCall(c[1], c[2])
          PROVE  Stacked /\ Pointed
      <3>1. c[2] \in [1 .. 3 -> Nat]
        BY CollectionAssumption, Zenon
      <3>2. string_list_' = scan_before(TRUE, TRUE, Loaded(c[2]))
        BY <1>1, <2>7, CallScans
      <3>3. instr' = <<"call", c[1], c[2]>>
        BY <2>7 DEF ExternalCall
      <3> HIDE DEF Stacked, Pointed
      <3> QED
        BY <2>0, <2>2, <3>1, <3>2, <3>3
    <2>8. ASSUME NEW c \in JumpMenu, JumpToImport(c[1], c[2])
          PROVE  Stacked /\ Pointed
      <3>1. c[2] \in [1 .. 3 -> Nat]
        BY CollectionAssumption, Zenon
      <3>2. /\ string_list_' = scan_before(FALSE, TRUE, Loaded(c[2]))
            /\ instr' = <<"jmp", c[1], c[2]>> /\ FALSE \in BOOLEAN
        BY <2>8 DEF JumpToImport
      <3> HIDE DEF Stacked, Pointed
      <3> QED
        BY <2>2, <3>1, <3>2
    <2> HIDE DEF Stacked, Pointed
    <2> QED
      BY <1>1, <2>3, <2>4, <2>5, <2>6, <2>7, <2>8 DEF Next
  <1>2. ASSUME IInv, [Next]_vars
        PROVE  [~setting.tracking /\ steps' # steps /\ instr'[1] \in {"sub", "ret", "call", "jmp"} =>
                   Stacked /\ Pointed]_vars
    BY <1>1, <1>2, Zenon
  <1> QED
    BY <1>2, Collects, PTL DEF Spec, StackStringsListed
=============================================================================
