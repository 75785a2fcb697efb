----------------------------- MODULE NaturalFacts -----------------------------
(***************************************************************************)
(* Facts about natural numbers.                                            *)
(*                                                                         *)
(* Remainders: the code rounds addresses with masks, (x + a - 1) & ~(a -   *)
(* 1), and its 64-bit sums wrap; the models write both with %.             *)
(*                                                                         *)
(* Induction: stated of sets of numbers instead of predicates, so that no  *)
(* lemma has an operator as parameter.                                     *)
(***************************************************************************)
EXTENDS Integers, FiniteSetTheorems, WellFoundedInduction, TLAPS

-----------------------------------------------------------------------------
(* Remainders *)

\* A wrapped sum is an address.
LEMMA RemainderRange ==
    ASSUME NEW x \in Int, NEW n \in Nat \ {0}
    PROVE  x % n \in 0 .. (n - 1)
  OBVIOUS

\* Wrapping never makes a sum larger.
LEMMA RemainderAtMost ==
    ASSUME NEW x \in Nat, NEW n \in Nat \ {0}
    PROVE  x % n <= x
  OBVIOUS

\* A sum that does not wrap.
LEMMA RemainderSmall ==
    ASSUME NEW n \in Nat \ {0}, NEW x \in 0 .. (n - 1)
    PROVE  x % n = x
  OBVIOUS

\* A sum that wraps once.
LEMMA RemainderOnce ==
    ASSUME NEW n \in Nat \ {0}, NEW x \in n .. (n + n - 1)
    PROVE  x % n = x - n
  OBVIOUS

\* A multiple of a page or of an alignment is aligned to it.
LEMMA MultipleAligned ==
    ASSUME NEW q \in Nat, NEW n \in Nat \ {0}
    PROVE  (n * q) % n = 0
  OBVIOUS

\* What is aligned is a multiple.
LEMMA AlignedMultiple ==
    ASSUME NEW x \in Nat, NEW n \in Nat \ {0}, x % n = 0
    PROVE  \E q \in Nat : x = n * q
  <1>1. x \div n \in Nat /\ x = n * (x \div n)
    OBVIOUS
  <1> QED
    BY <1>1

\* Masking the low bits off.
LEMMA MaskAligned ==
    ASSUME NEW x \in Nat, NEW n \in Nat \ {0}
    PROVE  /\ x - (x % n) \in Nat
           /\ (x - (x % n)) % n = 0
           /\ x - (x % n) <= x /\ x - n < x - (x % n)
  OBVIOUS

\* Sums of aligned sizes are aligned: the cursor of the arena, the next page.
LEMMA AlignedSum ==
    ASSUME NEW x \in Nat, NEW y \in Nat, NEW n \in Nat \ {0}, x % n = 0, y % n = 0
    PROVE  (x + y) % n = 0
  <1>1. PICK p \in Nat : x = n * p
    BY AlignedMultiple
  <1>2. PICK q \in Nat : y = n * q
    BY AlignedMultiple
  <1>3. x + y = n * (p + q) /\ p + q \in Nat
    BY <1>1, <1>2
  <1> QED
    BY <1>3, MultipleAligned

\* Multiples of a number are apart.
LEMMA MultiplesApart ==
    ASSUME NEW n \in Nat \ {0}, NEW x \in Nat, NEW y \in Nat, x < y
    PROVE  n * x \in Nat /\ n * x + n <= n * y
  <1>1. n * x \in Nat /\ n * y \in Nat /\ (n * x) % n = 0 /\ (n * y) % n = 0
    BY MultipleAligned
  <1>2. PICK d \in Nat : y = x + 1 + d
    <2>1. y - x - 1 \in Nat /\ y = x + 1 + (y - x - 1)
      OBVIOUS
    <2> QED
      BY <2>1
  <1>3. n * y = n * x + n + n * d /\ n * d \in Nat
    BY <1>2
  <1> QED
    BY <1>1, <1>3

\* An aligned number leaves the low bits of another.
LEMMA AlignedShift ==
    ASSUME NEW x \in Nat, NEW y \in Nat, NEW n \in Nat \ {0}, x % n = 0
    PROVE  (x + y) % n = y % n
  <1>1. PICK p \in Nat : x = n * p
    BY AlignedMultiple
  <1> DEFINE q == y \div n
             r == y % n
  <1>2. y = n * q + r /\ q \in Nat /\ r \in 0 .. (n - 1)
    OBVIOUS
  <1> HIDE DEF q, r
  <1>3. x + y = n * (p + q) + r /\ p + q \in Nat
    BY <1>1, <1>2
  <1>4. (n * (p + q) + r) % n = r
    <2> DEFINE a == p + q
               z == n * a + r
               b == z \div n
               t == z % n
    <2>1. z \in Nat /\ a \in Nat /\ n * a \in Nat
      BY <1>2, <1>3
    <2>2. z = n * a + r
      OBVIOUS
    <2> HIDE DEF a, z
    <2>3. z = n * b + t /\ b \in Nat /\ t \in 0 .. (n - 1) /\ n * b \in Nat
      BY <2>1
    <2> HIDE DEF b, t
    <2>4. ~(a < b)
      <3> SUFFICES ASSUME a < b PROVE FALSE
        OBVIOUS
      <3>1. n * a + n <= n * b
        BY <2>1, <2>3, MultiplesApart
      <3> QED
        BY <1>2, <2>1, <2>2, <2>3, <3>1
    <2>5. ~(b < a)
      <3> SUFFICES ASSUME b < a PROVE FALSE
        OBVIOUS
      <3>1. n * b + n <= n * a
        BY <2>1, <2>3, MultiplesApart
      <3> QED
        BY <1>2, <2>1, <2>2, <2>3, <3>1
    <2>6. a = b
      BY <2>1, <2>3, <2>4, <2>5
    <2>7. t = r
      BY <1>2, <2>1, <2>2, <2>3, <2>6
    <2> QED
      BY <2>7 DEF t, z, a
  <1> QED
    BY <1>3, <1>4 DEF r

\* What is aligned to pages is aligned to every unit that divides a page.
LEMMA AlignedFiner ==
    ASSUME NEW x \in Nat, NEW m \in Nat \ {0}, NEW n \in Nat \ {0}, x % m = 0, m % n = 0
    PROVE  x % n = 0
  <1>1. PICK p \in Nat : x = m * p
    BY AlignedMultiple
  <1>2. PICK q \in Nat : m = n * q
    BY AlignedMultiple
  <1>3. x = n * (q * p)
    BY <1>1, <1>2
  <1>4. q * p \in Nat
    OBVIOUS
  <1> QED
    BY <1>3, <1>4, MultipleAligned

\* Between two multiples there is room for a whole unit.
LEMMA AlignedApart ==
    ASSUME NEW x \in Nat, NEW y \in Nat, NEW n \in Nat \ {0}, x % n = 0, y % n = 0, x < y
    PROVE  x + n <= y
  <1>1. PICK p \in Nat : x = n * p
    BY AlignedMultiple
  <1>2. PICK q \in Nat : y = n * q
    BY AlignedMultiple
  <1>3. p < q
    BY <1>1, <1>2
  <1>4. PICK d \in Nat : q = p + 1 + d
    <2>1. q - p - 1 \in Nat /\ q = p + 1 + (q - p - 1)
      BY <1>3
    <2> QED
      BY <2>1
  <1>5. y = x + n + n * d /\ n * d \in Nat
    BY <1>1, <1>2, <1>4
  <1> QED
    BY <1>5

-----------------------------------------------------------------------------
(* Induction and recursion *)

\* A set of natural numbers has a least element: of the intervals that end at its members,
\* one is minimal for inclusion.
LEMMA LeastNatural ==
    ASSUME NEW T, T \subseteq Nat, T # {}
    PROVE  \E m \in T : \A k \in T : m <= k
  <1> DEFINE Below == {0 .. n : n \in T}
  <1>1. Below \subseteq FiniteSubsetsOf(Nat)
    <2>1. \A n \in T : 0 .. n \subseteq Nat /\ IsFiniteSet(0 .. n)
      BY FS_Interval
    <2> QED
      BY <2>1 DEF FiniteSubsetsOf
  <1>2. Below # {}
    OBVIOUS
  <1> HIDE DEF Below
  <1>3. \E x \in Below : \A y \in Below : <<y, x>> \notin StrictSubsetOrdering(Nat)
    BY <1>1, <1>2, FS_StrictSubsetOrderingWellFounded, WFMin
  <1>4. PICK x \in Below : \A y \in Below : <<y, x>> \notin StrictSubsetOrdering(Nat)
    BY <1>3
  <1>5. PICK m \in T : x = 0 .. m
    BY DEF Below
  <1>6. ASSUME NEW k \in T, k < m PROVE FALSE
    <2>1. 0 .. k \in Below
      BY DEF Below
    <2>2. 0 .. k \subseteq 0 .. m /\ 0 .. k # 0 .. m /\ 0 .. k \subseteq Nat /\ 0 .. m \subseteq Nat
      <3>1. m \in 0 .. m /\ m \notin 0 .. k
        BY <1>6
      <3> QED
        BY <1>6, <3>1
    <2>3. <<0 .. k, 0 .. m>> \in StrictSubsetOrdering(Nat)
      BY <2>2 DEF StrictSubsetOrdering
    <2> QED
      BY <1>4, <1>5, <2>1, <2>3
  <1> QED
    BY <1>6

\* Induction, for the set of the numbers a property holds of.
LEMMA SetInduction ==
    ASSUME NEW S, 0 \in S, \A n \in Nat : n \in S => n + 1 \in S
    PROVE  Nat \subseteq S
  <1> SUFFICES ASSUME Nat \ S # {} PROVE FALSE
    OBVIOUS
  <1>1. PICK m \in Nat \ S : \A k \in Nat \ S : m <= k
    BY LeastNatural
  <1>2. m # 0 /\ m - 1 \in Nat /\ m - 1 \in S
    BY <1>1
  <1> QED
    BY <1>2

\* The same, up to a bound.
LEMMA IntervalInduction ==
    ASSUME NEW N \in Nat, NEW S, 0 \in S, \A n \in 1 .. N : n - 1 \in S => n \in S
    PROVE  0 .. N \subseteq S
  <1> DEFINE T == {n \in Nat : n <= N => n \in S}
  <1>1. 0 \in T
    OBVIOUS
  <1>2. ASSUME NEW n \in Nat, n \in T PROVE n + 1 \in T
    <2> SUFFICES ASSUME n + 1 <= N PROVE n + 1 \in S
      OBVIOUS
    <2>1. n + 1 \in 1 .. N /\ (n + 1) - 1 = n /\ n <= N
      OBVIOUS
    <2> QED
      BY <1>2, <2>1
  <1> HIDE DEF T
  <1>3. Nat \subseteq T
    BY <1>1, <1>2, SetInduction
  <1> QED
    BY <1>3 DEF T

\* The states f of a loop after each of its turns.  next is applied to the state before a
\* turn and to how many turns were made.
Turns(f, S, base, next) ==
    /\ f \in [Nat -> S]
    /\ f[0] = base
    /\ \A n \in Nat : f[n + 1] = next[<<f[n], n>>]

\* Every loop has them: what the recursive functions of the models
\* denote.
LEMMA RecursionExists ==
    ASSUME NEW S, NEW base \in S, NEW next \in [S \X Nat -> S]
    PROVE  \E f : Turns(f, S, base, next)
  <1> DEFINE Begins(p, n) == /\ p \in [0 .. n -> S]
                             /\ p[0] = base
                             /\ \A i \in 0 .. (n - 1) : p[i + 1] = next[<<p[i], i>>]
  <1> DEFINE Reached == {n \in Nat : \E p : Begins(p, n)}
  <1>1. 0 \in Reached
    <2>1. Begins([i \in 0 .. 0 |-> base], 0)
      OBVIOUS
    <2> QED
      BY <2>1
  <1>2. ASSUME NEW n \in Reached PROVE n + 1 \in Reached
    <2>1. PICK p : Begins(p, n)
      OBVIOUS
    <2> DEFINE q == [i \in 0 .. (n + 1) |-> IF i = n + 1 THEN next[<<p[n], n>>] ELSE p[i]]
    <2>2. p[n] \in S /\ next[<<p[n], n>>] \in S
      BY <2>1
    <2>3. q \in [0 .. (n + 1) -> S] /\ q[0] = base
      BY <2>1, <2>2
    <2>4. ASSUME NEW i \in 0 .. n PROVE q[i + 1] = next[<<q[i], i>>]
      <3>1. CASE i = n
        <4>1. q[i + 1] = next[<<p[n], n>>] /\ q[i] = p[n]
          BY <3>1
        <4> QED
          BY <3>1, <4>1
      <3>2. CASE i # n
        BY <2>1, <3>2
      <3> QED
        BY <3>1, <3>2
    <2>5. Begins(q, n + 1)
      <3>1. (n + 1) - 1 = n
        OBVIOUS
      <3> HIDE DEF q
      <3> QED
        BY <2>3, <2>4, <3>1
    <2>6. n + 1 \in Nat
      OBVIOUS
    <2> HIDE DEF Begins, q
    <2> QED
      BY <2>5, <2>6
  <1>3. Nat \subseteq Reached
    <2> HIDE DEF Reached
    <2>1. Reached \subseteq Nat
      BY DEF Reached
    <2> QED
      BY <1>1, <1>2, <2>1, SetInduction
  <1>4. ASSUME NEW n \in Nat, NEW m \in Nat, NEW p, NEW q, Begins(p, n), Begins(q, m)
        PROVE  \A i \in Nat : i <= n /\ i <= m => p[i] = q[i]
    <2> DEFINE Same == {i \in Nat : i <= n /\ i <= m => p[i] = q[i]}
    <2>1. 0 \in Same
      BY <1>4
    <2>2. ASSUME NEW i \in Same PROVE i + 1 \in Same
      <3> SUFFICES ASSUME i + 1 <= n, i + 1 <= m PROVE p[i + 1] = q[i + 1]
        OBVIOUS
      <3>1. i \in 0 .. (n - 1) /\ i \in 0 .. (m - 1) /\ p[i] = q[i]
        OBVIOUS
      <3> QED
        BY <1>4, <3>1
    <2>3. Nat \subseteq Same
      <3> HIDE DEF Same
      <3> QED
        BY <2>1, <2>2, SetInduction
    <2> QED
      BY <2>3
  <1> DEFINE part == [n \in Nat |-> CHOOSE p : Begins(p, n)]
  <1>5. ASSUME NEW n \in Nat PROVE Begins(part[n], n)
    <2>1. \E p : Begins(p, n)
      BY <1>3
    <2>2. part[n] = CHOOSE p : Begins(p, n)
      OBVIOUS
    <2> HIDE DEF Begins, part
    <2> QED
      BY <2>1, <2>2, Zenon
  <1> HIDE DEF part
  <1> DEFINE f == [n \in Nat |-> part[n][n]]
  <1>6. f \in [Nat -> S]
    BY <1>5
  <1>7. f[0] = base
    BY <1>5
  <1>8. ASSUME NEW n \in Nat PROVE f[n + 1] = next[<<f[n], n>>]
    <2>1. Begins(part[n], n) /\ Begins(part[n + 1], n + 1)
      BY <1>5
    <2>2. part[n][n] = part[n + 1][n]
      <3> HIDE DEF Begins
      <3> QED
        BY <2>1, <1>4
    <2>3. part[n + 1][n + 1] = next[<<part[n + 1][n], n>>]
      BY <2>1
    <2> QED
      BY <2>2, <2>3
  <1> HIDE DEF f
  <1> QED
    BY <1>6, <1>7, <1>8 DEF Turns

\* The same for a loop of N turns.  next is applied to the state before a turn and the
\* turn's number, from 1 on.
TurnsUpTo(N, f, S, base, next) ==
    /\ f \in [0 .. N -> S]
    /\ f[0] = base
    /\ \A n \in 1 .. N : f[n] = next[<<f[n - 1], n>>]

\* A loop of N turns has a state after each.
LEMMA LoopExists ==
    ASSUME NEW S, NEW base \in S, NEW N \in Nat, NEW next \in [S \X (1 .. N) -> S]
    PROVE  \E f : TurnsUpTo(N, f, S, base, next)
  <1>1. \E forever \in [S \X Nat -> S] :
            \A v \in S, n \in 1 .. N : forever[<<v, n - 1>>] = next[<<v, n>>]
    <2> DEFINE h == [x \in S \X Nat |->
                        IF x[2] + 1 \in 1 .. N THEN next[<<x[1], x[2] + 1>>] ELSE x[1]]
    <2>1. h \in [S \X Nat -> S]
      OBVIOUS
    <2>2. \A v \in S, n \in 1 .. N : h[<<v, n - 1>>] = next[<<v, n>>]
      OBVIOUS
    <2> HIDE DEF h
    <2> QED
      BY <2>1, <2>2
  <1>2. PICK forever \in [S \X Nat -> S] :
            \A v \in S, n \in 1 .. N : forever[<<v, n - 1>>] = next[<<v, n>>]
    BY <1>1
  <1>3. PICK g : Turns(g, S, base, forever)
    BY RecursionExists
  <1> DEFINE f == [n \in 0 .. N |-> g[n]]
  <1>4. f \in [0 .. N -> S] /\ f[0] = base
    BY <1>3 DEF Turns
  <1>5. ASSUME NEW n \in 1 .. N PROVE f[n] = next[<<f[n - 1], n>>]
    <2>1. g[(n - 1) + 1] = forever[<<g[n - 1], n - 1>>] /\ g[n - 1] \in S
      BY <1>3 DEF Turns
    <2>2. f[n] = g[n] /\ f[n - 1] = g[n - 1] /\ (n - 1) + 1 = n
      OBVIOUS
    <2> QED
      BY <2>1, <2>2, <1>2
  <1> HIDE DEF f
  <1> QED
    BY <1>4, <1>5 DEF TurnsUpTo

-----------------------------------------------------------------------------
(* Sorting *)

\* The members of D below p: how many they are is the place of p among them.
MembersBelow(D, p) == {q \in D : q < p}

\* A place is less than the size of the set.
LEMMA RankRange ==
    ASSUME NEW D, D \subseteq Int, IsFiniteSet(D), NEW p \in D
    PROVE  /\ IsFiniteSet(MembersBelow(D, p))
           /\ Cardinality(MembersBelow(D, p)) \in Nat
           /\ Cardinality(MembersBelow(D, p)) \in 0 .. (Cardinality(D) - 1)
  <1>1. /\ IsFiniteSet(D \ {p}) /\ Cardinality(D \ {p}) = Cardinality(D) - 1
        /\ Cardinality(D) \in Nat
    BY FS_RemoveElement, FS_CardinalityType
  <1>2. MembersBelow(D, p) \in SUBSET (D \ {p})
    BY DEF MembersBelow
  <1>3. /\ IsFiniteSet(MembersBelow(D, p))
        /\ Cardinality(MembersBelow(D, p)) <= Cardinality(D) - 1
        /\ Cardinality(MembersBelow(D, p)) \in Nat
    BY <1>1, <1>2, FS_Subset, FS_CardinalityType
  <1> QED
    BY <1>1, <1>3

\* Places are in the order of the numbers.
LEMMA RankMonotone ==
    ASSUME NEW D, D \subseteq Int, IsFiniteSet(D), NEW p \in D, NEW q \in D, p < q
    PROVE  Cardinality(MembersBelow(D, p)) < Cardinality(MembersBelow(D, q))
  <1>1. MembersBelow(D, p) \in SUBSET MembersBelow(D, q)
    <2> SUFFICES ASSUME NEW r \in D, r < p PROVE r < q
      BY DEF MembersBelow
    <2>1. p \in Int /\ q \in Int /\ r \in Int
      OBVIOUS
    <2> QED
      BY <2>1
  <1>2. p \in MembersBelow(D, q) /\ p \notin MembersBelow(D, p)
    BY DEF MembersBelow
  <1>3. /\ IsFiniteSet(MembersBelow(D, q))
        /\ Cardinality(MembersBelow(D, p)) \in Nat /\ Cardinality(MembersBelow(D, q)) \in Nat
    BY RankRange
  <1>4. /\ Cardinality(MembersBelow(D, p)) <= Cardinality(MembersBelow(D, q))
        /\ Cardinality(MembersBelow(D, p)) # Cardinality(MembersBelow(D, q))
    BY <1>1, <1>2, <1>3, FS_Subset
  <1> QED
    BY <1>3, <1>4

\* Every place is taken: the places are as many as the members.
LEMMA RankOnto ==
    ASSUME NEW D, D \subseteq Int, IsFiniteSet(D), NEW n \in 0 .. (Cardinality(D) - 1)
    PROVE  \E p \in D : Cardinality(MembersBelow(D, p)) = n
  <1> DEFINE rank == [p \in D |-> Cardinality(MembersBelow(D, p))]
             Places == 0 .. (Cardinality(D) - 1)
  <1>1. rank \in [D -> Places]
    BY RankRange
  <1>2. ASSUME NEW p \in D, NEW q \in D, rank[p] = rank[q] PROVE p = q
    <2>1. /\ Cardinality(MembersBelow(D, p)) \in Nat /\ Cardinality(MembersBelow(D, q)) \in Nat
          /\ Cardinality(MembersBelow(D, p)) = Cardinality(MembersBelow(D, q))
      BY <1>2, RankRange
    <2>2. p \in Int /\ q \in Int
      OBVIOUS
    <2>3. ASSUME p < q PROVE FALSE
      <3>1. Cardinality(MembersBelow(D, p)) < Cardinality(MembersBelow(D, q))
        BY <2>3, RankMonotone
      <3> QED
        BY <2>1, <3>1
    <2>4. ASSUME q < p PROVE FALSE
      <3>1. Cardinality(MembersBelow(D, q)) < Cardinality(MembersBelow(D, p))
        BY <2>4, RankMonotone
      <3> QED
        BY <2>1, <3>1
    <2> QED
      BY <2>2, <2>3, <2>4
  <1>3. Cardinality(D) \in Nat /\ IsFiniteSet(Places) /\ Cardinality(Places) = Cardinality(D)
    <2>1. Cardinality(D) \in Nat /\ Cardinality(D) # 0
      BY FS_CardinalityType
    <2>2. Cardinality(D) - 1 \in Int /\ ~(0 > Cardinality(D) - 1)
          /\ (Cardinality(D) - 1) - 0 + 1 = Cardinality(D)
      BY <2>1
    <2> QED
      BY <2>1, <2>2, FS_Interval
  <1> HIDE DEF rank, Places
  <1>4. rank \in Injection(D, Places)
    BY <1>1, <1>2, Zenon DEF Injection, IsInjective
  <1>5. rank \in Surjection(D, Places)
    BY <1>3, <1>4, FS_Injection
  <1>6. \E p \in D : rank[p] = n
    <2>1. n \in Places
      BY DEF Places
    <2> QED
      BY <1>5, <2>1, Zenon DEF Surjection
  <1> QED
    BY <1>6 DEF rank
=============================================================================
