----------------------------- MODULE TreeProofs -----------------------------
(***************************************************************************)
(* Proofs about the radix tree: the arithmetic of its levels, what carry   *)
(* makes of a frontier, and, from these, that the log's tree holds the     *)
(* log's history.                                                          *)
(***************************************************************************)
EXTENDS FrontierCarry, LokvLogProofs, SequenceLemmas

-----------------------------------------------------------------------------
(* The sizes of the levels. *)

\* g is Size up to level n.
SizesUpTo(g, n) == g = [l \in 0..n |-> IF l = 0 THEN 1 ELSE Radix * g[l - 1]]

\* The sizes up to any level exist.
LEMMA SizesExist ==
  ASSUME NEW n \in Nat
  PROVE  \E g \in [0..n -> Nat] : SizesUpTo(g, n)
  <1> DEFINE T == {k \in Nat : \E g \in [0..k -> Nat] : SizesUpTo(g, k)}
  <1>1. 0 \in T
    <2> DEFINE g == [l \in 0..0 |-> 1]
    <2>1. g \in [0..0 -> Nat] /\ \A l \in 0..0 : l = 0
      OBVIOUS
    <2>2. SizesUpTo(g, 0)
      BY <2>1 DEF SizesUpTo
    <2> QED BY <2>1, <2>2
  <1>2. ASSUME NEW k \in T PROVE k + 1 \in T
    <2>1. PICK g \in [0..k -> Nat] : SizesUpTo(g, k)
      OBVIOUS
    <2>2. \A l \in 0..k : g[l] = IF l = 0 THEN 1 ELSE Radix * g[l - 1]
      BY <2>1 DEF SizesUpTo
    <2> DEFINE h == [l \in 0..(k + 1) |-> IF l = k + 1 THEN Radix * g[k] ELSE g[l]]
    <2>3. k \in Nat /\ g[k] \in Nat /\ Radix * g[k] \in Nat
      BY RadixAssumption
    <2>4. h \in [0..(k + 1) -> Nat]
      BY <2>3
    <2>5. (\A l \in 0..k : h[l] = g[l]) /\ h[k + 1] = Radix * g[k]
      BY <2>3
    <2> HIDE DEF h
    <2>6. \A l \in 0..(k + 1) : h[l] = IF l = 0 THEN 1 ELSE Radix * h[l - 1]
      <3> SUFFICES ASSUME NEW l \in 0..(k + 1)
                   PROVE  h[l] = IF l = 0 THEN 1 ELSE Radix * h[l - 1]
        OBVIOUS
      <3>1. CASE l = k + 1
        <4>1. l # 0 /\ l - 1 = k /\ k \in 0..k
          BY <3>1, <2>3
        <4> QED BY <4>1, <3>1, <2>5
      <3>2. CASE l # k + 1
        <4>1. l \in 0..k /\ (l # 0 => l - 1 \in 0..k)
          BY <3>2, <2>3
        <4> QED BY <4>1, <2>2, <2>5
      <3> QED BY <3>1, <3>2
    <2>7. SizesUpTo(h, k + 1)
      BY <2>4, <2>6 DEF SizesUpTo
    <2> QED BY <2>3, <2>4, <2>7
  <1>3. \A k \in Nat : k \in T
    <2> HIDE DEF T
    <2>1. T \in SUBSET Nat
      BY DEF T
    <2> QED BY <1>1, <1>2, <2>1, SetInduction
  <1> QED BY <1>3

\* They do not depend on how far they are continued.
LEMMA SizesAgree ==
  ASSUME NEW m \in Nat, NEW n \in Nat, NEW f, NEW g, SizesUpTo(f, m), SizesUpTo(g, n)
  PROVE  \A k \in Nat : k <= m /\ k <= n => f[k] = g[k]
  <1> DEFINE T == {k \in Nat : k <= m /\ k <= n => f[k] = g[k]}
  <1>0. /\ \A l \in 0..m : f[l] = IF l = 0 THEN 1 ELSE Radix * f[l - 1]
        /\ \A l \in 0..n : g[l] = IF l = 0 THEN 1 ELSE Radix * g[l - 1]
    BY DEF SizesUpTo
  <1>1. 0 \in T
    BY <1>0
  <1>2. ASSUME NEW k \in T PROVE k + 1 \in T
    <2> SUFFICES ASSUME k + 1 <= m, k + 1 <= n PROVE f[k + 1] = g[k + 1]
      OBVIOUS
    <2>1. PICK i \in Nat : i = k + 1
      OBVIOUS
    <2>2. i \in 0..m /\ i \in 0..n /\ i # 0 /\ i - 1 = k
      BY <2>1
    <2>3. f[k] = g[k]
      BY <2>1
    <2>4. f[i] = Radix * f[k] /\ g[i] = Radix * g[k]
      BY <1>0, <2>2
    <2> QED BY <2>1, <2>3, <2>4
  <1>3. \A k \in Nat : k \in T
    <2> HIDE DEF T
    <2>1. T \in SUBSET Nat
      BY DEF T
    <2> QED BY <1>1, <1>2, <2>1, SetInduction
  <1> QED BY <1>3

\* Size satisfies its own definition.
LEMMA SizeEquation ==
  \A l \in Nat : Size[l] = IF l = 0 THEN 1 ELSE Radix * Size[l - 1]
  <1> DEFINE D(g) == g = [l \in Nat |-> IF l = 0 THEN 1 ELSE Radix * g[l - 1]]
             G(n) == CHOOSE g \in [0..n -> Nat] : SizesUpTo(g, n)
             f == [n \in Nat |-> G(n)[n]]
  <1>1. \A n \in Nat : SizesUpTo(G(n), n)
    BY SizesExist
  <1>2. \A n \in Nat : f[n] = G(n)[n]
    OBVIOUS
  <1> HIDE DEF G
  <1>3. \A n \in Nat : f[n] = IF n = 0 THEN 1 ELSE Radix * f[n - 1]
    <2> SUFFICES ASSUME NEW n \in Nat PROVE f[n] = IF n = 0 THEN 1 ELSE Radix * f[n - 1]
      OBVIOUS
    <2>1. \A l \in 0..n : G(n)[l] = IF l = 0 THEN 1 ELSE Radix * G(n)[l - 1]
      BY <1>1 DEF SizesUpTo
    <2>2. CASE n = 0
      BY <2>1, <2>2, <1>2
    <2>3. CASE n # 0
      <3>1. PICK p \in Nat : p = n - 1
        BY <2>3
      <3>2. SizesUpTo(G(n), n) /\ SizesUpTo(G(p), p) /\ p <= n /\ p <= p
        BY <1>1, <3>1
      <3>3. G(n)[p] = G(p)[p]
        BY <3>2, SizesAgree
      <3>4. G(n)[n] = Radix * G(n)[p]
        BY <2>1, <2>3, <3>1
      <3> QED BY <3>1, <3>3, <3>4, <2>3, <1>2
    <2> QED BY <2>2, <2>3
  <1>4. D(f)
    <2>1. f = [n \in Nat |-> f[n]]
      OBVIOUS
    <2> HIDE DEF f
    <2> QED BY <1>3, <2>1
  <1> DEFINE h == CHOOSE g : D(g)
  <1>5. D(h)
    <2> HIDE DEF D, f
    <2> QED BY <1>4, Zenon
  <1>6. Size = h
    BY DEF Size
  <1> HIDE DEF h
  <1>7. D(Size)
    BY <1>5, <1>6
  <1> QED BY <1>7

\* Sizes are positive, and each is Radix times the one below.
LEMMA SizeFacts ==
  /\ Size[0] = 1
  /\ \A l \in Nat : Size[l] \in Nat /\ Size[l] > 0 /\ Size[l + 1] = Radix * Size[l]
  <1> DEFINE T == {l \in Nat : Size[l] \in Nat /\ Size[l] > 0}
  <1>1. Size[0] = 1
    BY SizeEquation
  <1>2. \A l \in Nat : Size[l + 1] = Radix * Size[l]
    <2> SUFFICES ASSUME NEW l \in Nat PROVE Size[l + 1] = Radix * Size[l]
      OBVIOUS
    <2>1. PICK i \in Nat : i = l + 1
      OBVIOUS
    <2>2. i # 0 /\ i - 1 = l
      BY <2>1
    <2>3. Size[i] = Radix * Size[l]
      BY <2>2, SizeEquation
    <2> QED BY <2>1, <2>3
  <1>3. ASSUME NEW l \in T PROVE l + 1 \in T
    <2>1. \A r, s \in Nat : r >= 2 /\ s > 0 => r * s \in Nat /\ r * s > 0
      OBVIOUS
    <2> QED BY <1>2, <2>1, RadixAssumption
  <1>4. \A l \in Nat : l \in T
    <2>1. T \in SUBSET Nat /\ 0 \in T
      BY <1>1
    <2> HIDE DEF T
    <2> QED BY <1>3, <2>1, SetInduction
  <1> QED BY <1>1, <1>2, <1>4

\* A level whose blocks fit into the log is a level of the frontier.
LEMMA LevelExists ==
  ASSUME NEW l \in Nat, Size[l] <= MaxRevision
  PROVE  l \in Levels
  <1> SUFFICES ASSUME l > TopLevel PROVE FALSE
    BY TopLevelAssumption DEF Levels
  <1> DEFINE T == {k \in Nat : Size[TopLevel + 1 + k] >= Size[TopLevel + 1]}
  <1>0. TopLevel + 1 \in Nat
    BY TopLevelAssumption
  <1>1. 0 \in T
    BY <1>0, SizeFacts
  <1>2. ASSUME NEW k \in T PROVE k + 1 \in T
    <2>1. PICK i \in Nat : i = TopLevel + 1 + k
      BY <1>0
    <2>2. Size[i] \in Nat /\ Size[i + 1] = Radix * Size[i] /\ Size[i + 1] \in Nat
      <3>1. i + 1 \in Nat
        OBVIOUS
      <3> QED BY <3>1, SizeFacts
    <2>3. \A r, s \in Nat : r >= 2 => r * s >= s
      OBVIOUS
    <2>4. Radix * Size[i] >= Size[i]
      BY <2>2, <2>3, RadixAssumption, Zenon
    <2>5. Size[i] >= Size[TopLevel + 1] /\ TopLevel + 1 + (k + 1) = i + 1
      BY <2>1, <1>0
    <2>6. Size[TopLevel + 1] \in Nat
      BY <1>0, SizeFacts
    <2> QED BY <2>2, <2>4, <2>5, <2>6
  <1>3. \A k \in Nat : k \in T
    <2>1. T \in SUBSET Nat
      OBVIOUS
    <2> HIDE DEF T
    <2> QED BY <1>1, <1>2, <2>1, SetInduction
  <1>4. PICK k \in Nat : l = TopLevel + 1 + k
    <2>1. l - (TopLevel + 1) \in Nat
      BY TopLevelAssumption
    <2> QED BY <2>1, TopLevelAssumption
  <1>5. Size[l] >= Size[TopLevel + 1]
    BY <1>3, <1>4
  <1>6. Size[l] \in Nat /\ Size[TopLevel + 1] \in Nat
    BY <1>0, SizeFacts
  <1> QED BY <1>5, <1>6, MaxRevisionAssumption

-----------------------------------------------------------------------------
(* Multiples, and the part of 1..n that whole blocks of a level cover. *)

Multiples(d) == {d * m : m \in Nat}

\* Division with remainder.
LEMMA DivisionFacts ==
  ASSUME NEW n \in Nat, NEW d \in Nat, d > 0
  PROVE  n \div d \in Nat /\ d * (n \div d) <= n /\ n < d * (n \div d) + d
         /\ n % d = n - d * (n \div d)
  OBVIOUS

\* A number lies between two neighbouring multiples in one way only.
LEMMA QuotientIsUnique ==
  ASSUME NEW d \in Nat, NEW n \in Nat, NEW a \in Nat, NEW b \in Nat,
         d * a <= n, n < d * a + d, d * b <= n, n < d * b + d
  PROVE  a = b
  <1>1. ASSUME NEW x \in Nat, NEW y \in Nat, x < y PROVE d * x + d <= d * y
    <2>1. PICK c \in Nat : y = x + 1 + c
      <3>1. y - (x + 1) \in Nat /\ y = x + 1 + (y - (x + 1))
        BY <1>1
      <3> QED BY <3>1
    <2>2. d * y = d * x + d + d * c /\ d * c \in Nat /\ d * x \in Nat
      BY <2>1
    <2> QED BY <2>2
  <1>2. d * a \in Nat /\ d * b \in Nat
    OBVIOUS
  <1>3. ~(a < b)
    BY <1>1, <1>2
  <1>4. ~(b < a)
    BY <1>1, <1>2
  <1> QED BY <1>3, <1>4

\* Of the first n revisions, how many whole blocks of level l cover.
Whole(n, l) == Size[l] * (n \div Size[l])

\* That is the greatest multiple of the size up to n.
LEMMA WholeFacts ==
  ASSUME NEW n \in Nat, NEW l \in Nat
  PROVE  /\ Whole(n, l) \in Nat
         /\ Whole(n, l) \in Multiples(Size[l])
         /\ Whole(n, l) <= n /\ n < Whole(n, l) + Size[l]
  <1>1. PICK d \in Nat : d = Size[l] /\ d > 0
    BY SizeFacts
  <1>2. /\ n \div d \in Nat
        /\ d * (n \div d) <= n /\ n < d * (n \div d) + d
    BY <1>1, DivisionFacts
  <1>3. PICK q \in Nat : q = n \div d
    BY <1>2
  <1>4. Whole(n, l) = d * q /\ d * q \in Nat /\ d * q <= n /\ n < d * q + d
    BY <1>1, <1>2, <1>3 DEF Whole
  <1>5. d * q \in Multiples(d)
    BY DEF Multiples
  <1> QED BY <1>1, <1>4, <1>5

\* ... and the only one that near.
LEMMA WholeIsUnique ==
  ASSUME NEW n \in Nat, NEW l \in Nat, NEW x \in Multiples(Size[l]), x <= n, n < x + Size[l]
  PROVE  x = Whole(n, l)
  <1>1. PICK m \in Nat : x = Size[l] * m
    BY DEF Multiples
  <1>2. Size[l] \in Nat /\ Size[l] > 0
    BY SizeFacts
  <1>3. n \div Size[l] = m
    <2> DEFINE d == Size[l]
    <2>1. d \in Nat /\ d > 0 /\ d * m <= n /\ n < d * m + d
      BY <1>1, <1>2
    <2> HIDE DEF d
    <2>2. n \div d \in Nat /\ d * (n \div d) <= n /\ n < d * (n \div d) + d
      BY <2>1, DivisionFacts
    <2>3. n \div d = m
      BY <2>1, <2>2, QuotientIsUnique
    <2> QED BY <2>3 DEF d
  <1> QED BY <1>1, <1>3 DEF Whole

\* Multiples of one size are closed under sum and difference, and are multiples of
\* the sizes below it.
LEMMA MultiplesFacts ==
  ASSUME NEW d \in Nat
  PROVE  /\ 0 \in Multiples(d) /\ d \in Multiples(d)
         /\ Multiples(d) \subseteq Nat
         /\ \A x, y \in Multiples(d) : x + y \in Multiples(d)
         /\ \A x, y \in Multiples(d) : y <= x => x - y \in Multiples(d)
  <1>1. 0 = d * 0 /\ d = d * 1
    OBVIOUS
  <1>2. ASSUME NEW a \in Nat, NEW b \in Nat
        PROVE  /\ d * a \in Nat
               /\ d * a + d * b = d * (a + b)
               /\ d * b <= d * a => \E c \in Nat : d * a - d * b = d * c
    <2>1. d * a \in Nat /\ d * a + d * b = d * (a + b)
      OBVIOUS
    <2>2. ASSUME d * b <= d * a PROVE \E c \in Nat : d * a - d * b = d * c
      <3>1. CASE b <= a
        <4>1. a - b \in Nat /\ d * a - d * b = d * (a - b)
          BY <3>1
        <4> QED BY <4>1
      <3>2. CASE a < b
        <4>1. PICK c \in Nat : b = a + c
          <5>1. b - a \in Nat /\ b = a + (b - a)
            BY <3>2
          <5> QED BY <5>1
        <4>2. d * b = d * a + d * c /\ d * c \in Nat /\ d * a \in Nat
          BY <4>1
        <4>3. d * a - d * b = d * 0
          BY <4>2, <2>2
        <4> QED BY <4>3
      <3> QED BY <3>1, <3>2
    <2> QED BY <2>1, <2>2
  <1>3. 0 \in Multiples(d) /\ d \in Multiples(d)
    BY <1>1 DEF Multiples
  <1>4. Multiples(d) \subseteq Nat
    BY <1>2 DEF Multiples
  <1>5. ASSUME NEW x \in Multiples(d), NEW y \in Multiples(d)
        PROVE  x + y \in Multiples(d) /\ (y <= x => x - y \in Multiples(d))
    <2>1. PICK a \in Nat : x = d * a
      BY DEF Multiples
    <2>2. PICK b \in Nat : y = d * b
      BY DEF Multiples
    <2>3. a + b \in Nat /\ x + y = d * (a + b)
      BY <2>1, <2>2, <1>2
    <2>4. y <= x => \E c \in Nat : x - y = d * c
      BY <2>1, <2>2, <1>2
    <2> QED BY <2>3, <2>4 DEF Multiples
  <1> QED BY <1>3, <1>4, <1>5

\* Blocks of a level consist of whole blocks of each level below.
LEMMA MultiplesNest ==
  ASSUME NEW l \in Nat, NEW j \in Nat, l <= j
  PROVE  Multiples(Size[j]) \subseteq Multiples(Size[l])
  <1> DEFINE T == {k \in Nat : Multiples(Size[l + k]) \subseteq Multiples(Size[l])}
  <1>1. 0 \in T
    <2>1. l + 0 = l
      OBVIOUS
    <2> QED BY <2>1
  <1>2. ASSUME NEW k \in T PROVE k + 1 \in T
    <2>1. PICK i \in Nat : i = l + k
      OBVIOUS
    <2>2. PICK d \in Nat : d = Size[i]
      BY SizeFacts
    <2>3. Size[i + 1] = Radix * d
      BY <2>2, SizeFacts
    <2>4. ASSUME NEW m \in Nat PROVE (Radix * d) * m \in Multiples(d)
      <3>1. Radix * m \in Nat /\ (Radix * d) * m = d * (Radix * m)
        BY RadixAssumption
      <3> QED BY <3>1 DEF Multiples
    <2>5. Multiples(Size[i + 1]) \subseteq Multiples(Size[i])
      BY <2>2, <2>3, <2>4 DEF Multiples
    <2>6. l + (k + 1) = i + 1
      BY <2>1
    <2> QED BY <2>1, <2>5, <2>6
  <1>3. \A k \in Nat : k \in T
    <2>1. T \in SUBSET Nat
      OBVIOUS
    <2> HIDE DEF T
    <2> QED BY <1>1, <1>2, <2>1, SetInduction
  <1>4. j - l \in Nat /\ l + (j - l) = j
    OBVIOUS
  <1> QED BY <1>3, <1>4

\* A block of level l that ends at b begins where the whole blocks before b end.
LEMMA WholeBefore ==
  ASSUME NEW l \in Nat, NEW b \in Multiples(Size[l]), b > 0
  PROVE  /\ b \in Nat /\ b - 1 \in Nat
         /\ Whole(b, l) = b
         /\ Whole(b - 1, l) = b - Size[l]
         /\ b - Size[l] \in Multiples(Size[l])
  <1>1. PICK d \in Nat : d = Size[l] /\ d > 0
    BY SizeFacts
  <1>2. PICK m \in Nat : b = d * m
    BY <1>1 DEF Multiples
  <1>3. b \in Nat /\ m # 0
    BY <1>2
  <1>4. m - 1 \in Nat /\ b - d = d * (m - 1) /\ d * (m - 1) \in Nat
    BY <1>2, <1>3
  <1>5. b - d \in Multiples(d)
    BY <1>4 DEF Multiples
  <1>6. b - 1 \in Nat /\ b - d <= b - 1 /\ b - 1 < (b - d) + d
    BY <1>1, <1>3, <1>4
  <1>7. b - d = Whole(b - 1, l)
    BY <1>1, <1>5, <1>6, WholeIsUnique
  <1>8. b = Whole(b, l)
    BY <1>1, <1>3, WholeIsUnique
  <1> QED BY <1>1, <1>3, <1>5, <1>6, <1>7, <1>8

\* Where no block of a level ends, the whole blocks are the same one revision before.
LEMMA WholeBetween ==
  ASSUME NEW l \in Nat, NEW b \in Nat, b > 0, b \notin Multiples(Size[l])
  PROVE  Whole(b, l) = Whole(b - 1, l)
  <1>1. PICK d \in Nat : d = Size[l] /\ d > 0
    BY SizeFacts
  <1>2. b - 1 \in Nat
    OBVIOUS
  <1>3. PICK x \in Nat : x = Whole(b - 1, l)
    BY <1>2, WholeFacts
  <1>4. x \in Multiples(d) /\ x <= b - 1 /\ b - 1 < x + d
    BY <1>1, <1>2, <1>3, WholeFacts
  <1>5. x + d \in Multiples(d)
    BY <1>4, MultiplesFacts
  <1>6. b # x + d
    BY <1>1, <1>5
  <1>7. x <= b /\ b < x + d
    BY <1>4, <1>6
  <1>8. x = Whole(b, l)
    BY <1>1, <1>4, <1>7, WholeIsUnique
  <1> QED BY <1>3, <1>8

-----------------------------------------------------------------------------
(* Frontiers and carries.  h[q] is the chain hash of revision q, h[0] the  *)
(* one in front of the log.                                                *)

\* ref refers to the block of level l that follows revision q.
Block(ref, l, q, h) ==
  /\ ref.level = l
  /\ ref.start = q + 1
  /\ ref.end = q + Size[l]
  /\ ref.firstPrev = h[q]
  /\ ref.last = h[q + Size[l]]

\* refs are the blocks of level l between two revisions, in order.
Tile(refs, l, from, to, h) ==
  /\ IsSeq(refs)
  /\ to = from + Size[l] * Len(refs)
  /\ \A k \in DOMAIN refs : Block(refs[k], l, from + Size[l] * (k - 1), h)

\* The frontier f covers 1..n with the largest blocks that fit.
Tiled(f, n, h) ==
  /\ DOMAIN f = Levels
  /\ \A l \in Levels : Tile(f[l], l, Whole(n, l + 1), Whole(n, l), h)

\* A carry on top of 1..b has come to level l: the levels below are empty, the
\* others those of the frontier it started from.
Carrying(f, b, l, h) ==
  /\ DOMAIN f = Levels
  /\ l \in Levels
  /\ b \in Multiples(Size[l]) /\ b > 0
  /\ \A j \in Levels :
        IF j < l THEN f[j] = <<>>
                 ELSE Tile(f[j], j, Whole(b - 1, j + 1), Whole(b - 1, j), h)

\* Levels are numbers.
LEMMA LevelsAreNat == 0 \in Levels /\ \A l \in Levels : l \in Nat /\ l + 1 \in Nat
  BY TopLevelAssumption DEF Levels

\* A carry starts on the frontier of the head.
LEMMA CarryBegins ==
  ASSUME NEW b \in Nat, b > 0, NEW f, NEW h, Tiled(f, b - 1, h)
  PROVE  Carrying(f, b, 0, h)
  <1>1. b = 1 * b /\ Size[0] = 1
    BY SizeFacts
  <1>2. b \in Multiples(Size[0])
    BY <1>1 DEF Multiples
  <1>3. \A j \in Levels : ~(j < 0)
    BY LevelsAreNat
  <1> QED BY <1>2, <1>3, LevelsAreNat DEF Carrying, Tiled

\* The level that a carry has come to holds less than Radix blocks, up to the one that
\* is carried.
LEMMA CarryRoom ==
  ASSUME NEW f, NEW h, NEW l, NEW b, Carrying(f, b, l, h)
  PROVE  /\ l \in Nat /\ l + 1 \in Nat /\ b \in Nat /\ b - 1 \in Nat
         /\ IsSeq(f[l]) /\ Len(f[l]) \in Nat
         /\ Tile(f[l], l, Whole(b - 1, l + 1), b - Size[l], h)
         /\ Len(f[l]) + 1 <= Radix
         /\ Whole(b - 1, l + 1) + Size[l] * (Len(f[l]) + 1) = b
         /\ Len(f[l]) + 1 = Radix <=> b \in Multiples(Size[l + 1])
  <1>1. l \in Nat /\ l + 1 \in Nat /\ b \in Multiples(Size[l]) /\ b > 0
    BY LevelsAreNat DEF Carrying
  <1>2. b \in Nat /\ b - 1 \in Nat /\ Whole(b - 1, l) = b - Size[l]
    BY <1>1, WholeBefore
  <1>3. Tile(f[l], l, Whole(b - 1, l + 1), Whole(b - 1, l), h)
    BY <1>1 DEF Carrying
  <1>4. PICK n \in Nat : n = Len(f[l])
    BY <1>3, EmptyIsSeq, AppendIsSeq DEF Tile
  <1>5. PICK d \in Nat : d = Size[l] /\ d > 0 /\ Size[l + 1] = Radix * d
    BY <1>1, SizeFacts
  <1>6. PICK x \in Nat : x = Whole(b - 1, l + 1)
    BY <1>1, <1>2, WholeFacts
  <1>7. x \in Multiples(Radix * d) /\ x <= b - 1 /\ b - 1 < x + Radix * d
    BY <1>1, <1>2, <1>5, <1>6, WholeFacts
  <1>8. b - d = x + d * n
    BY <1>2, <1>3, <1>4, <1>5, <1>6 DEF Tile
  <1>9. d * (n + 1) = d * n + d /\ x + d * (n + 1) = b /\ d * n \in Nat
    BY <1>8, <1>2
  <1>10. n + 1 <= Radix
    <2> SUFFICES ASSUME Radix < n + 1 PROVE FALSE
      BY RadixAssumption
    <2>1. PICK c \in Nat : n = Radix + c
      <3>1. n - Radix \in Nat /\ n = Radix + (n - Radix)
        BY RadixAssumption
      <3> QED BY <3>1
    <2>2. d * n = Radix * d + d * c /\ d * c \in Nat /\ Radix * d \in Nat
      BY <2>1, RadixAssumption
    <2> QED BY <2>2, <1>7, <1>8, <1>5, <1>2
  <1>11. ASSUME n + 1 = Radix PROVE b \in Multiples(Size[l + 1])
    <2>1. d * (n + 1) = Radix * d /\ Radix * d \in Nat
      BY <1>11, RadixAssumption
    <2>2. b = x + Radix * d
      BY <2>1, <1>9
    <2> QED BY <2>1, <2>2, <1>7, <1>5, MultiplesFacts
  <1>12. ASSUME b \in Multiples(Size[l + 1]) PROVE n + 1 = Radix
    <2>1. x = b - Radix * d /\ Radix * d \in Nat
      BY <1>12, <1>1, <1>5, <1>6, WholeBefore, RadixAssumption
    <2>2. d * (n + 1) = d * Radix
      BY <2>1, <1>9, <1>2, RadixAssumption
    <2>3. d * (n + 1) \in Nat /\ d * (n + 1) <= d * Radix /\ d * Radix < d * (n + 1) + d
          /\ d * Radix <= d * Radix /\ d * Radix < d * Radix + d /\ d * Radix \in Nat
          /\ n + 1 \in Nat /\ Radix \in Nat
      BY <2>2, <1>5, RadixAssumption
    <2> QED BY <2>3, QuotientIsUnique
  <1> QED BY <1>1, <1>2, <1>3, <1>4, <1>5, <1>6, <1>9, <1>10, <1>11, <1>12 DEF Tile

\* The blocks of a level go on with one more.
LEMMA TileAppend ==
  ASSUME NEW refs, NEW l \in Nat, NEW from \in Nat, NEW to \in Nat, NEW h, NEW ref,
         Tile(refs, l, from, to, h), Block(ref, l, to, h)
  PROVE  /\ Tile(Append(refs, ref), l, from, to + Size[l], h)
         /\ Len(Append(refs, ref)) = Len(refs) + 1
  <1>1. IsSeq(refs)
    BY DEF Tile
  <1>2. PICK n \in Nat : n = Len(refs)
    BY <1>1, AppendIsSeq
  <1>3. /\ IsSeq(Append(refs, ref))
        /\ DOMAIN Append(refs, ref) = 1..(n + 1)
        /\ DOMAIN refs = 1..n
        /\ \A k \in 1..n : Append(refs, ref)[k] = refs[k]
        /\ Append(refs, ref)[n + 1] = ref
    BY <1>1, <1>2, AppendIsSeq
  <1>4. Len(Append(refs, ref)) = n + 1
    <2>1. refs \in Seq({refs[k] : k \in DOMAIN refs} \cup {ref})
      BY <1>1 DEF IsSeq
    <2> QED BY <2>1, <1>2
  <1>5. PICK d \in Nat : d = Size[l]
    BY SizeFacts
  <1>6. to = from + d * n
    BY <1>2, <1>5 DEF Tile
  <1>7. d * (n + 1) = d * n + d /\ d * n \in Nat
    OBVIOUS
  <1>8. to + d = from + d * (n + 1)
    BY <1>6, <1>7
  <1>9. ASSUME NEW k \in 1..(n + 1)
        PROVE  Block(Append(refs, ref)[k], l, from + d * (k - 1), h)
    <2>1. CASE k = n + 1
      <3>1. from + d * (k - 1) = to
        BY <2>1, <1>6
      <3> QED BY <2>1, <3>1, <1>3
    <2>2. CASE k # n + 1
      <3>1. k \in 1..n
        BY <2>2
      <3>2. Block(refs[k], l, from + d * (k - 1), h)
        BY <3>1, <1>3, <1>5 DEF Tile
      <3> QED BY <3>1, <3>2, <1>3
    <2> QED BY <2>1, <2>2
  <1> QED BY <1>2, <1>3, <1>4, <1>5, <1>8, <1>9 DEF Tile

\* What carry's append makes of the levels.
LEMMA CarryAdds ==
  ASSUME NEW f, NEW h, NEW l, NEW b, NEW ref,
         Carrying(f, b, l, h), Block(ref, l, b - Size[l], h)
  PROVE  LET added == AddRef(f, l, ref)
         IN /\ DOMAIN added = Levels
            /\ \A j \in Levels \ {l} : added[j] = f[j]
            /\ Tile(added[l], l, Whole(b - 1, l + 1), b, h)
            /\ Len(added[l]) = Len(f[l]) + 1
            /\ Len(added[l]) \in 1..Radix
            /\ Full(added, l) <=> b \in Multiples(Size[l + 1])
  <1> DEFINE added == AddRef(f, l, ref)
  <1>1. /\ l \in Levels /\ DOMAIN f = Levels
        /\ l \in Nat /\ l + 1 \in Nat /\ b \in Nat /\ b - 1 \in Nat
        /\ Len(f[l]) \in Nat
        /\ Tile(f[l], l, Whole(b - 1, l + 1), b - Size[l], h)
        /\ Len(f[l]) + 1 <= Radix
        /\ Len(f[l]) + 1 = Radix <=> b \in Multiples(Size[l + 1])
    BY CarryRoom DEF Carrying
  <1>2. /\ DOMAIN added = Levels
        /\ added[l] = Append(f[l], ref)
        /\ \A j \in Levels \ {l} : added[j] = f[j]
    BY <1>1 DEF AddRef
  <1>3. b - Size[l] \in Nat /\ Whole(b - 1, l + 1) \in Nat /\ Size[l] \in Nat
    <2>1. b \in Multiples(Size[l]) /\ b > 0
      BY DEF Carrying
    <2>2. Whole(b - 1, l) = b - Size[l]
      BY <2>1, <1>1, WholeBefore
    <2> QED BY <2>2, <1>1, WholeFacts, SizeFacts
  <1>4. Tile(added[l], l, Whole(b - 1, l + 1), (b - Size[l]) + Size[l], h)
        /\ Len(added[l]) = Len(f[l]) + 1
    BY <1>1, <1>2, <1>3, TileAppend
  <1>5. (b - Size[l]) + Size[l] = b
    BY <1>1, <1>3
  <1>6. Len(added[l]) \in 1..Radix
    BY <1>1, <1>4, RadixAssumption
  <1>7. Full(added, l) <=> Len(added[l]) = Radix
    BY <1>6, RadixAssumption DEF Full
  <1> HIDE DEF added
  <1>8. /\ DOMAIN added = Levels
        /\ \A j \in Levels \ {l} : added[j] = f[j]
        /\ Tile(added[l], l, Whole(b - 1, l + 1), b, h)
        /\ Len(added[l]) = Len(f[l]) + 1
        /\ Len(added[l]) \in 1..Radix
        /\ Full(added, l) <=> b \in Multiples(Size[l + 1])
    BY <1>1, <1>2, <1>4, <1>5, <1>6, <1>7
  <1> QED BY <1>8 DEF added

\* No blocks between a revision and itself.
LEMMA EmptyTile ==
  ASSUME NEW l \in Nat, NEW q \in Nat, NEW h
  PROVE  Tile(<<>>, l, q, q, h)
  <1>1. Len(<<>>) = 0 /\ Size[l] * 0 = 0
    BY SizeFacts
  <1> QED BY <1>1, EmptyIsSeq DEF Tile

\* When the level has room, the result covers one revision more.
LEMMA CarrySettles ==
  ASSUME NEW f, NEW h, NEW l, NEW b, NEW ref,
         Carrying(f, b, l, h), Block(ref, l, b - Size[l], h), ~Full(AddRef(f, l, ref), l)
  PROVE  Tiled(AddRef(f, l, ref), b, h)
  <1> DEFINE added == AddRef(f, l, ref)
  <1>1. /\ DOMAIN added = Levels
        /\ \A j \in Levels \ {l} : added[j] = f[j]
        /\ Tile(added[l], l, Whole(b - 1, l + 1), b, h)
        /\ b \notin Multiples(Size[l + 1])
    BY CarryAdds
  <1>2. /\ l \in Levels /\ l \in Nat /\ l + 1 \in Nat
        /\ b \in Multiples(Size[l]) /\ b \in Nat /\ b > 0
        /\ \A j \in Levels : IF j < l THEN f[j] = <<>>
                             ELSE Tile(f[j], j, Whole(b - 1, j + 1), Whole(b - 1, j), h)
    BY CarryRoom DEF Carrying
  <1> HIDE DEF added
  <1>3. ASSUME NEW j \in Nat, j <= l PROVE Whole(b, j) = b
    <2>1. b \in Multiples(Size[j])
      BY <1>2, <1>3, MultiplesNest
    <2> QED BY <2>1, <1>2, WholeBefore
  <1>4. ASSUME NEW j \in Nat, l + 1 <= j PROVE Whole(b, j) = Whole(b - 1, j)
    <2>1. b \notin Multiples(Size[j])
      BY <1>1, <1>2, <1>4, MultiplesNest
    <2> QED BY <2>1, <1>2, WholeBetween
  <1>5. ASSUME NEW j \in Levels PROVE Tile(added[j], j, Whole(b, j + 1), Whole(b, j), h)
    <2>0. j \in Nat /\ j + 1 \in Nat
      BY LevelsAreNat
    <2>1. CASE j < l
      <3>1. Whole(b, j) = b /\ Whole(b, j + 1) = b
        BY <2>0, <2>1, <1>2, <1>3
      <3>2. added[j] = <<>>
        BY <2>0, <2>1, <1>1, <1>2
      <3> QED BY <3>1, <3>2, <2>0, <1>2, EmptyTile
    <2>2. CASE j = l
      <3>1. Whole(b, l) = b /\ Whole(b, l + 1) = Whole(b - 1, l + 1)
        BY <1>2, <1>3, <1>4
      <3> QED BY <2>2, <3>1, <1>1
    <2>3. CASE j > l
      <3>1. Whole(b, j) = Whole(b - 1, j) /\ Whole(b, j + 1) = Whole(b - 1, j + 1)
        BY <2>0, <2>3, <1>2, <1>4
      <3>2. added[j] = f[j] /\ Tile(f[j], j, Whole(b - 1, j + 1), Whole(b - 1, j), h)
        BY <2>0, <2>3, <1>1, <1>2
      <3> QED BY <3>1, <3>2
    <2> QED BY <2>0, <2>1, <2>2, <2>3, <1>2
  <1>6. Tiled(added, b, h)
    BY <1>1, <1>5 DEF Tiled
  <1> QED BY <1>6 DEF added

\* When it fills up, its blocks make up one block of the next level, and the carry goes
\* on there.
LEMMA CarryPromotes ==
  ASSUME NEW f, NEW h, NEW l, NEW b \in 1..MaxRevision, NEW ref,
         Carrying(f, b, l, h), Block(ref, l, b - Size[l], h), Full(AddRef(f, l, ref), l)
  PROVE  LET added == AddRef(f, l, ref)
         IN /\ l + 1 \in Levels
            /\ Len(added[l]) = Radix
            /\ Tile(added[l], l, b - Size[l + 1], b, h)
            /\ b - Size[l + 1] \in Multiples(Size[l + 1])
            /\ \A sha : Block(aggregateRef(l + 1, added[l], sha), l + 1, b - Size[l + 1], h)
            /\ Carrying(Clear(added, l), b, l + 1, h)
  <1> DEFINE added == AddRef(f, l, ref)
  <1>1. /\ DOMAIN added = Levels
        /\ \A j \in Levels \ {l} : added[j] = f[j]
        /\ Tile(added[l], l, Whole(b - 1, l + 1), b, h)
        /\ Len(added[l]) = Len(f[l]) + 1
        /\ Len(added[l]) \in 1..Radix
        /\ b \in Multiples(Size[l + 1])
    BY CarryAdds
  <1>2. /\ l \in Levels /\ l \in Nat /\ l + 1 \in Nat /\ b \in Nat /\ b > 0
        /\ \A j \in Levels : IF j < l THEN f[j] = <<>>
                             ELSE Tile(f[j], j, Whole(b - 1, j + 1), Whole(b - 1, j), h)
        /\ Len(f[l]) + 1 = Radix
    BY CarryRoom, <1>1 DEF Carrying
  <1> HIDE DEF added
  <1>3. Whole(b - 1, l + 1) = b - Size[l + 1] /\ b - Size[l + 1] \in Multiples(Size[l + 1])
    BY <1>1, <1>2, WholeBefore
  <1>4. l + 1 \in Levels
    <2>1. b - Size[l + 1] \in Nat /\ Size[l + 1] \in Nat
      BY <1>2, <1>3, MultiplesFacts, SizeFacts
    <2>2. Size[l + 1] <= MaxRevision
      BY <2>1, MaxRevisionAssumption
    <2> QED BY <2>2, <1>2, LevelExists
  <1>5. Len(added[l]) = Radix /\ Tile(added[l], l, b - Size[l + 1], b, h)
    BY <1>1, <1>2, <1>3
  <1>6. ASSUME NEW sha
        PROVE  Block(aggregateRef(l + 1, added[l], sha), l + 1, b - Size[l + 1], h)
    <2>1. PICK q \in Nat : q = b - Size[l + 1]
      BY <1>2, <1>3, MultiplesFacts, SizeFacts
    <2>2. PICK d \in Nat : d = Size[l] /\ Size[l + 1] = Radix * d
      BY <1>2, SizeFacts
    <2>3. IsSeq(added[l]) /\ Len(added[l]) >= 1
      BY <1>1, <1>5 DEF Tile
    <2>4. /\ Head(added[l]) = added[l][1] /\ Last(added[l]) = added[l][Radix]
          /\ 1 \in DOMAIN added[l] /\ Radix \in DOMAIN added[l]
      BY <2>3, <1>5, EndsOfSeq
    <2>5. /\ Block(added[l][1], l, q + d * (1 - 1), h)
          /\ Block(added[l][Radix], l, q + d * (Radix - 1), h)
      BY <2>1, <2>2, <2>4, <1>5 DEF Tile
    <2>6. q + d * (1 - 1) = q /\ (q + d * (Radix - 1)) + d = q + Radix * d
      BY RadixAssumption
    <2>7. /\ Head(added[l]).start = q + 1 /\ Head(added[l]).firstPrev = h[q]
          /\ Last(added[l]).end = q + Size[l + 1] /\ Last(added[l]).last = h[q + Size[l + 1]]
      BY <2>2, <2>4, <2>5, <2>6 DEF Block
    <2> QED BY <2>1, <2>7 DEF Block, aggregateRef
  <1>7. Carrying(Clear(added, l), b, l + 1, h)
    <2>1. /\ DOMAIN Clear(added, l) = Levels
          /\ Clear(added, l)[l] = <<>>
          /\ \A j \in Levels \ {l} : Clear(added, l)[j] = f[j]
      BY <1>1, <1>2 DEF Clear
    <2>2. ASSUME NEW j \in Levels
          PROVE  IF j < l + 1 THEN Clear(added, l)[j] = <<>>
                 ELSE Tile(Clear(added, l)[j], j, Whole(b - 1, j + 1), Whole(b - 1, j), h)
      <3>1. j \in Nat
        BY LevelsAreNat
      <3>2. CASE j = l
        BY <3>1, <3>2, <2>1, <1>2
      <3>3. CASE j < l
        <4>1. j < l + 1 /\ Clear(added, l)[j] = f[j] /\ f[j] = <<>>
          BY <3>1, <3>3, <2>1, <1>2
        <4> QED BY <4>1
      <3>4. CASE j > l
        <4>1. ~(j < l + 1) /\ ~(j < l) /\ Clear(added, l)[j] = f[j]
          BY <3>1, <3>4, <2>1, <1>2
        <4> QED BY <4>1, <1>2
      <3> QED BY <3>1, <3>2, <3>3, <3>4, <1>2
    <2> QED BY <2>1, <2>2, <1>1, <1>2, <1>4 DEF Carrying
  <1> QED BY <1>3, <1>4, <1>5, <1>6, <1>7 DEF added

-----------------------------------------------------------------------------
(* validateFrontier accepts a frontier that covers what precedes a commit. *)

\* The number of references of a level is the digit of revision - 1.
LEMMA TileLength ==
  ASSUME NEW n \in Nat, NEW l \in Nat, NEW refs, NEW h,
         Tile(refs, l, Whole(n, l + 1), Whole(n, l), h)
  PROVE  Len(refs) = Digit(n + 1, l)
  <1>1. PICK d \in Nat : d = Size[l] /\ d > 0 /\ Size[l + 1] = Radix * d
    BY SizeFacts
  <1>2. PICK m \in Nat : m = Len(refs)
    BY AppendIsSeq DEF Tile
  <1>3. PICK q \in Nat : q = n \div d
    BY <1>1, DivisionFacts
  <1>4. PICK x \in Nat : x = Whole(n, l + 1) /\ x \in Multiples(Size[l + 1])
                         /\ x <= n /\ n < x + Size[l + 1]
    <2>1. l + 1 \in Nat
      OBVIOUS
    <2> QED BY <2>1, WholeFacts
  <1>5. x \in Multiples(Radix * d) /\ x <= n /\ n < x + Radix * d
    BY <1>1, <1>4
  <1>6. PICK p \in Nat : x = (Radix * d) * p
    BY <1>5 DEF Multiples
  <1>7. d * q = x + d * m /\ d * q <= n
    BY <1>1, <1>2, <1>3, <1>4, DivisionFacts DEF Tile, Whole
  <1>8. Radix * p \in Nat /\ x = d * (Radix * p) /\ d * (Radix * p + m) = x + d * m
    BY <1>6, RadixAssumption
  <1>9. q = Radix * p + m
    <2>1. PICK r \in Nat : r = Radix * p + m
      BY <1>8
    <2>2. d * q = d * r /\ d * q \in Nat
      BY <2>1, <1>7, <1>8
    <2>3. d * q <= d * q /\ d * q < d * q + d /\ d * r <= d * q /\ d * q < d * r + d
      BY <2>2, <1>1
    <2>4. q = r
      BY <2>2, <2>3, QuotientIsUnique
    <2> QED BY <2>1, <2>4
  <1>10. m < Radix
    <2> SUFFICES ASSUME Radix <= m PROVE FALSE
      BY RadixAssumption
    <2>1. PICK c \in Nat : m = Radix + c
      <3>1. m - Radix \in Nat /\ m = Radix + (m - Radix)
        BY RadixAssumption
      <3> QED BY <3>1
    <2>2. d * m = Radix * d + d * c /\ d * c \in Nat /\ Radix * d \in Nat
      BY <2>1, RadixAssumption
    <2> QED BY <2>2, <1>5, <1>7
  <1>11. q % Radix = m
    <2>1. q \div Radix \in Nat /\ Radix * (q \div Radix) <= q
          /\ q < Radix * (q \div Radix) + Radix /\ q % Radix = q - Radix * (q \div Radix)
      BY RadixAssumption, DivisionFacts
    <2>2. Radix * p <= q /\ q < Radix * p + Radix
      BY <1>8, <1>9, <1>10, RadixAssumption
    <2>3. q \div Radix = p
      BY <2>1, <2>2, RadixAssumption, QuotientIsUnique
    <2> QED BY <2>1, <2>3, <1>8, <1>9
  <1>12. (n + 1) - 1 = n
    OBVIOUS
  <1> QED BY <1>1, <1>2, <1>3, <1>11, <1>12 DEF Digit

\* validateRef accepts a reference to a block within the log.
LEMMA BlockIsValid ==
  ASSUME NEW ref, NEW l \in Levels, NEW q \in Multiples(Size[l]), NEW h,
         Block(ref, l, q, h), q + Size[l] <= MaxRevision
  PROVE  validateRef(ref)
  <1>1. l \in Nat
    BY LevelsAreNat
  <1>2. PICK d \in Nat : d = Size[l] /\ d > 0
    BY <1>1, SizeFacts
  <1>3. PICK m \in Nat : q = d * m
    BY <1>2 DEF Multiples
  <1>4. q \in Nat
    BY <1>3
  <1>5. q % d = 0
    <2>1. q \div d \in Nat /\ d * (q \div d) <= q /\ q < d * (q \div d) + d
          /\ q % d = q - d * (q \div d)
      BY <1>2, <1>4, DivisionFacts
    <2>2. d * m <= q /\ q < d * m + d
      BY <1>2, <1>3, <1>4
    <2>3. q \div d = m
      BY <2>1, <2>2, <1>4, QuotientIsUnique
    <2> QED BY <2>1, <2>3, <1>3, <1>4
  <1>6. ref.level = l /\ ref.start = q + 1 /\ ref.end = q + d
    BY <1>2 DEF Block
  <1>7. ref.start \in Revisions /\ ref.end \in Revisions
    BY <1>2, <1>4, <1>6, MaxRevisionAssumption DEF Revisions
  <1>8. ref.start - 1 = q /\ ref.start <= MaxRevision - (d - 1) /\ ref.end = ref.start + (d - 1)
    BY <1>2, <1>4, <1>6, MaxRevisionAssumption
  <1> QED BY <1>2, <1>5, <1>6, <1>7, <1>8 DEF validateRef

\* Where a block of a tile begins.
LEMMA TileBlock ==
  ASSUME NEW refs, NEW l \in Nat, NEW from \in Multiples(Size[l]), NEW to, NEW h,
         Tile(refs, l, from, to, h), NEW k \in DOMAIN refs
  PROVE  \E q \in Multiples(Size[l]) :
            /\ q = from + Size[l] * (k - 1)
            /\ Block(refs[k], l, q, h)
            /\ from <= q /\ q + Size[l] <= to
  <1>1. PICK d \in Nat : d = Size[l] /\ d > 0
    BY SizeFacts
  <1>2. PICK n \in Nat : n = Len(refs) /\ DOMAIN refs = 1..n
    BY AppendIsSeq DEF Tile
  <1>3. from \in Nat /\ from \in Multiples(d)
    BY <1>1, MultiplesFacts
  <1>4. k \in 1..n /\ k - 1 \in Nat /\ n - k \in Nat
    BY <1>2
  <1>5. d * (k - 1) \in Multiples(d) /\ d * (k - 1) \in Nat
    BY <1>4 DEF Multiples
  <1>6. from + d * (k - 1) \in Multiples(d)
    BY <1>3, <1>5, MultiplesFacts
  <1>7. to = from + d * n /\ Block(refs[k], l, from + d * (k - 1), h)
    BY <1>1, <1>2 DEF Tile
  <1>8. d * n = d * (k - 1) + d + d * (n - k) /\ d * (n - k) \in Nat
    BY <1>4
  <1>9. (from + d * (k - 1)) + d <= to /\ from <= from + d * (k - 1)
    BY <1>3, <1>5, <1>7, <1>8
  <1> QED BY <1>1, <1>6, <1>7, <1>9

\* A tile is a partition.
LEMMA TilePartition ==
  ASSUME NEW refs, NEW l \in Nat, NEW from \in Nat, NEW to, NEW h, Tile(refs, l, from, to, h)
  PROVE  Partition(refs, from + 1, to + 1, h[from], h[to])
  <1>1. PICK d \in Nat : d = Size[l] /\ d > 0
    BY SizeFacts
  <1>2. PICK n \in Nat : n = Len(refs) /\ DOMAIN refs = 1..n
    BY AppendIsSeq DEF Tile
  <1>3. IsSeq(refs) /\ to = from + d * n
        /\ \A k \in 1..n : Block(refs[k], l, from + d * (k - 1), h)
    BY <1>1, <1>2 DEF Tile
  <1>4. ASSUME NEW k \in 1..n
        PROVE  /\ refs[k].start = IF k = 1 THEN from + 1 ELSE refs[k - 1].end + 1
               /\ refs[k].firstPrev = IF k = 1 THEN h[from] ELSE refs[k - 1].last
    <2>1. refs[k].start = (from + d * (k - 1)) + 1 /\ refs[k].firstPrev = h[from + d * (k - 1)]
      BY <1>3 DEF Block
    <2>2. CASE k = 1
      <3>1. from + d * (k - 1) = from
        BY <2>2
      <3> QED BY <2>1, <2>2, <3>1
    <2>3. CASE k # 1
      <3>1. k - 1 \in 1..n
        BY <2>3
      <3>2. refs[k - 1].end = (from + d * ((k - 1) - 1)) + d
            /\ refs[k - 1].last = h[(from + d * ((k - 1) - 1)) + d]
        BY <3>1, <1>1, <1>3 DEF Block
      <3>3. (from + d * ((k - 1) - 1)) + d = from + d * (k - 1)
        OBVIOUS
      <3> QED BY <2>1, <2>3, <3>2, <3>3
    <2> QED BY <2>2, <2>3
  <1>5. CASE n = 0
    <2>1. refs = <<>> /\ to = from
      <3>1. refs = <<>>
        BY <1>2, <1>3, <1>5 DEF IsSeq
      <3>2. d * 0 = 0
        OBVIOUS
      <3> QED BY <3>1, <3>2, <1>3, <1>5
    <2>2. DOMAIN refs = {}
      BY <1>2, <1>5
    <2> QED BY <2>1, <2>2 DEF Partition
  <1>6. CASE n # 0
    <2>1. refs # <<>>
      BY <1>2, <1>6
    <2>2. Last(refs) = refs[n] /\ n \in 1..n
      BY <1>2, <1>3, <1>6, EndsOfSeq
    <2>3. refs[n].end = (from + d * (n - 1)) + d /\ refs[n].last = h[(from + d * (n - 1)) + d]
      BY <2>2, <1>1, <1>3 DEF Block
    <2>4. (from + d * (n - 1)) + d = to
      BY <1>3
    <2> QED BY <1>2, <1>4, <2>1, <2>2, <2>3, <2>4 DEF Partition
  <1> QED BY <1>5, <1>6

\* Two partitions that meet are one.
LEMMA PartitionConcat ==
  ASSUME NEW E, NEW s \in Seq(E), NEW t \in Seq(E), NEW a, NEW b, NEW c, NEW ha, NEW hb, NEW hc,
         Partition(s, a, b, ha, hb), Partition(t, b, c, hb, hc)
  PROVE  Partition(s \o t, a, c, ha, hc)
  <1>1. PICK m \in Nat, n \in Nat : m = Len(s) /\ n = Len(t)
    OBVIOUS
  <1> DEFINE u == s \o t
  <1>2. /\ u \in Seq(E) /\ Len(u) = m + n /\ DOMAIN u = 1..(m + n)
        /\ DOMAIN s = 1..m /\ DOMAIN t = 1..n
        /\ \A k \in 1..m : u[k] = s[k]
        /\ \A k \in 1..(m + n) : k > m => u[k] = t[k - m]
    BY <1>1
  <1>3. (s = <<>> <=> m = 0) /\ (t = <<>> <=> n = 0) /\ (u = <<>> <=> m + n = 0)
    BY <1>1, <1>2
  <1>4. (m # 0 => Last(s) = s[m]) /\ (n # 0 => Last(t) = t[n]) /\ (m + n # 0 => Last(u) = u[m + n])
    BY <1>1, <1>2 DEF Last
  <1> HIDE DEF u
  <1>5. /\ \A k \in 1..m : /\ s[k].start = IF k = 1 THEN a ELSE s[k - 1].end + 1
                           /\ s[k].firstPrev = IF k = 1 THEN ha ELSE s[k - 1].last
        /\ b = IF m = 0 THEN a ELSE s[m].end + 1
        /\ hb = IF m = 0 THEN ha ELSE s[m].last
    BY <1>2, <1>3, <1>4 DEF Partition
  <1>6. /\ \A k \in 1..n : /\ t[k].start = IF k = 1 THEN b ELSE t[k - 1].end + 1
                           /\ t[k].firstPrev = IF k = 1 THEN hb ELSE t[k - 1].last
        /\ c = IF n = 0 THEN b ELSE t[n].end + 1
        /\ hc = IF n = 0 THEN hb ELSE t[n].last
    BY <1>2, <1>3, <1>4 DEF Partition
  <1>7. ASSUME NEW k \in 1..(m + n)
        PROVE  /\ u[k].start = IF k = 1 THEN a ELSE u[k - 1].end + 1
               /\ u[k].firstPrev = IF k = 1 THEN ha ELSE u[k - 1].last
    <2>1. CASE k <= m
      <3>1. k \in 1..m /\ (k # 1 => k - 1 \in 1..m)
        BY <2>1
      <3> QED BY <3>1, <1>2, <1>5
    <2>2. CASE k = m + 1
      <3>1. k > m /\ k - m = 1 /\ 1 \in 1..n /\ (k = 1 <=> m = 0) /\ k - 1 = m
            /\ (m # 0 => m \in 1..m)
        BY <2>2
      <3>2. u[k] = t[1]
        BY <3>1, <1>2
      <3>3. t[1].start = b /\ t[1].firstPrev = hb
        BY <3>1, <1>6
      <3>4. m # 0 => u[k - 1] = s[m]
        BY <3>1, <1>2
      <3> QED BY <3>1, <3>2, <3>3, <3>4, <1>5
    <2>3. CASE k > m + 1
      <3>1. PICK i \in 1..n : i = k - m /\ i # 1 /\ i - 1 \in 1..n /\ (k - 1) - m = i - 1
        BY <2>3
      <3>2. k - 1 \in 1..(m + n) /\ k - 1 > m /\ k > m /\ k # 1
        BY <2>3
      <3>3. u[k] = t[i] /\ u[k - 1] = t[i - 1]
        BY <3>1, <3>2, <1>2
      <3> QED BY <3>1, <3>2, <3>3, <1>6
    <2> QED BY <2>1, <2>2, <2>3
  <1>8. /\ c = IF m + n = 0 THEN a ELSE u[m + n].end + 1
        /\ hc = IF m + n = 0 THEN ha ELSE u[m + n].last
    <2>1. CASE n = 0
      <3>1. m # 0 => m \in 1..m /\ u[m] = s[m]
        BY <1>2
      <3> QED BY <2>1, <3>1, <1>5, <1>6
    <2>2. CASE n # 0
      <3>1. m + n \in 1..(m + n) /\ m + n > m /\ (m + n) - m = n /\ m + n # 0
        BY <2>2
      <3>2. u[m + n] = t[n]
        BY <3>1, <1>2
      <3> QED BY <2>2, <3>1, <3>2, <1>6
    <2> QED BY <2>1, <2>2
  <1>9. Partition(u, a, c, ha, hc)
    BY <1>2, <1>3, <1>4, <1>7, <1>8 DEF Partition
  <1> QED BY <1>9 DEF u

\* The references of a frontier.
RefsOf(f) == {f[x[1]][x[2]] : x \in {y \in Levels \X Nat : y[2] \in DOMAIN f[y[1]]}}

\* The levels of a frontier are sequences of its references.
LEMMA LevelsOfRefs ==
  ASSUME NEW f, NEW l \in Levels, IsSeq(f[l])
  PROVE  f[l] \in Seq(RefsOf(f))
  <1>1. f[l] \in Seq({f[l][k] : k \in DOMAIN f[l]}) /\ DOMAIN f[l] \subseteq Nat
    BY DEF IsSeq
  <1>2. ASSUME NEW k \in DOMAIN f[l] PROVE f[l][k] \in RefsOf(f)
    <2> DEFINE x == <<l, k>>
    <2>1. x \in {y \in Levels \X Nat : y[2] \in DOMAIN f[y[1]]} /\ f[l][k] = f[x[1]][x[2]]
      BY <1>1
    <2> HIDE DEF x
    <2> QED BY <2>1 DEF RefsOf
  <1> QED BY <1>1, <1>2

\* The first m levels from the top.
TopLevels(f, m) == [k \in 1..m |-> f[TopLevel + 1 - k]]

\* They are a sequence of sequences of references.
LEMMA TopLevelsType ==
  ASSUME NEW f, \A l \in Levels : IsSeq(f[l]), NEW m \in 0..(TopLevel + 1)
  PROVE  TopLevels(f, m) \in Seq(Seq(RefsOf(f)))
  <1> DEFINE S == Seq(RefsOf(f))
  <1>1. ASSUME NEW k \in 1..m PROVE f[TopLevel + 1 - k] \in S
    <2>1. TopLevel + 1 - k \in Levels
      BY TopLevelAssumption DEF Levels
    <2> QED BY <2>1, LevelsOfRefs
  <1> HIDE DEF S
  <1>2. m \in Nat
    BY TopLevelAssumption
  <1>3. TopLevels(f, m) \in Seq(S)
    BY <1>1, <1>2 DEF TopLevels
  <1> QED BY <1>3 DEF S

\* The references of a frontier in chronological order are its references.
LEMMA ChronologicalType ==
  ASSUME NEW f, \A l \in Levels : IsSeq(f[l])
  PROVE  Chronological(f) \in Seq(RefsOf(f))
  <1>1. TopLevel + 1 \in 0..(TopLevel + 1)
    BY TopLevelAssumption
  <1>2. TopLevels(f, TopLevel + 1) \in Seq(Seq(RefsOf(f)))
    BY <1>1, TopLevelsType
  <1>3. Chronological(f) = FlattenSeq(TopLevels(f, TopLevel + 1))
    BY DEF Chronological, TopLevels
  <1>4. FlattenSeq(TopLevels(f, TopLevel + 1)) \in Seq(RefsOf(f))
    BY <1>2, FlattenType
  <1> QED BY <1>3, <1>4

\* No block of the level above the top fits into the log.
LEMMA WholeTop ==
  ASSUME NEW n \in Nat, n <= MaxRevision
  PROVE  Whole(n, TopLevel + 1) = 0
  <1>1. TopLevel + 1 \in Nat
    BY TopLevelAssumption
  <1>2. 0 \in Multiples(Size[TopLevel + 1]) /\ Size[TopLevel + 1] \in Nat
    BY <1>1, SizeFacts, MultiplesFacts
  <1>3. 0 <= n /\ n < 0 + Size[TopLevel + 1]
    BY <1>2, MaxRevisionAssumption
  <1> QED BY <1>1, <1>2, <1>3, WholeIsUnique

\* From the top down, a tiled frontier is a partition of the revisions it covers.
LEMMA TiledPartition ==
  ASSUME NEW n \in Nat, n <= MaxRevision, NEW f, NEW h, Tiled(f, n, h)
  PROVE  Partition(Chronological(f), 1, n + 1, h[0], h[n])
  <1> DEFINE P(m) == LET q == Whole(n, TopLevel + 1 - m)
                     IN Partition(FlattenSeq(TopLevels(f, m)), 1, q + 1, h[0], h[q])
             T == {m \in Nat : m <= TopLevel + 1 => P(m)}
  <1>0. \A l \in Levels : IsSeq(f[l])
    BY DEF Tiled, Tile
  <1>1. 0 \in T
    <2>1. TopLevels(f, 0) = <<>>
      BY DEF TopLevels
    <2>2. FlattenSeq(<<>>) = <<>>
      BY DEF FlattenSeq
    <2>3. TopLevel + 1 - 0 = TopLevel + 1 /\ Whole(n, TopLevel + 1) = 0 /\ 0 + 1 = 1
      BY TopLevelAssumption, WholeTop
    <2>4. Partition(<<>>, 1, 1, h[0], h[0])
      BY DEF Partition
    <2> QED BY <2>1, <2>2, <2>3, <2>4
  <1>2. ASSUME NEW m \in T PROVE m + 1 \in T
    <2> SUFFICES ASSUME m + 1 <= TopLevel + 1 PROVE P(m + 1)
      OBVIOUS
    <2>0. m \in Nat /\ m <= TopLevel + 1 /\ P(m)
      BY TopLevelAssumption
    <2>1. PICK l \in Levels : l = TopLevel + 1 - (m + 1) /\ l + 1 = TopLevel + 1 - m /\ l \in Nat
                              /\ l + 1 \in Nat
      BY <2>0, TopLevelAssumption DEF Levels
    <2>2. Tile(f[l], l, Whole(n, l + 1), Whole(n, l), h) /\ Whole(n, l + 1) \in Nat
      BY <2>1, WholeFacts DEF Tiled
    <2>3. Partition(f[l], Whole(n, l + 1) + 1, Whole(n, l) + 1, h[Whole(n, l + 1)], h[Whole(n, l)])
      BY <2>1, <2>2, TilePartition
    <2> DEFINE ss == TopLevels(f, m)
               tt == TopLevels(f, m + 1)
               E == RefsOf(f)
    <2>4. ss \in Seq(Seq(E)) /\ tt \in Seq(Seq(E))
      <3>1. m \in 0..(TopLevel + 1) /\ m + 1 \in 0..(TopLevel + 1)
        BY <2>0
      <3> QED BY <3>1, <1>0, TopLevelsType
    <2>5. Len(ss) = m /\ Len(tt) = m + 1 /\ (\A k \in 1..m : ss[k] = tt[k]) /\ tt[m + 1] = f[l]
      BY <2>0, <2>1 DEF TopLevels
    <2>6. FlattenSeq(ss) \in Seq(E) /\ f[l] \in Seq(E)
      BY <2>4, <1>0, FlattenType, LevelsOfRefs
    <2> HIDE DEF ss, tt, E
    <2>7. FlattenSeq(tt) = FlattenSeq(ss) \o tt[m + 1]
      BY <2>0, <2>4, <2>5, FlattenStep
    <2>8. Partition(FlattenSeq(ss), 1, Whole(n, l + 1) + 1, h[0], h[Whole(n, l + 1)])
      BY <2>0, <2>1 DEF ss
    <2>9. Partition(FlattenSeq(ss) \o f[l], 1, Whole(n, l) + 1, h[0], h[Whole(n, l)])
      BY <2>3, <2>6, <2>8, PartitionConcat
    <2> QED BY <2>1, <2>5, <2>7, <2>9 DEF tt
  <1>3. \A m \in Nat : m \in T
    <2> HIDE DEF T
    <2>1. T \in SUBSET Nat
      BY DEF T
    <2> QED BY <1>1, <1>2, <2>1, SetInduction
  <1>4. P(TopLevel + 1)
    BY <1>3, TopLevelAssumption
  <1>5. TopLevel + 1 - (TopLevel + 1) = 0 /\ Whole(n, 0) = n
    <2>1. Size[0] = 1 /\ 1 * n = n /\ n < n + 1
      BY SizeFacts
    <2>2. n \in Multiples(Size[0])
      BY <2>1 DEF Multiples
    <2>3. n = Whole(n, 0)
      BY <2>1, <2>2, WholeIsUnique
    <2> QED BY <2>3, TopLevelAssumption
  <1>6. Chronological(f) = FlattenSeq(TopLevels(f, TopLevel + 1))
    BY DEF Chronological, TopLevels
  <1> QED BY <1>4, <1>5, <1>6

\* What a reference of a tiled frontier refers to.
LEMMA TiledBlock ==
  ASSUME NEW n \in Nat, NEW f, NEW h, Tiled(f, n, h), NEW l \in Levels, NEW k \in DOMAIN f[l]
  PROVE  \E q \in Multiples(Size[l]) : Block(f[l][k], l, q, h) /\ q + Size[l] <= n
  <1>1. l \in Nat /\ l + 1 \in Nat
    BY LevelsAreNat
  <1>2. /\ Tile(f[l], l, Whole(n, l + 1), Whole(n, l), h)
        /\ Whole(n, l) \in Nat /\ Whole(n, l) <= n
        /\ Whole(n, l + 1) \in Multiples(Size[l + 1])
    BY <1>1, WholeFacts DEF Tiled
  <1>3. Whole(n, l + 1) \in Multiples(Size[l])
    BY <1>1, <1>2, MultiplesNest
  <1>4. PICK q \in Multiples(Size[l]) : Block(f[l][k], l, q, h) /\ q + Size[l] <= Whole(n, l)
    BY <1>1, <1>2, <1>3, TileBlock
  <1>5. q \in Nat /\ Size[l] \in Nat
    BY <1>1, SizeFacts, MultiplesFacts
  <1> QED BY <1>2, <1>4, <1>5

\* validateFrontier accepts a frontier that covers exactly what precedes the commit.
LEMMA TiledIsValid ==
  ASSUME NEW n \in Nat, n + 1 \in Revisions, NEW f, NEW h, Tiled(f, n, h), h[0] = ZeroHash
  PROVE  validateFrontier(f, n + 1, h[n])
  <1>1. n <= MaxRevision
    BY MaxRevisionAssumption DEF Revisions
  <1>2. Partition(Chronological(f), 1, n + 1, ZeroHash, h[n])
    BY <1>1, TiledPartition
  <1>3. ASSUME NEW l \in Levels
        PROVE  /\ Len(f[l]) = Digit(n + 1, l)
               /\ \A k \in DOMAIN f[l] :
                     validateRef(f[l][k]) /\ f[l][k].level = l /\ f[l][k].end < n + 1
    <2>1. l \in Nat
      BY LevelsAreNat
    <2>2. Len(f[l]) = Digit(n + 1, l)
      BY <2>1, TileLength DEF Tiled
    <2>3. ASSUME NEW k \in DOMAIN f[l]
          PROVE  validateRef(f[l][k]) /\ f[l][k].level = l /\ f[l][k].end < n + 1
      <3>1. PICK q \in Multiples(Size[l]) : Block(f[l][k], l, q, h) /\ q + Size[l] <= n
        BY TiledBlock
      <3>2. q \in Nat /\ Size[l] \in Nat
        BY <2>1, SizeFacts, MultiplesFacts
      <3>3. q + Size[l] <= MaxRevision
        BY <3>1, <3>2, <1>1, MaxRevisionAssumption
      <3>4. validateRef(f[l][k])
        BY <3>1, <3>3, BlockIsValid
      <3> QED BY <3>1, <3>2, <3>4 DEF Block
    <2> QED BY <2>2, <2>3
  <1> QED BY <1>2, <1>3 DEF validateFrontier

-----------------------------------------------------------------------------
(* One writer's carries (FrontierCarry). *)

ChainHashes == [q \in 0..MaxRevision |-> ChainHash(q)]

\* The inductive invariant of FrontierCarry: the head's frontier covers what precedes
\* the head, and a carry under way is on top of it.
CarryInv ==
  /\ head \in 0..MaxRevision
  /\ head = 0 => frontier = EmptyFrontier /\ carry = <<>>
  /\ head > 0 => Tiled(frontier, head - 1, ChainHashes)
  /\ carry # <<>> =>
        /\ head < MaxRevision
        /\ Carrying(newLevels, head, carryLevel, ChainHashes)
        /\ Block(carry, carryLevel, head - Size[carryLevel], ChainHashes)

\* The frontier of the first commit covers nothing.
LEMMA EmptyTiled ==
  ASSUME NEW h
  PROVE  Tiled(EmptyFrontier, 0, h)
  <1>1. ASSUME NEW l \in Nat PROVE Whole(0, l) = 0
    <2>1. Size[l] \in Nat /\ Size[l] > 0 /\ 0 \in Multiples(Size[l])
      BY SizeFacts, MultiplesFacts
    <2>2. 0 = Whole(0, l)
      BY <2>1, WholeIsUnique
    <2> QED BY <2>2
  <1>2. ASSUME NEW l \in Levels
        PROVE  Tile(EmptyFrontier[l], l, Whole(0, l + 1), Whole(0, l), h)
    <2>1. l \in Nat /\ l + 1 \in Nat
      BY LevelsAreNat
    <2>2. Whole(0, l) = 0 /\ Whole(0, l + 1) = 0 /\ EmptyFrontier[l] = <<>>
      BY <2>1, <1>1 DEF EmptyFrontier
    <2>3. Tile(<<>>, l, 0, 0, h)
      BY <2>1, EmptyTile
    <2> QED BY <2>2, <2>3
  <1> QED BY <1>2 DEF Tiled, EmptyFrontier

\* Each step of a carry keeps the invariant.
LEMMA CarryStep ==
  ASSUME CarryInv, CarryNext
  PROVE  CarryInv'
  <1> DEFINE h == ChainHashes
  <1>0. MaxRevision \in Nat /\ MaxRevision > 0 /\ head \in Nat
    BY MaxRevisionAssumption DEF CarryInv
  <1>1. CASE Genesis
    <2>1. head = 0 /\ head' = 1 /\ frontier' = EmptyFrontier /\ carry' = <<>>
      BY <1>1 DEF Genesis, CarryInv
    <2>2. Tiled(EmptyFrontier, 0, h)
      BY EmptyTiled
    <2>3. 1 - 1 = 0 /\ 1 \in 0..MaxRevision
      BY <1>0
    <2> QED BY <2>1, <2>2, <2>3 DEF CarryInv
  <1>2. CASE BeginCarry
    <2>1. /\ head > 0 /\ head < MaxRevision /\ head' = head /\ frontier' = frontier
          /\ newLevels' = frontier /\ carryLevel' = 0 /\ carry' = headRef
      BY <1>0, <1>2 DEF BeginCarry
    <2>2. Carrying(frontier, head, 0, h)
      BY <2>1, <1>0, CarryBegins DEF CarryInv
    <2>3. Block(headRef, 0, head - Size[0], h)
      <3>1. Size[0] = 1 /\ (head - 1) + 1 = head /\ head - 1 \in 0..MaxRevision /\ head \in 0..MaxRevision
        BY <1>0, <2>1, SizeFacts
      <3>2. h[head - 1] = ChainHash(head - 1) /\ h[head] = ChainHash(head)
        BY <3>1 DEF ChainHashes
      <3> QED BY <3>1, <3>2 DEF Block, headRef
    <2> QED BY <2>1, <2>2, <2>3 DEF CarryInv
  <1>3. CASE Settle
    <2>1. /\ head < MaxRevision
          /\ Carrying(newLevels, head, carryLevel, h)
          /\ Block(carry, carryLevel, head - Size[carryLevel], h)
          /\ ~Full(AddRef(newLevels, carryLevel, carry), carryLevel)
          /\ frontier' = AddRef(newLevels, carryLevel, carry)
          /\ head' = head + 1 /\ carry' = <<>>
      BY <1>3 DEF Settle, CarryInv
    <2>2. Tiled(AddRef(newLevels, carryLevel, carry), head, h)
      BY <2>1, CarrySettles
    <2>3. (head + 1) - 1 = head /\ head + 1 \in 0..MaxRevision /\ head + 1 # 0
      BY <1>0, <2>1
    <2> QED BY <2>1, <2>2, <2>3 DEF CarryInv
  <1>4. CASE Promote
    <2> DEFINE added == AddRef(newLevels, carryLevel, carry)
    <2>1. /\ head < MaxRevision
          /\ Carrying(newLevels, head, carryLevel, h)
          /\ Block(carry, carryLevel, head - Size[carryLevel], h)
          /\ Full(added, carryLevel)
          /\ newLevels' = Clear(added, carryLevel)
          /\ carryLevel' = carryLevel + 1
          /\ carry' = aggregateRef(carryLevel + 1, added[carryLevel], "segment")
          /\ head' = head /\ frontier' = frontier
      BY <1>4 DEF Promote, CarryInv
    <2>2. head \in 1..MaxRevision
      BY <2>1, <1>0 DEF Carrying
    <2>3. /\ Carrying(Clear(added, carryLevel), head, carryLevel + 1, h)
          /\ Block(aggregateRef(carryLevel + 1, added[carryLevel], "segment"), carryLevel + 1,
                   head - Size[carryLevel + 1], h)
      BY <2>1, <2>2, CarryPromotes
    <2> HIDE DEF added
    <2>4. head # 0
      BY <2>2
    <2> QED BY <2>1, <2>2, <2>3, <2>4 DEF CarryInv
  <1> QED BY <1>1, <1>2, <1>3, <1>4 DEF CarryNext

\* The frontier that carry builds passes validateFrontier at every revision, for every
\* radix and number of levels (carry in objects.go, validateFrontier in wire.go).
THEOREM CarryBuildsValidFrontiers == CarrySpec => []FrontierValid
  <1>1. CarryInit => CarryInv
    BY MaxRevisionAssumption DEF CarryInit, CarryInv
  <1>2. CarryInv /\ [CarryNext]_carryVars => CarryInv'
    <2>1. CarryInv /\ UNCHANGED carryVars => CarryInv'
      BY DEF CarryInv, carryVars
    <2> QED BY <2>1, CarryStep
  <1>3. CarryInv => FrontierValid
    <2> SUFFICES ASSUME CarryInv, head > 0
                 PROVE  validateFrontier(frontier, head, ChainHash(head - 1))
      BY DEF FrontierValid
    <2>1. PICK n \in Nat : n = head - 1 /\ n + 1 = head
      <3>1. head - 1 \in Nat /\ (head - 1) + 1 = head
        BY DEF CarryInv
      <3> QED BY <3>1
    <2>2. n + 1 \in Revisions /\ n \in 0..MaxRevision /\ 0 \in 0..MaxRevision
      BY <2>1, MaxRevisionAssumption DEF CarryInv, Revisions
    <2>3. ChainHashes[0] = ZeroHash /\ ChainHashes[n] = ChainHash(n)
      BY <2>2 DEF ChainHashes, ChainHash
    <2>4. Tiled(frontier, n, ChainHashes)
      BY <2>1 DEF CarryInv
    <2>5. validateFrontier(frontier, n + 1, ChainHashes[n])
      BY <2>2, <2>3, <2>4, TiledIsValid
    <2> QED BY <2>1, <2>3, <2>5
  <1> QED BY <1>1, <1>2, <1>3, PTL DEF CarrySpec

-----------------------------------------------------------------------------
(* What the store holds.  o stands for the objects of the store, so that   *)
(* the same definitions speak of the states before and after a step.       *)

\* The chain hashes of the log in o.
Chain(o) ==
  [q \in 0..MaxRevision |-> IF q # 0 /\ logKey(q) \in DOMAIN o THEN o[logKey(q)].hash
                                                              ELSE ZeroHash]

\* The records of the log in o.
Records(o) == [r \in Revisions |-> project(o[logKey(r)])]

\* The revisions up to n are in o.
InLog(o, n) == \A r \in 1..n : logKey(r) \in DOMAIN o

\* The segment that packs the block of level l after revision q.
SegmentAt(o, l, q) == Segment(l, q + 1, q + Size[l], Slice(Records(o), q, q + Size[l]))

\* c extends the log in o, and its frontier covers that log.
Extends(o, c) ==
  /\ c.prev = Chain(o)[c.revision - 1]
  /\ c.hash = recordHash(c.revision, c.id, c.prev)
  /\ Tiled(c.frontier, c.revision - 1, Chain(o))

LogItem(o, k, v) ==
  \E r \in Revisions :
     /\ k = logKey(r)
     /\ v.format = "commit" /\ v.revision = r
     /\ InLog(o, r - 1)
     /\ Extends(o, v)

TreeItem(o, k, v) ==
  \E l \in Levels \ {0} : \E q \in Multiples(Size[l]) :
     /\ q + Size[l] <= MaxRevision
     /\ InLog(o, q + Size[l])
     /\ v = SegmentAt(o, l, q)
     /\ k = <<"tree", l, q + 1, q + Size[l], digest(v)>>

\* v may be stored under k: a commit that extends the log, or the one segment that
\* packs its block.
Item(o, k, v) == LogItem(o, k, v) \/ TreeItem(o, k, v)

\* Level l of f has just been filled by a carry on top of 1..b.
Filled(f, b, l, h) ==
  /\ DOMAIN f = Levels
  /\ l \in Levels /\ l + 1 \in Levels
  /\ Len(f[l]) = Radix
  /\ b - Size[l + 1] \in Multiples(Size[l + 1])
  /\ Tile(f[l], l, b - Size[l + 1], b, h)
  /\ Carrying(Clear(f, l), b, l + 1, h)

\* Everything stored in o is such an item.
Sound(o) == \A k \in DOMAIN o : Item(o, k, o[k])

\* i cannot decode its own batch, or one that is in the log.
Blamed(o, i) ==
  \/ <<i, i>> \notin Decodes
  \/ \E r \in Revisions : logKey(r) \in DOMAIN o /\ <<i, o[logKey(r)].id>> \notin Decodes

\* What invocation i at stage p has at hand, or what it has returned.
WorkOK(o, i, p, b, f, l, k, v, e, res) ==
  /\ p \in {"pack", "aggregate", "readback"} =>
        InLog(o, b.revision) /\ Filled(f, b.revision, l, Chain(o))
  /\ p \in {"aggregate", "readback", "create", "lookup"} => Item(o, k, v)
  /\ p \in {"readback", "lookup"} /\ e = "exists" => k \in DOMAIN o
  /\ res = "corrupt" => Blamed(o, i)

\* The invariant behind the properties of the tree: everything stored, or under way to
\* the store, extends the log or packs a block of it, and every carry is on its way to
\* a frontier that covers the log.
TreeInv ==
  /\ Sound(objects)
  /\ \A put \in late : Item(objects, put[1], put[2])
  /\ \A i \in IDs : WorkOK(objects, i, pc[i], base[i], levels[i], level[i], key[i], object[i],
                           createErr[i], out[i].result)

-----------------------------------------------------------------------------
(* All of this is stable: the store only grows. *)

\* o2 holds what o holds.
Includes(o2, o) == \A k \in DOMAIN o : k \in DOMAIN o2 /\ o2[k] = o[k]

\* The log that o holds is the log that o2 holds, as far as it goes.
LEMMA LogGrows ==
  ASSUME NEW o, NEW o2, Includes(o2, o), NEW n \in 0..MaxRevision, InLog(o, n)
  PROVE  /\ InLog(o2, n)
         /\ \A q \in 0..n : Chain(o2)[q] = Chain(o)[q]
         /\ \A r \in 1..n : Records(o2)[r] = Records(o)[r]
  <1>0. n \in Nat /\ MaxRevision \in Nat /\ n <= MaxRevision
    BY MaxRevisionAssumption
  <1>1. \A r \in 1..n : logKey(r) \in DOMAIN o /\ logKey(r) \in DOMAIN o2 /\ o2[logKey(r)] = o[logKey(r)]
    BY DEF InLog, Includes
  <1>2. ASSUME NEW q \in 0..n PROVE Chain(o2)[q] = Chain(o)[q]
    <2>1. q \in 0..MaxRevision
      BY <1>0
    <2>2. CASE q = 0
      BY <2>1, <2>2 DEF Chain
    <2>3. CASE q # 0
      <3>1. q \in 1..n
        BY <2>3
      <3> QED BY <2>1, <3>1, <1>1 DEF Chain
    <2> QED BY <2>2, <2>3
  <1>3. ASSUME NEW r \in 1..n PROVE Records(o2)[r] = Records(o)[r]
    <2>1. r \in Revisions
      BY <1>0 DEF Revisions
    <2> QED BY <2>1, <1>1 DEF Records
  <1> QED BY <1>1, <1>2, <1>3 DEF InLog

\* Two chains of hashes that agree up to n.
Agree(g, h, n) == \A q \in 0..n : g[q] = h[q]

\* Blocks, tiles and frontiers up to n depend on the hashes up to n only.
LEMMA TileAgrees ==
  ASSUME NEW g, NEW h, NEW n \in Nat, Agree(g, h, n), NEW l \in Nat, NEW refs,
         NEW from \in Multiples(Size[l]), NEW to \in Nat, to <= n, Tile(refs, l, from, to, h)
  PROVE  Tile(refs, l, from, to, g)
  <1>1. ASSUME NEW k \in DOMAIN refs PROVE Block(refs[k], l, from + Size[l] * (k - 1), g)
    <2>1. PICK q \in Multiples(Size[l]) :
             /\ q = from + Size[l] * (k - 1)
             /\ Block(refs[k], l, q, h)
             /\ from <= q /\ q + Size[l] <= to
      BY TileBlock
    <2>2. PICK d \in Nat : d = Size[l]
      BY SizeFacts
    <2>3. q \in Nat
      BY <2>2, MultiplesFacts
    <2>4. q \in 0..n /\ q + d \in 0..n
      BY <2>1, <2>2, <2>3
    <2>5. g[q] = h[q] /\ g[q + d] = h[q + d]
      BY <2>4 DEF Agree
    <2>6. Block(refs[k], l, q, g)
      BY <2>1, <2>2, <2>5 DEF Block
    <2> QED BY <2>1, <2>6
  <1> QED BY <1>1 DEF Tile

\* The bounds of the levels of a frontier.
LEMMA LevelBounds ==
  ASSUME NEW n \in Nat, NEW l \in Levels
  PROVE  /\ l \in Nat /\ Whole(n, l + 1) \in Multiples(Size[l])
         /\ Whole(n, l) \in Nat /\ Whole(n, l) <= n
  <1>1. l \in Nat /\ l + 1 \in Nat /\ l <= l + 1
    BY LevelsAreNat
  <1>2. Whole(n, l + 1) \in Multiples(Size[l + 1])
    BY <1>1, WholeFacts
  <1>3. Multiples(Size[l + 1]) \subseteq Multiples(Size[l])
    BY <1>1, MultiplesNest
  <1> QED BY <1>1, <1>2, <1>3, WholeFacts

\* A frontier that holds n revisions holds them in every store that agrees on them.
LEMMA TiledAgrees ==
  ASSUME NEW g, NEW h, NEW n \in Nat, Agree(g, h, n), NEW f, Tiled(f, n, h)
  PROVE  Tiled(f, n, g)
  <1>1. ASSUME NEW l \in Levels PROVE Tile(f[l], l, Whole(n, l + 1), Whole(n, l), g)
    BY LevelBounds, TileAgrees DEF Tiled
  <1> QED BY <1>1 DEF Tiled

\* The same of a frontier under carry.
LEMMA CarryingAgrees ==
  ASSUME NEW g, NEW h, NEW b \in Nat, Agree(g, h, b), NEW f, NEW l, Carrying(f, b, l, h)
  PROVE  Carrying(f, b, l, g)
  <1>1. b - 1 \in Nat /\ b - 1 <= b
    BY DEF Carrying
  <1>2. ASSUME NEW j \in Levels, ~(j < l) PROVE Tile(f[j], j, Whole(b - 1, j + 1), Whole(b - 1, j), g)
    <2>1. Tile(f[j], j, Whole(b - 1, j + 1), Whole(b - 1, j), h)
      BY <1>2 DEF Carrying
    <2>2. /\ j \in Nat /\ Whole(b - 1, j + 1) \in Multiples(Size[j])
          /\ Whole(b - 1, j) \in Nat /\ Whole(b - 1, j) <= b - 1
      BY <1>1, LevelBounds
    <2>3. Whole(b - 1, j) <= b
      BY <1>1, <2>2
    <2> QED BY <2>1, <2>2, <2>3, TileAgrees
  <1> QED BY <1>2 DEF Carrying

\* The same when a level has just been filled.
LEMMA FilledAgrees ==
  ASSUME NEW g, NEW h, NEW b \in Nat, Agree(g, h, b), NEW f, NEW l, Filled(f, b, l, h)
  PROVE  Filled(f, b, l, g)
  <1>1. l \in Nat /\ l + 1 \in Nat /\ l <= l + 1
    BY LevelsAreNat DEF Filled
  <1>2. Multiples(Size[l + 1]) \subseteq Multiples(Size[l])
    BY <1>1, MultiplesNest
  <1>3. b - Size[l + 1] \in Multiples(Size[l])
    BY <1>2 DEF Filled
  <1>4. Tile(f[l], l, b - Size[l + 1], b, g)
    BY <1>1, <1>3, TileAgrees DEF Filled
  <1>5. Carrying(Clear(f, l), b, l + 1, g)
    BY CarryingAgrees DEF Filled
  <1> QED BY <1>4, <1>5 DEF Filled

\* An item stays one.
LEMMA ItemGrows ==
  ASSUME NEW o, NEW o2, Includes(o2, o), NEW k, NEW v, Item(o, k, v)
  PROVE  Item(o2, k, v)
  <1>1. CASE LogItem(o, k, v)
    <2>1. PICK r \in Revisions : /\ k = logKey(r)
                                 /\ v.format = "commit" /\ v.revision = r
                                 /\ InLog(o, r - 1)
                                 /\ Extends(o, v)
      BY <1>1 DEF LogItem
    <2>2. PICK n \in Nat : n = r - 1 /\ n \in 0..MaxRevision /\ n \in 0..n
      <3>1. r - 1 \in Nat /\ r - 1 \in 0..MaxRevision
        BY MaxRevisionAssumption DEF Revisions
      <3> QED BY <3>1
    <2>3. InLog(o2, n) /\ \A q \in 0..n : Chain(o2)[q] = Chain(o)[q]
      BY <2>1, <2>2, LogGrows
    <2>4. Agree(Chain(o2), Chain(o), n)
      BY <2>3 DEF Agree
    <2>5. Tiled(v.frontier, n, Chain(o))
      BY <2>1, <2>2 DEF Extends
    <2>6. Tiled(v.frontier, n, Chain(o2))
      BY <2>4, <2>5, TiledAgrees
    <2>7. Chain(o2)[n] = Chain(o)[n]
      BY <2>2, <2>3
    <2>8. Extends(o2, v)
      BY <2>1, <2>2, <2>6, <2>7 DEF Extends
    <2>9. LogItem(o2, k, v)
      BY <2>1, <2>2, <2>3, <2>8 DEF LogItem
    <2> QED BY <2>9 DEF Item
  <1>2. CASE TreeItem(o, k, v)
    <2>1. PICK l \in Levels \ {0} : \E q \in Multiples(Size[l]) :
             /\ q + Size[l] <= MaxRevision
             /\ InLog(o, q + Size[l])
             /\ v = SegmentAt(o, l, q)
             /\ k = <<"tree", l, q + 1, q + Size[l], digest(v)>>
      BY <1>2 DEF TreeItem
    <2>1a. PICK q \in Multiples(Size[l]) :
             /\ q + Size[l] <= MaxRevision
             /\ InLog(o, q + Size[l])
             /\ v = SegmentAt(o, l, q)
             /\ k = <<"tree", l, q + 1, q + Size[l], digest(v)>>
      BY <2>1
    <2>2. l \in Nat
      BY LevelsAreNat
    <2>3. PICK d \in Nat : d = Size[l]
      BY <2>2, SizeFacts
    <2>4. q \in Nat
      BY <2>3, MultiplesFacts
    <2>5. q + d \in 0..MaxRevision
      BY <2>1a, <2>3, <2>4, MaxRevisionAssumption
    <2>6. InLog(o2, q + d) /\ \A r \in 1..(q + d) : Records(o2)[r] = Records(o)[r]
      BY <2>1a, <2>3, <2>5, LogGrows
    <2>7. Slice(Records(o2), q, q + d) = Slice(Records(o), q, q + d)
      <3>1. \A i \in 1..((q + d) - q) : q + i \in 1..(q + d)
        BY <2>4
      <3> QED BY <3>1, <2>6 DEF Slice
    <2>8. SegmentAt(o2, l, q) = SegmentAt(o, l, q)
      BY <2>3, <2>7 DEF SegmentAt
    <2>9. TreeItem(o2, k, v)
      BY <2>1a, <2>3, <2>6, <2>8 DEF TreeItem
    <2> QED BY <2>9 DEF Item
  <1> QED BY <1>1, <1>2 DEF Item

\* What an invocation has at hand keeps its value.
LEMMA WorkGrows ==
  ASSUME NEW o, NEW o2, Includes(o2, o), NEW i, NEW p, NEW b, NEW f, NEW l, NEW k, NEW v, NEW e,
         NEW res, b.revision \in 0..MaxRevision, WorkOK(o, i, p, b, f, l, k, v, e, res)
  PROVE  WorkOK(o2, i, p, b, f, l, k, v, e, res)
  <1>1. ASSUME InLog(o, b.revision), Filled(f, b.revision, l, Chain(o))
        PROVE  InLog(o2, b.revision) /\ Filled(f, b.revision, l, Chain(o2))
    <2>1. PICK n \in Nat : n = b.revision /\ n \in 0..MaxRevision
      BY MaxRevisionAssumption
    <2>2. InLog(o2, n) /\ \A q \in 0..n : Chain(o2)[q] = Chain(o)[q]
      BY <1>1, <2>1, LogGrows
    <2>3. Agree(Chain(o2), Chain(o), n)
      BY <2>2 DEF Agree
    <2>4. Filled(f, n, l, Chain(o2))
      BY <1>1, <2>1, <2>3, FilledAgrees
    <2> QED BY <2>1, <2>2, <2>4
  <1>2. Item(o, k, v) => Item(o2, k, v)
    BY ItemGrows
  <1>3. k \in DOMAIN o => k \in DOMAIN o2
    BY DEF Includes
  <1>4. Blamed(o, i) => Blamed(o2, i)
    BY DEF Includes, Blamed
  <1> QED BY <1>1, <1>2, <1>3, <1>4 DEF WorkOK

-----------------------------------------------------------------------------
(* What is stored can be read back. *)

\* The object under a log key.
LEMMA Stored ==
  ASSUME NEW o, Sound(o), NEW r \in Revisions, logKey(r) \in DOMAIN o
  PROVE  /\ o[logKey(r)].format = "commit" /\ o[logKey(r)].revision = r
         /\ InLog(o, r)
         /\ Extends(o, o[logKey(r)])
         /\ Chain(o)[r] = o[logKey(r)].hash
         /\ Chain(o)[r - 1] = o[logKey(r)].prev
         /\ Records(o)[r] = project(o[logKey(r)])
  <1>0. r \in Nat /\ r # 0 /\ r \in 0..MaxRevision /\ r - 1 \in Nat /\ MaxRevision \in Nat
    BY MaxRevisionAssumption DEF Revisions
  <1>1. Item(o, logKey(r), o[logKey(r)])
    BY DEF Sound
  <1>2. ~TreeItem(o, logKey(r), o[logKey(r)])
    BY DEF TreeItem, logKey
  <1>3. PICK s \in Revisions : /\ logKey(r) = logKey(s)
                               /\ o[logKey(r)].format = "commit" /\ o[logKey(r)].revision = s
                               /\ InLog(o, s - 1)
                               /\ Extends(o, o[logKey(r)])
    BY <1>1, <1>2 DEF Item, LogItem
  <1>4. s = r
    BY <1>0, <1>3, LogKeyInjective DEF Revisions
  <1>5. InLog(o, r)
    <2>1. \A x \in 1..r : x \in 1..(r - 1) \/ x = r
      BY <1>0
    <2> QED BY <2>1, <1>3, <1>4 DEF InLog
  <1>6. Chain(o)[r] = o[logKey(r)].hash
    BY <1>0 DEF Chain
  <1>7. Chain(o)[r - 1] = o[logKey(r)].prev
    BY <1>3, <1>4 DEF Extends
  <1> QED BY <1>3, <1>4, <1>5, <1>6, <1>7 DEF Records

\* No hash precedes the log.
LEMMA ChainStart ==
  ASSUME NEW o
  PROVE  Chain(o)[0] = ZeroHash
  BY MaxRevisionAssumption DEF Chain

\* decodeCommit accepts a commit that extends the log.
LEMMA ExtensionDecodes ==
  ASSUME NEW o, NEW r \in Revisions, NEW c, c.format = "commit", c.revision = r, Extends(o, c)
  PROVE  decodeCommit(r, c) /\ validateFrontier(c.frontier, r, c.prev)
  <1>1. PICK n \in Nat : n = r - 1 /\ n + 1 = r
    <2>1. r - 1 \in Nat /\ (r - 1) + 1 = r
      BY MaxRevisionAssumption DEF Revisions
    <2> QED BY <2>1
  <1>2. c.prev = Chain(o)[n] /\ c.hash = recordHash(r, c.id, c.prev) /\ Tiled(c.frontier, n, Chain(o))
    BY <1>1 DEF Extends
  <1>3. validateFrontier(c.frontier, n + 1, Chain(o)[n])
    BY <1>1, <1>2, ChainStart, TiledIsValid
  <1>4. validateFrontier(c.frontier, r, c.prev)
    BY <1>1, <1>2, <1>3
  <1>5. r = 1 => c.prev = ZeroHash
    <2>1. r = 1 => n = 0
      BY <1>1
    <2> QED BY <2>1, <1>2, ChainStart
  <1>6. validateProjection(project(c))
    BY <1>2, <1>5 DEF validateProjection, project
  <1> QED BY <1>4, <1>6 DEF decodeCommit

\* The records of a range are adjacent, and their hashes lead from one end of it to the
\* other.
LEMMA RangeAdjacent ==
  ASSUME NEW o, Sound(o), NEW a \in Nat, NEW z \in Nat, a < z, z <= MaxRevision, InLog(o, z)
  PROVE  Adjacent(Slice(Records(o), a, z), a + 1, z, Chain(o)[a], Chain(o)[z])
  <1> DEFINE s == Slice(Records(o), a, z)
  <1>0. MaxRevision \in Nat
    BY MaxRevisionAssumption
  <1>1. PICK m \in Nat : m = z - a /\ a + m = z /\ m >= 1
    <2>1. z - a \in Nat /\ a + (z - a) = z /\ z - a >= 1
      OBVIOUS
    <2> QED BY <2>1
  <1>2. /\ DOMAIN s = 1..m /\ Len(s) = m
        /\ \A k \in 1..m : s[k] = Records(o)[a + k]
    BY <1>1 DEF Slice
  <1> HIDE DEF s
  <1>3. ASSUME NEW k \in 1..m
        PROVE  /\ validateProjection(s[k]) /\ s[k].revision = a + k
               /\ s[k].prev = Chain(o)[a + k - 1] /\ s[k].hash = Chain(o)[a + k]
    <2>1. PICK r \in Revisions : r = a + k /\ r \in 1..z
      <3>1. a + k \in Revisions /\ a + k \in 1..z
        BY <1>0, <1>1 DEF Revisions
      <3> QED BY <3>1
    <2>2. logKey(r) \in DOMAIN o
      BY <2>1 DEF InLog
    <2> PICK c : c = o[logKey(r)]
      OBVIOUS
    <2>3. /\ c.format = "commit" /\ c.revision = r /\ Extends(o, c)
          /\ Chain(o)[r] = c.hash /\ Chain(o)[r - 1] = c.prev
          /\ Records(o)[r] = project(c)
      BY <2>2, Stored
    <2>4. decodeCommit(r, c)
      BY <2>3, ExtensionDecodes
    <2>5. validateProjection(project(c))
      BY <2>4 DEF decodeCommit
    <2>6. s[k] = project(c)
      BY <2>1, <2>3, <1>2
    <2>7. s[k].revision = c.revision /\ s[k].prev = c.prev /\ s[k].hash = c.hash
      BY <2>6 DEF project
    <2>8. a + k - 1 = r - 1
      BY <2>1
    <2> QED BY <2>1, <2>3, <2>5, <2>6, <2>7, <2>8
  <1>4. ASSUME NEW k \in 1..m
        PROVE  /\ validateProjection(s[k])
               /\ s[k].revision = (a + 1) + k - 1
               /\ s[k].prev = IF k = 1 THEN Chain(o)[a] ELSE s[k - 1].hash
    <2>1. /\ s[k].revision = a + k /\ s[k].prev = Chain(o)[a + k - 1] /\ validateProjection(s[k])
      BY <1>3
    <2>2. CASE k = 1
      <3>1. a + k - 1 = a /\ a + k = (a + 1) + k - 1
        BY <2>2
      <3> QED BY <2>1, <2>2, <3>1
    <2>3. CASE k # 1
      <3>1. k - 1 \in 1..m /\ a + (k - 1) = a + k - 1 /\ a + k = (a + 1) + k - 1
        BY <2>3
      <3>2. s[k - 1].hash = Chain(o)[a + (k - 1)]
        BY <3>1, <1>3
      <3> QED BY <2>1, <2>3, <3>1, <3>2
    <2> QED BY <2>2, <2>3
  <1>5. Last(s).hash = Chain(o)[z]
    <2>1. m \in 1..m /\ Last(s) = s[m]
      BY <1>1, <1>2 DEF Last
    <2>2. s[m].hash = Chain(o)[a + m]
      BY <2>1, <1>3
    <2> QED BY <2>1, <2>2, <1>1
  <1>6. Len(s) = z - (a + 1) + 1
    BY <1>1, <1>2
  <1>7. Adjacent(s, a + 1, z, Chain(o)[a], Chain(o)[z])
    BY <1>2, <1>4, <1>5, <1>6 DEF Adjacent
  <1> QED BY <1>7 DEF s

\* What a reference to a block resolves to passes the validations, and holds the records
\* of the block.
LEMMA BlockReads ==
  ASSUME NEW o, Sound(o), NEW l \in Levels, NEW q \in Multiples(Size[l]), q + Size[l] <= MaxRevision,
         NEW ref, Block(ref, l, q, Chain(o)),
         RefKey(ref) \in DOMAIN o, digest(o[RefKey(ref)]) = ref.sha
  PROVE  /\ validateRef(ref)
         /\ ref.level = 0 => /\ RefKey(ref) = logKey(q + 1)
                             /\ loadCommitRef(ref, o[RefKey(ref)])
                             /\ <<project(o[RefKey(ref)])>> = Slice(Records(o), q, q + Size[l])
         /\ ref.level # 0 => /\ decodeSegment(ref, o[RefKey(ref)])
                             /\ o[RefKey(ref)].records = Slice(Records(o), q, q + Size[l])
  <1>0. l \in Nat /\ MaxRevision \in Nat
    BY LevelsAreNat, MaxRevisionAssumption
  <1>1. PICK d \in Nat : d = Size[l] /\ d > 0
    BY <1>0, SizeFacts
  <1>2. q \in Nat
    BY <1>1, MultiplesFacts
  <1>3. validateRef(ref)
    BY BlockIsValid
  <1>4. /\ ref.level = l /\ ref.start = q + 1 /\ ref.end = q + d
        /\ ref.firstPrev = Chain(o)[q] /\ ref.last = Chain(o)[q + d]
    BY <1>1 DEF Block
  <1> PICK v : v = o[RefKey(ref)]
    OBVIOUS
  <1>5. ASSUME ref.level = 0
        PROVE  /\ RefKey(ref) = logKey(q + 1)
               /\ loadCommitRef(ref, v)
               /\ <<project(v)>> = Slice(Records(o), q, q + d)
    <2>1. d = 1
      BY <1>1, <1>4, <1>5, SizeFacts
    <2>2. RefKey(ref) = logKey(q + 1)
      BY <1>4, <1>5 DEF RefKey
    <2>3. PICK r \in Revisions : r = q + 1 /\ r - 1 = q /\ r = q + d
      <3>1. q + 1 \in Revisions /\ (q + 1) - 1 = q
        BY <1>0, <1>1, <1>2, <2>1 DEF Revisions
      <3> QED BY <3>1, <2>1
    <2>4. /\ v.format = "commit" /\ v.revision = r /\ Extends(o, v)
          /\ Chain(o)[r] = v.hash /\ Chain(o)[r - 1] = v.prev
          /\ Records(o)[r] = project(v)
      BY <2>2, <2>3, Stored
    <2>5. decodeCommit(r, v)
      BY <2>4, ExtensionDecodes
    <2>6. loadCommitRef(ref, v)
      BY <1>3, <1>4, <1>5, <2>3, <2>4, <2>5 DEF loadCommitRef
    <2>7. Slice(Records(o), q, q + d) = <<project(v)>>
      <3>1. (q + d) - q = 1
        BY <1>2, <2>1
      <3>2. Slice(Records(o), q, q + d) = [k \in 1..1 |-> Records(o)[q + k]]
        BY <3>1 DEF Slice
      <3>3. \A k \in 1..1 : Records(o)[q + k] = project(v)
        BY <2>3, <2>4
      <3> QED BY <3>2, <3>3
    <2> QED BY <2>2, <2>6, <2>7
  <1>6. ASSUME ref.level # 0
        PROVE  decodeSegment(ref, v) /\ v.records = Slice(Records(o), q, q + d)
    <2>1. RefKey(ref) = <<"tree", l, q + 1, q + d, ref.sha>>
      BY <1>4, <1>6 DEF RefKey, treeKey
    <2>2. ~LogItem(o, RefKey(ref), v)
      BY <2>1 DEF LogItem, logKey
    <2>3. TreeItem(o, RefKey(ref), v)
      BY <2>2 DEF Sound, Item
    <2>4. PICK j \in Levels \ {0} : \E p \in Multiples(Size[j]) :
             /\ p + Size[j] <= MaxRevision
             /\ InLog(o, p + Size[j])
             /\ v = SegmentAt(o, j, p)
             /\ RefKey(ref) = <<"tree", j, p + 1, p + Size[j], digest(v)>>
      BY <2>3 DEF TreeItem
    <2>5. PICK p \in Multiples(Size[j]) :
             /\ InLog(o, p + Size[j])
             /\ v = SegmentAt(o, j, p)
             /\ RefKey(ref) = <<"tree", j, p + 1, p + Size[j], digest(v)>>
      BY <2>4
    <2>6. j = l
      BY <2>1, <2>5
    <2>7. p \in Nat /\ p + 1 = q + 1
      BY <1>1, <2>1, <2>5, <2>6, MultiplesFacts
    <2>8. p = q
      BY <2>7, <1>2
    <2>9. v = Segment(l, q + 1, q + d, Slice(Records(o), q, q + d)) /\ InLog(o, q + d)
      BY <1>1, <2>5, <2>6, <2>8 DEF SegmentAt
    <2>10. Adjacent(Slice(Records(o), q, q + d), q + 1, q + d, Chain(o)[q], Chain(o)[q + d])
      <3>1. q + d \in Nat /\ q < q + d /\ q + d <= MaxRevision
        BY <1>1, <1>2
      <3> QED BY <3>1, <1>2, <2>9, RangeAdjacent
    <2>11. /\ v.format = "segment" /\ v.level = l /\ v.start = q + 1 /\ v.end = q + d
           /\ v.records = Slice(Records(o), q, q + d)
      BY <2>9 DEF Segment
    <2> QED BY <1>3, <1>4, <1>6, <2>10, <2>11 DEF decodeSegment
  <1> QED BY <1>1, <1>3, <1>5, <1>6

\* ref refers to a block of the log in o, and to an object of o.
Readable(o, ref) ==
  /\ RefKey(ref) \in DOMAIN o /\ digest(o[RefKey(ref)]) = ref.sha
  /\ \E l \in Levels : \E q \in Multiples(Size[l]) :
        q + Size[l] <= MaxRevision /\ Block(ref, l, q, Chain(o))

\* loadRecordFile accepts such a reference, with the base at hand or without.
LEMMA RefReads ==
  ASSUME ObjectsOK, Sound(objects), NEW b \in Snapshots, NEW ref, Readable(objects, ref)
  PROVE  /\ loadRecordFile(b, ref)
         /\ ref.start \in Nat /\ ref.end \in Nat /\ ref.start - 1 \in Nat
         /\ ref.start <= ref.end /\ ref.end <= MaxRevision
         /\ RecordsOf(b, ref) = Slice(Records(objects), ref.start - 1, ref.end)
  <1>1. PICK l \in Levels : \E q \in Multiples(Size[l]) :
                               q + Size[l] <= MaxRevision /\ Block(ref, l, q, Chain(objects))
    BY DEF Readable
  <1>2. PICK q \in Multiples(Size[l]) : q + Size[l] <= MaxRevision /\ Block(ref, l, q, Chain(objects))
    BY <1>1
  <1>3. RefKey(ref) \in DOMAIN objects /\ digest(objects[RefKey(ref)]) = ref.sha
    BY DEF Readable
  <1>4. /\ validateRef(ref)
        /\ ref.level = 0 => /\ RefKey(ref) = logKey(q + 1)
                            /\ loadCommitRef(ref, objects[RefKey(ref)])
                            /\ <<project(objects[RefKey(ref)])>> = Slice(Records(objects), q, q + Size[l])
        /\ ref.level # 0 => /\ decodeSegment(ref, objects[RefKey(ref)])
                            /\ objects[RefKey(ref)].records = Slice(Records(objects), q, q + Size[l])
    BY <1>2, <1>3, BlockReads
  <1>5. l \in Nat /\ MaxRevision \in Nat
    BY LevelsAreNat, MaxRevisionAssumption
  <1>6. PICK d \in Nat : d = Size[l] /\ d > 0
    BY <1>5, SizeFacts
  <1>7. q \in Nat
    BY <1>6, MultiplesFacts
  <1>8. ref.start = q + 1 /\ ref.end = q + d
    BY <1>2, <1>6 DEF Block
  <1>9. /\ ref.start \in Nat /\ ref.end \in Nat /\ ref.start - 1 = q
        /\ ref.start <= ref.end /\ ref.end <= MaxRevision
    BY <1>2, <1>5, <1>6, <1>7, <1>8
  <1>10. Fetched(b, ref) = objects[RefKey(ref)]
    <2>1. CASE RefKey(ref) # logKey(b.revision)
      BY <2>1 DEF Fetched
    <2>2. CASE RefKey(ref) = logKey(b.revision)
      <3>1. ref.level = 0
        BY <2>2 DEF RefKey, treeKey, logKey
      <3>2. RefKey(ref) = logKey(q + 1)
        BY <3>1, <1>4
      <3>3. b # Nil
        <4> SUFFICES ASSUME b = Nil PROVE FALSE
          OBVIOUS
        <4>1. logKey(0) = logKey(q + 1)
          BY <2>2, <3>2 DEF Nil
        <4>2. 0 = q + 1
          BY <4>1, <1>7, LogKeyInjective
        <4> QED BY <4>2, <1>7
      <3>4. b = objects[logKey(b.revision)]
        BY <3>3, SnapshotIsCommit DEF Logged
      <3> QED BY <2>2, <3>4 DEF Fetched
    <2> QED BY <2>1, <2>2
  <1>11. loadRecordFile(b, ref)
    BY <1>3, <1>4, <1>10 DEF loadRecordFile, Present
  <1>12. RecordsOf(b, ref) = Slice(Records(objects), ref.start - 1, ref.end)
    BY <1>4, <1>6, <1>8, <1>9, <1>10 DEF RecordsOf
  <1> QED BY <1>9, <1>11, <1>12, <1>7

\* Reading the references of a partition yields its records.
LEMMA ChildrenRead ==
  ASSUME ObjectsOK, Sound(objects), NEW b \in Snapshots, NEW refs, IsSeq(refs),
         NEW a \in Nat, NEW z \in Nat, NEW ha, NEW hz, z <= MaxRevision, a <= MaxRevision,
         Partition(refs, a + 1, z + 1, ha, hz),
         \A k \in DOMAIN refs : Readable(objects, refs[k])
  PROVE  /\ \A k \in DOMAIN refs : loadRecordFile(b, refs[k])
         /\ Children(b, refs) = Slice(Records(objects), a, z)
  <1> DEFINE x == Records(objects)
             N == MaxRevision
  <1>0. MaxRevision \in Nat
    BY MaxRevisionAssumption
  <1>1. PICK n \in Nat : n = Len(refs) /\ DOMAIN refs = 1..n
    BY AppendIsSeq
  <1>2. ASSUME NEW k \in 1..n
        PROVE  /\ loadRecordFile(b, refs[k])
               /\ refs[k].start \in Nat /\ refs[k].end \in Nat /\ refs[k].start - 1 \in Nat
               /\ refs[k].start <= refs[k].end /\ refs[k].end <= MaxRevision
               /\ RecordsOf(b, refs[k]) = Slice(x, refs[k].start - 1, refs[k].end)
    BY <1>1, RefReads
  <1> HIDE DEF x
  <1> DEFINE e == [k \in 0..n |-> IF k = 0 THEN a ELSE refs[k].end]
  <1>3. e \in [0..n -> 0..N]
    <2>1. \A k \in 0..n : k # 0 => k \in 1..n
      OBVIOUS
    <2> QED BY <2>1, <1>0, <1>2
  <1>4. e[0] = a /\ \A k \in 1..n : e[k] = refs[k].end
    OBVIOUS
  <1> HIDE DEF e
  <1>5. ASSUME NEW k \in 1..n PROVE e[k - 1] = refs[k].start - 1
    <2>1. refs[k].start = IF k = 1 THEN a + 1 ELSE refs[k - 1].end + 1
      BY <1>1 DEF Partition
    <2>2. CASE k = 1
      <3>1. k - 1 = 0
        BY <2>2
      <3> QED BY <2>1, <2>2, <3>1, <1>4
    <2>3. CASE k # 1
      <3>1. k - 1 \in 1..n
        BY <2>3
      <3>2. refs[k - 1].end \in Nat /\ e[k - 1] = refs[k - 1].end
        BY <3>1, <1>2, <1>4
      <3> QED BY <2>1, <2>3, <3>2
    <2> QED BY <2>2, <2>3
  <1>6. ASSUME NEW k \in 1..n
        PROVE  e[k - 1] <= e[k] /\ RecordsOf(b, refs[k]) = Slice(x, e[k - 1], e[k])
    <2>1. e[k - 1] = refs[k].start - 1 /\ e[k] = refs[k].end
      BY <1>4, <1>5
    <2>2. /\ refs[k].start \in Nat /\ refs[k].end \in Nat /\ refs[k].start <= refs[k].end
          /\ RecordsOf(b, refs[k]) = Slice(x, refs[k].start - 1, refs[k].end)
      BY <1>2
    <2>3. refs[k].start - 1 <= refs[k].end
      BY <2>2
    <2> QED BY <2>1, <2>2, <2>3
  <1>7. e[n] = z
    <2>1. CASE n = 0
      <3>1. refs = <<>>
        BY <1>1, <2>1 DEF IsSeq
      <3> QED BY <2>1, <3>1, <1>4 DEF Partition
    <2>2. CASE n # 0
      <3>1. refs # <<>> /\ Last(refs) = refs[n] /\ n \in 1..n
        BY <1>1, <2>2, EndsOfSeq
      <3>2. z + 1 = refs[n].end + 1 /\ refs[n].end \in Nat
        BY <3>1, <1>2 DEF Partition
      <3> QED BY <3>1, <3>2, <1>4
    <2> QED BY <2>1, <2>2
  <1>8. FlattenSeq([k \in 1..n |-> Slice(x, e[k - 1], e[k])]) = Slice(x, e[0], e[n])
    <2>1. \A k \in 1..n : e[k - 1] <= e[k]
      BY <1>6
    <2>2. N \in Nat
      BY <1>0
    <2> HIDE DEF N
    <2> QED BY <2>1, <2>2, <1>3, FlattenSlices, Zenon
  <1>9. [k \in DOMAIN refs |-> RecordsOf(b, refs[k])] = [k \in 1..n |-> Slice(x, e[k - 1], e[k])]
    BY <1>1, <1>6
  <1>10. Children(b, refs) = Slice(x, a, z)
    BY <1>4, <1>7, <1>8, <1>9 DEF Children
  <1> QED BY <1>1, <1>2, <1>10 DEF x

-----------------------------------------------------------------------------
(* What a step of an invocation has at hand afterwards. *)

\* The work at hand of invocation i after a step, on the store o.
WorkAfter(o, i) ==
  WorkOK(o, i, pc'[i], base'[i], levels'[i], level'[i], key'[i], object'[i],
         createErr'[i], out'[i].result)

\* A snapshot b that continues the log in o.
Heads(o, b) ==
  /\ b.revision \in 0..MaxRevision
  /\ InLog(o, b.revision)
  /\ b.hash = Chain(o)[b.revision]

\* A call that has returned has nothing at hand.
LEMMA ReturnWork ==
  ASSUME NEW o, NEW i, pc'[i] = "returned", out'[i].result = "corrupt" => Blamed(o, i)
  PROVE  WorkAfter(o, i)
  BY DEF WorkAfter, WorkOK

\* A commit that decodes makes a snapshot for every Log that can unmarshal its batch.
LEMMA DecodedRecord ==
  ASSUME NEW i, NEW r, NEW c, decodeCommit(r, c)
  PROVE  snapshot(i, r, c) <=> <<i, c.id>> \in Decodes
  <1>1. validateProjection(project(c)) /\ project(c).id = c.id
    BY DEF decodeCommit, project
  <1> QED BY <1>1 DEF snapshot, record

\* Seal accepts a frontier that covers the log, and prepares the commit that extends it
\* or finds that i cannot decode its own batch.
LEMMA SealWork ==
  ASSUME LocalsOK, NEW i \in IDs, out[i].result = "none", NEW o, NEW b, Heads(o, b),
         b.revision < MaxRevision, NEW f, Tiled(f, b.revision, Chain(o)), Seal(i, b, f)
  PROVE  WorkAfter(o, i)
  <1>1. PICK n \in Nat : n = b.revision /\ n + 1 \in Revisions /\ (n + 1) - 1 = n
    <2>1. b.revision \in Nat /\ b.revision + 1 \in Revisions /\ (b.revision + 1) - 1 = b.revision
      BY MaxRevisionAssumption DEF Heads, Revisions
    <2> QED BY <2>1
  <1>2. PICK r \in Revisions : r = n + 1 /\ r - 1 = n
    BY <1>1
  <1> DEFINE c == Commit(r, i, b.hash, f)
  <1>3. /\ c.format = "commit" /\ c.revision = r /\ c.id = i /\ c.prev = b.hash /\ c.frontier = f
        /\ c.hash = recordHash(r, i, b.hash)
    BY DEF Commit
  <1>4. c = Commit(b.revision + 1, i, b.hash, f)
    BY <1>1, <1>2
  <1> HIDE DEF c
  <1>5. Extends(o, c)
    BY <1>1, <1>2, <1>3 DEF Extends, Heads
  <1>6. decodeCommit(r, c) /\ validateFrontier(f, r, b.hash)
    BY <1>3, <1>5, ExtensionDecodes
  <1>7. snapshot(i, r, c) <=> <<i, i>> \in Decodes
    BY <1>3, <1>6, DecodedRecord
  <1>8. CASE <<i, i>> \in Decodes
    <2>1. /\ pc' = [pc EXCEPT ![i] = "create"]
          /\ key' = [key EXCEPT ![i] = logKey(r)]
          /\ object' = [object EXCEPT ![i] = c]
          /\ out' = out
      BY <1>1, <1>2, <1>4, <1>6, <1>7, <1>8 DEF Seal
    <2>2. pc'[i] = "create" /\ key'[i] = logKey(r) /\ object'[i] = c /\ out'[i].result = "none"
      BY <2>1 DEF LocalsOK
    <2>3. LogItem(o, logKey(r), c)
      BY <1>1, <1>2, <1>3, <1>5 DEF LogItem, Heads
    <2> QED BY <2>2, <2>3 DEF WorkAfter, WorkOK, Item
  <1>9. CASE <<i, i>> \notin Decodes
    <2>1. Return(i, "corrupt", r)
      BY <1>1, <1>2, <1>4, <1>7, <1>9 DEF Seal
    <2>2. pc'[i] = "returned"
      BY <2>1 DEF Return, LocalsOK
    <2> QED BY <2>2, <1>9, ReturnWork DEF Blamed
  <1> QED BY <1>8, <1>9

\* The reference to the segment that packs a filled level refers to a block.
LEMMA FilledBlock ==
  ASSUME NEW f, NEW b \in Nat, NEW l, NEW h, Filled(f, b, l, h), NEW sha
  PROVE  Block(aggregateRef(l + 1, f[l], sha), l + 1, b - Size[l + 1], h)
  <1>1. l \in Nat /\ l + 1 \in Nat
    BY LevelsAreNat DEF Filled
  <1>2. PICK d \in Nat : d = Size[l] /\ Size[l + 1] = Radix * d
    BY <1>1, SizeFacts
  <1>3. PICK q \in Nat : q = b - Size[l + 1]
    BY <1>1, MultiplesFacts, SizeFacts DEF Filled
  <1>4. IsSeq(f[l]) /\ Len(f[l]) = Radix
    BY DEF Filled, Tile
  <1>5. /\ Head(f[l]) = f[l][1] /\ Last(f[l]) = f[l][Radix]
        /\ 1 \in DOMAIN f[l] /\ Radix \in DOMAIN f[l]
    BY <1>4, EndsOfSeq, RadixAssumption
  <1>6. Block(f[l][1], l, q + d * (1 - 1), h) /\ Block(f[l][Radix], l, q + d * (Radix - 1), h)
    BY <1>2, <1>3, <1>5 DEF Tile, Filled
  <1>7. q + d * (1 - 1) = q /\ (q + d * (Radix - 1)) + d = q + Radix * d
    BY RadixAssumption
  <1>8. /\ Head(f[l]).start = q + 1 /\ Head(f[l]).firstPrev = h[q]
        /\ Last(f[l]).end = q + Size[l + 1] /\ Last(f[l]).last = h[q + Size[l + 1]]
    BY <1>2, <1>5, <1>6, <1>7 DEF Block
  <1> QED BY <1>3, <1>8 DEF Block, aggregateRef

\* A round of the carry loop fills a level, or seals the commit.
LEMMA CarryWork ==
  ASSUME LocalsOK, NEW i \in IDs, out[i].result = "none", NEW o, NEW b, Heads(o, b),
         b.revision < MaxRevision, NEW f, NEW l, NEW ref,
         Carrying(f, b.revision, l, Chain(o)),
         Block(ref, l, b.revision - Size[l], Chain(o)), Carry(i, b, f, l, ref)
  PROVE  WorkAfter(o, i)
  <1> PICK h, added : h = Chain(o) /\ added = AddRef(f, l, ref)
    OBVIOUS
  <1>1. PICK n \in 1..MaxRevision : n = b.revision
    <2>1. b.revision > 0 /\ b.revision \in Nat
      BY DEF Carrying, Heads
    <2> QED BY <2>1 DEF Heads
  <1>2. CASE ~Full(added, l)
    <2>1. Tiled(added, n, h)
      BY <1>1, <1>2, CarrySettles
    <2>2. Seal(i, b, added)
      BY <1>2 DEF Carry
    <2> QED BY <1>1, <2>1, <2>2, SealWork
  <1>3. CASE Full(added, l)
    <2>1. /\ l + 1 \in Levels
          /\ Len(added[l]) = Radix
          /\ Tile(added[l], l, n - Size[l + 1], n, h)
          /\ n - Size[l + 1] \in Multiples(Size[l + 1])
          /\ Carrying(Clear(added, l), n, l + 1, h)
      BY <1>1, <1>3, CarryPromotes
    <2>2. DOMAIN added = Levels /\ l \in Levels
      BY DEF Carrying, AddRef
    <2>3. Filled(added, n, l, h)
      BY <2>1, <2>2 DEF Filled
    <2>4. /\ pc' = [pc EXCEPT ![i] = "pack"]
          /\ base' = [base EXCEPT ![i] = b]
          /\ levels' = [levels EXCEPT ![i] = added]
          /\ level' = [level EXCEPT ![i] = l]
          /\ out' = out
      BY <1>3 DEF Carry
    <2>5. pc'[i] = "pack" /\ base'[i] = b /\ levels'[i] = added /\ level'[i] = l /\ out'[i].result = "none"
      BY <2>4 DEF LocalsOK
    <2> QED BY <1>1, <2>3, <2>5 DEF WorkAfter, WorkOK, Heads
  <1> QED BY <1>2, <1>3

\* A snapshot continues the log.
LEMMA SnapshotHeads ==
  ASSUME ObjectsOK, Sound(objects), NEW b \in Snapshots
  PROVE  Heads(objects, b)
  <1>1. CASE b = Nil
    <2>1. b.revision = 0 /\ b.hash = ZeroHash
      BY <1>1 DEF Nil
    <2>2. InLog(objects, 0)
      BY DEF InLog
    <2> QED BY <2>1, <2>2, ChainStart, MaxRevisionAssumption DEF Heads
  <1>2. CASE b # Nil
    <2>1. PICK r \in Revisions : r = b.revision /\ r \in Committed /\ objects[logKey(r)] = b
      BY <1>2, SnapshotIsCommit DEF Committed, Logged
    <2>2. logKey(r) \in DOMAIN objects /\ r \in 0..MaxRevision
      BY <2>1, MaxRevisionAssumption DEF Committed, Present, Revisions
    <2>3. InLog(objects, r) /\ Chain(objects)[r] = objects[logKey(r)].hash
      BY <2>2, Stored
    <2> QED BY <2>1, <2>2, <2>3 DEF Heads
  <1> QED BY <1>1, <1>2

\* It still does when the store has grown.
LEMMA HeadsGrow ==
  ASSUME NEW o, NEW o2, Includes(o2, o), NEW b, Heads(o, b)
  PROVE  Heads(o2, b)
  <1>1. PICK n \in 0..MaxRevision : n = b.revision /\ n \in 0..n
    <2>1. b.revision \in 0..MaxRevision /\ b.revision \in 0..b.revision
      BY DEF Heads
    <2> QED BY <2>1
  <1>2. InLog(o2, n) /\ Chain(o2)[n] = Chain(o)[n]
    BY <1>1, LogGrows DEF Heads
  <1> QED BY <1>1, <1>2 DEF Heads

\* appendPrepared up to its first store operation.
LEMMA PreparedWork ==
  ASSUME TypeOK, Sound(objects), NEW i \in IDs, out[i].result = "none", NEW b \in Snapshots,
         appendPrepared(i, b)
  PROVE  WorkAfter(objects, i)
  <1>0. LocalsOK /\ ObjectsOK /\ Heads(objects, b)
    BY SnapshotHeads DEF TypeOK
  <1>1. CASE b.revision = MaxRevision /\ Return(i, "exhausted", b.revision)
    <2>1. pc'[i] = "returned" /\ out'[i].result = "exhausted"
      BY <1>0, <1>1 DEF LocalsOK, Return
    <2> QED BY <2>1, ReturnWork
  <1>2. CASE b = Nil /\ Seal(i, b, EmptyFrontier)
    <2>1. b.revision = 0 /\ b.revision < MaxRevision
      BY <1>2, MaxRevisionAssumption DEF Nil
    <2>2. Tiled(EmptyFrontier, b.revision, Chain(objects))
      BY <2>1, EmptyTiled
    <2> QED BY <1>0, <1>2, <2>1, <2>2, SealWork
  <1>3. CASE b.revision \in 1..(MaxRevision - 1) /\ Carry(i, b, b.frontier, 0, commitRef(b))
    <2>1. b # Nil /\ b.revision < MaxRevision
      BY <1>3, MaxRevisionAssumption DEF Nil
    <2>2. PICK r \in Revisions : r = b.revision /\ r \in Committed /\ objects[logKey(r)] = b
      BY <1>0, <2>1, SnapshotIsCommit DEF Committed, Logged
    <2>3. logKey(r) \in DOMAIN objects
      BY <2>2 DEF Committed, Present
    <2>4. /\ Extends(objects, b) /\ b.revision = r
          /\ Chain(objects)[r] = b.hash /\ Chain(objects)[r - 1] = b.prev
      BY <2>2, <2>3, Stored
    <2>5. r \in Nat /\ r > 0 /\ Tiled(b.frontier, r - 1, Chain(objects))
      BY <2>4 DEF Extends, Revisions
    <2>6. Carrying(b.frontier, r, 0, Chain(objects))
      BY <2>5, CarryBegins
    <2>7. Size[0] = 1
      BY SizeFacts
    <2>8. (r - 1) + 1 = r
      BY <2>5
    <2>9. /\ commitRef(b).level = 0 /\ commitRef(b).start = r /\ commitRef(b).end = r
          /\ commitRef(b).firstPrev = b.prev /\ commitRef(b).last = b.hash
      BY <2>2 DEF commitRef
    <2>10. Block(commitRef(b), 0, r - 1, Chain(objects))
      BY <2>4, <2>7, <2>8, <2>9 DEF Block
    <2>11. Block(commitRef(b), 0, b.revision - Size[0], Chain(objects))
      BY <2>2, <2>7, <2>10
    <2> QED BY <1>0, <1>3, <2>1, <2>2, <2>6, <2>11, CarryWork
  <1> QED BY <1>1, <1>2, <1>3 DEF appendPrepared

\* The reference to a packed level is carried on.
LEMMA NextLevelWork ==
  ASSUME LocalsOK, NEW i \in IDs, out[i].result = "none", NEW o, Heads(o, base[i]),
         base[i].revision < MaxRevision,
         Filled(levels[i], base[i].revision, level[i], Chain(o)), NextLevel(i)
  PROVE  WorkAfter(o, i)
  <1>1. Carrying(Clear(levels[i], level[i]), base[i].revision, level[i] + 1, Chain(o))
    BY DEF Filled
  <1>2. base[i].revision \in Nat
    BY DEF Heads
  <1>3. Block(Packed(i), level[i] + 1, base[i].revision - Size[level[i] + 1], Chain(o))
    BY <1>2, FilledBlock DEF Packed
  <1> QED BY <1>1, <1>3, CarryWork DEF NextLevel

-----------------------------------------------------------------------------
(* Steps of the store. *)

\* Everything under way to the store o is an item of it.
SoundPuts(o, puts) == \A put \in puts : Item(o, put[1], put[2])

\* TreeInv in terms of these names.
LEMMA TreeInvParts ==
  ASSUME TreeInv
  PROVE  /\ Sound(objects) /\ SoundPuts(objects, late)
         /\ \A i \in IDs : WorkOK(objects, i, pc[i], base[i], levels[i], level[i], key[i], object[i],
                                  createErr[i], out[i].result)
  BY DEF TreeInv, SoundPuts, WorkOK

\* A store that grows includes the former one.
LEMMA GrowsIncludes ==
  ASSUME Grows
  PROVE  Includes(objects', objects)
  BY DEF Grows, Includes

\* Publishing an item keeps the store sound.
LEMMA PutSound ==
  ASSUME Sound(objects), NEW k, NEW v, Item(objects, k, v), Put(k, v)
  PROVE  Includes(objects', objects) /\ Sound(objects')
  <1>1. /\ Grows /\ DOMAIN objects' = DOMAIN objects \cup {k}
        /\ ~Present(k) => objects'[k] = v
    BY PutGrows
  <1>2. Includes(objects', objects)
    BY <1>1, GrowsIncludes
  <1>3. ASSUME NEW d \in DOMAIN objects' PROVE Item(objects', d, objects'[d])
    <2>1. CASE d \in DOMAIN objects
      <3>1. Item(objects, d, objects[d]) /\ objects'[d] = objects[d]
        BY <2>1, <1>1 DEF Sound, Grows
      <3> QED BY <3>1, <1>2, ItemGrows
    <2>2. CASE d \notin DOMAIN objects
      <3>1. d = k /\ objects'[d] = v
        BY <2>2, <1>1 DEF Present
      <3> QED BY <3>1, <1>2, ItemGrows
    <2> QED BY <2>1, <2>2
  <1> QED BY <1>2, <1>3 DEF Sound

\* PUTs under way stay sound.
LEMMA PutsGrow ==
  ASSUME NEW o, NEW o2, Includes(o2, o), NEW puts, SoundPuts(o, puts)
  PROVE  SoundPuts(o2, puts)
  BY ItemGrows DEF SoundPuts

\* Create of an item, whatever it reports.
LEMMA CreateSound ==
  ASSUME Sound(objects), SoundPuts(objects, late), NEW k, NEW v, Item(objects, k, v),
         NEW err \in {"ok", "exists", "error"}, Create(k, v, err)
  PROVE  /\ Grows /\ Sound(objects') /\ SoundPuts(objects', late')
         /\ err = "exists" => k \in DOMAIN objects'
  <1>1. CASE Put(k, v) /\ late' = late
    <2>1. Grows /\ DOMAIN objects' = DOMAIN objects \cup {k}
      BY <1>1, PutGrows
    <2>2. Includes(objects', objects) /\ Sound(objects')
      BY <1>1, PutSound
    <2>3. SoundPuts(objects', late')
      BY <1>1, <2>2, PutsGrow
    <2> QED BY <2>1, <2>2, <2>3
  <1>2. CASE /\ err = "error" /\ objects' = objects
             /\ late' = late \/ late' = late \cup {<<k, v>>}
    <2>1. <<k, v>>[1] = k /\ <<k, v>>[2] = v
      OBVIOUS
    <2>2. SoundPuts(objects', late')
      BY <1>2, <2>1 DEF SoundPuts
    <2> QED BY <1>2, <2>2, UnchangedGrows
  <1> QED BY <1>1, <1>2 DEF Create

\* A step of one invocation.
LEMMA TreeCombine ==
  ASSUME IInv, TreeInv, Grows, NEW i \in IDs, Others(i),
         Sound(objects'), SoundPuts(objects', late'), WorkAfter(objects', i)
  PROVE  TreeInv'
  <1>1. Includes(objects', objects)
    BY GrowsIncludes
  <1>2. ASSUME NEW j \in IDs \ {i} PROVE WorkAfter(objects', j)
    <2>1. base[j].revision \in 0..MaxRevision
      <3>1. base[j] \in Snapshots /\ ObjectsOK
        BY NilIsSnapshot DEF IInv, StageInv, TypeOK
      <3> QED BY <3>1, SnapshotRevision
    <2>2. WorkOK(objects, j, pc[j], base[j], levels[j], level[j], key[j], object[j],
                 createErr[j], out[j].result)
      BY DEF TreeInv
    <2>3. WorkOK(objects', j, pc[j], base[j], levels[j], level[j], key[j], object[j],
                 createErr[j], out[j].result)
      BY <1>1, <2>1, <2>2, WorkGrows
    <2>4. /\ pc'[j] = pc[j] /\ base'[j] = base[j] /\ levels'[j] = levels[j] /\ level'[j] = level[j]
          /\ key'[j] = key[j] /\ object'[j] = object[j] /\ createErr'[j] = createErr[j]
          /\ out'[j] = out[j]
      BY DEF Others
    <2> QED BY <2>3, <2>4 DEF WorkAfter
  <1>3. \A j \in IDs : WorkAfter(objects', j)
    BY <1>2
  <1> QED BY <1>3 DEF TreeInv, SoundPuts, WorkAfter

\* A step of one invocation that leaves the store alone.
LEMMA QuietStep ==
  ASSUME IInv, TreeInv, UNCHANGED storeVars, NEW i \in IDs, Others(i), WorkAfter(objects, i)
  PROVE  TreeInv'
  <1>1. objects' = objects /\ late' = late /\ Grows
    BY UnchangedGrows DEF storeVars
  <1>2. Sound(objects) /\ SoundPuts(objects, late)
    BY TreeInvParts
  <1>3. Sound(objects') /\ SoundPuts(objects', late') /\ WorkAfter(objects', i)
    BY <1>1, <1>2
  <1> QED BY <1>1, <1>3, TreeCombine

-----------------------------------------------------------------------------
(* One lemma for each action. *)

\* A return that does not report corruption without cause.
LEMMA TreeReturn ==
  ASSUME IInv, TreeInv, UNCHANGED storeVars, NEW i \in IDs, CallVars(i),
         NEW result \in Results, result = "corrupt" => Blamed(objects, i),
         NEW r \in 0..MaxRevision, Return(i, result, r)
  PROVE  TreeInv'
  <1>1. Others(i) /\ Returns(i, result, r)
    BY ReturnEffect, StoreInvOfIInv
  <1>2. WorkAfter(objects, i)
    BY <1>1, ReturnWork DEF Returns
  <1> QED BY <1>1, <1>2, QuietStep

\* appendPrepared on a snapshot.
LEMMA TreePrepared ==
  ASSUME IInv, TreeInv, UNCHANGED storeVars, NEW i \in IDs, CallVars(i), pc[i] # "returned",
         NEW b \in Snapshots, appendPrepared(i, b)
  PROVE  TreeInv'
  <1>1. TypeOK /\ out[i].result = "none"
    BY NotReturnedYet DEF IInv
  <1>2. Others(i)
    BY <1>1, AppendPreparedEffect
  <1>3. WorkAfter(objects, i)
    BY <1>1, TreeInvParts, PreparedWork
  <1> QED BY <1>2, <1>3, QuietStep

\* Append begins: nothing is stored.
LEMMA TreeCallAppend ==
  ASSUME IInv, TreeInv, NEW i \in IDs, CallAppend(i)
  PROVE  TreeInv'
  <1>0. HeadRevision \in 0..MaxRevision /\ LocalsOK
    BY HeadOfContiguous, StoreInvOfIInv DEF IInv
  <1>1. CallVars(i) /\ UNCHANGED storeVars
    BY <1>0, StartCallVars DEF CallAppend
  <1>2. /\ pc' = [pc EXCEPT ![i] = "list"]
        /\ UNCHANGED <<attempt, base, levels, level, key, object, createErr, out>>
    BY DEF CallAppend, locals
  <1>3. Others(i)
    BY <1>0, <1>1, <1>2 DEF LocalsOK, Others, CallVars
  <1>4. pc'[i] = "list" /\ out'[i].result = "none"
    <2>1. pc[i] # "returned"
      BY DEF CallAppend, Start
    <2>2. out[i].result = "none"
      BY <2>1, NotReturnedYet
    <2> QED BY <1>0, <1>2, <2>2 DEF LocalsOK
  <1>5. WorkAfter(objects, i)
    BY <1>4 DEF WorkAfter, WorkOK
  <1> QED BY <1>1, <1>3, <1>5, QuietStep

\* AppendTo begins with the carry from its base.
LEMMA TreeCallAppendTo ==
  ASSUME IInv, TreeInv, NEW i \in IDs, CallAppendTo(i)
  PROVE  TreeInv'
  <1>0. LocalsOK /\ ObjectsOK
    BY DEF IInv, TypeOK
  <1>1. PICK b \in Snapshots : Start(i, "AppendTo", b.revision) /\ appendPrepared(i, b)
    BY DEF CallAppendTo
  <1>2. b.revision \in 0..MaxRevision
    BY <1>0, SnapshotRevision
  <1>3. CallVars(i) /\ pc[i] = "unused" /\ UNCHANGED storeVars
    BY <1>0, <1>1, <1>2, StartCallVars
  <1> QED BY <1>1, <1>3, TreePrepared

\* A call that is rejected stores nothing.
LEMMA TreeReject ==
  ASSUME IInv, TreeInv, NEW i \in IDs, Reject(i)
  PROVE  TreeInv'
  <1>0. HeadRevision \in 0..MaxRevision /\ LocalsOK
    BY HeadOfContiguous, StoreInvOfIInv DEF IInv
  <1>1. PICK k \in {"Append", "AppendTo"} :
           Start(i, k, HeadRevision) /\ Return(i, "rejected", 0)
    BY DEF Reject
  <1>2. CallVars(i) /\ UNCHANGED storeVars
    BY <1>0, <1>1, StartCallVars
  <1>3. "rejected" \in Results /\ 0 \in 0..MaxRevision
    BY MaxRevisionAssumption DEF Results
  <1> QED BY <1>1, <1>2, <1>3, TreeReturn

\* LoadHead lists: there is no head, or its key is known.
LEMMA TreeList ==
  ASSUME IInv, TreeInv, NEW i \in IDs, List(i)
  PROVE  TreeInv'
  <1>0. /\ LocalsOK /\ pc[i] = "list" /\ UNCHANGED storeVars /\ CallVars(i)
        /\ kind' = kind /\ since' = since
    BY StoreInvOfIInv, KeepCallVars DEF List
  <1>1. CASE appendPrepared(i, Nil)
    BY <1>0, <1>1, NilIsSnapshot, TreePrepared
  <1>2. ASSUME NEW r \in Committed,
               pc' = [pc EXCEPT ![i] = "get"],
               key' = [key EXCEPT ![i] = logKey(r)],
               UNCHANGED <<attempt, base, levels, level, object, createErr, out>>
        PROVE  TreeInv'
    <2>1. Others(i)
      BY <1>0, <1>2 DEF LocalsOK, Others
    <2>2. pc'[i] = "get" /\ out'[i].result = "none"
      BY <1>0, <1>2, NotReturnedYet DEF LocalsOK
    <2>3. WorkAfter(objects, i)
      BY <2>2 DEF WorkAfter, WorkOK
    <2> QED BY <1>0, <2>1, <2>3, QuietStep
  <1> QED BY <1>1, <1>2 DEF List

\* LoadHead has the commit, and the carry from it begins; it reports corruption only when
\* i cannot decode the head.
LEMMA TreeGet ==
  ASSUME IInv, TreeInv, NEW i \in IDs, Get(i)
  PROVE  TreeInv'
  <1>0. /\ LocalsOK /\ ObjectsOK /\ StageInv(i) /\ pc[i] = "get" /\ UNCHANGED storeVars
        /\ CallVars(i) /\ Sound(objects)
    BY StoreInvOfIInv, KeepCallVars, TreeInvParts DEF Get, TypeOK
  <1>1. PICK r \in Committed : key[i] = logKey(r)
    BY <1>0 DEF StageInv
  <1>2. MaxInt64 - key[i][2] = r /\ r \in Revisions /\ key[i] \in DOMAIN objects
    BY <1>1, MaxInt64Assumption DEF logKey, Committed, Revisions, Present
  <1>3. /\ objects[logKey(r)].format = "commit" /\ objects[logKey(r)].revision = r
        /\ Extends(objects, objects[logKey(r)])
    BY <1>0, <1>1, <1>2, Stored
  <1>4. decodeCommit(r, objects[key[i]])
    BY <1>1, <1>2, <1>3, ExtensionDecodes
  <1>5. snapshot(i, r, objects[key[i]]) <=> <<i, objects[key[i]].id>> \in Decodes
    BY <1>4, DecodedRecord
  <1>6. CASE <<i, objects[key[i]].id>> \in Decodes
    <2>1. appendPrepared(i, objects[key[i]])
      BY <1>2, <1>5, <1>6 DEF Get, Present
    <2>2. objects[key[i]] \in Snapshots
      BY <1>1 DEF Snapshots
    <2> QED BY <1>0, <2>1, <2>2, TreePrepared
  <1>7. CASE <<i, objects[key[i]].id>> \notin Decodes
    <2>1. Return(i, "corrupt", r)
      BY <1>2, <1>5, <1>7 DEF Get, Present
    <2>2. Blamed(objects, i)
      BY <1>1, <1>2, <1>7 DEF Blamed
    <2>3. "corrupt" \in Results /\ r \in 0..MaxRevision
      BY <1>2 DEF Results, Revisions
    <2> QED BY <1>0, <2>1, <2>2, <2>3, TreeReturn
  <1> QED BY <1>6, <1>7

\* What an invocation that packs a level has at hand.
LEMMA PackFacts ==
  ASSUME IInv, TreeInv, NEW i \in IDs, pc[i] \in {"pack", "aggregate", "readback"}
  PROVE  /\ Heads(objects, base[i]) /\ base[i] \in Snapshots /\ base[i].revision < MaxRevision
         /\ base[i].revision + 1 \in 0..MaxRevision
         /\ Filled(levels[i], base[i].revision, level[i], Chain(objects))
         /\ out[i].result = "none" /\ LocalsOK /\ ObjectsOK /\ Sound(objects)
  <1>1. LocalsOK /\ ObjectsOK /\ Sound(objects) /\ out[i].result = "none"
    BY StoreInvOfIInv, TreeInvParts, NotReturnedYet DEF TypeOK
  <1>2. base[i] \in Snapshots /\ base[i].revision < MaxRevision /\ base[i].revision + 1 \in 0..MaxRevision
    BY BaseFacts DEF IInv, StageInv
  <1>3. Filled(levels[i], base[i].revision, level[i], Chain(objects))
    BY DEF TreeInv, WorkOK
  <1> QED BY <1>1, <1>2, <1>3, SnapshotHeads

\* createSegment accepts the level it packs, and makes the one segment of its block.
LEMMA TreeCreateSegment ==
  ASSUME IInv, TreeInv, NEW i \in IDs, createSegment(i)
  PROVE  TreeInv'
  <1> DEFINE f == levels[i]
             l == level[i]
             b == base[i]
             h == Chain(objects)
             refs == f[l]
  <1>0. /\ pc[i] = "pack" /\ UNCHANGED storeVars /\ kind' = kind /\ since' = since
        /\ StageInv(i)
    BY StoreInvOfIInv DEF createSegment
  <1>1. /\ Heads(objects, b) /\ b \in Snapshots /\ b.revision < MaxRevision
        /\ Filled(f, b.revision, l, h)
        /\ out[i].result = "none" /\ LocalsOK /\ ObjectsOK /\ Sound(objects)
    BY <1>0, PackFacts
  <1>2. PICK n \in Nat : n = b.revision /\ n <= MaxRevision /\ InLog(objects, n)
    BY <1>1 DEF Heads
  <1>3. l \in Levels /\ l \in Nat /\ l + 1 \in Levels /\ l + 1 \in Nat /\ l + 1 # 0
    BY <1>1, LevelsAreNat DEF Filled
  <1>4. PICK d \in Nat : d = Size[l + 1] /\ d > 0
    BY <1>3, SizeFacts
  <1>5. PICK q \in Multiples(Size[l + 1]) : q = n - d /\ q \in Nat /\ q + d = n /\ q < n
    <2>1. n - d \in Multiples(Size[l + 1]) /\ n - d \in Nat
      BY <1>1, <1>2, <1>4, MultiplesFacts DEF Filled
    <2> QED BY <2>1, <1>2, <1>4
  <1>6. Tile(refs, l, q, n, h) /\ Len(refs) = Radix /\ IsSeq(refs)
    BY <1>1, <1>2, <1>4, <1>5 DEF Filled, Tile
  <1>7. q \in Multiples(Size[l])
    <2>1. l <= l + 1
      BY <1>3
    <2> QED BY <2>1, <1>3, <1>5, MultiplesNest
  <1> HIDE DEF f, l, b, h
  <1>8. ASSUME NEW k \in DOMAIN refs PROVE Readable(objects, refs[k])
    <2>1. Resolves(refs[k])
      BY <1>0, <1>3 DEF StageInv, Resolved, f, l
    <2>2. PICK x \in Multiples(Size[l]) : Block(refs[k], l, x, h) /\ x + Size[l] <= n
      BY <1>3, <1>6, <1>7, TileBlock
    <2>3. x + Size[l] <= MaxRevision
      <3>1. x \in Nat /\ Size[l] \in Nat /\ MaxRevision \in Nat
        BY <1>3, SizeFacts, MultiplesFacts, MaxRevisionAssumption
      <3> QED BY <3>1, <2>2, <1>2
    <2> QED BY <2>1, <2>2, <2>3, <1>3 DEF Readable, Resolves, Present, h
  <1>9. Partition(refs, q + 1, n + 1, h[q], h[n])
    BY <1>3, <1>5, <1>6, TilePartition
  <1>10. /\ \A k \in DOMAIN refs : loadRecordFile(b, refs[k])
         /\ Children(b, refs) = Slice(Records(objects), q, n)
    <2>1. q <= MaxRevision
      BY <1>2, <1>5, MaxRevisionAssumption
    <2> HIDE DEF refs
    <2> QED BY <2>1, <1>1, <1>2, <1>5, <1>6, <1>8, <1>9, ChildrenRead
  <1> DEFINE segment == Segment(l + 1, Head(refs).start, Last(refs).end, Children(b, refs))
             ref == aggregateRef(l + 1, refs, digest(segment))
  <1>11. Block(ref, l + 1, q, h)
    BY <1>1, <1>2, <1>4, <1>5, FilledBlock
  <1>12. /\ ref.level = l + 1 /\ ref.start = q + 1 /\ ref.end = n /\ ref.firstPrev = h[q] /\ ref.last = h[n]
         /\ ref.sha = digest(segment)
    BY <1>4, <1>5, <1>11 DEF Block, aggregateRef
  <1>13. Head(refs).start = q + 1 /\ Last(refs).end = n
    BY <1>12 DEF aggregateRef
  <1>14. segment = SegmentAt(objects, l + 1, q)
    BY <1>4, <1>5, <1>10, <1>13 DEF SegmentAt
  <1>15. Adjacent(Children(b, refs), ref.start, ref.end, ref.firstPrev, ref.last)
    <2>1. Adjacent(Slice(Records(objects), q, n), q + 1, n, h[q], h[n])
      BY <1>1, <1>2, <1>5, RangeAdjacent DEF h
    <2> HIDE DEF ref, refs
    <2> QED BY <2>1, <1>10, <1>12
  <1>16. validateRef(ref)
    BY <1>2, <1>3, <1>4, <1>5, <1>11, BlockIsValid
  <1>17. /\ pc' = [pc EXCEPT ![i] = "aggregate"]
         /\ key' = [key EXCEPT ![i] = treeKey(ref)]
         /\ object' = [object EXCEPT ![i] = segment]
         /\ UNCHANGED <<attempt, base, levels, level, createErr, out>>
    BY <1>6, <1>10, <1>15, <1>16 DEF createSegment, f, l, b
  <1>18. /\ pc'[i] = "aggregate" /\ key'[i] = treeKey(ref) /\ object'[i] = segment
         /\ base'[i] = b /\ levels'[i] = f /\ level'[i] = l /\ out'[i].result = "none"
    BY <1>1, <1>17 DEF LocalsOK, f, l, b
  <1>19. treeKey(ref) = <<"tree", l + 1, q + 1, q + Size[l + 1], digest(segment)>>
    BY <1>4, <1>5, <1>12 DEF treeKey
  <1> HIDE DEF segment, ref
  <1>20. TreeItem(objects, treeKey(ref), segment)
    BY <1>2, <1>3, <1>4, <1>5, <1>14, <1>19 DEF TreeItem
  <1>21. WorkAfter(objects, i)
    BY <1>1, <1>18, <1>20 DEF WorkAfter, WorkOK, Item, Heads, h
  <1>22. Others(i)
    BY <1>0, <1>1, <1>17 DEF LocalsOK, Others
  <1> QED BY <1>0, <1>21, <1>22, QuietStep

\* An invocation notes that a Create did not succeed.
LEMMA TreeNotesError ==
  ASSUME IInv, TreeInv, NEW i \in IDs, Item(objects, key[i], object[i]),
         NEW err \in CreateErrors, Create(key[i], object[i], err), kind' = kind, since' = since,
         \/ pc[i] = "aggregate" /\ NotesError(i, "readback", err)
         \/ pc[i] = "create" /\ NotesError(i, "lookup", err)
  PROVE  TreeInv'
  <1>0. LocalsOK /\ Sound(objects) /\ SoundPuts(objects, late)
    BY StoreInvOfIInv, TreeInvParts
  <1>1. /\ Grows /\ Sound(objects') /\ SoundPuts(objects', late')
        /\ err = "exists" => key[i] \in DOMAIN objects'
    BY <1>0, CreateSound DEF CreateErrors
  <1>2. Others(i)
    BY <1>1, NotesErrorEffect
  <1>3. /\ base'[i] = base[i] /\ levels'[i] = levels[i] /\ level'[i] = level[i] /\ key'[i] = key[i]
        /\ object'[i] = object[i] /\ out'[i] = out[i] /\ createErr'[i] = err
        /\ \/ pc[i] = "aggregate" /\ pc'[i] = "readback"
           \/ pc[i] = "create" /\ pc'[i] = "lookup"
    BY <1>0 DEF NotesError, LocalsOK
  <1>4. WorkOK(objects', i, pc[i], base[i], levels[i], level[i], key[i], object[i],
               createErr[i], out[i].result)
    <2>1. base[i].revision \in 0..MaxRevision
      <3>1. base[i] \in Snapshots /\ ObjectsOK
        BY BaseFacts DEF IInv, TypeOK
      <3> QED BY <3>1, SnapshotRevision
    <2> QED BY <2>1, <1>1, GrowsIncludes, WorkGrows DEF TreeInv
  <1>5. WorkAfter(objects', i)
    BY <1>1, <1>3, <1>4 DEF WorkAfter, WorkOK
  <1> QED BY <1>1, <1>2, <1>5, TreeCombine

\* A segment is published, or a PUT of it is left under way.
LEMMA TreeCreateAggregate ==
  ASSUME IInv, TreeInv, NEW i \in IDs, createAggregate(i)
  PROVE  TreeInv'
  <1>0. pc[i] = "aggregate" /\ kind' = kind /\ since' = since /\ StageInv(i)
    BY StoreInvOfIInv DEF createAggregate
  <1>1. Item(objects, key[i], object[i]) /\ SoundPuts(objects, late)
    BY <1>0, TreeInvParts DEF TreeInv, WorkOK
  <1>2. /\ Heads(objects, base[i]) /\ base[i] \in Snapshots /\ base[i].revision < MaxRevision
        /\ Filled(levels[i], base[i].revision, level[i], Chain(objects))
        /\ out[i].result = "none" /\ LocalsOK /\ ObjectsOK /\ Sound(objects)
    BY <1>0, PackFacts
  <1>3. CASE Create(key[i], object[i], "ok") /\ NextLevel(i)
    <2>1. Grows /\ Sound(objects') /\ SoundPuts(objects', late')
      BY <1>1, <1>2, <1>3, CreateSound
    <2>2. Includes(objects', objects)
      BY <2>1, GrowsIncludes
    <2>3. Heads(objects', base[i])
      BY <1>2, <2>2, HeadsGrow
    <2>4. Filled(levels[i], base[i].revision, level[i], Chain(objects'))
      <3>1. PICK n \in Nat : n = base[i].revision /\ n \in 0..MaxRevision /\ InLog(objects, n)
        BY <1>2 DEF Heads
      <3>2. Agree(Chain(objects'), Chain(objects), n)
        BY <2>2, <3>1, LogGrows DEF Agree
      <3> QED BY <1>2, <3>1, <3>2, FilledAgrees
    <2>5. WorkAfter(objects', i)
      BY <1>2, <1>3, <2>3, <2>4, NextLevelWork
    <2>6. ResolvesAfter(Packed(i))
      <3>1. key[i] = treeKey(Packed(i)) /\ key[i][1] = "tree" /\ RefKey(Packed(i)) = key[i]
        <4>1. key[i] = treeKey(Packed(i)) /\ level[i] + 1 \in Levels /\ level[i] \in Levels
          BY <1>0, <1>2 DEF StageInv, LocalsOK
        <4>2. Packed(i).level # 0
          BY <4>1, TopLevelAssumption DEF Packed, aggregateRef, Levels
        <4> QED BY <4>1, <4>2 DEF treeKey, RefKey
      <3>2. key[i] \in DOMAIN objects' /\ objects'[key[i]] = object[i]
        BY <1>3, <3>1, TreeCreate
      <3> QED BY <3>1, <3>2 DEF ResolvesAfter, Packed, aggregateRef
    <2>7. Others(i)
      BY <1>0, <1>3, <2>1, <2>6, NextLevelEffect
    <2> QED BY <2>1, <2>5, <2>7, TreeCombine
  <1>4. ASSUME NEW err \in CreateErrors, Create(key[i], object[i], err),
               NotesError(i, "readback", err)
        PROVE  TreeInv'
    BY <1>0, <1>1, <1>4, TreeNotesError
  <1> QED BY <1>3, <1>4 DEF createAggregate, NotesError

\* readback accepts whatever is stored under the segment's key.
LEMMA TreeReadback ==
  ASSUME IInv, TreeInv, NEW i \in IDs, readback(i)
  PROVE  TreeInv'
  <1>0. /\ pc[i] = "readback" /\ UNCHANGED storeVars /\ kind' = kind /\ since' = since /\ StageInv(i)
        /\ CallVars(i)
    BY StoreInvOfIInv, KeepCallVars DEF readback
  <1>1. /\ Heads(objects, base[i]) /\ base[i] \in Snapshots /\ base[i].revision < MaxRevision
        /\ base[i].revision + 1 \in 0..MaxRevision
        /\ Filled(levels[i], base[i].revision, level[i], Chain(objects))
        /\ out[i].result = "none" /\ LocalsOK /\ ObjectsOK /\ Sound(objects)
    BY <1>0, PackFacts
  <1>2. CASE ~Present(key[i])
    <2>1. createErr[i] # "exists"
      BY <1>0, <1>2 DEF TreeInv, WorkOK, Present
    <2>2. Return(i, "failed", base[i].revision + 1)
      BY <1>2, <2>1 DEF readback
    <2>3. "failed" \in Results
      BY DEF Results
    <2> QED BY <1>0, <1>1, <2>2, <2>3, TreeReturn
  <1>3. CASE Present(key[i])
    <2> DEFINE l == level[i] + 1
               n == base[i].revision
    <2>1. l \in Levels /\ l \in Nat /\ l # 0 /\ n \in Nat /\ n <= MaxRevision /\ MaxRevision \in Nat
      BY <1>1, LevelsAreNat, MaxRevisionAssumption DEF Filled, Heads
    <2>2. key[i] = treeKey(Packed(i)) /\ Packed(i).level = l
      BY <1>0 DEF StageInv, Packed, aggregateRef
    <2>3. RefKey(Packed(i)) = key[i]
      BY <2>1, <2>2 DEF RefKey
    <2>4. n - Size[l] \in Multiples(Size[l])
      BY <1>1 DEF Filled
    <2>5. Block(Packed(i), l, n - Size[l], Chain(objects))
      BY <1>1, <2>1, FilledBlock DEF Packed
    <2> HIDE DEF l, n
    <2>6. digest(objects[key[i]]) = Packed(i).sha
      <3>1. Item(objects, key[i], objects[key[i]])
        BY <1>1, <1>3 DEF Sound, Present
      <3>2. key[i][1] = "tree" /\ key[i][5] = Packed(i).sha
        BY <2>2 DEF treeKey
      <3>3. ~LogItem(objects, key[i], objects[key[i]])
        BY <3>2 DEF LogItem, logKey
      <3>4. TreeItem(objects, key[i], objects[key[i]])
        BY <3>1, <3>3 DEF Item
      <3> QED BY <3>2, <3>4 DEF TreeItem
    <2>7. PICK q \in Multiples(Size[l]) : q = n - Size[l] /\ q + Size[l] <= MaxRevision
      <3>1. Size[l] \in Nat
        BY <2>1, SizeFacts
      <3>2. (n - Size[l]) + Size[l] <= MaxRevision
        BY <3>1, <2>1
      <3> QED BY <3>2, <2>4
    <2>8. decodeSegment(Packed(i), objects[key[i]])
      <3>1. RefKey(Packed(i)) \in DOMAIN objects /\ digest(objects[RefKey(Packed(i))]) = Packed(i).sha
        BY <1>3, <2>3, <2>6 DEF Present
      <3>2. Packed(i).level # 0 => decodeSegment(Packed(i), objects[RefKey(Packed(i))])
        BY <1>1, <2>1, <2>5, <2>7, <3>1, BlockReads
      <3> QED BY <3>2, <2>1, <2>2, <2>3
    <2>9. NextLevel(i)
      BY <1>3, <2>8 DEF readback
    <2>10. WorkAfter(objects, i)
      BY <1>1, <2>9, NextLevelWork
    <2>11. Grows /\ ResolvesAfter(Packed(i))
      BY <1>0, <1>3, <2>3, <2>6, UnchangedGrows DEF storeVars, ResolvesAfter, Present
    <2>12. Others(i)
      BY <1>0, <2>9, <2>11, NextLevelEffect
    <2> QED BY <1>0, <2>10, <2>12, QuietStep
  <1> QED BY <1>2, <1>3

\* A commit is published, or a PUT of it is left under way.
LEMMA TreeCreateCommit ==
  ASSUME IInv, TreeInv, NEW i \in IDs, createCommit(i)
  PROVE  TreeInv'
  <1>0. pc[i] = "create" /\ kind' = kind /\ since' = since /\ LocalsOK /\ CallVars(i)
    BY StoreInvOfIInv, KeepCallVars DEF createCommit
  <1>1. /\ Item(objects, key[i], object[i]) /\ Sound(objects) /\ SoundPuts(objects, late)
        /\ object[i].revision \in 0..MaxRevision
    <2>1. object[i].revision \in Revisions
      BY <1>0 DEF LocalsOK, IsCommit
    <2> QED BY <1>0, <2>1, TreeInvParts DEF TreeInv, WorkOK, Revisions
  <1>2. CASE Create(key[i], object[i], "ok") /\ Return(i, "ok", object[i].revision)
    <2>1. Grows /\ Sound(objects') /\ SoundPuts(objects', late')
      BY <1>1, <1>2, CreateSound
    <2>2. "ok" \in Results
      BY DEF Results
    <2>3. Others(i) /\ Returns(i, "ok", object[i].revision)
      BY <1>0, <1>1, <1>2, <2>2, ReturnEffect
    <2>4. WorkAfter(objects', i)
      BY <2>3, ReturnWork DEF Returns
    <2> QED BY <2>1, <2>3, <2>4, TreeCombine
  <1>3. ASSUME NEW err \in CreateErrors, Create(key[i], object[i], err),
               NotesError(i, "lookup", err)
        PROVE  TreeInv'
    BY <1>0, <1>1, <1>3, TreeNotesError
  <1> QED BY <1>2, <1>3 DEF createCommit, NotesError

\* The winner lookup accepts whatever i can decode under the commit's key; a winner with
\* the invocation's own ID has its hash.
LEMMA TreeLookup ==
  ASSUME IInv, TreeInv, NEW i \in IDs, lookup(i)
  PROVE  TreeInv'
  <1>0. /\ pc[i] = "lookup" /\ UNCHANGED storeVars /\ kind' = kind /\ since' = since
        /\ CallVars(i) /\ LocalsOK /\ StageInv(i) /\ Sound(objects)
    BY StoreInvOfIInv, KeepCallVars, TreeInvParts DEF lookup
  <1>1. PICK r \in Revisions : r = object[i].revision /\ r \in 0..MaxRevision
    <2>1. object[i].revision \in Revisions
      BY <1>0 DEF LocalsOK, IsCommit
    <2> QED BY <2>1 DEF Revisions
  <1>2. key[i] = logKey(r) /\ object[i].id = i
    BY <1>0, <1>1 DEF StageInv
  <1>3. {"failed", "ok", "conflict", "corrupt"} \subseteq Results
    BY DEF Results
  <1>4. CASE ~Present(key[i])
    <2>1. createErr[i] # "exists"
      BY <1>0, <1>4 DEF TreeInv, WorkOK, Present
    <2>2. Return(i, "failed", r)
      BY <1>1, <1>4, <2>1 DEF lookup
    <2> QED BY <1>0, <1>1, <1>3, <2>2, TreeReturn
  <1>5. CASE Present(key[i])
    <2> PICK w : w = objects[logKey(r)]
      OBVIOUS
    <2>1. /\ w.format = "commit" /\ w.revision = r /\ Extends(objects, w)
          /\ Chain(objects)[r - 1] = w.prev
      BY <1>0, <1>2, <1>5, Stored DEF Present
    <2>2. decodeCommit(r, w)
      BY <2>1, ExtensionDecodes
    <2>3. w.hash = recordHash(r, w.id, Chain(objects)[r - 1])
      BY <2>1 DEF Extends
    <2>4. object[i].hash = recordHash(r, i, Chain(objects)[r - 1])
      <3>1. Item(objects, key[i], object[i])
        BY <1>0 DEF TreeInv, WorkOK
      <3>2. ~TreeItem(objects, key[i], object[i])
        BY <1>2 DEF TreeItem, logKey
      <3>3. Extends(objects, object[i])
        BY <3>1, <3>2 DEF Item, LogItem
      <3> QED BY <3>3, <1>1, <1>2 DEF Extends
    <2>2a. snapshot(i, r, w) <=> <<i, w.id>> \in Decodes
      BY <2>2, DecodedRecord
    <2>2b. CASE <<i, w.id>> \notin Decodes
      <3>1. Return(i, "corrupt", r)
        BY <1>1, <1>2, <1>5, <2>2a, <2>2b DEF lookup, Winner
      <3>2. Blamed(objects, i)
        BY <1>2, <1>5, <2>2b DEF Blamed, Present
      <3> QED BY <1>0, <1>1, <1>3, <3>1, <3>2, TreeReturn
    <2>5. CASE w.id # i /\ <<i, w.id>> \in Decodes
      <3>1. Conflict(i)
        BY <1>1, <1>2, <1>5, <2>2a, <2>5 DEF lookup, Winner
      <3>2. CASE Return(i, "conflict", r)
        BY <1>0, <1>1, <1>3, <3>2, TreeReturn
      <3>3. CASE Restart(i)
        <4>1. Others(i)
          BY <1>0, <3>3 DEF LocalsOK, Others, Restart
        <4>2. pc'[i] = "list" /\ out'[i].result = "none"
          BY <1>0, <3>3, NotReturnedYet DEF LocalsOK, Restart
        <4>3. WorkAfter(objects, i)
          BY <4>2 DEF WorkAfter, WorkOK
        <4> QED BY <1>0, <4>1, <4>3, QuietStep
      <3> QED BY <1>1, <3>1, <3>2, <3>3 DEF Conflict
    <2>6. CASE w.id = i /\ <<i, w.id>> \in Decodes
      <3>1. w.hash = object[i].hash
        BY <2>3, <2>4, <2>6
      <3>2. Return(i, "ok", r)
        BY <1>1, <1>2, <1>5, <2>2a, <2>6, <3>1 DEF lookup, Winner
      <3> QED BY <1>0, <1>1, <1>3, <3>2, TreeReturn
    <2> QED BY <2>2b, <2>5, <2>6
  <1> QED BY <1>4, <1>5

\* An invocation that stops leaves the store as it is.
LEMMA TreeFail ==
  ASSUME IInv, TreeInv, NEW i \in IDs, Fail(i)
  PROVE  TreeInv'
  <1>1. CallVars(i) /\ "failed" \in Results /\ 0 \in 0..MaxRevision
    BY StoreInvOfIInv, KeepCallVars, MaxRevisionAssumption DEF Fail, Results
  <1> QED BY <1>1, TreeReturn DEF Fail

\* The store moves while the invocations stand still.
LEMMA TreeIdle ==
  ASSUME IInv, TreeInv, Grows, Sound(objects'), SoundPuts(objects', late'),
         UNCHANGED <<pc, kind, locals, out, since>>
  PROVE  TreeInv'
  <1>1. Includes(objects', objects)
    BY GrowsIncludes
  <1>2. ASSUME NEW j \in IDs PROVE WorkAfter(objects', j)
    <2>1. base[j].revision \in 0..MaxRevision
      <3>1. base[j] \in Snapshots /\ ObjectsOK
        BY NilIsSnapshot DEF IInv, StageInv, TypeOK
      <3> QED BY <3>1, SnapshotRevision
    <2>2. WorkOK(objects', j, pc[j], base[j], levels[j], level[j], key[j], object[j],
                 createErr[j], out[j].result)
      BY <1>1, <2>1, WorkGrows DEF TreeInv
    <2> QED BY <2>2 DEF WorkAfter, locals
  <1> QED BY <1>2 DEF TreeInv, SoundPuts, WorkAfter

\* A PUT that was under way takes effect.
LEMMA TreeLanding ==
  ASSUME IInv, TreeInv, Landing
  PROVE  TreeInv'
  <1>1. PICK put \in late : Put(put[1], put[2]) /\ late' = late \ {put}
    BY DEF Landing, Land
  <1>2. Sound(objects) /\ SoundPuts(objects, late) /\ Item(objects, put[1], put[2])
    BY TreeInvParts DEF SoundPuts
  <1>3. Grows /\ Includes(objects', objects) /\ Sound(objects')
    BY <1>1, <1>2, PutGrows, PutSound
  <1>4. SoundPuts(objects', late)
    BY <1>2, <1>3, PutsGrow
  <1>5. SoundPuts(objects', late')
    BY <1>1, <1>4 DEF SoundPuts
  <1> QED BY <1>3, <1>5, TreeIdle DEF Landing

\* Nothing changes.
LEMMA TreeStuttering ==
  ASSUME IInv, TreeInv, UNCHANGED vars
  PROVE  TreeInv'
  <1>1. objects' = objects /\ late' = late /\ UNCHANGED <<pc, kind, locals, out, since>>
    BY DEF vars
  <1>2. Sound(objects) /\ SoundPuts(objects, late)
    BY TreeInvParts
  <1>3. Sound(objects') /\ SoundPuts(objects', late') /\ Grows
    BY <1>1, <1>2, UnchangedGrows
  <1> QED BY <1>1, <1>3, TreeIdle

\* The empty log has an empty tree.
LEMMA InitTree == Init => TreeInv
  <1> SUFFICES ASSUME Init PROVE TreeInv
    OBVIOUS
  <1>1. DOMAIN objects = {} /\ late = {}
    BY DEF Init, StoreInit
  <1>2. Sound(objects) /\ \A put \in late : Item(objects, put[1], put[2])
    BY <1>1 DEF Sound
  <1>3. \A i \in IDs : pc[i] = "unused" /\ out[i].result = "none"
    BY DEF Init
  <1> QED BY <1>2, <1>3 DEF TreeInv, WorkOK

-----------------------------------------------------------------------------
(* The theorems. *)

\* Everything that is stored, or on its way to the store, extends the log or packs a block
\* of it, at every stage of every append.
THEOREM TreeInvariance == Spec => []TreeInv
  <1>1. Init => TreeInv
    BY InitTree
  <1>2. IInv /\ TreeInv /\ [Next]_vars => TreeInv'
    <2> SUFFICES ASSUME IInv, TreeInv, [Next]_vars PROVE TreeInv'
      OBVIOUS
    <2>1. ASSUME NEW i \in IDs, Call(i) PROVE TreeInv'
      BY <2>1, TreeCallAppend, TreeCallAppendTo, TreeReject DEF Call
    <2>2. ASSUME NEW i \in IDs, Step(i) PROVE TreeInv'
      BY <2>2, TreeList, TreeGet, TreeCreateSegment, TreeCreateAggregate, TreeReadback,
         TreeCreateCommit, TreeLookup DEF Step
    <2>3. ASSUME NEW i \in IDs, Fail(i) PROVE TreeInv'
      BY <2>3, TreeFail
    <2>4. CASE Landing
      BY <2>4, TreeLanding
    <2>5. CASE UNCHANGED vars
      BY <2>5, TreeStuttering
    <2> QED BY <2>1, <2>2, <2>3, <2>4, <2>5 DEF Next
  <1>3. Spec => []IInv
    BY Invariance
  <1> QED BY <1>1, <1>2, <1>3, PTL DEF Spec

\* On a store that keeps its contract an append reports ErrCorrupt only when its T cannot
\* decode its own batch or one that is in the log (record): whatever races, retries, lost
\* responses and late PUTs do, validateFrontier, decodeCommit, createSegment, the readback
\* of a segment and the winner lookup accept what is stored.
THEOREM CorruptionIsNeverInvented == Spec => []NoFalseCorruption
  <1>1. TreeInv => NoFalseCorruption
    <2> SUFFICES ASSUME TreeInv, NEW i \in IDs, out[i].result = "corrupt"
                 PROVE  \E j \in {i} \cup {Logged(r).id : r \in Committed} : <<i, j>> \notin Decodes
      BY DEF NoFalseCorruption
    <2>1. Blamed(objects, i)
      BY DEF TreeInv, WorkOK
    <2> QED BY <2>1 DEF Blamed, Committed, Present, Logged
  <1> QED BY <1>1, TreeInvariance, PTL

\* Two segments of one range are one segment: invocations that race a carry, or repeat it
\* after a lost response, converge on one object.
THEOREM SegmentsAreUnique == Spec => []SegmentsConverge
  <1>1. TreeInv => SegmentsConverge
    <2> SUFFICES ASSUME TreeInv, NEW k1 \in DOMAIN objects, NEW k2 \in DOMAIN objects,
                        k1[1] = "tree", k2[1] = "tree",
                        <<k1[2], k1[3], k1[4]>> = <<k2[2], k2[3], k2[4]>>
                 PROVE  k1 = k2
      BY DEF SegmentsConverge
    <2>1. ASSUME NEW k \in DOMAIN objects, k[1] = "tree"
          PROVE  \E l \in Levels \ {0} : \E q \in Nat :
                    k = <<"tree", l, q + 1, q + Size[l], digest(SegmentAt(objects, l, q))>>
      <3>1. Item(objects, k, objects[k])
        BY <2>1 DEF TreeInv, Sound
      <3>2. ~LogItem(objects, k, objects[k])
        BY <2>1 DEF LogItem, logKey
      <3>3. PICK l \in Levels \ {0} : \E q \in Multiples(Size[l]) :
               /\ objects[k] = SegmentAt(objects, l, q)
               /\ k = <<"tree", l, q + 1, q + Size[l], digest(objects[k])>>
        BY <3>1, <3>2 DEF Item, TreeItem
      <3>4. PICK q \in Multiples(Size[l]) :
               /\ objects[k] = SegmentAt(objects, l, q)
               /\ k = <<"tree", l, q + 1, q + Size[l], digest(objects[k])>>
        BY <3>3
      <3>5. q \in Nat
        BY LevelsAreNat, SizeFacts, MultiplesFacts
      <3>6. k = <<"tree", l, q + 1, q + Size[l], digest(SegmentAt(objects, l, q))>>
        BY <3>4
      <3> QED BY <3>5, <3>6
    <2>2. PICK l1 \in Levels \ {0}, q1 \in Nat :
             k1 = <<"tree", l1, q1 + 1, q1 + Size[l1], digest(SegmentAt(objects, l1, q1))>>
      BY <2>1
    <2>3. PICK l2 \in Levels \ {0}, q2 \in Nat :
             k2 = <<"tree", l2, q2 + 1, q2 + Size[l2], digest(SegmentAt(objects, l2, q2))>>
      BY <2>1
    <2>4. l1 = k1[2] /\ q1 + 1 = k1[3] /\ l2 = k2[2] /\ q2 + 1 = k2[3]
      BY <2>2, <2>3
    <2>5. l1 = l2 /\ q1 + 1 = q2 + 1
      BY <2>4
    <2>6. q1 = q2
      BY <2>5
    <2> QED BY <2>2, <2>3, <2>5, <2>6
  <1> QED BY <1>1, TreeInvariance, PTL

\* Whoever holds a commit can read the whole history in front of it: the references of its
\* frontier, read from the oldest object to the newest, yield every earlier record once, in
\* order, as it was committed.
THEOREM HistoryIsComplete == Spec => []HistoryComplete
  <1>1. IInv /\ TreeInv => HistoryComplete
    <2> SUFFICES ASSUME IInv, TreeInv, NEW r \in Committed
                 PROVE  Children(Nil, Chronological(Logged(r).frontier)) =
                           [q \in 1..(r - 1) |-> project(Logged(q))]
      BY DEF HistoryComplete
    <2> DEFINE c == Logged(r)
               refs == Chronological(c.frontier)
               h == Chain(objects)
    <2>0. ObjectsOK /\ Sound(objects) /\ Nil \in Snapshots /\ MaxRevision \in Nat
      BY TreeInvParts, NilIsSnapshot, MaxRevisionAssumption DEF IInv, TypeOK
    <2>1. r \in Revisions /\ logKey(r) \in DOMAIN objects
      BY DEF Committed, Present
    <2>2. /\ InLog(objects, r) /\ Extends(objects, c) /\ c.revision = r
      BY <2>0, <2>1, Stored DEF Logged
    <2>3. PICK n \in Nat : n = r - 1 /\ n <= MaxRevision /\ n < r
      <3>1. r - 1 \in Nat /\ r - 1 <= MaxRevision /\ r - 1 < r
        BY <2>0, <2>1 DEF Revisions
      <3> QED BY <3>1
    <2>4. Tiled(c.frontier, n, h) /\ \A l \in Levels : IsSeq(c.frontier[l])
      BY <2>2, <2>3 DEF Extends, Tiled, Tile
    <2>5. Resolved(c.frontier)
      BY DEF IInv, RecordInv
    <2>6. Partition(refs, 0 + 1, n + 1, h[0], h[n])
      BY <2>3, <2>4, TiledPartition
    <2>7. refs \in Seq(RefsOf(c.frontier))
      BY <2>4, ChronologicalType
    <2> HIDE DEF refs, c, h
    <2>8. IsSeq(refs) /\ \A k \in DOMAIN refs : refs[k] \in RefsOf(c.frontier)
      BY <2>7 DEF IsSeq
    <2>9. ASSUME NEW k \in DOMAIN refs PROVE Readable(objects, refs[k])
      <3>1. PICK l \in Levels : \E x \in DOMAIN c.frontier[l] : refs[k] = c.frontier[l][x]
        BY <2>8 DEF RefsOf
      <3>2. PICK x \in DOMAIN c.frontier[l] : refs[k] = c.frontier[l][x]
        BY <3>1
      <3>3. Resolves(refs[k])
        BY <2>5, <3>2 DEF Resolved
      <3>4. PICK q \in Multiples(Size[l]) : Block(refs[k], l, q, h) /\ q + Size[l] <= n
        BY <2>4, <3>2, TiledBlock
      <3>5. q + Size[l] <= MaxRevision
        <4>1. q \in Nat /\ Size[l] \in Nat
          BY LevelsAreNat, SizeFacts, MultiplesFacts
        <4> QED BY <4>1, <3>4, <2>0, <2>3
      <3> QED BY <3>3, <3>4, <3>5 DEF Readable, Resolves, Present, h
    <2>10. Children(Nil, refs) = Slice(Records(objects), 0, n)
      BY <2>0, <2>3, <2>6, <2>8, <2>9, ChildrenRead
    <2>11. Slice(Records(objects), 0, n) = [q \in 1..(r - 1) |-> project(Logged(q))]
      <3>1. ASSUME NEW q \in 1..n PROVE Records(objects)[0 + q] = project(Logged(q))
        <4>1. q \in Revisions /\ 0 + q = q
          BY <2>3, <2>0 DEF Revisions
        <4> QED BY <4>1 DEF Records, Logged
      <3>2. n - 0 = n
        OBVIOUS
      <3> QED BY <3>1, <3>2, <2>3 DEF Slice
    <2> QED BY <2>10, <2>11 DEF refs, c
  <1> QED BY <1>1, TreeInvariance, Invariance, PTL

=============================================================================
