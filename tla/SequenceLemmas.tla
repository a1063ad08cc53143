--------------------------- MODULE SequenceLemmas ---------------------------
(***************************************************************************)
(* Facts about numbers, sets and sequences that several proofs rest on:    *)
(* induction without an operator as parameter, what appending and          *)
(* concatenating do to the places of a sequence, and what FlattenSeq       *)
(* computes.                                                               *)
(***************************************************************************)
EXTENDS Integers, SequencesExt, FiniteSetTheorems, WellFoundedInduction, TLAPS

-----------------------------------------------------------------------------
(* Induction. *)

\* The least-number principle, stated for sets.
LEMMA Least ==
  ASSUME NEW T \in SUBSET Nat, T # {}
  PROVE  \E x \in T : \A y \in T : x <= y
  <1> DEFINE R == {ss \in Nat \X Nat : ss[1] < ss[2]}
  <1>1. OpToRel(<, Nat) = R
    BY DEF OpToRel
  <1>2. IsWellFoundedOn(R, Nat)
    BY <1>1, NatLessThanWellFounded
  <1>3. \A x, y \in Nat : <<x, y>> \in R <=> x < y
    OBVIOUS
  <1> HIDE DEF R
  <1>4. PICK x \in T : \A y \in T : ~ (<<y, x>> \in R)
    BY <1>2, WFMin
  <1>5. \A y \in T : <<y, x>> \in R <=> y < x
    BY <1>3, Zenon
  <1>6. \A y \in T : ~ (y < x)
    BY <1>4, <1>5
  <1>7. \A y \in T : x <= y
    BY <1>6
  <1> QED BY <1>7

\* Induction, stated for sets.
LEMMA SetInduction ==
  ASSUME NEW T \in SUBSET Nat, 0 \in T, \A n \in T : n + 1 \in T
  PROVE  \A n \in Nat : n \in T
  <1> SUFFICES ASSUME Nat \ T # {} PROVE FALSE
    OBVIOUS
  <1>1. PICK m \in Nat \ T : \A k \in Nat \ T : m <= k
    BY Least
  <1>2. m - 1 \in Nat /\ m - 1 \in T
    BY <1>1
  <1> QED BY <1>1, <1>2

-----------------------------------------------------------------------------
(* Appending and concatenating. *)

\* One more element.
LEMMA AppendFacts ==
  ASSUME NEW S, NEW s \in Seq(S), NEW e \in S
  PROVE  /\ Append(s, e) \in Seq(S) /\ Len(Append(s, e)) = Len(s) + 1
         /\ DOMAIN Append(s, e) = 1..(Len(s) + 1)
         /\ Append(s, e)[Len(s) + 1] = e
         /\ \A i \in 1..Len(s) : Append(s, e)[i] = s[i]
  OBVIOUS

\* The places of two sequences, one after the other.
LEMMA ConcatPlaces ==
  ASSUME NEW S, NEW s \in Seq(S), NEW t \in Seq(S)
  PROVE  /\ s \o t \in Seq(S)
         /\ \A i \in DOMAIN s : i \in DOMAIN (s \o t) /\ (s \o t)[i] = s[i]
         /\ \A i \in DOMAIN t : Len(s) + i \in DOMAIN (s \o t) /\ (s \o t)[Len(s) + i] = t[i]
         /\ \A i \in DOMAIN (s \o t) :
               /\ i \in Nat
               /\ i \in DOMAIN s \/ (i > Len(s) /\ i - Len(s) \in DOMAIN t /\ (s \o t)[i] = t[i - Len(s)])
  <1>1. /\ DOMAIN (s \o t) = 1..(Len(s) + Len(t)) /\ DOMAIN s = 1..Len(s) /\ DOMAIN t = 1..Len(t)
        /\ Len(s) \in Nat /\ Len(t) \in Nat
    OBVIOUS
  <1>2. s \o t \in Seq(S)
    OBVIOUS
  <1>3. ASSUME NEW i \in DOMAIN s
        PROVE  i \in DOMAIN (s \o t) /\ (s \o t)[i] = s[i]
    BY <1>1
  <1>4. ASSUME NEW i \in DOMAIN t
        PROVE  Len(s) + i \in DOMAIN (s \o t) /\ (s \o t)[Len(s) + i] = t[i]
    BY <1>1
  <1>5. ASSUME NEW i \in DOMAIN (s \o t)
        PROVE  /\ i \in Nat
               /\ i \in DOMAIN s \/ (i > Len(s) /\ i - Len(s) \in DOMAIN t /\ (s \o t)[i] = t[i - Len(s)])
    BY <1>1
  <1> QED BY <1>2, <1>3, <1>4, <1>5

-----------------------------------------------------------------------------
(* What FlattenSeq computes. *)

\* f accumulates the concatenation of the first members of ss, as the function
\* inside FlattenSeq does.
Accumulates(f, ss, n) ==
  f = [i \in 1..n |-> IF i = 1 THEN ss[i] ELSE f[i - 1] \o ss[i]]

\* There is such a function for every sequence of sequences.
LEMMA AccumulatorExists ==
  ASSUME NEW E, NEW ss \in Seq(Seq(E)), NEW n \in 0..Len(ss)
  PROVE  \E f \in [1..n -> Seq(E)] : Accumulates(f, ss, n)
  <1> DEFINE T == {k \in Nat : k <= Len(ss) =>
                     \E f \in [1..k -> Seq(E)] : Accumulates(f, ss, k)}
  <1>1. 0 \in T
    <2> DEFINE f == [i \in 1..0 |-> <<>>]
    <2>1. f \in [1..0 -> Seq(E)] /\ Accumulates(f, ss, 0)
      BY DEF Accumulates
    <2> QED BY <2>1
  <1>2. ASSUME NEW k \in T PROVE k + 1 \in T
    <2> SUFFICES ASSUME k + 1 <= Len(ss)
                 PROVE  \E f \in [1..(k + 1) -> Seq(E)] : Accumulates(f, ss, k + 1)
      OBVIOUS
    <2>1. PICK f \in [1..k -> Seq(E)] : Accumulates(f, ss, k)
      OBVIOUS
    <2>1a. \A i \in 1..k : (i = 1 => f[i] = ss[i]) /\ (i # 1 => f[i] = f[i - 1] \o ss[i])
      BY <2>1 DEF Accumulates
    <2>2. k \in Nat /\ k + 1 \in 1..Len(ss) /\ ss[k + 1] \in Seq(E)
      OBVIOUS
    <2> DEFINE last == IF k = 0 THEN ss[1] ELSE f[k] \o ss[k + 1]
               g == [i \in 1..(k + 1) |-> IF i = k + 1 THEN last ELSE f[i]]
    <2>3. last \in Seq(E)
      BY <2>2
    <2> HIDE DEF last
    <2>4. g \in [1..(k + 1) -> Seq(E)]
      BY <2>2, <2>3
    <2>5. \A i \in 1..k : g[i] = f[i]
      BY <2>2
    <2>8. g[k + 1] = last
      BY <2>2
    <2>9. DOMAIN g = 1..(k + 1)
      OBVIOUS
    <2> HIDE DEF g
    <2>6. \A i \in 1..(k + 1) : g[i] = IF i = 1 THEN ss[i] ELSE g[i - 1] \o ss[i]
      <3> SUFFICES ASSUME NEW i \in 1..(k + 1)
                   PROVE  g[i] = IF i = 1 THEN ss[i] ELSE g[i - 1] \o ss[i]
        OBVIOUS
      <3>1. CASE i = k + 1
        <4>1. CASE k = 0
          BY <3>1, <4>1, <2>8 DEF last
        <4>2. CASE k # 0
          <5>1. i # 1 /\ i - 1 = k /\ k \in 1..k
            BY <3>1, <4>2, <2>2
          <5>2. g[i] = f[k] \o ss[i]
            BY <3>1, <4>2, <2>8 DEF last
          <5>3. g[i - 1] = f[k]
            BY <5>1, <2>5
          <5> QED BY <5>1, <5>2, <5>3
        <4> QED BY <4>1, <4>2
      <3>2. CASE i # k + 1
        <4>1. i \in 1..k
          BY <3>2, <2>2
        <4>2. (i = 1 => f[i] = ss[i]) /\ (i # 1 => f[i] = f[i - 1] \o ss[i])
          BY <4>1, <2>1a
        <4>3. i # 1 => g[i - 1] = f[i - 1]
          BY <4>1, <2>5, <2>2
        <4>4. g[i] = f[i]
          BY <4>1, <2>5
        <4>5. CASE i = 1
          BY <4>2, <4>4, <4>5
        <4>6. CASE i # 1
          BY <4>2, <4>3, <4>4, <4>6, Zenon
        <4> QED BY <4>5, <4>6
      <3> QED BY <3>1, <3>2
    <2>7. Accumulates(g, ss, k + 1)
      BY <2>6, <2>4 DEF Accumulates
    <2> QED BY <2>4, <2>7
  <1>3. \A k \in Nat : k \in T
    <2> HIDE DEF T
    <2>1. T \in SUBSET Nat
      BY DEF T
    <2> QED BY <1>1, <1>2, <2>1, SetInduction
  <1>4. n \in Nat /\ n <= Len(ss)
    OBVIOUS
  <1> QED BY <1>3, <1>4

\* There is only one.
LEMMA AccumulatorUnique ==
  ASSUME NEW ss, NEW m \in Nat, NEW f, NEW g,
         Accumulates(f, ss, m), Accumulates(g, ss, m)
  PROVE  \A k \in 1..m : f[k] = g[k]
  <1> DEFINE T == {k \in Nat : k \in 1..m => f[k] = g[k]}
  <1>1. 0 \in T
    OBVIOUS
  <1>2. ASSUME NEW k \in T PROVE k + 1 \in T
    <2> SUFFICES ASSUME k + 1 \in 1..m PROVE f[k + 1] = g[k + 1]
      OBVIOUS
    <2>1. PICK i \in 1..m : i = k + 1
      OBVIOUS
    <2>2. \A j \in 1..m : (j = 1 => f[j] = ss[j]) /\ (j # 1 => f[j] = f[j - 1] \o ss[j])
      BY DEF Accumulates
    <2>3. \A j \in 1..m : (j = 1 => g[j] = ss[j]) /\ (j # 1 => g[j] = g[j - 1] \o ss[j])
      BY DEF Accumulates
    <2>4. i # 1 => f[i - 1] = g[i - 1]
      <3>1. i # 1 => k \in 1..m /\ i - 1 = k
        BY <2>1
      <3> QED BY <3>1
    <2>5. f[i] = g[i]
      BY <2>2, <2>3, <2>4
    <2> QED BY <2>1, <2>5
  <1>3. \A k \in Nat : k \in T
    <2> HIDE DEF T
    <2>1. T \in SUBSET Nat
      BY DEF T
    <2> QED BY <1>1, <1>2, <2>1, SetInduction
  <1> QED BY <1>3

\* FlattenSeq is the last value of the accumulator.
LEMMA FlattenIsLast ==
  ASSUME NEW E, NEW ss \in Seq(Seq(E)), Len(ss) # 0
  PROVE  \E f \in [1..Len(ss) -> Seq(E)] :
            Accumulates(f, ss, Len(ss)) /\ FlattenSeq(ss) = f[Len(ss)]
  <1> DEFINE D(g) == g = [i \in 1..Len(ss) |-> IF i = 1 THEN ss[i] ELSE g[i - 1] \o ss[i]]
  <1>1. PICK f \in [1..Len(ss) -> Seq(E)] : Accumulates(f, ss, Len(ss))
    BY AccumulatorExists
  <1>2. D(f)
    BY <1>1 DEF Accumulates
  <1> DEFINE h == CHOOSE g : D(g)
  <1>3. D(h)
    <2> HIDE DEF D
    <2> QED BY <1>2, Zenon
  <1>4. FlattenSeq(ss) = h[Len(ss)]
    BY DEF FlattenSeq
  <1>5. Accumulates(h, ss, Len(ss))
    BY <1>3 DEF Accumulates
  <1> HIDE DEF h
  <1>6. Len(ss) \in Nat /\ Len(ss) \in 1..Len(ss)
    OBVIOUS
  <1>7. \A k \in 1..Len(ss) : f[k] = h[k]
    BY <1>1, <1>5, <1>6, AccumulatorUnique
  <1>8. FlattenSeq(ss) = f[Len(ss)]
    BY <1>4, <1>6, <1>7
  <1> QED BY <1>1, <1>8

\* The result is a sequence of the same elements.
LEMMA FlattenType ==
  ASSUME NEW E, NEW ss \in Seq(Seq(E))
  PROVE  FlattenSeq(ss) \in Seq(E)
  <1>1. CASE Len(ss) = 0
    BY <1>1 DEF FlattenSeq
  <1>2. CASE Len(ss) # 0
    <2>1. Len(ss) \in 1..Len(ss)
      BY <1>2
    <2>2. PICK f \in [1..Len(ss) -> Seq(E)] : FlattenSeq(ss) = f[Len(ss)]
      BY <1>2, FlattenIsLast
    <2> QED BY <2>1, <2>2
  <1> QED BY <1>1, <1>2

\* Over one more sequence it is the concatenation so far, followed by that sequence.
LEMMA FlattenStep ==
  ASSUME NEW E, NEW ss \in Seq(Seq(E)), NEW tt \in Seq(Seq(E)), NEW n \in Nat,
         Len(ss) = n, Len(tt) = n + 1, \A k \in 1..n : ss[k] = tt[k]
  PROVE  FlattenSeq(tt) = FlattenSeq(ss) \o tt[n + 1]
  <1>1. PICK i \in Nat : i = n + 1
    OBVIOUS
  <1>2. PICK g \in [1..i -> Seq(E)] : Accumulates(g, tt, i) /\ FlattenSeq(tt) = g[i]
    <2>1. Len(tt) = i /\ i # 0
      BY <1>1
    <2> QED BY <2>1, FlattenIsLast
  <1>3. \A j \in 1..i : (j = 1 => g[j] = tt[j]) /\ (j # 1 => g[j] = g[j - 1] \o tt[j])
    BY <1>2 DEF Accumulates
  <1>4. i \in 1..i /\ tt[i] \in Seq(E) /\ i - 1 = n /\ (i = 1 <=> n = 0)
    BY <1>1
  <1>5. CASE n = 0
    <2>1. FlattenSeq(tt) = tt[i]
      BY <1>2, <1>3, <1>4, <1>5
    <2>2. ss = <<>> /\ FlattenSeq(ss) = ss
      BY <1>5 DEF FlattenSeq
    <2>3. <<>> \o tt[i] = tt[i]
      BY <1>4
    <2> QED BY <2>1, <2>2, <2>3, <1>1
  <1>6. CASE n # 0
    <2>1. PICK f \in [1..n -> Seq(E)] : Accumulates(f, ss, n) /\ FlattenSeq(ss) = f[n]
      BY <1>6, FlattenIsLast
    <2>2. \A k \in 1..n : f[k] = g[k]
      <3> DEFINE h == [k \in 1..n |-> g[k]]
      <3>1. \A k \in 1..n : h[k] = g[k] /\ ss[k] = tt[k] /\ k \in 1..i /\ (k # 1 => k - 1 \in 1..n)
        BY <1>1
      <3> HIDE DEF h
      <3>2. \A k \in 1..n : h[k] = IF k = 1 THEN ss[k] ELSE h[k - 1] \o ss[k]
        <4> SUFFICES ASSUME NEW k \in 1..n
                     PROVE  h[k] = IF k = 1 THEN ss[k] ELSE h[k - 1] \o ss[k]
          OBVIOUS
        <4>1. CASE k = 1
          BY <3>1, <1>3, <4>1
        <4>2. CASE k # 1
          <5>1. h[k] = g[k - 1] \o tt[k]
            BY <3>1, <1>3, <4>2
          <5>2. h[k - 1] = g[k - 1]
            BY <3>1, <4>2
          <5> QED BY <3>1, <4>2, <5>1, <5>2
        <4> QED BY <4>1, <4>2
      <3>3. h = [k \in 1..n |-> h[k]]
        BY DEF h
      <3>4. Accumulates(h, ss, n)
        BY <3>2, <3>3 DEF Accumulates
      <3>5. \A k \in 1..n : f[k] = h[k]
        BY <3>4, <2>1, AccumulatorUnique
      <3> QED BY <3>1, <3>5
    <2>3. f[n] = g[n]
      <3>1. n \in 1..n
        BY <1>6
      <3> QED BY <2>2, <3>1
    <2>4. g[i] = g[n] \o tt[i]
      BY <1>3, <1>4, <1>6
    <2> QED BY <2>1, <2>3, <2>4, <1>1, <1>2
  <1> QED BY <1>5, <1>6

-----------------------------------------------------------------------------
(* Slices. *)

\* The elements of x after index a up to index b.
Slice(x, a, b) == [k \in 1..(b - a) |-> x[a + k]]

\* Slices are sequences of the elements of x.
LEMMA SliceType ==
  ASSUME NEW E, NEW N \in Nat, NEW x, \A k \in 1..N : x[k] \in E, 
         NEW a \in Nat, NEW b \in Nat, a <= b, b <= N
  PROVE  Slice(x, a, b) \in Seq(E)
  <1>1. b - a \in Nat
    OBVIOUS
  <1>2. \A k \in 1..(b - a) : x[a + k] \in E
    OBVIOUS
  <1> QED BY <1>1, <1>2 DEF Slice

\* The length of a concatenation.
LEMMA ConcatLength ==
  ASSUME NEW E, NEW s \in Seq(E), NEW t \in Seq(E)
  PROVE  Len(s \o t) = Len(s) + Len(t) /\ s \o t \in Seq(E)
  OBVIOUS

\* A sequence that agrees with two others, one after the other, is their concatenation.
LEMMA IsConcat ==
  ASSUME NEW E, NEW s \in Seq(E), NEW t \in Seq(E), NEW u \in Seq(E), NEW m \in Nat, NEW n \in Nat,
         Len(s) = m, Len(t) = n, Len(u) = m + n,
         \A k \in 1..m : u[k] = s[k],
         \A k \in 1..n : u[m + k] = t[k]
  PROVE  s \o t = u
  <1>1. Len(s \o t) = m + n /\ s \o t \in Seq(E)
    <2>1. Len(s \o t) = Len(s) + Len(t) /\ s \o t \in Seq(E)
      BY ConcatLength, Zenon
    <2> QED BY <2>1, Zenon
  <1>2. ASSUME NEW k \in 1..(m + n) PROVE (s \o t)[k] = u[k]
    <2>1. CASE k <= m
      BY <2>1
    <2>2. CASE k > m
      <3>1. PICK i \in 1..n : i = k - m /\ k = m + i
        BY <2>2
      <3> QED BY <2>2, <3>1
    <2> QED BY <2>1, <2>2
  <1>3. u = [k \in 1..(m + n) |-> u[k]]
    OBVIOUS
  <1>4. \A v \in Seq(E) : Len(v) = m + n => v = [k \in 1..(m + n) |-> v[k]]
    OBVIOUS
  <1>5. s \o t = [k \in 1..(m + n) |-> (s \o t)[k]]
    BY <1>1, <1>4, Zenon
  <1> QED BY <1>2, <1>3, <1>5

\* Neighbouring slices make up one slice.
LEMMA SliceConcat ==
  ASSUME NEW x, NEW a \in Nat, NEW b \in Nat, NEW c \in Nat, a <= b, b <= c
  PROVE  Slice(x, a, b) \o Slice(x, b, c) = Slice(x, a, c)
  <1> DEFINE E == {x[k] : k \in 1..c}
  <1>1. Slice(x, a, b) \in Seq(E) /\ Slice(x, b, c) \in Seq(E) /\ Slice(x, a, c) \in Seq(E)
    <2>1. a <= c /\ c <= c
      OBVIOUS
    <2>2. \A k \in 1..c : x[k] \in E
      OBVIOUS
    <2> HIDE DEF E
    <2> QED BY <2>1, <2>2, SliceType
  <1>2. b - a \in Nat /\ c - b \in Nat /\ (b - a) + (c - b) = c - a
    OBVIOUS
  <1>3. /\ Len(Slice(x, a, b)) = b - a /\ Len(Slice(x, b, c)) = c - b
        /\ Len(Slice(x, a, c)) = (b - a) + (c - b)
    BY <1>2 DEF Slice
  <1>4. ASSUME NEW k \in 1..(b - a) PROVE Slice(x, a, c)[k] = Slice(x, a, b)[k]
    BY DEF Slice
  <1>5. ASSUME NEW k \in 1..(c - b) PROVE Slice(x, a, c)[(b - a) + k] = Slice(x, b, c)[k]
    <2>1. PICK i \in 1..(c - a) : i = (b - a) + k /\ a + i = b + k
      <3>1. (b - a) + k \in 1..(c - a) /\ a + ((b - a) + k) = b + k
        OBVIOUS
      <3> QED BY <3>1
    <2>2. Slice(x, a, c)[i] = x[a + i]
      BY DEF Slice
    <2>3. Slice(x, b, c)[k] = x[b + k]
      BY DEF Slice
    <2> QED BY <2>1, <2>2, <2>3
  <1>6. PICK m \in Nat, n \in Nat : m = b - a /\ n = c - b
    BY <1>2
  <1>7. /\ \A k \in 1..m : Slice(x, a, c)[k] = Slice(x, a, b)[k]
        /\ \A k \in 1..n : Slice(x, a, c)[m + k] = Slice(x, b, c)[k]
    BY <1>4, <1>5, <1>6
  <1>8. Len(Slice(x, a, b)) = m /\ Len(Slice(x, b, c)) = n /\ Len(Slice(x, a, c)) = m + n
    BY <1>3, <1>6
  <1> DEFINE s == Slice(x, a, b)
             t == Slice(x, b, c)
             u == Slice(x, a, c)
  <1> HIDE DEF s, t, u, E
  <1>9. s \in Seq(E) /\ t \in Seq(E) /\ u \in Seq(E)
    BY <1>1 DEF s, t, u
  <1>10. /\ Len(s) = m /\ Len(t) = n /\ Len(u) = m + n
         /\ \A k \in 1..m : u[k] = s[k]
         /\ \A k \in 1..n : u[m + k] = t[k]
    BY <1>7, <1>8 DEF s, t, u
  <1>11. s \o t = u
    BY <1>9, <1>10, IsConcat, ZenonT(40)
  <1> QED BY <1>11 DEF s, t, u

\* A run of neighbouring slices, flattened, is one slice.
LEMMA FlattenSlices ==
  \A x : \A N \in Nat, n \in Nat : \A e \in [0..n -> 0..N] :
     (\A k \in 1..n : e[k - 1] <= e[k]) =>
        FlattenSeq([k \in 1..n |-> Slice(x, e[k - 1], e[k])]) = Slice(x, e[0], e[n])
  <1> SUFFICES ASSUME NEW x, NEW N \in Nat, NEW n \in Nat, NEW e \in [0..n -> 0..N],
                      \A k \in 1..n : e[k - 1] <= e[k]
               PROVE  FlattenSeq([k \in 1..n |-> Slice(x, e[k - 1], e[k])]) = Slice(x, e[0], e[n])
    BY Zenon
  <1> DEFINE E == {x[k] : k \in 1..N}
  <1>0. \A k \in 1..N : x[k] \in E
    OBVIOUS
  <1> HIDE DEF E
  <1> DEFINE ss(m) == [k \in 1..m |-> Slice(x, e[k - 1], e[k])]
             T == {m \in Nat : m <= n => e[0] <= e[m] /\ FlattenSeq(ss(m)) = Slice(x, e[0], e[m])}
             S == Seq(E)
  <1>1. ASSUME NEW k \in 1..n PROVE Slice(x, e[k - 1], e[k]) \in S
    <2>1. e[k - 1] \in Nat /\ e[k] \in Nat /\ e[k - 1] <= e[k] /\ e[k] <= N
      OBVIOUS
    <2> QED BY <1>0, <2>1, SliceType
  <1>2. ASSUME NEW m \in 0..n
        PROVE  ss(m) \in Seq(S) /\ Len(ss(m)) = m /\ \A k \in 1..m : ss(m)[k] = Slice(x, e[k - 1], e[k])
    <2>1. \A k \in 1..m : Slice(x, e[k - 1], e[k]) \in S
      BY <1>1
    <2> HIDE DEF S
    <2> QED BY <2>1
  <1>3. 0 \in T
    <2>1. ss(0) = <<>> /\ FlattenSeq(<<>>) = <<>>
      BY DEF FlattenSeq
    <2>2. Slice(x, e[0], e[0]) = <<>>
      <3>1. e[0] - e[0] = 0
        OBVIOUS
      <3> QED BY <3>1 DEF Slice
    <2>3. e[0] <= e[0]
      OBVIOUS
    <2> QED BY <2>1, <2>2, <2>3
  <1>4. ASSUME NEW m \in T PROVE m + 1 \in T
    <2> SUFFICES ASSUME m + 1 <= n
                 PROVE  e[0] <= e[m + 1] /\ FlattenSeq(ss(m + 1)) = Slice(x, e[0], e[m + 1])
      OBVIOUS
    <2>1. m \in Nat /\ m \in 0..n /\ m + 1 \in 0..n /\ m + 1 \in 1..n
      OBVIOUS
    <2>2. e[0] <= e[m] /\ FlattenSeq(ss(m)) = Slice(x, e[0], e[m])
      BY <2>1
    <2>3. PICK i \in 1..n : i = m + 1 /\ i - 1 = m
      BY <2>1
    <2>4. e[0] <= e[m] /\ e[m] <= e[i] /\ e[i] <= N /\ e[0] \in Nat /\ e[m] \in Nat /\ e[i] \in Nat
          /\ e[0] <= e[i]
      <3>1. e[i - 1] <= e[i]
        OBVIOUS
      <3>2. e[m] \in 0..N /\ e[i] \in 0..N /\ e[0] \in 0..N
        BY <2>1
      <3> QED BY <3>1, <3>2, <2>2, <2>3
    <2>5. ss(m) \in Seq(S) /\ ss(i) \in Seq(S) /\ Len(ss(m)) = m /\ Len(ss(i)) = m + 1
          /\ (\A k \in 1..m : ss(m)[k] = ss(i)[k]) /\ ss(i)[m + 1] = Slice(x, e[m], e[i])
      <3>1. /\ ss(m) \in Seq(S) /\ Len(ss(m)) = m
            /\ \A k \in 1..m : ss(m)[k] = Slice(x, e[k - 1], e[k])
        BY <1>2, <2>1
      <3>2. /\ ss(i) \in Seq(S) /\ Len(ss(i)) = i
            /\ \A k \in 1..i : ss(i)[k] = Slice(x, e[k - 1], e[k])
        BY <1>2, <2>1, <2>3
      <3> HIDE DEF ss, S
      <3>3. /\ \A k \in 1..m : ss(i)[k] = Slice(x, e[k - 1], e[k])
            /\ ss(i)[i] = Slice(x, e[i - 1], e[i])
        BY <3>2, <2>3, <2>1
      <3>4. \A k \in 1..m : ss(m)[k] = ss(i)[k]
        BY <3>1, <3>3, Zenon
      <3>5. ss(i)[m + 1] = Slice(x, e[m], e[i]) /\ Len(ss(i)) = m + 1
        <4>1. i - 1 = m
          BY <2>3
        <4> QED BY <3>2, <3>3, <4>1, <2>3, Zenon
      <3> QED BY <3>1, <3>2, <3>4, <3>5, Zenon
    <2> HIDE DEF ss
    <2>6. FlattenSeq(ss(i)) = FlattenSeq(ss(m)) \o ss(i)[m + 1]
      BY <2>1, <2>5, FlattenStep
    <2>7. FlattenSeq(ss(i)) = Slice(x, e[0], e[i])
      <3>1. Slice(x, e[0], e[m]) \o Slice(x, e[m], e[i]) = Slice(x, e[0], e[i])
        <4>1. PICK p \in Nat, q \in Nat, r \in Nat : p = e[0] /\ q = e[m] /\ r = e[i]
          BY <2>4
        <4>2. p <= q /\ q <= r
          BY <2>4, <4>1
        <4>3. p \in Nat /\ q \in Nat /\ r \in Nat
          OBVIOUS
        <4>4. Slice(x, p, q) \o Slice(x, q, r) = Slice(x, p, r)
          <5> HIDE DEF T, S
          <5> QED BY <4>2, <4>3, SliceConcat, Zenon
        <4> QED BY <4>1, <4>4, Zenon
      <3> QED BY <2>2, <2>5, <2>6, <3>1, Zenon
    <2> QED BY <2>3, <2>4, <2>7
  <1>5. \A m \in Nat : m \in T
    <2> HIDE DEF T
    <2>1. T \in SUBSET Nat
      BY DEF T
    <2> QED BY <1>3, <1>4, <2>1, SetInduction
  <1>6. n \in T
    BY <1>5
  <1> QED BY <1>6

=============================================================================
