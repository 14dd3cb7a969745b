------------------------- MODULE RdsJsonWireProofs --------------------------
(***************************************************************************)
(* Laws of the two languages of RdsJsonWire: what remains of a result set  *)
(* on the wire, and of its JSON text, when a part of it was taken off the  *)
(* front.  The handlers of RdsJsonProcessor read and write in these steps. *)
(*                                                                         *)
(* FlattenSeq of the community modules is a recursive function; what it    *)
(* computes is proved from the least number principle: a set of numbers in *)
(* which the claim fails would have a least element.                       *)
(***************************************************************************)
EXTENDS RdsJsonWire, SequenceTheorems, WellFoundedInduction, TLAPS

-----------------------------------------------------------------------------
(* FlattenSeq of the community modules.                                    *)

\* The order of the natural numbers is well-founded.
LEMMA LessThan ==
  \E R : IsWellFoundedOn(R, Nat) /\ \A x, y \in Nat : (<<y, x>> \in R) <=> y < x
<1> DEFINE R == {xy \in Nat \X Nat : xy[1] < xy[2]}
<1>1. R = OpToRel(<, Nat)
  BY Zenon DEF OpToRel
<1>2. IsWellFoundedOn(R, Nat)
  BY <1>1, NatLessThanWellFounded, Zenon
<1>3. \A x, y \in Nat : (<<y, x>> \in R) <=> y < x
  OBVIOUS
<1> HIDE DEF R
<1>4. QED
  BY <1>2, <1>3

\* Every non-empty set of numbers has a least one.
LEMMA LeastNumber ==
  ASSUME NEW T, T \subseteq Nat, T # {}
  PROVE  \E n \in T : \A m \in T : n <= m
<1>1. PICK R : IsWellFoundedOn(R, Nat) /\ \A x, y \in Nat : (<<y, x>> \in R) <=> y < x
  BY LessThan
<1>2. PICK n \in T : \A m \in T : ~(<<m, n>> \in R)
  BY <1>1, WFMin
<1>3. \A m \in T : ~(m < n)
  BY <1>1, <1>2, Zenon
<1>4. \A m \in T : n \in Nat /\ m \in Nat
  BY <1>2
<1>5. QED
  BY <1>2, <1>3, <1>4

\* g holds what the first i sequences of s make together.
Accumulates(g, s, n, S) ==
  /\ g \in [0..n -> Seq(S)]
  /\ g[0] = << >>
  /\ \A i \in 1..n : g[i] = g[i - 1] \o s[i]

\* There is a sequence of running values: a recursive function, without its
\* recursion.
LEMMA AccumulationExists ==
  ASSUME NEW S, NEW s \in Seq(Seq(S))
  PROVE  \E g : Accumulates(g, s, Len(s), S)
<1> DEFINE T == {n \in 0..Len(s) : ~\E g : Accumulates(g, s, n, S)}
<1>1. Len(s) \in Nat /\ \A i \in 1..Len(s) : s[i] \in Seq(S)
  BY LenProperties, ElementOfSeq
<1>2. SUFFICES ASSUME T # {} PROVE FALSE
  BY <1>1
<1>3. PICK n \in T : \A m \in T : n <= m
  <2>1. T \subseteq Nat
    BY <1>1
  <2> HIDE DEF T
  <2>2. QED
    BY <1>2, <2>1, LeastNumber
<1>4. n \in 0..Len(s) /\ ~\E g : Accumulates(g, s, n, S)
  BY <1>3
<1>5. CASE n = 0
  <2>1. Accumulates([i \in 0..0 |-> << >>], s, 0, S)
    BY EmptySeq DEF Accumulates
  <2>2. QED
    BY <1>4, <1>5, <2>1
<1>6. CASE n # 0
  <2>1. n - 1 \in 0..Len(s) /\ ~(n <= n - 1)
    BY <1>1, <1>4, <1>6
  <2>2. PICK g : Accumulates(g, s, n - 1, S)
    BY <1>3, <2>1
  <2> DEFINE h == [i \in 0..n |-> IF i = n THEN g[n - 1] \o s[n] ELSE g[i]]
  <2>3. g \in [0..(n - 1) -> Seq(S)] /\ g[n - 1] \in Seq(S) /\ s[n] \in Seq(S)
    BY <1>1, <1>4, <1>6, <2>1, <2>2 DEF Accumulates
  <2>4. g[n - 1] \o s[n] \in Seq(S)
    BY <2>3, ConcatProperties
  <2>5. h \in [0..n -> Seq(S)]
    BY <1>1, <1>4, <1>6, <2>3, <2>4
  <2>6. h[0] = << >>
    BY <1>4, <1>6, <2>2 DEF Accumulates
  <2>7. ASSUME NEW i \in 1..n PROVE h[i] = h[i - 1] \o s[i]
    <3>1. CASE i = n
      <4>1. i \in 0..n /\ i - 1 \in 0..n /\ i - 1 # n
        BY <1>1, <1>4, <3>1
      <4>2. h[i] = g[n - 1] \o s[n] /\ h[i - 1] = g[i - 1]
        BY <3>1, <4>1
      <4>3. QED
        BY <3>1, <4>2
    <3>2. CASE i # n
      <4>1. i \in 1..(n - 1) /\ i \in 0..n /\ i - 1 \in 0..n /\ i - 1 # n
        BY <1>1, <1>4, <3>2
      <4>2. g[i] = g[i - 1] \o s[i]
        BY <2>2, <4>1 DEF Accumulates
      <4>3. h[i] = g[i] /\ h[i - 1] = g[i - 1]
        BY <3>2, <4>1
      <4>4. QED
        BY <4>2, <4>3
    <3>3. QED
      BY <3>1, <3>2
  <2>8. Accumulates(h, s, n, S)
    BY <2>5, <2>6, <2>7 DEF Accumulates
  <2>9. QED
    BY <1>4, <2>8
<1>7. QED
  BY <1>5, <1>6

\* FlattenSeq computes the last value of the accumulation.
LEMMA FlattenIsAccumulation ==
  ASSUME NEW S, NEW s \in Seq(Seq(S)), NEW g, Accumulates(g, s, Len(s), S)
  PROVE  FlattenSeq(s) = g[Len(s)]
<1>1. Len(s) \in Nat /\ \A i \in 1..Len(s) : s[i] \in Seq(S)
  BY LenProperties, ElementOfSeq
<1>2. CASE Len(s) = 0
  <2>1. s = << >>
    BY <1>2, LenProperties, EmptySeq
  <2>2. QED
    BY <1>2, <2>1 DEF FlattenSeq, Accumulates
<1>3. CASE Len(s) # 0
  <2> DEFINE Recursion(f) == [i \in 1..Len(s) |-> IF i = 1 THEN s[i] ELSE f[i - 1] \o s[i]]
             accumulated == [i \in 1..Len(s) |-> g[i]]
             flat == CHOOSE f : f = Recursion(f)
  <2>1. FlattenSeq(s) = flat[Len(s)]
    BY <1>3, Zenon DEF FlattenSeq
  <2>2. g[1] = s[1]
    <3>1. 1 \in 1..Len(s) /\ 1 - 1 = 0 /\ s[1] \in Seq(S)
      BY <1>1, <1>3
    <3>2. g[1] = g[1 - 1] \o s[1] /\ g[1 - 1] = << >>
      BY <3>1 DEF Accumulates
    <3>3. << >> \o s[1] = s[1]
      BY <3>1, ConcatEmptySeq
    <3>4. QED
      BY <3>2, <3>3
  <2>3. accumulated = Recursion(accumulated)
    <3>1. ASSUME NEW i \in 1..Len(s)
          PROVE  accumulated[i] = IF i = 1 THEN s[i] ELSE accumulated[i - 1] \o s[i]
      <4>1. CASE i = 1
        BY <2>2, <4>1
      <4>2. CASE i # 1
        <5>1. i - 1 \in 1..Len(s)
          BY <1>1, <4>2
        <5>2. QED
          BY <4>2, <5>1 DEF Accumulates
      <4>3. QED
        BY <4>1, <4>2
    <3>2. QED
      BY <3>1
  <2>4. flat = Recursion(flat)
    <3> HIDE DEF accumulated, Recursion
    <3>1. \E f : f = Recursion(f)
      BY <2>3
    <3>2. QED
      BY <3>1, Zenon
  <2> HIDE DEF flat
  <2>5. \A i \in 1..Len(s) : flat[i] = IF i = 1 THEN s[i] ELSE flat[i - 1] \o s[i]
    BY <2>4
  <2>6. flat[Len(s)] = g[Len(s)]
    <3> DEFINE T == {n \in 1..Len(s) : flat[n] # g[n]}
    <3>1. SUFFICES ASSUME T # {} PROVE FALSE
      BY <1>1, <1>3
    <3>2. PICK n \in T : \A m \in T : n <= m
      <4>1. T \subseteq Nat
        BY <1>1
      <4>2. QED
        BY <3>1, <4>1, LeastNumber
    <3>3. n \in 1..Len(s) /\ flat[n] # g[n]
      BY <3>2
    <3>4. n # 1
      BY <1>1, <1>3, <2>2, <2>5, <3>3
    <3>5. n - 1 \in 1..Len(s) /\ ~(n <= n - 1)
      BY <1>1, <3>3, <3>4
    <3>6. flat[n - 1] = g[n - 1]
      BY <3>2, <3>5
    <3>7. flat[n] = flat[n - 1] \o s[n]
      BY <2>5, <3>3, <3>4
    <3>8. g[n] = g[n - 1] \o s[n]
      BY <3>3 DEF Accumulates
    <3>9. QED
      BY <3>3, <3>6, <3>7, <3>8
  <2>7. QED
    BY <2>1, <2>6
<1>4. QED
  BY <1>2, <1>3

LEMMA FlattenEmpty == FlattenSeq(<< >>) = << >>
  BY DEF FlattenSeq

\* What FlattenSeq joins is of the type of the parts.
LEMMA FlattenType ==
  ASSUME NEW S, NEW s \in Seq(Seq(S))
  PROVE  FlattenSeq(s) \in Seq(S)
<1>1. PICK g : Accumulates(g, s, Len(s), S)
  BY AccumulationExists
<1>2. FlattenSeq(s) = g[Len(s)]
  BY <1>1, FlattenIsAccumulation
<1>3. Len(s) \in 0..Len(s)
  BY LenProperties
<1>4. QED
  BY <1>1, <1>2, <1>3 DEF Accumulates

LEMMA FlattenOne ==
  ASSUME NEW S, NEW x \in Seq(S)
  PROVE  FlattenSeq(<<x>>) = x
<1> DEFINE g == [i \in 0..1 |-> IF i = 0 THEN << >> ELSE x]
<1>1. /\ <<x>> \in Seq(Seq(S)) /\ Len(<<x>>) = 1 /\ <<x>>[1] = x
      /\ << >> \in Seq(S)
  BY EmptySeq
<1>2. << >> \o x = x
  BY ConcatEmptySeq
<1>3. g \in [0..1 -> Seq(S)] /\ g[0] = << >> /\ g[1] = x
  BY <1>1
<1>4. \A i \in 1..1 : g[i] = g[i - 1] \o <<x>>[i]
  BY <1>1, <1>2, <1>3
<1> HIDE DEF g
<1>5. Accumulates(g, <<x>>, 1, S)
  BY <1>3, <1>4 DEF Accumulates
<1>6. QED
  BY <1>1, <1>3, <1>5, FlattenIsAccumulation

\* Flattening distributes over concatenation.
LEMMA FlattenConcat ==
  ASSUME NEW S, NEW s \in Seq(Seq(S)), NEW t \in Seq(Seq(S))
  PROVE  FlattenSeq(s \o t) = FlattenSeq(s) \o FlattenSeq(t)
<1> DEFINE n == Len(s)
           m == Len(t)
           st == s \o t
<1>1. /\ n \in Nat /\ m \in Nat /\ st \in Seq(Seq(S)) /\ Len(st) = n + m
      /\ \A i \in 1..n : st[i] = s[i]
      /\ \A i \in 1..m : st[n + i] = t[i]
      /\ \A i \in 1..m : t[i] \in Seq(S)
  BY LenProperties, ConcatProperties, ElementOfSeq
<1>2. PICK g : Accumulates(g, s, n, S)
  BY AccumulationExists
<1>3. PICK h : Accumulates(h, t, m, S)
  BY AccumulationExists
<1>4. FlattenSeq(s) = g[n] /\ FlattenSeq(t) = h[m]
  BY <1>2, <1>3, FlattenIsAccumulation
<1> HIDE DEF n, m, st
<1> DEFINE gh == [i \in 0..(n + m) |-> IF i <= n THEN g[i] ELSE g[n] \o h[i - n]]
<1>5. /\ g \in [0..n -> Seq(S)] /\ g[n] \in Seq(S) /\ g[0] = << >>
      /\ h \in [0..m -> Seq(S)] /\ h[0] = << >>
  BY <1>1, <1>2, <1>3 DEF Accumulates
<1>6. ASSUME NEW i \in 0..(n + m) PROVE gh[i] \in Seq(S)
  <2>1. CASE i <= n
    <3>1. i \in 0..n
      BY <1>1, <2>1
    <3>2. QED
      BY <1>5, <2>1, <3>1
  <2>2. CASE ~(i <= n)
    <3>1. i - n \in 0..m
      BY <1>1, <2>2
    <3>2. g[n] \o h[i - n] \in Seq(S)
      BY <1>5, <3>1, ConcatProperties
    <3>3. QED
      BY <2>2, <3>2
  <2>3. QED
    BY <2>1, <2>2
<1>7. gh[0] = << >>
  BY <1>1, <1>5
<1>8. ASSUME NEW i \in 1..(n + m) PROVE gh[i] = gh[i - 1] \o st[i]
  <2>1. CASE i <= n
    <3>1. i \in 1..n /\ i - 1 <= n /\ i - 1 \in 0..(n + m) /\ i \in 0..(n + m)
      BY <1>1, <2>1
    <3>2. g[i] = g[i - 1] \o s[i]
      BY <1>2, <3>1 DEF Accumulates
    <3>3. QED
      BY <1>1, <2>1, <3>1, <3>2
  <2>2. CASE ~(i <= n)
    <3>1. /\ i - n \in 1..m /\ n + (i - n) = i /\ i \in 0..(n + m)
          /\ i - 1 \in 0..(n + m) /\ (i - 1) - n = (i - n) - 1
          /\ (i - n) - 1 \in 0..m
      BY <1>1, <2>2
    <3>2. h[i - n] = h[(i - n) - 1] \o t[i - n]
      BY <1>3, <3>1 DEF Accumulates
    <3>3. st[i] = t[i - n] /\ t[i - n] \in Seq(S)
      BY <1>1, <3>1
    <3>4. gh[i - 1] = g[n] \o h[(i - n) - 1]
      <4>1. CASE i - 1 <= n
        <5>1. i - 1 = n /\ (i - n) - 1 = 0
          <6> HIDE DEF gh
          <6>1. n \in Int /\ i \in Int
            BY <1>1
          <6>2. QED
            BY <2>2, <4>1, <6>1
        <5>2. gh[i - 1] = g[n]
          BY <3>1, <4>1, <5>1
        <5>3. g[n] \o << >> = g[n]
          BY <1>5, ConcatEmptySeq
        <5>4. QED
          BY <1>5, <5>1, <5>2, <5>3
      <4>2. CASE ~(i - 1 <= n)
        BY <3>1, <4>2
      <4>3. QED
        BY <4>1, <4>2
    <3>5. gh[i] = g[n] \o h[i - n]
      BY <2>2, <3>1
    <3>6. h[(i - n) - 1] \in Seq(S)
      BY <1>5, <3>1
    <3> HIDE DEF gh
    <3>7. g[n] \o (h[(i - n) - 1] \o t[i - n]) = (g[n] \o h[(i - n) - 1]) \o t[i - n]
      <4>1. g[n] \in Seq(S) /\ h[(i - n) - 1] \in Seq(S) /\ t[i - n] \in Seq(S)
        BY <1>5, <3>3, <3>6
      <4>2. \A a, b, c \in Seq(S) : a \o (b \o c) = (a \o b) \o c
        BY ConcatAssociative, SMTT(30)
      <4>3. QED
        BY <4>1, <4>2, Zenon
    <3>8. QED
      BY <3>2, <3>3, <3>4, <3>5, <3>7
  <2>3. QED
    BY <2>1, <2>2
<1>9. gh[n + m] = g[n] \o h[m]
  <2>1. CASE m = 0
    <3>1. gh[n + m] = g[n] /\ h[m] = << >>
      BY <1>1, <1>5, <2>1
    <3>2. g[n] \o << >> = g[n]
      BY <1>5, ConcatEmptySeq
    <3>3. QED
      BY <3>1, <3>2
  <2>2. CASE m # 0
    <3>1. ~(n + m <= n) /\ (n + m) - n = m /\ n + m \in 0..(n + m)
      BY <1>1, <2>2
    <3>2. QED
      BY <3>1
  <2>3. QED
    BY <2>1, <2>2
<1>10. gh \in [0..(n + m) -> Seq(S)]
  <2>1. gh = [i \in 0..(n + m) |-> gh[i]]
    OBVIOUS
  <2> HIDE DEF gh
  <2>2. QED
    BY <1>6, <2>1
<1> HIDE DEF gh
<1>11. Accumulates(gh, st, n + m, S)
  BY <1>7, <1>8, <1>10 DEF Accumulates
<1>12. FlattenSeq(st) = gh[n + m]
  BY <1>1, <1>11, FlattenIsAccumulation
<1>13. QED
  BY <1>4, <1>9, <1>12 DEF st

-----------------------------------------------------------------------------
(* Sequences.                                                              *)

\* One element of a sequence.
LEMMA OneElement ==
  ASSUME NEW S, NEW s \in Seq(S), NEW i \in 1..Len(s)
  PROVE  SubSeq(s, i, i) = <<s[i]>>
<1> DEFINE one == SubSeq(s, i, i)
<1>1. Len(s) \in Nat /\ i \in Int /\ s[i] \in S
  BY LenProperties, ElementOfSeq
<1>2. one \in Seq(S) /\ Len(one) = 1 /\ \A j \in 1..1 : one[j] = s[i + j - 1]
  <2>1. \A j \in i..i : s[j] \in S
    BY <1>1
  <2>2. one \in Seq(S) /\ Len(one) = i - i + 1 /\ \A j \in 1..(i - i + 1) : one[j] = s[i + j - 1]
    BY <1>1, <2>1, SubSeqProperties
  <2> QED
    BY <1>1, <2>2
<1>3. one[1] = s[i]
  BY <1>1, <1>2
<1> HIDE DEF one
<1>4. one = <<s[i]>>
  BY <1>2, <1>3
<1> QED
  BY <1>4 DEF one

LEMMA SingletonType ==
  ASSUME NEW S, NEW x \in S
  PROVE  <<x>> \in Seq(S) /\ Len(<<x>>) = 1 /\ <<x>>[1] = x
OBVIOUS

LEMMA SeqMonotone ==
  ASSUME NEW S, NEW T, S \subseteq T, NEW s \in Seq(S)
  PROVE  s \in Seq(T)
<1>1. Len(s) \in Nat /\ s \in [1..Len(s) -> S]
  BY LenProperties
<1>2. s \in [1..Len(s) -> T]
  BY <1>1
<1> QED
  BY <1>1, <1>2

LEMMA IsConcat ==
  ASSUME NEW S, NEW x \in Seq(S), NEW y \in Seq(S), NEW z \in Seq(S),
         Len(x) = Len(y) + Len(z),
         \A i \in 1..Len(y) : x[i] = y[i],
         \A i \in 1..Len(z) : x[Len(y) + i] = z[i]
  PROVE  x = y \o z
<1>1. Len(y) \in Nat /\ Len(z) \in Nat
  BY LenProperties
<1>2. y \o z \in Seq(S) /\ Len(y \o z) = Len(y) + Len(z)
  BY ConcatProperties
<1>3. /\ \A i \in 1..Len(y) : (y \o z)[i] = y[i]
      /\ \A i \in 1..Len(z) : (y \o z)[Len(y) + i] = z[i]
  BY <1>1, ConcatProperties
<1>4. ASSUME NEW i \in 1..Len(x) PROVE x[i] = (y \o z)[i]
  <2>1. CASE i \in 1..Len(y)
    BY <1>3, <2>1
  <2>2. CASE i \notin 1..Len(y)
    <3>1. i - Len(y) \in 1..Len(z) /\ Len(y) + (i - Len(y)) = i
      BY <1>1, <2>2
    <3> QED
      BY <1>3, <3>1
  <2> QED
    BY <2>1, <2>2
<1> QED
  BY <1>2, <1>4, SeqEqual

\* What the parts of s after the first k make together.
After(s, k) == FlattenSeq(SubSeq(s, k + 1, Len(s)))

\* What comes after the first k parts.
LEMMA AfterType ==
  ASSUME NEW S, NEW s \in Seq(Seq(S)), NEW k \in Nat
  PROVE  After(s, k) \in Seq(S)
<1>1. SubSeq(s, k + 1, Len(s)) \in Seq(Seq(S))
  <2>1. Len(s) \in Nat /\ \A i \in (k + 1)..Len(s) : s[i] \in Seq(S)
    BY LenProperties, ElementOfSeq
  <2> QED
    BY <2>1, SubSeqProperties
<1> QED
  BY <1>1, FlattenType DEF After

LEMMA AfterNone ==
  ASSUME NEW S, NEW s \in Seq(Seq(S))
  PROVE  After(s, 0) = FlattenSeq(s)
<1>1. SubSeq(s, 0 + 1, Len(s)) = s
  BY SubSeqFull
<1> QED
  BY <1>1 DEF After

LEMMA AfterAll ==
  ASSUME NEW S, NEW s \in Seq(Seq(S))
  PROVE  After(s, Len(s)) = << >>
<1>1. Len(s) \in Nat
  BY LenProperties
<1>2. SubSeq(s, Len(s) + 1, Len(s)) = << >>
  BY <1>1, SubSeqEmpty
<1> QED
  BY <1>2, FlattenEmpty DEF After

\* One part is taken off.
LEMMA AfterNext ==
  ASSUME NEW S, NEW s \in Seq(Seq(S)), NEW k \in 0..(Len(s) - 1)
  PROVE  After(s, k) = s[k + 1] \o After(s, k + 1)
<1> DEFINE rest == SubSeq(s, (k + 1) + 1, Len(s))
<1>1. Len(s) \in Nat /\ k + 1 \in 1..Len(s) /\ s[k + 1] \in Seq(S)
  <2>1. Len(s) \in Nat
    BY LenProperties
  <2>2. k + 1 \in 1..Len(s)
    BY <2>1
  <2> QED
    BY <2>1, <2>2, ElementOfSeq
<1>2. SubSeq(s, k + 1, Len(s)) = <<s[k + 1]>> \o rest
  <2>1. SubSeq(s, k + 1, Len(s)) = SubSeq(s, k + 1, k + 1) \o SubSeq(s, (k + 1) + 1, Len(s))
    BY <1>1, ConcatAdjacentSubSeq
  <2>2. SubSeq(s, k + 1, k + 1) = <<s[k + 1]>>
    BY <1>1, OneElement
  <2> QED
    BY <2>1, <2>2
<1>3. rest \in Seq(Seq(S)) /\ <<s[k + 1]>> \in Seq(Seq(S))
  <2>1. \A i \in ((k + 1) + 1)..Len(s) : s[i] \in Seq(S)
    BY ElementOfSeq, <1>1
  <2> QED
    BY <1>1, <2>1, SubSeqProperties
<1>4. FlattenSeq(<<s[k + 1]>> \o rest) = FlattenSeq(<<s[k + 1]>>) \o FlattenSeq(rest)
  <2> HIDE DEF rest
  <2> QED
    BY <1>3, FlattenConcat
<1>5. FlattenSeq(<<s[k + 1]>>) = s[k + 1]
  BY <1>1, FlattenOne
<1> QED
  BY <1>2, <1>4, <1>5 DEF After

-----------------------------------------------------------------------------
(* Commas.                                                                 *)

\* The tokens of a text.  (The provers do not know the literals as strings.)
Tokens ==
  STRING \cup {",", ":", "{", "}", "[", "]", "quote", "\\", "null", "true", "false",
               "success", "root", "errcode", "errstr", "insert_id", "affected_rows"}

Text == Seq(Tokens)

LEMMA TextConcat == \A a, b \in Text : a \o b \in Text
  BY ConcatProperties DEF Text

\* Text and the units of the wire are joined in any order.
LEMMA TextAssoc == \A a, b, c \in Text : (a \o b) \o c = a \o (b \o c)
  BY ConcatAssociative DEF Text

LEMMA TextEmpty == << >> \in Text /\ \A a \in Text : a \o << >> = a /\ << >> \o a = a
  BY EmptySeq, ConcatEmptySeq DEF Text

LEMMA TextToken == \A x \in Tokens : <<x>> \in Text
  BY SingletonType DEF Text

LEMMA TextOfChars == \A s \in Seq(STRING) : s \in Text
<1>1. STRING \subseteq Tokens
  BY DEF Tokens
<1> QED
  BY <1>1, SeqMonotone DEF Text

Comma == <<",">>

LEMMA CommaType == Comma \in Text
<1>1. "," \in Tokens
  BY DEF Tokens
<1> QED
  BY <1>1, TextToken, Zenon DEF Comma

\* A comma before every element, between two elements, behind every element.
Preceded(s)  == [i \in DOMAIN s |-> Comma \o s[i]]
Separated(s) == [i \in DOMAIN s |-> IF i = 1 THEN s[i] ELSE Comma \o s[i]]
Followed(s)  == [i \in DOMAIN s |-> s[i] \o Comma]

LEMMA CommasSeparate ==
  ASSUME NEW s
  PROVE  Commas(s) = FlattenSeq(Separated(s))
BY DEF Commas, Separated, Comma

LEMMA SeparatedType ==
  ASSUME NEW s \in Seq(Text)
  PROVE  /\ Preceded(s) \in Seq(Text) /\ Len(Preceded(s)) = Len(s)
         /\ Separated(s) \in Seq(Text) /\ Len(Separated(s)) = Len(s)
         /\ Followed(s) \in Seq(Text) /\ Len(Followed(s)) = Len(s)
<1>1. /\ Len(s) \in Nat /\ DOMAIN s = 1..Len(s)
      /\ \A i \in 1..Len(s) : s[i] \in Text
  BY LenProperties, ElementOfSeq
<1>2. \A i \in 1..Len(s) : Comma \o s[i] \in Text /\ s[i] \o Comma \in Text
  BY <1>1, CommaType, TextConcat
<1>3. /\ Preceded(s) \in [1..Len(s) -> Text]
      /\ Separated(s) \in [1..Len(s) -> Text]
      /\ Followed(s) \in [1..Len(s) -> Text]
  BY <1>1, <1>2 DEF Preceded, Separated, Followed
<1>4. \A f : f \in [1..Len(s) -> Text] => f \in Seq(Text) /\ Len(f) = Len(s)
  BY <1>1
<1> QED
  BY <1>3, <1>4

LEMMA CommasType ==
  ASSUME NEW s \in Seq(Text)
  PROVE  Commas(s) \in Text
BY SeparatedType, CommasSeparate, FlattenType DEF Text

\* The three kinds of lists of a concatenation.
LEMMA SeparatedConcat ==
  ASSUME NEW a \in Seq(Text), NEW b \in Seq(Text)
  PROVE  /\ Preceded(a \o b) = Preceded(a) \o Preceded(b)
         /\ Followed(a \o b) = Followed(a) \o Followed(b)
         /\ a # << >> => Separated(a \o b) = Separated(a) \o Preceded(b)
<1> DEFINE ab == a \o b
           n == Len(a)
           m == Len(b)
<1>1. /\ n \in Nat /\ m \in Nat /\ DOMAIN a = 1..n /\ DOMAIN b = 1..m
      /\ ab \in Seq(Text) /\ Len(ab) = n + m /\ DOMAIN ab = 1..(n + m)
      /\ \A i \in 1..n : ab[i] = a[i]
      /\ \A i \in 1..m : ab[n + i] = b[i]
  BY LenProperties, ConcatProperties
<1>3. \A x, y, z \in Seq(Text) :
        (/\ Len(x) = Len(y) + Len(z)
         /\ \A i \in 1..Len(y) : x[i] = y[i]
         /\ \A i \in 1..Len(z) : x[Len(y) + i] = z[i]) => x = y \o z
  BY IsConcat
<1>4. \A c \in {a, b, ab} : /\ Preceded(c) \in Seq(Text) /\ Len(Preceded(c)) = Len(c)
                            /\ Separated(c) \in Seq(Text) /\ Len(Separated(c)) = Len(c)
                            /\ Followed(c) \in Seq(Text) /\ Len(Followed(c)) = Len(c)
  BY <1>1, SeparatedType
<1> HIDE DEF ab, n, m
<1> SUFFICES /\ Preceded(ab) = Preceded(a) \o Preceded(b)
             /\ Followed(ab) = Followed(a) \o Followed(b)
             /\ a # << >> => Separated(ab) = Separated(a) \o Preceded(b)
  BY DEF ab
<1>5. \A i \in 1..n : i \in 1..(n + m)
  BY <1>1
<1>6. \A i \in 1..m : n + i \in 1..(n + m) /\ (n # 0 => n + i # 1)
  BY <1>1
<1>7. Preceded(ab) = Preceded(a) \o Preceded(b)
  <2>1. \A i \in 1..n : Preceded(ab)[i] = Preceded(a)[i]
    BY <1>1, <1>5 DEF Preceded
  <2>2. \A i \in 1..m : Preceded(ab)[n + i] = Preceded(b)[i]
    BY <1>1, <1>6 DEF Preceded
  <2>5. /\ Preceded(ab) \in Seq(Text) /\ Len(Preceded(ab)) = n + m
        /\ Preceded(a) \in Seq(Text) /\ Len(Preceded(a)) = n
        /\ Preceded(b) \in Seq(Text) /\ Len(Preceded(b)) = m
    BY <1>1, <1>4 DEF n, m
  <2> QED
    BY <1>3, <2>1, <2>2, <2>5
<1>8. Followed(ab) = Followed(a) \o Followed(b)
  <2>1. \A i \in 1..n : Followed(ab)[i] = Followed(a)[i]
    BY <1>1, <1>5 DEF Followed
  <2>2. \A i \in 1..m : Followed(ab)[n + i] = Followed(b)[i]
    BY <1>1, <1>6 DEF Followed
  <2>5. /\ Followed(ab) \in Seq(Text) /\ Len(Followed(ab)) = n + m
        /\ Followed(a) \in Seq(Text) /\ Len(Followed(a)) = n
        /\ Followed(b) \in Seq(Text) /\ Len(Followed(b)) = m
    BY <1>1, <1>4 DEF n, m
  <2> QED
    BY <1>3, <2>1, <2>2, <2>5
<1>9. ASSUME a # << >> PROVE Separated(ab) = Separated(a) \o Preceded(b)
  <2>1. n # 0
    BY <1>9, EmptySeq DEF n
  <2>2. \A i \in 1..n : Separated(ab)[i] = Separated(a)[i]
    BY <1>1, <1>5 DEF Separated
  <2>3. \A i \in 1..m : Separated(ab)[n + i] = Preceded(b)[i]
    BY <1>1, <1>6, <2>1 DEF Separated, Preceded
  <2>5. /\ Separated(ab) \in Seq(Text) /\ Len(Separated(ab)) = n + m
        /\ Separated(a) \in Seq(Text) /\ Len(Separated(a)) = n
        /\ Preceded(b) \in Seq(Text) /\ Len(Preceded(b)) = m
    BY <1>1, <1>4 DEF n, m
  <2> QED
    BY <1>3, <2>2, <2>3, <2>5
<1> QED
  BY <1>7, <1>8, <1>9

LEMMA SeparatedOne ==
  ASSUME NEW x \in Text
  PROVE  /\ Preceded(<<x>>) = <<Comma \o x>>
         /\ Separated(<<x>>) = <<x>>
         /\ Followed(<<x>>) = <<x \o Comma>>
BY DEF Preceded, Separated, Followed

\* What the lists make together.
Before(s) == FlattenSeq(Preceded(s))
Behind(s) == FlattenSeq(Followed(s))

LEMMA BeforeType ==
  ASSUME NEW s \in Seq(Text)
  PROVE  Before(s) \in Text /\ Behind(s) \in Text
BY SeparatedType, FlattenType DEF Before, Behind, Text

LEMMA BeforeConcat ==
  ASSUME NEW a \in Seq(Text), NEW b \in Seq(Text)
  PROVE  /\ Before(a \o b) = Before(a) \o Before(b)
         /\ Behind(a \o b) = Behind(a) \o Behind(b)
         /\ a # << >> => Commas(a \o b) = Commas(a) \o Before(b)
<1>1. /\ Preceded(a) \in Seq(Seq(Tokens)) /\ Preceded(b) \in Seq(Seq(Tokens))
      /\ Followed(a) \in Seq(Seq(Tokens)) /\ Followed(b) \in Seq(Seq(Tokens))
      /\ Separated(a) \in Seq(Seq(Tokens))
  BY SeparatedType DEF Text
<1>2. /\ FlattenSeq(Preceded(a) \o Preceded(b)) = Before(a) \o Before(b)
      /\ FlattenSeq(Followed(a) \o Followed(b)) = Behind(a) \o Behind(b)
      /\ FlattenSeq(Separated(a) \o Preceded(b)) = FlattenSeq(Separated(a)) \o Before(b)
  BY <1>1, FlattenConcat DEF Before, Behind
<1>3. Commas(a) = FlattenSeq(Separated(a)) /\ Commas(a \o b) = FlattenSeq(Separated(a \o b))
  BY CommasSeparate
<1> QED
  BY <1>2, <1>3, SeparatedConcat, Zenon DEF Before, Behind

LEMMA BeforeOne ==
  ASSUME NEW x \in Text
  PROVE  Before(<<x>>) = Comma \o x /\ Behind(<<x>>) = x \o Comma /\ Commas(<<x>>) = x
<1>1. Comma \o x \in Text /\ x \o Comma \in Text
  BY CommaType, TextConcat
<1>2. \A y \in Text : FlattenSeq(<<y>>) = y
  BY FlattenOne DEF Text
<1> QED
  BY <1>1, <1>2, SeparatedOne, CommasSeparate, Zenon DEF Before, Behind

LEMMA BeforeEmpty == Before(<< >>) = << >> /\ Behind(<< >>) = << >> /\ Commas(<< >>) = << >>
<1>1. Preceded(<< >>) = << >> /\ Followed(<< >>) = << >> /\ Separated(<< >>) = << >>
  BY DEF Preceded, Followed, Separated
<1> QED
  BY <1>1, FlattenEmpty, CommasSeparate, Zenon DEF Before, Behind

\* A sequence is what it was before its last element, and this element.
LEMMA FrontAndLast ==
  ASSUME NEW S, NEW s \in Seq(S), s # << >>
  PROVE  \E a \in Seq(S), x \in S : s = a \o <<x>> /\ Len(a) = Len(s) - 1
<1>1. Len(s) \in Nat /\ Len(s) # 0
  BY EmptySeq, LenProperties
<1>2. SubSeq(s, 1, Len(s) - 1) \o SubSeq(s, (Len(s) - 1) + 1, Len(s)) = SubSeq(s, 1, Len(s))
  <2>1. 1 \in 1..(Len(s) + 1) /\ Len(s) - 1 \in (1 - 1)..Len(s) /\ Len(s) \in (Len(s) - 1)..Len(s)
    BY <1>1
  <2> QED
    BY <2>1, ConcatAdjacentSubSeq
<1>3. SubSeq(s, 1, Len(s)) = s
  BY SubSeqFull
<1>4. SubSeq(s, (Len(s) - 1) + 1, Len(s)) = <<s[Len(s)]>> /\ s[Len(s)] \in S
  <2>1. Len(s) \in 1..Len(s) /\ (Len(s) - 1) + 1 = Len(s)
    BY <1>1
  <2> QED
    BY <2>1, OneElement, ElementOfSeq
<1>5. SubSeq(s, 1, Len(s) - 1) \in Seq(S) /\ Len(SubSeq(s, 1, Len(s) - 1)) = Len(s) - 1
  <2> DEFINE n == Len(s) - 1
             a == SubSeq(s, 1, n)
  <2>1. n \in Nat /\ 1 \in Int /\ \A i \in 1..n : s[i] \in S
    BY <1>1, ElementOfSeq
  <2> HIDE DEF n
  <2>2. a \in Seq(S) /\ Len(a) = IF 1 <= n THEN n - 1 + 1 ELSE 0
    BY <2>1, SubSeqProperties
  <2> HIDE DEF a
  <2>3. a \in Seq(S) /\ Len(a) = n
    BY <2>1, <2>2
  <2> QED
    BY <2>3 DEF a, n
<1> QED
  BY <1>2, <1>3, <1>4, <1>5

\* A list with a comma behind every element has one after its last.
LEMMA BehindIsCommas ==
  ASSUME NEW s \in Seq(Text), s # << >>
  PROVE  Behind(s) = Commas(s) \o Comma
<1> DEFINE Fails(t) == t # << >> /\ Behind(t) # Commas(t) \o Comma
           Lengths == {n \in Nat : \E t \in Seq(Text) : Len(t) = n /\ Fails(t)}
<1>1. SUFFICES ASSUME Fails(s) PROVE FALSE
  OBVIOUS
<1>2. Lengths # {}
  BY <1>1, LenProperties
<1>3. PICK n \in Lengths : \A m \in Lengths : n <= m
  <2>1. Lengths \subseteq Nat
    OBVIOUS
  <2> HIDE DEF Lengths
  <2> QED
    BY <1>2, <2>1, LeastNumber
<1>4. PICK t \in Seq(Text) : Len(t) = n /\ Fails(t)
  BY <1>3
<1>5. PICK a \in Seq(Text), x \in Text : t = a \o <<x>> /\ Len(a) = Len(t) - 1
  BY <1>4, FrontAndLast
<1>6. ~Fails(a)
  <2>1. Len(a) \in Nat /\ ~(n <= Len(a))
    BY <1>4, <1>5, LenProperties
  <2> QED
    BY <1>3, <2>1
<1> HIDE DEF Lengths
<1>7. <<x>> \in Seq(Text)
  OBVIOUS
<1>8. CASE a = << >>
  <2>1. t = <<x>>
    BY <1>5, <1>7, <1>8, ConcatEmptySeq
  <2> QED
    BY <1>4, <2>1, BeforeOne
<1>9. CASE a # << >>
  <2>1. /\ Behind(t) = Behind(a) \o (x \o Comma)
        /\ Commas(t) = Commas(a) \o (Comma \o x)
        /\ Behind(a) = Commas(a) \o Comma
    <3>1. Behind(t) = Behind(a) \o Behind(<<x>>) /\ Commas(t) = Commas(a) \o Before(<<x>>)
      BY <1>5, <1>7, <1>9, BeforeConcat, Zenon
    <3>2. Before(<<x>>) = Comma \o x /\ Behind(<<x>>) = x \o Comma
      BY BeforeOne, Zenon
    <3>3. Behind(a) = Commas(a) \o Comma
      BY <1>6, <1>9
    <3> QED
      BY <3>1, <3>2, <3>3, Zenon
  <2>2. Commas(a) \in Text /\ Comma \in Text /\ Comma \o x \in Text /\ x \o Comma \in Text
    BY CommasType, CommaType, TextConcat
  <2>3. /\ (Commas(a) \o Comma) \o (x \o Comma) = Commas(a) \o (Comma \o (x \o Comma))
        /\ Comma \o (x \o Comma) = (Comma \o x) \o Comma
        /\ Commas(a) \o ((Comma \o x) \o Comma) = (Commas(a) \o (Comma \o x)) \o Comma
    BY <2>2, TextAssoc, ZenonT(60)
  <2>4. Behind(t) = Commas(t) \o Comma
    BY <2>1, <2>3, Zenon
  <2> QED
    BY <1>4, <2>4
<1> QED
  BY <1>8, <1>9

\* A list that goes on after some elements that have a comma each.
LEMMA CommasJoin ==
  ASSUME NEW a \in Seq(Text), NEW b \in Seq(Text), b # << >>
  PROVE  Commas(a \o b) = Behind(a) \o Commas(b)
<1>1. PICK x \in Text, c \in Seq(Text) : b = <<x>> \o c
  <2>1. Head(b) \in Text /\ Tail(b) \in Seq(Text)
    BY HeadTailProperties
  <2>2. b = <<Head(b)>> \o Tail(b)
    <3>1. Len(b) \in Nat /\ Len(b) # 0
      BY EmptySeq, LenProperties
    <3>2. SubSeq(b, 1, 1) \o SubSeq(b, 1 + 1, Len(b)) = SubSeq(b, 1, Len(b))
      <4>1. 1 \in 1..(Len(b) + 1) /\ 1 \in (1 - 1)..Len(b) /\ Len(b) \in 1..Len(b)
        BY <3>1
      <4> QED
        BY <4>1, ConcatAdjacentSubSeq
    <3>3. SubSeq(b, 1, 1) = <<b[1]>>
      BY <3>1, OneElement
    <3>4. Head(b) = b[1] /\ Tail(b) = SubSeq(b, 2, Len(b))
      BY <3>1, HeadTailProperties, TailIsSubSeq
    <3> QED
      BY <3>2, <3>3, <3>4, SubSeqFull
  <2> QED
    BY <2>1, <2>2
<1>2. Commas(b) = x \o Before(c) /\ Before(b) = Comma \o Commas(b)
  <2>1. <<x>> \in Seq(Text) /\ <<x>> # << >>
    OBVIOUS
  <2>2. Commas(b) = x \o Before(c) /\ Before(b) = (Comma \o x) \o Before(c)
    <3>1. Commas(b) = Commas(<<x>>) \o Before(c) /\ Before(b) = Before(<<x>>) \o Before(c)
      BY <1>1, <2>1, BeforeConcat, Zenon
    <3>2. Commas(<<x>>) = x /\ Before(<<x>>) = Comma \o x
      BY BeforeOne, Zenon
    <3> QED
      BY <3>1, <3>2, Zenon
  <2>3. Before(c) \in Text
    BY BeforeType
  <2>4. (Comma \o x) \o Before(c) = Comma \o (x \o Before(c))
    BY <2>3, CommaType, TextAssoc, Zenon
  <2> QED
    BY <2>2, <2>4, Zenon
<1>3. CASE a = << >>
  <2>1. a \o b = b /\ Behind(a) = << >> /\ Commas(b) \in Text
    BY <1>3, ConcatEmptySeq, BeforeEmpty, CommasType
  <2> QED
    BY <2>1, TextEmpty
<1>4. CASE a # << >>
  <2>1. Commas(a \o b) = Commas(a) \o (Comma \o Commas(b))
    BY <1>2, <1>4, BeforeConcat
  <2>2. Behind(a) = Commas(a) \o Comma
    BY <1>4, BehindIsCommas
  <2>3. (Commas(a) \o Comma) \o Commas(b) = Commas(a) \o (Comma \o Commas(b))
    <3>1. Commas(a) \in Text /\ Commas(b) \in Text
      BY CommasType
    <3> QED
      BY <3>1, CommaType, TextAssoc, ZenonT(60)
  <2> QED
    BY <2>1, <2>2, <2>3, Zenon
<1> QED
  BY <1>3, <1>4

-----------------------------------------------------------------------------
(* The wire.                                                               *)

\* What a sequence is without its first n elements.
Drop(s, n) == SubSeq(s, n + 1, Len(s))

\* What is left of a sequence without its first n elements.
LEMMA DropType ==
  ASSUME NEW S, NEW s \in Seq(S), NEW n \in 0..Len(s)
  PROVE  /\ Drop(s, n) \in Seq(S) /\ Len(Drop(s, n)) = Len(s) - n
         /\ \A i \in 1..(Len(s) - n) : Drop(s, n)[i] = s[n + i]
<1> DEFINE m == Len(s)
<1>1. m \in Nat /\ n \in Nat /\ n <= m
  BY LenProperties
<1>2. \A i \in (n + 1)..m : s[i] \in S
  BY <1>1, ElementOfSeq
<1> HIDE DEF m
<1> DEFINE d == SubSeq(s, n + 1, m)
<1>3. /\ d \in Seq(S) /\ Len(d) = IF n + 1 <= m THEN m - (n + 1) + 1 ELSE 0
      /\ \A i \in 1..(m - (n + 1) + 1) : d[i] = s[(n + 1) + i - 1]
  BY <1>1, <1>2, SubSeqProperties
<1> HIDE DEF d
<1>4. d \in Seq(S) /\ Len(d) = m - n
  BY <1>1, <1>3
<1>5. \A i \in 1..(m - n) : i \in 1..(m - (n + 1) + 1) /\ (n + 1) + i - 1 = n + i
  BY <1>1
<1>6. \A i \in 1..(m - n) : d[i] = s[n + i]
  BY <1>3, <1>5
<1> QED
  BY <1>4, <1>6 DEF Drop, d, m

LEMMA DropFront ==
  ASSUME NEW S, NEW x \in Seq(S), NEW y \in Seq(S)
  PROVE  Drop(x \o y, Len(x)) = y
<1> DEFINE xy == x \o y
<1>1. /\ xy \in Seq(S) /\ Len(xy) = Len(x) + Len(y)
      /\ \A i \in 1..Len(y) : xy[Len(x) + i] = y[i]
      /\ Len(x) \in Nat /\ Len(y) \in Nat
  BY ConcatProperties, LenProperties
<1> HIDE DEF xy
<1> SUFFICES Drop(xy, Len(x)) = y
  BY DEF xy
<1>2. Len(x) \in 0..Len(xy) /\ Len(xy) - Len(x) = Len(y)
  BY <1>1
<1>3. /\ Drop(xy, Len(x)) \in Seq(S) /\ Len(Drop(xy, Len(x))) = Len(y)
      /\ \A i \in 1..Len(y) : Drop(xy, Len(x))[i] = xy[Len(x) + i]
  BY <1>1, <1>2, DropType, ZenonT(60)
<1> QED
  BY <1>1, <1>3, SeqEqual

LEMMA DropMore ==
  ASSUME NEW S, NEW x \in Seq(S), NEW y \in Seq(S), NEW n \in 0..Len(x)
  PROVE  Drop(x \o y, n) = Drop(x, n) \o y
<1>1. /\ x \o y \in Seq(S) /\ Len(x \o y) = Len(x) + Len(y)
      /\ \A i \in 1..Len(x) : (x \o y)[i] = x[i]
      /\ \A i \in 1..Len(y) : (x \o y)[Len(x) + i] = y[i]
      /\ Len(x) \in Nat /\ Len(y) \in Nat
  BY ConcatProperties, LenProperties
<1>2. /\ Drop(x, n) \in Seq(S) /\ Len(Drop(x, n)) = Len(x) - n
      /\ \A i \in 1..(Len(x) - n) : Drop(x, n)[i] = x[n + i]
  BY DropType
<1> DEFINE xy == x \o y
<1> HIDE DEF xy
<1>3. /\ Drop(xy, n) \in Seq(S) /\ Len(Drop(xy, n)) = (Len(x) + Len(y)) - n
      /\ \A i \in 1..((Len(x) + Len(y)) - n) : Drop(xy, n)[i] = xy[n + i]
  <2>1. xy \in Seq(S) /\ Len(xy) = Len(x) + Len(y) /\ n \in 0..Len(xy)
    BY <1>1 DEF xy
  <2>2. /\ Drop(xy, n) \in Seq(S) /\ Len(Drop(xy, n)) = Len(xy) - n
        /\ \A i \in 1..(Len(xy) - n) : Drop(xy, n)[i] = xy[n + i]
    BY <2>1, DropType
  <2> QED
    BY <2>1, <2>2
<1>4. \A i \in 1..(Len(x) - n) : n + i \in 1..Len(x) /\ i \in 1..((Len(x) + Len(y)) - n)
  BY <1>1
<1>5. \A i \in 1..(Len(x) - n) : Drop(xy, n)[i] = Drop(x, n)[i]
  BY <1>1, <1>2, <1>3, <1>4 DEF xy
<1>6. \A i \in 1..Len(y) : /\ (Len(x) - n) + i \in 1..((Len(x) + Len(y)) - n)
                           /\ n + ((Len(x) - n) + i) = Len(x) + i
  BY <1>1
<1>7. \A i \in 1..Len(y) : Drop(xy, n)[(Len(x) - n) + i] = y[i]
  BY <1>1, <1>3, <1>6 DEF xy
<1>8. (Len(x) + Len(y)) - n = (Len(x) - n) + Len(y)
  BY <1>1
<1>9. Drop(xy, n) = Drop(x, n) \o y
  <2> DEFINE d == Drop(xy, n)
             e == Drop(x, n)
  <2>1. d \in Seq(S) /\ e \in Seq(S) /\ Len(d) = Len(e) + Len(y)
    BY <1>2, <1>3, <1>8
  <2>2. \A i \in 1..Len(e) : d[i] = e[i]
    BY <1>2, <1>5
  <2>3. \A i \in 1..Len(y) : d[Len(e) + i] = y[i]
    BY <1>2, <1>7
  <2> HIDE DEF d, e
  <2>4. d = e \o y
    BY <2>1, <2>2, <2>3, IsConcat
  <2> QED
    BY <2>4 DEF d, e
<1> QED
  BY <1>9 DEF xy

Kinds == {"header", "header_rest", "col", "col_rest", "flag", "size", "size_rest", "char", "junk"}

WireUnits == [kind : Kinds, value : ResultSets \cup Columns \cup Int \cup STRING]

Wire == Seq(WireUnits)

LEMMA WireConcat == \A a, b \in Wire : a \o b \in Wire
  BY ConcatProperties DEF Wire

LEMMA WireAssoc == \A a, b, c \in Wire : (a \o b) \o c = a \o (b \o c)
  BY ConcatAssociative DEF Wire

LEMMA WireEmpty == << >> \in Wire /\ \A a \in Wire : a \o << >> = a /\ << >> \o a = a
  BY EmptySeq, ConcatEmptySeq DEF Wire

LEMMA UnitType ==
  ASSUME NEW k \in Kinds, NEW v \in ResultSets \cup Columns \cup Int \cup STRING
  PROVE  Unit(k, v) \in WireUnits /\ Unit(k, v).kind = k /\ Unit(k, v).value = v
BY DEF Unit, WireUnits

LEMMA ConstantlyType ==
  ASSUME NEW k \in Kinds, NEW n \in Nat
  PROVE  Constantly(k, n) \in Wire
<1>1. Unit(k, 0) \in WireUnits
  BY UnitType
<1>2. Constantly(k, n) \in [1..n -> WireUnits]
  BY <1>1 DEF Constantly
<1> QED
  BY <1>2 DEF Wire

LEMMA PairType ==
  ASSUME NEW S, NEW a \in S, NEW b \in S
  PROVE  <<a, b>> \in Seq(S) /\ Len(<<a, b>>) = 2 /\ <<a, b>>[1] = a /\ <<a, b>>[2] = b
OBVIOUS

LEMMA PairConcat ==
  ASSUME NEW S, NEW a \in S, NEW b \in S
  PROVE  <<a, b>> = <<a>> \o <<b>>
<1> DEFINE x == <<a, b>>
           y == <<a>>
           z == <<b>>
<1>1. x \in Seq(S) /\ Len(x) = 2 /\ x[1] = a /\ x[2] = b
  BY PairType
<1>2. y \in Seq(S) /\ Len(y) = 1 /\ y[1] = a /\ z \in Seq(S) /\ Len(z) = 1 /\ z[1] = b
  BY SingletonType
<1> HIDE DEF x, y, z
<1>3. /\ Len(x) = Len(y) + Len(z)
      /\ \A i \in 1..Len(y) : x[i] = y[i]
      /\ \A i \in 1..Len(z) : x[Len(y) + i] = z[i]
  <2>1. \A i \in 1..1 : i = 1
    OBVIOUS
  <2> QED
    BY <1>1, <1>2, <2>1
<1>4. x = y \o z
  BY <1>1, <1>2, <1>3, IsConcat
<1> QED
  BY <1>4 DEF x, y, z

LEMMA FourConcat ==
  ASSUME NEW S, NEW a \in S, NEW b \in S, NEW c \in S, NEW d \in S
  PROVE  <<a, b, c, d>> = (<<a, b>> \o <<c>>) \o <<d>>
<1> DEFINE x == <<a, b, c, d>>
           y == <<a, b>> \o <<c>>
           z == <<d>>
<1>1. x \in Seq(S) /\ Len(x) = 4 /\ x[1] = a /\ x[2] = b /\ x[3] = c /\ x[4] = d
  OBVIOUS
<1>2. y \in Seq(S) /\ Len(y) = 3 /\ y[1] = a /\ y[2] = b /\ y[3] = c
  OBVIOUS
<1>3. z \in Seq(S) /\ Len(z) = 1 /\ z[1] = d
  BY SingletonType
<1> HIDE DEF x, y, z
<1>4. /\ Len(x) = Len(y) + Len(z)
      /\ \A i \in 1..Len(y) : x[i] = y[i]
      /\ \A i \in 1..Len(z) : x[Len(y) + i] = z[i]
  BY <1>1, <1>2, <1>3
<1>5. x = y \o z
  BY <1>1, <1>2, <1>3, <1>4, IsConcat
<1> QED
  BY <1>5 DEF x, y, z

LEMMA EncodeColumnType ==
  ASSUME NEW col \in Columns
  PROVE  EncodeColumn(col) \in Wire /\ Len(EncodeColumn(col)) = 2
<1>1. Unit("col", col) \in WireUnits /\ Unit("col_rest", 0) \in WireUnits
  BY UnitType DEF Kinds
<1> QED
  BY <1>1, PairType DEF EncodeColumn, Wire

\* The characters of a field.
CharUnits(data) == [i \in DOMAIN data |-> Unit("char", data[i])]

LEMMA CharUnitsType ==
  ASSUME NEW data \in Seq(STRING)
  PROVE  /\ CharUnits(data) \in Wire /\ Len(CharUnits(data)) = Len(data)
         /\ \A i \in 1..Len(data) : CharUnits(data)[i] = Unit("char", data[i])
<1>1. Len(data) \in Nat /\ DOMAIN data = 1..Len(data) /\ \A i \in 1..Len(data) : data[i] \in STRING
  BY LenProperties, ElementOfSeq
<1>2. \A i \in 1..Len(data) : Unit("char", data[i]) \in WireUnits
  BY <1>1, UnitType DEF Kinds
<1>3. CharUnits(data) \in [1..Len(data) -> WireUnits]
  BY <1>1, <1>2 DEF CharUnits
<1> QED
  BY <1>1, <1>3 DEF CharUnits, Wire

\* A field on the wire.
LEMMA EncodeFieldType ==
  ASSUME NEW f \in Fields
  PROVE  /\ EncodeField(f) \in Wire
         /\ f.null => EncodeField(f) = <<Unit("size", NullSize), Unit("size_rest", 0)>>
         /\ ~f.null => EncodeField(f) = <<Unit("size", Len(f.data)), Unit("size_rest", 0)>>
                                          \o CharUnits(f.data)
<1>1. f.data \in Seq(STRING) /\ f.null \in BOOLEAN /\ Len(f.data) \in Nat
  BY LenProperties DEF Fields
<1>2. \A n \in Int : <<Unit("size", n), Unit("size_rest", 0)>> \in Wire
  <2>1. \A n \in Int : Unit("size", n) \in WireUnits /\ Unit("size_rest", 0) \in WireUnits
    BY UnitType DEF Kinds
  <2> QED
    BY <2>1, PairType DEF Wire
<1>3. CharUnits(f.data) \in Wire
  BY <1>1, CharUnitsType
<1>4. CASE f.null
  <2>1. EncodeField(f) = <<Unit("size", NullSize), Unit("size_rest", 0)>> /\ NullSize \in Int
    BY <1>4 DEF EncodeField, NullSize
  <2> QED
    BY <1>2, <1>4, <2>1, Zenon
<1>5. CASE ~f.null
  <2>1. EncodeField(f) = <<Unit("size", Len(f.data)), Unit("size_rest", 0)>> \o CharUnits(f.data)
    BY <1>5, Zenon DEF EncodeField, CharUnits
  <2>2. <<Unit("size", Len(f.data)), Unit("size_rest", 0)>> \in Wire
    BY <1>1, <1>2
  <2>3. EncodeField(f) \in Wire
    BY <1>3, <2>1, <2>2, WireConcat, Zenon
  <2> QED
    BY <1>5, <2>1, <2>3, Zenon
<1> QED
  BY <1>4, <1>5

\* The parts of a result set.
LEMMA ResultSetType ==
  ASSUME NEW t \in ResultSets
  PROVE  /\ t.valid \in BOOLEAN /\ t.header \in Headers /\ t.junk \in Nat
         /\ t.cols \in Seq(Columns) /\ Len(t.cols) \in Nat /\ DOMAIN t.cols = 1..Len(t.cols)
         /\ \A i \in 1..Len(t.cols) : t.cols[i] \in Columns
         /\ t.rows \in Seq(Seq(Fields)) /\ Len(t.rows) \in Nat /\ DOMAIN t.rows = 1..Len(t.rows)
         /\ \A i \in 1..Len(t.rows) :
              /\ t.rows[i] \in Seq(Fields) /\ DOMAIN t.rows[i] = 1..Len(t.cols)
              /\ Len(t.rows[i]) = Len(t.cols)
              /\ \A j \in 1..Len(t.cols) : t.rows[i][j] \in Fields
<1>1. /\ t.valid \in BOOLEAN /\ t.header \in Headers /\ t.junk \in Nat
      /\ t.cols \in Seq(Columns) /\ t.rows \in Seq(Seq(Fields))
      /\ \A i \in DOMAIN t.rows : Len(t.rows[i]) = Len(t.cols)
  BY DEF ResultSets
<1>2. /\ Len(t.cols) \in Nat /\ DOMAIN t.cols = 1..Len(t.cols)
      /\ \A i \in 1..Len(t.cols) : t.cols[i] \in Columns
  BY <1>1, LenProperties, ElementOfSeq
<1>3. /\ Len(t.rows) \in Nat /\ DOMAIN t.rows = 1..Len(t.rows)
      /\ \A i \in 1..Len(t.rows) : t.rows[i] \in Seq(Fields)
  BY <1>1, LenProperties, ElementOfSeq
<1>4. ASSUME NEW i \in 1..Len(t.rows)
      PROVE  /\ DOMAIN t.rows[i] = 1..Len(t.cols) /\ Len(t.rows[i]) = Len(t.cols)
             /\ \A j \in 1..Len(t.cols) : t.rows[i][j] \in Fields
  <2>1. Len(t.rows[i]) = Len(t.cols) /\ t.rows[i] \in Seq(Fields)
    BY <1>1, <1>3
  <2>2. DOMAIN t.rows[i] = 1..Len(t.rows[i]) /\ \A j \in 1..Len(t.rows[i]) : t.rows[i][j] \in Fields
    BY <2>1, LenProperties, ElementOfSeq
  <2> QED
    BY <2>1, <2>2
<1> QED
  BY <1>1, <1>2, <1>3, <1>4

\* The encoded columns, rows, and fields of a row; what follows the rows.
ColUnits(t)      == [i \in DOMAIN t.cols |-> EncodeColumn(t.cols[i])]
RowUnits(t)      == [i \in DOMAIN t.rows |-> EncodeRow(t.rows[i])]
FieldUnits(t, r) == [i \in DOMAIN t.rows[r] |-> EncodeField(t.rows[r][i])]
End(t) ==
  (IF t.cols = << >> THEN << >> ELSE <<Unit("flag", 0)>>) \o Constantly("junk", t.junk)

\* What is left of the wire when r rows were read; k fields of row r; k
\* columns.
RowsLeft(t, r)      == After(RowUnits(t), r) \o End(t)
FieldsLeft(t, r, k) == After(FieldUnits(t, r), k) \o RowsLeft(t, r)
ColsLeft(t, k)      == After(ColUnits(t), k) \o RowsLeft(t, 0)

LEMMA MapType ==
  ASSUME NEW S, NEW n \in Nat, NEW f \in [1..n -> S]
  PROVE  f \in Seq(S) /\ Len(f) = n
OBVIOUS

LEMMA UnitsType ==
  ASSUME NEW t \in ResultSets
  PROVE  /\ ColUnits(t) \in Seq(Wire) /\ Len(ColUnits(t)) = Len(t.cols)
         /\ \A i \in 1..Len(t.cols) : ColUnits(t)[i] = EncodeColumn(t.cols[i])
         /\ \A r \in 1..Len(t.rows) :
              /\ FieldUnits(t, r) \in Seq(Wire) /\ Len(FieldUnits(t, r)) = Len(t.cols)
              /\ \A i \in 1..Len(t.cols) : FieldUnits(t, r)[i] = EncodeField(t.rows[r][i])
              /\ EncodeRow(t.rows[r]) = <<Unit("flag", 1)>> \o FlattenSeq(FieldUnits(t, r))
              /\ EncodeRow(t.rows[r]) \in Wire
         /\ RowUnits(t) \in Seq(Wire) /\ Len(RowUnits(t)) = Len(t.rows)
         /\ \A i \in 1..Len(t.rows) : RowUnits(t)[i] = EncodeRow(t.rows[i])
         /\ End(t) \in Wire
<1> USE ResultSetType
<1>1. /\ ColUnits(t) \in Seq(Wire) /\ Len(ColUnits(t)) = Len(t.cols)
      /\ \A i \in 1..Len(t.cols) : ColUnits(t)[i] = EncodeColumn(t.cols[i])
  <2>1. \A i \in 1..Len(t.cols) : EncodeColumn(t.cols[i]) \in Wire
    BY EncodeColumnType
  <2>2. ColUnits(t) \in [1..Len(t.cols) -> Wire]
    BY <2>1 DEF ColUnits
  <2>3. Len(t.cols) \in Nat
    OBVIOUS
  <2>4. ColUnits(t) \in Seq(Wire) /\ Len(ColUnits(t)) = Len(t.cols)
    BY <2>2, <2>3, MapType
  <2> QED
    BY <2>4 DEF ColUnits
<1>2. ASSUME NEW r \in 1..Len(t.rows)
      PROVE  /\ FieldUnits(t, r) \in Seq(Wire) /\ Len(FieldUnits(t, r)) = Len(t.cols)
             /\ \A i \in 1..Len(t.cols) : FieldUnits(t, r)[i] = EncodeField(t.rows[r][i])
             /\ EncodeRow(t.rows[r]) = <<Unit("flag", 1)>> \o FlattenSeq(FieldUnits(t, r))
             /\ EncodeRow(t.rows[r]) \in Wire
  <2>1. \A i \in 1..Len(t.cols) : EncodeField(t.rows[r][i]) \in Wire
    BY EncodeFieldType
  <2>2. FieldUnits(t, r) \in [1..Len(t.cols) -> Wire]
    BY <2>1 DEF FieldUnits
  <2>3. Len(t.cols) \in Nat
    OBVIOUS
  <2>4. FieldUnits(t, r) \in Seq(Wire) /\ Len(FieldUnits(t, r)) = Len(t.cols)
    BY <2>2, <2>3, MapType
  <2>5. EncodeRow(t.rows[r]) = <<Unit("flag", 1)>> \o FlattenSeq(FieldUnits(t, r))
    BY Zenon DEF EncodeRow, FieldUnits
  <2>6. FlattenSeq(FieldUnits(t, r)) \in Wire
    BY <2>4, FlattenType DEF Wire
  <2>7. <<Unit("flag", 1)>> \in Wire
    <3>1. Unit("flag", 1) \in WireUnits
      BY UnitType DEF Kinds
    <3> QED
      BY <3>1, SingletonType DEF Wire
  <2>8. EncodeRow(t.rows[r]) \in Wire
    BY <2>5, <2>6, <2>7, WireConcat, Zenon
  <2>9. \A i \in 1..Len(t.cols) : FieldUnits(t, r)[i] = EncodeField(t.rows[r][i])
    BY DEF FieldUnits
  <2> QED
    BY <2>4, <2>5, <2>8, <2>9
<1>3. /\ RowUnits(t) \in Seq(Wire) /\ Len(RowUnits(t)) = Len(t.rows)
      /\ \A i \in 1..Len(t.rows) : RowUnits(t)[i] = EncodeRow(t.rows[i])
  <2>1. RowUnits(t) \in [1..Len(t.rows) -> Wire]
    BY <1>2 DEF RowUnits
  <2>2. Len(t.rows) \in Nat
    OBVIOUS
  <2>3. RowUnits(t) \in Seq(Wire) /\ Len(RowUnits(t)) = Len(t.rows)
    BY <2>1, <2>2, MapType
  <2> QED
    BY <2>3 DEF RowUnits
<1>4. End(t) \in Wire
  <2>1. Constantly("junk", t.junk) \in Wire
    BY ConstantlyType DEF Kinds
  <2>2. <<Unit("flag", 0)>> \in Wire
    <3>1. Unit("flag", 0) \in WireUnits
      BY UnitType DEF Kinds
    <3> QED
      BY <3>1, SingletonType DEF Wire
  <2>3. (IF t.cols = << >> THEN << >> ELSE <<Unit("flag", 0)>>) \in Wire
    BY <2>2, WireEmpty
  <2> QED
    BY <2>1, <2>3, WireConcat, Zenon DEF End
<1> QED
  BY <1>1, <1>2, <1>3, <1>4

\* What is left of the wire is made of units.
LEMMA LeftType ==
  ASSUME NEW t \in ResultSets
  PROVE  /\ \A r \in Nat : RowsLeft(t, r) \in Wire
         /\ \A r \in 1..Len(t.rows), k \in Nat : FieldsLeft(t, r, k) \in Wire
         /\ \A k \in Nat : ColsLeft(t, k) \in Wire
<1>1. \A s \in Seq(Wire), k \in Nat : After(s, k) \in Wire
  BY AfterType DEF Wire
<1>2. \A r \in Nat : RowsLeft(t, r) \in Wire
  BY <1>1, UnitsType, WireConcat DEF RowsLeft
<1>3. \A r \in 1..Len(t.rows), k \in Nat : FieldsLeft(t, r, k) \in Wire
  <2>1. \A r \in 1..Len(t.rows) : r \in Nat
    BY ResultSetType
  <2> QED
    BY <1>1, <1>2, <2>1, UnitsType, WireConcat DEF FieldsLeft
<1>4. \A k \in Nat : ColsLeft(t, k) \in Wire
  BY <1>1, <1>2, UnitsType, WireConcat DEF ColsLeft
<1> QED
  BY <1>2, <1>3, <1>4

\* The header is read.
LEMMA HeaderRead ==
  ASSUME NEW t \in ResultSets
  PROVE  /\ Encode(t) = <<Unit("header", t), Unit("header_rest", 0)>> \o ColsLeft(t, 0)
         /\ <<Unit("header", t), Unit("header_rest", 0)>> \in Wire
<1> DEFINE h == <<Unit("header", t), Unit("header_rest", 0)>>
           c == FlattenSeq(ColUnits(t))
           r == FlattenSeq(RowUnits(t))
           e == IF t.cols = << >> THEN << >> ELSE <<Unit("flag", 0)>>
           j == Constantly("junk", t.junk)
<1>1. h \in Wire
  <2>1. Unit("header", t) \in WireUnits /\ Unit("header_rest", 0) \in WireUnits
    BY UnitType DEF Kinds
  <2> QED
    BY <2>1, PairType DEF Wire
<1>2. c \in Wire /\ r \in Wire
  BY UnitsType, FlattenType DEF Wire
<1>3. e \in Wire /\ j \in Wire
  <2>1. Unit("flag", 0) \in WireUnits
    BY UnitType DEF Kinds
  <2>2. <<Unit("flag", 0)>> \in Wire
    BY <2>1, SingletonType DEF Wire
  <2>3. j \in Wire
    BY ConstantlyType, ResultSetType DEF Kinds
  <2> QED
    BY <2>2, <2>3, WireEmpty
<1>4. Encode(t) = (((h \o c) \o r) \o e) \o j
  BY Zenon DEF Encode, ColUnits, RowUnits
<1>5. ColsLeft(t, 0) = c \o (r \o (e \o j))
  <2>1. After(ColUnits(t), 0) = c /\ After(RowUnits(t), 0) = r
    BY UnitsType, AfterNone DEF Wire
  <2> QED
    BY <2>1, Zenon DEF ColsLeft, RowsLeft, End
<1> HIDE DEF h, c, r, e, j
<1>6. (((h \o c) \o r) \o e) \o j = h \o (c \o (r \o (e \o j)))
  <2>1. e \o j \in Wire /\ r \o (e \o j) \in Wire /\ h \o c \in Wire /\ (h \o c) \o r \in Wire
    BY <1>1, <1>2, <1>3, WireConcat
  <2>2. (((h \o c) \o r) \o e) \o j = ((h \o c) \o r) \o (e \o j)
    BY <1>3, <2>1, WireAssoc, SMTT(30)
  <2>3. ((h \o c) \o r) \o (e \o j) = (h \o c) \o (r \o (e \o j))
    BY <1>2, <2>1, WireAssoc, ZenonT(60)
  <2>4. (h \o c) \o (r \o (e \o j)) = h \o (c \o (r \o (e \o j)))
    BY <1>1, <1>2, <2>1, WireAssoc, ZenonT(60)
  <2> QED
    BY <2>2, <2>3, <2>4
<1>7. Encode(t) = h \o ColsLeft(t, 0)
  BY <1>4, <1>5, <1>6
<1> QED
  BY <1>1, <1>7 DEF h

\* A column is read; after the last one come the rows.
LEMMA ColumnRead ==
  ASSUME NEW t \in ResultSets
  PROVE  /\ \A k \in 0..(Len(t.cols) - 1) :
              ColsLeft(t, k) = EncodeColumn(t.cols[k + 1]) \o ColsLeft(t, k + 1)
         /\ ColsLeft(t, Len(t.cols)) = RowsLeft(t, 0)
<1>1. RowsLeft(t, 0) \in Wire
  BY LeftType
<1>2. ASSUME NEW k \in 0..(Len(t.cols) - 1)
      PROVE  ColsLeft(t, k) = EncodeColumn(t.cols[k + 1]) \o ColsLeft(t, k + 1)
  <2>1. k + 1 \in 1..Len(t.cols) /\ k + 1 \in Nat
    BY ResultSetType
  <2>2. /\ ColUnits(t) \in Seq(Seq(WireUnits)) /\ Len(ColUnits(t)) = Len(t.cols)
        /\ ColUnits(t)[k + 1] = EncodeColumn(t.cols[k + 1])
    BY <2>1, UnitsType DEF Wire
  <2>3. After(ColUnits(t), k) = EncodeColumn(t.cols[k + 1]) \o After(ColUnits(t), k + 1)
    BY <2>2, AfterNext
  <2>4. EncodeColumn(t.cols[k + 1]) \in Wire /\ After(ColUnits(t), k + 1) \in Wire
    BY <2>1, <2>2, ResultSetType, EncodeColumnType, AfterType DEF Wire
  <2>5. (EncodeColumn(t.cols[k + 1]) \o After(ColUnits(t), k + 1)) \o RowsLeft(t, 0)
          = EncodeColumn(t.cols[k + 1]) \o (After(ColUnits(t), k + 1) \o RowsLeft(t, 0))
    BY <1>1, <2>4, WireAssoc, Zenon
  <2> QED
    BY <2>3, <2>5, Zenon DEF ColsLeft
<1>3. ColsLeft(t, Len(t.cols)) = RowsLeft(t, 0)
  <2>1. After(ColUnits(t), Len(t.cols)) = << >>
    BY UnitsType, AfterAll DEF Wire
  <2> QED
    BY <1>1, <2>1, WireEmpty DEF ColsLeft
<1> QED
  BY <1>2, <1>3

\* The flag of a row is read, or the one behind the last row.
LEMMA FlagRead ==
  ASSUME NEW t \in ResultSets
  PROVE  /\ \A r \in 0..(Len(t.rows) - 1) :
              RowsLeft(t, r) = <<Unit("flag", 1)>> \o FieldsLeft(t, r + 1, 0)
         /\ t.cols # << >> => RowsLeft(t, Len(t.rows)) = <<Unit("flag", 0)>>
                                                           \o Constantly("junk", t.junk)
<1>1. ASSUME NEW r \in 0..(Len(t.rows) - 1)
      PROVE  RowsLeft(t, r) = <<Unit("flag", 1)>> \o FieldsLeft(t, r + 1, 0)
  <2>1. r + 1 \in 1..Len(t.rows) /\ r + 1 \in Nat
    BY ResultSetType
  <2>2. /\ RowUnits(t) \in Seq(Seq(WireUnits)) /\ Len(RowUnits(t)) = Len(t.rows)
        /\ RowUnits(t)[r + 1] = EncodeRow(t.rows[r + 1])
        /\ EncodeRow(t.rows[r + 1]) = <<Unit("flag", 1)>> \o FlattenSeq(FieldUnits(t, r + 1))
        /\ FieldUnits(t, r + 1) \in Seq(Seq(WireUnits))
    BY <2>1, UnitsType DEF Wire
  <2>3. After(RowUnits(t), r)
          = (<<Unit("flag", 1)>> \o FlattenSeq(FieldUnits(t, r + 1))) \o After(RowUnits(t), r + 1)
    BY <2>2, AfterNext
  <2>4. After(FieldUnits(t, r + 1), 0) = FlattenSeq(FieldUnits(t, r + 1))
    BY <2>2, AfterNone
  <2>5. /\ <<Unit("flag", 1)>> \in Wire /\ FlattenSeq(FieldUnits(t, r + 1)) \in Wire
        /\ After(RowUnits(t), r + 1) \in Wire /\ End(t) \in Wire
    <3>1. Unit("flag", 1) \in WireUnits
      BY UnitType DEF Kinds
    <3> QED
      BY <2>1, <2>2, <3>1, SingletonType, FlattenType, AfterType, UnitsType DEF Wire
  <2> DEFINE a == <<Unit("flag", 1)>>
             b == FlattenSeq(FieldUnits(t, r + 1))
             c == After(RowUnits(t), r + 1)
             d == End(t)
  <2>6. /\ RowsLeft(t, r) = ((a \o b) \o c) \o d
        /\ FieldsLeft(t, r + 1, 0) = b \o (c \o d)
    BY <2>3, <2>4, Zenon DEF RowsLeft, FieldsLeft
  <2>7. a \in Wire /\ b \in Wire /\ c \in Wire /\ d \in Wire
    BY <2>5
  <2> HIDE DEF a, b, c, d
  <2>8. ((a \o b) \o c) \o d = (a \o b) \o (c \o d) /\ (a \o b) \o (c \o d) = a \o (b \o (c \o d))
    <3>1. a \o b \in Wire /\ c \o d \in Wire
      BY <2>7, WireConcat
    <3>2. ((a \o b) \o c) \o d = (a \o b) \o (c \o d)
      BY <2>7, <3>1, WireAssoc, ZenonT(60)
    <3>3. (a \o b) \o (c \o d) = a \o (b \o (c \o d))
      BY <2>7, <3>1, WireAssoc, ZenonT(60)
    <3> QED
      BY <3>2, <3>3
  <2>9. RowsLeft(t, r) = a \o FieldsLeft(t, r + 1, 0)
    BY <2>6, <2>8
  <2> QED
    BY <2>9 DEF a
<1>2. ASSUME t.cols # << >>
      PROVE  RowsLeft(t, Len(t.rows)) = <<Unit("flag", 0)>> \o Constantly("junk", t.junk)
  <2>1. After(RowUnits(t), Len(t.rows)) = << >> /\ End(t) \in Wire
    BY UnitsType, AfterAll DEF Wire
  <2>2. RowsLeft(t, Len(t.rows)) = End(t)
    BY <2>1, WireEmpty DEF RowsLeft
  <2> QED
    BY <1>2, <2>2, Zenon DEF End
<1> QED
  BY <1>1, <1>2

\* A field is read; after the last one the row ends.
LEMMA FieldRead ==
  ASSUME NEW t \in ResultSets, NEW r \in 1..Len(t.rows)
  PROVE  /\ \A k \in 0..(Len(t.cols) - 1) :
              FieldsLeft(t, r, k) = EncodeField(t.rows[r][k + 1]) \o FieldsLeft(t, r, k + 1)
         /\ FieldsLeft(t, r, Len(t.cols)) = RowsLeft(t, r)
<1>1. RowsLeft(t, r) \in Wire
  <2>1. r \in Nat
    BY ResultSetType
  <2> QED
    BY <2>1, LeftType
<1>2. ASSUME NEW k \in 0..(Len(t.cols) - 1)
      PROVE  FieldsLeft(t, r, k) = EncodeField(t.rows[r][k + 1]) \o FieldsLeft(t, r, k + 1)
  <2>1. k + 1 \in 1..Len(t.cols) /\ k + 1 \in Nat
    BY ResultSetType
  <2>2. /\ FieldUnits(t, r) \in Seq(Seq(WireUnits)) /\ Len(FieldUnits(t, r)) = Len(t.cols)
        /\ FieldUnits(t, r)[k + 1] = EncodeField(t.rows[r][k + 1])
    BY <2>1, UnitsType DEF Wire
  <2>3. After(FieldUnits(t, r), k)
          = EncodeField(t.rows[r][k + 1]) \o After(FieldUnits(t, r), k + 1)
    BY <2>2, AfterNext
  <2>4. EncodeField(t.rows[r][k + 1]) \in Wire /\ After(FieldUnits(t, r), k + 1) \in Wire
    BY <2>1, <2>2, ResultSetType, EncodeFieldType, AfterType DEF Wire
  <2>5. (EncodeField(t.rows[r][k + 1]) \o After(FieldUnits(t, r), k + 1)) \o RowsLeft(t, r)
          = EncodeField(t.rows[r][k + 1]) \o (After(FieldUnits(t, r), k + 1) \o RowsLeft(t, r))
    BY <1>1, <2>4, WireAssoc, Zenon
  <2> QED
    BY <2>3, <2>5, Zenon DEF FieldsLeft
<1>3. FieldsLeft(t, r, Len(t.cols)) = RowsLeft(t, r)
  <2>1. After(FieldUnits(t, r), Len(t.cols)) = << >>
    BY UnitsType, AfterAll DEF Wire
  <2> QED
    BY <1>1, <2>1, WireEmpty DEF FieldsLeft
<1> QED
  BY <1>2, <1>3

-----------------------------------------------------------------------------
(* The text.                                                               *)

LEMMA LiteralTokens ==
  {",", ":", "{", "}", "[", "]", "quote", "\\", "null", "true", "false",
   "success", "root", "errcode", "errstr", "insert_id", "affected_rows"} \subseteq Tokens
BY DEF Tokens

LEMMA EscapeCharType ==
  ASSUME NEW ch \in STRING
  PROVE  EscapeChar(ch) \in Text
<1>1. ch \in Tokens /\ "\\" \in Tokens
  BY DEF Tokens
<1> QED
  BY <1>1, SingletonType, PairType DEF EscapeChar, Text

Escaped(chars) == [i \in DOMAIN chars |-> EscapeChar(chars[i])]

LEMMA EscapedType ==
  ASSUME NEW s \in Seq(STRING)
  PROVE  /\ Escaped(s) \in Seq(Text) /\ Len(Escaped(s)) = Len(s)
         /\ \A i \in 1..Len(s) : Escaped(s)[i] = EscapeChar(s[i])
<1>1. Len(s) \in Nat /\ DOMAIN s = 1..Len(s) /\ \A i \in 1..Len(s) : s[i] \in STRING
  BY LenProperties, ElementOfSeq
<1>2. Escaped(s) \in [1..Len(s) -> Text]
  BY <1>1, EscapeCharType DEF Escaped
<1>3. Escaped(s) \in Seq(Text) /\ Len(Escaped(s)) = Len(s)
  BY <1>1, <1>2, MapType
<1> QED
  BY <1>1, <1>3 DEF Escaped

LEMMA EscapeType ==
  ASSUME NEW s \in Seq(STRING)
  PROVE  Escape(s) \in Text
<1>1. Escape(s) = FlattenSeq(Escaped(s))
  BY Zenon DEF Escape, Escaped
<1> QED
  BY <1>1, EscapedType, FlattenType DEF Text

\* Characters are escaped one by one.
LEMMA EscapeConcat ==
  ASSUME NEW a \in Seq(STRING), NEW b \in Seq(STRING)
  PROVE  Escape(a \o b) = Escape(a) \o Escape(b)
<1>1. /\ a \o b \in Seq(STRING) /\ Len(a \o b) = Len(a) + Len(b)
      /\ \A i \in 1..Len(a) : (a \o b)[i] = a[i]
      /\ \A i \in 1..Len(b) : (a \o b)[Len(a) + i] = b[i]
      /\ Len(a) \in Nat /\ Len(b) \in Nat
  BY ConcatProperties, LenProperties
<1> DEFINE ab == a \o b
           x == Escaped(ab)
           y == Escaped(a)
           z == Escaped(b)
<1> HIDE DEF ab
<1>2. /\ x \in Seq(Text) /\ Len(x) = Len(a) + Len(b)
      /\ \A i \in 1..(Len(a) + Len(b)) : x[i] = EscapeChar(ab[i])
      /\ y \in Seq(Text) /\ Len(y) = Len(a)
      /\ \A i \in 1..Len(a) : y[i] = EscapeChar(a[i])
      /\ z \in Seq(Text) /\ Len(z) = Len(b)
      /\ \A i \in 1..Len(b) : z[i] = EscapeChar(b[i])
  <2>1. ab \in Seq(STRING) /\ Len(ab) = Len(a) + Len(b)
    BY <1>1 DEF ab
  <2>2. x \in Seq(Text) /\ Len(x) = Len(ab) /\ \A i \in 1..Len(ab) : x[i] = EscapeChar(ab[i])
    BY <2>1, EscapedType
  <2>3. y \in Seq(Text) /\ Len(y) = Len(a) /\ \A i \in 1..Len(a) : y[i] = EscapeChar(a[i])
    BY EscapedType
  <2>4. z \in Seq(Text) /\ Len(z) = Len(b) /\ \A i \in 1..Len(b) : z[i] = EscapeChar(b[i])
    BY EscapedType
  <2> QED
    BY <2>1, <2>2, <2>3, <2>4
<1> HIDE DEF x, y, z
<1>3. \A i \in 1..Len(a) : i \in 1..(Len(a) + Len(b)) /\ ab[i] = a[i]
  BY <1>1 DEF ab
<1>4. \A i \in 1..Len(b) : Len(a) + i \in 1..(Len(a) + Len(b)) /\ ab[Len(a) + i] = b[i]
  BY <1>1 DEF ab
<1>5. \A i \in 1..Len(y) : x[i] = y[i]
  BY <1>2, <1>3
<1>6. \A i \in 1..Len(z) : x[Len(y) + i] = z[i]
  BY <1>2, <1>4
<1>7. x = y \o z
  <2>1. x \in Seq(Text) /\ y \in Seq(Text) /\ z \in Seq(Text) /\ Len(x) = Len(y) + Len(z)
    BY <1>2
  <2> QED
    BY <1>5, <1>6, <2>1, IsConcat
<1>8. FlattenSeq(y \o z) = FlattenSeq(y) \o FlattenSeq(z)
  BY <1>2, FlattenConcat DEF Text
<1>9. FlattenSeq(Escaped(ab)) = FlattenSeq(Escaped(a)) \o FlattenSeq(Escaped(b))
  BY <1>7, <1>8 DEF x, y, z
<1> QED
  BY <1>9, Zenon DEF Escape, Escaped, ab

LEMMA QuotedType ==
  ASSUME NEW s \in Seq(STRING)
  PROVE  Quoted(s) \in Text /\ Escape(s) \in Text /\ <<"quote">> \in Text
<1>1. <<"quote">> \in Text
  BY LiteralTokens, TextToken
<1>2. Escape(s) \in Text
  BY EscapeType
<1> QED
  BY <1>1, <1>2, TextConcat DEF Quoted

\* The text of a field.
LEMMA RenderFieldType ==
  ASSUME NEW col \in Columns, NEW f \in Fields
  PROVE  RenderField(col, f) \in Text
<1>1. /\ f.data \in Seq(STRING) /\ f.data \in Text
      /\ col.type \in {"int", "float", "bool", "str"} /\ f.null \in BOOLEAN
  BY TextOfChars DEF Fields, Columns
<1>2. /\ <<"null">> \in Text /\ <<"quote", "quote">> \in Text /\ <<"true">> \in Text
      /\ <<"false">> \in Text /\ Quoted(f.data) \in Text
  <2>1. <<"quote", "quote">> \in Text
    BY LiteralTokens, PairType DEF Text
  <2> QED
    BY <1>1, <2>1, LiteralTokens, TextToken, QuotedType
<1>3. CASE f.null
  BY <1>2, <1>3 DEF RenderField
<1>4. CASE ~f.null /\ f.data = << >>
  BY <1>2, <1>4 DEF RenderField
<1>5. CASE ~f.null /\ f.data # << >> /\ col.type \in {"int", "float"}
  BY <1>1, <1>5 DEF RenderField
<1>6. CASE ~f.null /\ f.data # << >> /\ col.type = "bool"
  BY <1>2, <1>6 DEF RenderField
<1>7. CASE ~f.null /\ f.data # << >> /\ col.type = "str"
  BY <1>2, <1>7 DEF RenderField
<1> QED
  BY <1>1, <1>3, <1>4, <1>5, <1>6, <1>7

\* The values of row r, with their names where the format has them.
Named(t, r, k) == Quoted(t.cols[k].name) \o <<":">> \o RenderField(t.cols[k], t.rows[r][k])
Elements(t, r, c) ==
  [i \in DOMAIN t.cols |->
     IF c.format = "normal" THEN Named(t, r, i) ELSE RenderField(t.cols[i], t.rows[r][i])]

\* The elements of a row, each with its name in the normal format.
LEMMA ElementsType ==
  ASSUME NEW t \in ResultSets, NEW r \in 1..Len(t.rows), NEW c \in Locations
  PROVE  /\ Elements(t, r, c) \in Seq(Text) /\ Len(Elements(t, r, c)) = Len(t.cols)
         /\ \A k \in 1..Len(t.cols) :
              /\ Elements(t, r, c)[k] =
                   IF c.format = "normal" THEN Named(t, r, k)
                                          ELSE RenderField(t.cols[k], t.rows[r][k])
              /\ RenderField(t.cols[k], t.rows[r][k]) \in Text
              /\ Quoted(t.cols[k].name) \in Text
<1>1. \A k \in 1..Len(t.cols) : t.cols[k] \in Columns /\ t.rows[r][k] \in Fields
  BY ResultSetType
<1>2. \A k \in 1..Len(t.cols) : RenderField(t.cols[k], t.rows[r][k]) \in Text
  BY <1>1, RenderFieldType
<1>3. \A k \in 1..Len(t.cols) : Quoted(t.cols[k].name) \in Text
  BY <1>1, QuotedType DEF Columns
<1>4. <<":">> \in Text
  BY LiteralTokens, TextToken
<1>5. \A k \in 1..Len(t.cols) : Named(t, r, k) \in Text
  BY <1>2, <1>3, <1>4, TextConcat DEF Named
<1>6. Elements(t, r, c) \in [1..Len(t.cols) -> Text]
  BY <1>2, <1>5, ResultSetType DEF Elements
<1>7. Len(t.cols) \in Nat
  BY ResultSetType
<1>8. Elements(t, r, c) \in Seq(Text) /\ Len(Elements(t, r, c)) = Len(t.cols)
  BY <1>6, <1>7, MapType
<1>9. \A k \in 1..Len(t.cols) :
        Elements(t, r, c)[k] = IF c.format = "normal" THEN Named(t, r, k)
                               ELSE RenderField(t.cols[k], t.rows[r][k])
  BY ResultSetType DEF Elements
<1> QED
  BY <1>2, <1>3, <1>8, <1>9

Opening(c) == IF c.format = "normal" THEN <<"{">> ELSE <<"[">>
Ending(c)  == IF c.format = "normal" THEN <<"}">> ELSE <<"]">>
CloseObject(c) == IF c.root THEN <<"}">> ELSE << >>
Closes(c)  == IF c.root THEN <<"]", "}">> ELSE <<"]">>

LEMMA BracketsType ==
  ASSUME NEW c \in Locations
  PROVE  /\ Opening(c) \in Text /\ Ending(c) \in Text /\ CloseObject(c) \in Text
         /\ Closes(c) \in Text /\ Closes(c) = <<"]">> \o CloseObject(c)
<1>1. /\ <<"{">> \in Text /\ <<"}">> \in Text /\ <<"[">> \in Text /\ <<"]">> \in Text
      /\ <<"]", "}">> \in Text /\ << >> \in Text
  BY LiteralTokens, TextToken, PairType, TextEmpty DEF Text
<1>2. <<"]", "}">> = <<"]">> \o <<"}">>
  BY LiteralTokens, PairConcat
<1>3. <<"]">> = <<"]">> \o << >>
  BY <1>1, TextEmpty
<1> QED
  BY <1>1, <1>2, <1>3, Zenon DEF Opening, Ending, CloseObject, Closes

\* The text of a row.
Item(t, r, c) == Opening(c) \o (Commas(Elements(t, r, c)) \o Ending(c))

\* How many items come before the rows.
Offset(c) == IF c.format = "normal" THEN 0 ELSE 1

Items(t, c) ==
  IF c.format = "normal"
    THEN [i \in DOMAIN t.rows |-> RenderObject(t.cols, t.rows[i])]
    ELSE <<RenderNames(t.cols)>> \o [i \in DOMAIN t.rows |-> RenderArray(t.cols, t.rows[i])]

Names(t) == [i \in DOMAIN t.cols |-> Quoted(t.cols[i].name)]

LEMMA NamesType ==
  ASSUME NEW t \in ResultSets
  PROVE  /\ Names(t) \in Seq(Text) /\ Len(Names(t)) = Len(t.cols)
         /\ \A k \in 1..Len(t.cols) : Names(t)[k] = Quoted(t.cols[k].name)
         /\ RenderNames(t.cols) = <<"[">> \o Commas(Names(t)) \o <<"]">>
         /\ RenderNames(t.cols) \in Text
<1>1. \A k \in 1..Len(t.cols) : Quoted(t.cols[k].name) \in Text
  BY ResultSetType, QuotedType DEF Columns
<1>2. Names(t) \in [1..Len(t.cols) -> Text]
  BY <1>1, ResultSetType DEF Names
<1>3. Len(t.cols) \in Nat
  BY ResultSetType
<1>4. Names(t) \in Seq(Text) /\ Len(Names(t)) = Len(t.cols)
  BY <1>2, <1>3, MapType
<1>5. RenderNames(t.cols) = <<"[">> \o Commas(Names(t)) \o <<"]">>
  BY Zenon DEF RenderNames, Names
<1>6. <<"[">> \in Text /\ <<"]">> \in Text /\ Commas(Names(t)) \in Text
  BY <1>4, LiteralTokens, TextToken, CommasType
<1>7. RenderNames(t.cols) \in Text
  BY <1>5, <1>6, TextConcat
<1>8. \A k \in 1..Len(t.cols) : Names(t)[k] = Quoted(t.cols[k].name)
  BY ResultSetType DEF Names
<1> QED
  BY <1>4, <1>5, <1>7, <1>8

LEMMA ItemIsRendered ==
  ASSUME NEW t \in ResultSets, NEW r \in 1..Len(t.rows), NEW c \in Locations
  PROVE  /\ Item(t, r, c) \in Text
         /\ c.format = "normal" => RenderObject(t.cols, t.rows[r]) = Item(t, r, c)
         /\ c.format # "normal" => RenderArray(t.cols, t.rows[r]) = Item(t, r, c)
<1> DEFINE e == Commas(Elements(t, r, c))
<1>1. e \in Text /\ Opening(c) \in Text /\ Ending(c) \in Text
  BY ElementsType, CommasType, BracketsType
<1>2. CASE c.format = "normal"
  <2>1. Elements(t, r, c) = [i \in DOMAIN t.cols |->
                               Quoted(t.cols[i].name) \o <<":">>
                                 \o RenderField(t.cols[i], t.rows[r][i])]
    BY <1>2, Zenon DEF Elements, Named
  <2>2. RenderObject(t.cols, t.rows[r]) = (Opening(c) \o e) \o Ending(c)
    BY <1>2, <2>1, Zenon DEF RenderObject, Opening, Ending
  <2> QED
    BY <1>1, <1>2, <2>2, TextConcat, TextAssoc DEF Item
<1>3. CASE c.format # "normal"
  <2>1. Elements(t, r, c) = [i \in DOMAIN t.cols |-> RenderField(t.cols[i], t.rows[r][i])]
    BY <1>3, Zenon DEF Elements
  <2>2. RenderArray(t.cols, t.rows[r]) = (Opening(c) \o e) \o Ending(c)
    BY <1>3, <2>1, Zenon DEF RenderArray, Opening, Ending
  <2> QED
    BY <1>1, <1>3, <2>2, TextConcat, TextAssoc DEF Item
<1> QED
  BY <1>2, <1>3

\* The items of the list of rows.
LEMMA ItemsType ==
  ASSUME NEW t \in ResultSets, NEW c \in Locations
  PROVE  /\ Items(t, c) \in Seq(Text) /\ Len(Items(t, c)) = Len(t.rows) + Offset(c)
         /\ \A r \in 1..Len(t.rows) : Items(t, c)[r + Offset(c)] = Item(t, r, c)
         /\ c.format # "normal" => Items(t, c)[1] = RenderNames(t.cols)
<1>1. Len(t.rows) \in Nat /\ DOMAIN t.rows = 1..Len(t.rows)
  BY ResultSetType
<1>2. CASE c.format = "normal"
  <2> DEFINE o == [i \in DOMAIN t.rows |-> RenderObject(t.cols, t.rows[i])]
  <2>1. \A r \in 1..Len(t.rows) : RenderObject(t.cols, t.rows[r]) = Item(t, r, c)
                                    /\ Item(t, r, c) \in Text
    BY <1>2, ItemIsRendered
  <2>2. o \in [1..Len(t.rows) -> Text]
    BY <1>1, <2>1
  <2>3. o \in Seq(Text) /\ Len(o) = Len(t.rows)
    BY <1>1, <2>2, MapType
  <2>4. \A r \in 1..Len(t.rows) : o[r] = Item(t, r, c) /\ r + 0 = r
    BY <1>1, <2>1
  <2>5. Items(t, c) = o /\ Offset(c) = 0
    BY <1>2 DEF Items, Offset
  <2> HIDE DEF o
  <2> QED
    BY <1>1, <1>2, <2>3, <2>4, <2>5
<1>3. CASE c.format # "normal"
  <2> DEFINE o == [i \in DOMAIN t.rows |-> RenderArray(t.cols, t.rows[i])]
             n == <<RenderNames(t.cols)>>
  <2>1. \A r \in 1..Len(t.rows) : RenderArray(t.cols, t.rows[r]) = Item(t, r, c)
                                    /\ Item(t, r, c) \in Text
    BY <1>3, ItemIsRendered
  <2>2. o \in [1..Len(t.rows) -> Text]
    BY <1>1, <2>1
  <2>3. o \in Seq(Text) /\ Len(o) = Len(t.rows)
    BY <1>1, <2>2, MapType
  <2>4. \A r \in 1..Len(t.rows) : o[r] = Item(t, r, c)
    BY <1>1, <2>1
  <2>5. Items(t, c) = n \o o /\ Offset(c) = 1
    BY <1>3 DEF Items, Offset
  <2>6. n \in Seq(Text) /\ Len(n) = 1 /\ n[1] = RenderNames(t.cols)
    BY NamesType, SingletonType
  <2> HIDE DEF o, n
  <2>7. /\ n \o o \in Seq(Text) /\ Len(n \o o) = 1 + Len(t.rows)
        /\ (n \o o)[1] = n[1]
        /\ \A r \in 1..Len(t.rows) : (n \o o)[1 + r] = o[r]
    BY <1>1, <2>3, <2>6, ConcatProperties, SMTT(30)
  <2>8. 1 + Len(t.rows) = Len(t.rows) + 1 /\ \A r \in 1..Len(t.rows) : r + 1 = 1 + r
    BY <1>1
  <2>9. Items(t, c) \in Seq(Text) /\ Len(Items(t, c)) = Len(t.rows) + Offset(c)
    BY <2>5, <2>7, <2>8, Zenon
  <2>10. \A r \in 1..Len(t.rows) : Items(t, c)[r + Offset(c)] = Item(t, r, c)
    BY <2>4, <2>5, <2>7, <2>8, Zenon
  <2>11. Items(t, c)[1] = RenderNames(t.cols)
    BY <2>5, <2>6, <2>7, Zenon
  <2> QED
    BY <2>9, <2>10, <2>11, Zenon
<1> QED
  BY <1>2, <1>3

\* What is left of the text when r rows were written, or k values of row r.
RowsText(t, r, c) == After(Separated(Items(t, c)), r + Offset(c)) \o Closes(c)
FieldsText(t, r, k, c) ==
  After(Separated(Elements(t, r, c)), k) \o (Ending(c) \o RowsText(t, r, c))

\* What is left of the text is text.
LEMMA TextLeftType ==
  ASSUME NEW t \in ResultSets, NEW c \in Locations
  PROVE  /\ \A r \in Nat : RowsText(t, r, c) \in Text
         /\ \A r \in 1..Len(t.rows), k \in Nat : FieldsText(t, r, k, c) \in Text
<1>1. \A s \in Seq(Text), k \in Nat : After(s, k) \in Text
  BY AfterType DEF Text
<1>2. Offset(c) \in Nat
  BY DEF Offset
<1>3. Separated(Items(t, c)) \in Seq(Text)
  BY ItemsType, SeparatedType
<1>4. \A r \in Nat : RowsText(t, r, c) \in Text
  <2>1. \A r \in Nat : r + Offset(c) \in Nat
    BY <1>2
  <2> QED
    BY <1>1, <1>3, <2>1, BracketsType, TextConcat DEF RowsText
<1>5. ASSUME NEW r \in 1..Len(t.rows), NEW k \in Nat
      PROVE  FieldsText(t, r, k, c) \in Text
  <2>1. After(Separated(Elements(t, r, c)), k) \in Text
    BY <1>1, ElementsType, SeparatedType
  <2>2. r \in Nat
    BY ResultSetType
  <2>3. Ending(c) \o RowsText(t, r, c) \in Text
    BY <1>4, <2>2, BracketsType, TextConcat
  <2> QED
    BY <2>1, <2>3, TextConcat DEF FieldsText
<1> QED
  BY <1>4, <1>5

\* What comes before a value.
Ahead(t, r, k, c) ==
  IF c.format = "normal"
    THEN (IF k = 0 THEN IF r = 1 THEN <<"{">> ELSE <<",", "{">> ELSE <<",">>)
           \o Quoted(t.cols[k + 1].name) \o <<":">>
    ELSE IF k = 0 THEN <<",", "[">> ELSE <<",">>

\* A value of a row that has begun is written.
LEMMA NextValueText ==
  ASSUME NEW t \in ResultSets, NEW r \in 1..Len(t.rows), NEW c \in Locations,
         NEW k \in 0..(Len(t.cols) - 1)
  PROVE  FieldsText(t, r, k, c) = (IF k = 0 THEN << >> ELSE Comma)
                                   \o (Elements(t, r, c)[k + 1] \o FieldsText(t, r, k + 1, c))
<1> DEFINE s == Separated(Elements(t, r, c))
           e == Elements(t, r, c)[k + 1]
           rest == Ending(c) \o RowsText(t, r, c)
           sep == IF k = 0 THEN << >> ELSE Comma
           left == After(s, k + 1)
<1>1. k + 1 \in 1..Len(t.cols) /\ k + 1 \in Nat /\ (k + 1 = 1 <=> k = 0) /\ r \in Nat
  BY ResultSetType
<1>2. e \in Text
  BY <1>1, ElementsType, ElementOfSeq
<1>3. s \in Seq(Text) /\ Len(s) = Len(t.cols) /\ s[k + 1] = IF k + 1 = 1 THEN e ELSE Comma \o e
  <2>1. k + 1 \in DOMAIN Elements(t, r, c)
    BY <1>1, ElementsType, LenProperties
  <2>2. s[k + 1] = IF k + 1 = 1 THEN e ELSE Comma \o e
    BY <2>1 DEF Separated
  <2> QED
    BY <2>2, ElementsType, SeparatedType
<1>4. rest \in Text /\ left \in Text
  <2>1. rest \in Text
    BY <1>1, BracketsType, TextLeftType, TextConcat
  <2>2. left \in Text
    BY <1>1, <1>3, AfterType DEF Text
  <2> QED
    BY <2>1, <2>2
<1>5. sep \in Text /\ s[k + 1] = sep \o e
  BY <1>1, <1>2, <1>3, CommaType, TextEmpty
<1>6. After(s, k) = (sep \o e) \o left
  <2>1. After(s, k) = s[k + 1] \o After(s, k + 1)
    <3>1. s \in Seq(Seq(Tokens)) /\ k \in 0..(Len(s) - 1)
      BY <1>3 DEF Text
    <3> HIDE DEF s
    <3> QED
      BY <3>1, AfterNext
  <2> QED
    BY <1>5, <2>1
<1>7. /\ FieldsText(t, r, k, c) = After(s, k) \o rest
      /\ FieldsText(t, r, k + 1, c) = left \o rest
  BY DEF FieldsText
<1> HIDE DEF s, e, rest, sep, left
<1>8. ((sep \o e) \o left) \o rest = sep \o (e \o (left \o rest))
  <2>1. left \o rest \in Text /\ sep \o e \in Text
    BY <1>2, <1>4, <1>5, TextConcat
  <2>2. ((sep \o e) \o left) \o rest = (sep \o e) \o (left \o rest)
    BY <1>4, <2>1, TextAssoc, Zenon
  <2>3. (sep \o e) \o (left \o rest) = sep \o (e \o (left \o rest))
    BY <1>2, <1>5, <2>1, TextAssoc, Zenon
  <2> QED
    BY <2>2, <2>3
<1>9. FieldsText(t, r, k, c) = sep \o (e \o FieldsText(t, r, k + 1, c))
  BY <1>6, <1>7, <1>8
<1> QED
  BY <1>9 DEF sep, e

\* A row begins.
LEMMA NextRowText ==
  ASSUME NEW t \in ResultSets, NEW r \in 1..Len(t.rows), NEW c \in Locations
  PROVE  RowsText(t, r - 1, c) = (IF c.format = "normal" /\ r = 1 THEN << >> ELSE Comma)
                                   \o (Opening(c) \o FieldsText(t, r, 0, c))
<1> DEFINE s == Separated(Items(t, c))
           i == r + Offset(c)
           sep == IF c.format = "normal" /\ r = 1 THEN << >> ELSE Comma
           left == After(s, i)
           item == Item(t, r, c)
           closes == Closes(c)
           o == Opening(c)
           e == Commas(Elements(t, r, c))
           end == Ending(c)
<1>1. /\ r \in Nat /\ i \in Nat /\ i - 1 \in Nat
      /\ (r - 1) + Offset(c) = i - 1 /\ i \in 1..(Len(t.rows) + Offset(c))
      /\ i = 1 <=> c.format = "normal" /\ r = 1
  <2>1. \A n \in Nat : \A q \in 1..n : \A d \in {0, 1} :
          /\ q \in Nat /\ q + d \in Nat /\ (q + d) - 1 \in Nat
          /\ (q - 1) + d = (q + d) - 1 /\ q + d \in 1..(n + d)
          /\ q + d = 1 <=> d = 0 /\ q = 1
    OBVIOUS
  <2>2. Len(t.rows) \in Nat /\ Offset(c) \in {0, 1} /\ (Offset(c) = 0 <=> c.format = "normal")
    BY ResultSetType DEF Offset
  <2> QED
    BY <2>1, <2>2, ZenonT(60)
<1>2. item \in Text /\ item = o \o (e \o end) /\ Items(t, c)[i] = item
  BY ItemIsRendered, ItemsType DEF Item
<1>3. o \in Text /\ e \in Text /\ end \in Text /\ closes \in Text
  BY BracketsType, ElementsType, CommasType
<1>4. sep \in Text
  BY CommaType, TextEmpty
<1> HIDE DEF i
<1>5. s \in Seq(Text) /\ Len(s) = Len(t.rows) + Offset(c) /\ s[i] = sep \o item
  <2>1. i \in DOMAIN Items(t, c)
    BY <1>1, ItemsType, LenProperties
  <2>2. s[i] = IF i = 1 THEN item ELSE Comma \o item
    BY <1>2, <2>1 DEF Separated
  <2>3. s[i] = sep \o item
    BY <1>1, <1>2, <2>2, TextEmpty
  <2> QED
    BY <2>3, ItemsType, SeparatedType
<1>6. left \in Text
  BY <1>1, <1>5, AfterType DEF Text
<1>7. After(s, i - 1) = (sep \o item) \o left
  <2>1. s \in Seq(Seq(Tokens)) /\ i - 1 \in 0..(Len(s) - 1) /\ (i - 1) + 1 = i
    BY <1>1, <1>5 DEF Text
  <2>2. After(s, i - 1) = s[(i - 1) + 1] \o After(s, (i - 1) + 1)
    <3> HIDE DEF s
    <3> QED
      BY <2>1, AfterNext
  <2> QED
    BY <1>5, <2>1, <2>2
<1>8. RowsText(t, r - 1, c) = After(s, i - 1) \o closes /\ RowsText(t, r, c) = left \o closes
  BY <1>1 DEF RowsText, i
<1>9. FieldsText(t, r, 0, c) = e \o (end \o (left \o closes))
  <2>1. After(Separated(Elements(t, r, c)), 0) = FlattenSeq(Separated(Elements(t, r, c)))
    BY ElementsType, SeparatedType, AfterNone DEF Text
  <2> QED
    BY <1>8, <2>1, CommasSeparate, Zenon DEF FieldsText
<1> HIDE DEF s, sep, left, item, closes, o, e, end
<1>10. ((sep \o item) \o left) \o closes = sep \o (o \o (e \o (end \o (left \o closes))))
  <2>1. left \o closes \in Text
    BY <1>3, <1>6, TextConcat
  <2>2. sep \o item \in Text
    BY <1>2, <1>4, TextConcat
  <2>3. e \o end \in Text
    BY <1>3, TextConcat
  <2>4. ((sep \o item) \o left) \o closes = (sep \o item) \o (left \o closes)
    BY <1>3, <1>6, <2>2, TextAssoc, ZenonT(60)
  <2>5. (sep \o item) \o (left \o closes) = sep \o (item \o (left \o closes))
    BY <1>2, <1>4, <2>1, TextAssoc
  <2>6. (o \o (e \o end)) \o (left \o closes) = o \o ((e \o end) \o (left \o closes))
    BY <1>3, <2>1, <2>3, TextAssoc, ZenonT(60)
  <2>7. (e \o end) \o (left \o closes) = e \o (end \o (left \o closes))
    BY <1>3, <2>1, TextAssoc, ZenonT(60)
  <2> QED
    BY <1>2, <2>4, <2>5, <2>6, <2>7, Zenon
<1>11. RowsText(t, r - 1, c) = sep \o (o \o FieldsText(t, r, 0, c))
  BY <1>7, <1>8, <1>9, <1>10
<1> QED
  BY <1>11 DEF sep, o

\* A value is written, with what goes before it.
LEMMA ValueText ==
  ASSUME NEW t \in ResultSets, NEW r \in 1..Len(t.rows), NEW c \in Locations,
         NEW k \in 0..(Len(t.cols) - 1)
  PROVE  /\ (IF k = 0 THEN RowsText(t, r - 1, c) ELSE FieldsText(t, r, k, c))
              = Ahead(t, r, k, c) \o (RenderField(t.cols[k + 1], t.rows[r][k + 1])
                                        \o FieldsText(t, r, k + 1, c))
         /\ Ahead(t, r, k, c) \in Text
<1> DEFINE lead == IF k = 0 THEN (IF c.format = "normal" /\ r = 1 THEN << >> ELSE Comma) \o Opening(c)
                   ELSE Comma
           name == IF c.format = "normal" THEN Quoted(t.cols[k + 1].name) \o <<":">> ELSE << >>
           value == RenderField(t.cols[k + 1], t.rows[r][k + 1])
           rest == FieldsText(t, r, k + 1, c)
           e == Elements(t, r, c)[k + 1]
<1>1. k + 1 \in 1..Len(t.cols) /\ k + 1 \in Nat /\ r - 1 \in Nat /\ 0 \in 0..(Len(t.cols) - 1)
  BY ResultSetType
<1>2. /\ value \in Text /\ rest \in Text /\ Quoted(t.cols[k + 1].name) \in Text
      /\ e = IF c.format = "normal" THEN Named(t, r, k + 1) ELSE value
  BY <1>1, ElementsType, TextLeftType
<1>3. <<":">> \in Text /\ name \in Text
  <2>1. <<":">> \in Text
    BY LiteralTokens, TextToken
  <2> QED
    BY <1>2, <2>1, TextConcat, TextEmpty
<1>4. lead \in Text
  BY CommaType, BracketsType, TextConcat, TextEmpty, SMTT(30)
<1>5. e = name \o value
  BY <1>2, TextEmpty DEF Named
<1>6. (IF k = 0 THEN RowsText(t, r - 1, c) ELSE FieldsText(t, r, k, c)) = lead \o (e \o rest)
  <2>1. CASE k = 0
    <3> DEFINE sep == IF c.format = "normal" /\ r = 1 THEN << >> ELSE Comma
    <3>1. RowsText(t, r - 1, c) = sep \o (Opening(c) \o FieldsText(t, r, 0, c))
      BY NextRowText
    <3>2. FieldsText(t, r, 0, c) = << >> \o (e \o rest)
      <4>1. FieldsText(t, r, 0, c) = (IF 0 = 0 THEN << >> ELSE Comma)
                                       \o (Elements(t, r, c)[0 + 1] \o FieldsText(t, r, 0 + 1, c))
        BY <1>1, NextValueText
      <4> QED
        BY <2>1, <4>1
    <3>3. e \in Text /\ e \o rest \in Text /\ sep \in Text /\ Opening(c) \in Text
      BY <1>2, <1>3, <1>5, TextConcat, CommaType, TextEmpty, BracketsType, ZenonT(60)
    <3>4. << >> \o (e \o rest) = e \o rest
      BY <3>3, TextEmpty
    <3> HIDE DEF e, rest, sep
    <3>5. sep \o (Opening(c) \o (e \o rest)) = (sep \o Opening(c)) \o (e \o rest)
      BY <3>3, TextAssoc, Zenon
    <3> QED
      BY <2>1, <3>1, <3>2, <3>4, <3>5 DEF sep
  <2>2. CASE k # 0
    BY <2>2, NextValueText
  <2> QED
    BY <2>1, <2>2
<1>7. Ahead(t, r, k, c) = lead \o name
  <2>1. CASE c.format = "normal"
    <3>1. lead = IF k = 0 THEN IF r = 1 THEN <<"{">> ELSE <<",", "{">> ELSE <<",">>
      <4>1. <<",", "{">> = <<",">> \o <<"{">>
        BY LiteralTokens, PairConcat
      <4>2. << >> \o <<"{">> = <<"{">>
        BY LiteralTokens, TextToken, TextEmpty
      <4> QED
        BY <2>1, <4>1, <4>2, Zenon DEF Opening, Comma
    <3>2. Ahead(t, r, k, c) = (lead \o Quoted(t.cols[k + 1].name)) \o <<":">>
      BY <2>1, <3>1, Zenon DEF Ahead
    <3>3. (lead \o Quoted(t.cols[k + 1].name)) \o <<":">>
            = lead \o (Quoted(t.cols[k + 1].name) \o <<":">>)
      <4> HIDE DEF lead
      <4> QED
        BY <1>2, <1>3, <1>4, TextAssoc, SMTT(30)
    <3>4. name = Quoted(t.cols[k + 1].name) \o <<":">>
      BY <2>1
    <3> HIDE DEF lead, name
    <3> QED
      BY <3>2, <3>3, <3>4, Zenon
  <2>2. CASE c.format # "normal"
    <3>1. <<",", "[">> = <<",">> \o <<"[">>
      BY LiteralTokens, PairConcat
    <3>2. lead = Ahead(t, r, k, c)
      BY <2>2, <3>1, Zenon DEF Ahead, Opening, Comma
    <3> QED
      BY <1>4, <2>2, <3>2, TextEmpty
  <2> QED
    BY <2>1, <2>2
<1> HIDE DEF lead, name, value, rest, e
<1>8. lead \o (e \o rest) = (lead \o name) \o (value \o rest)
  <2>1. e \o rest = name \o (value \o rest)
    <3>1. (name \o value) \o rest = name \o (value \o rest)
      BY <1>2, <1>3, TextAssoc, ZenonT(60)
    <3> QED
      BY <1>5, <3>1, Zenon
  <2>2. value \o rest \in Text
    BY <1>2, TextConcat
  <2>3. lead \o (name \o (value \o rest)) = (lead \o name) \o (value \o rest)
    BY <1>3, <1>4, <2>2, TextAssoc, Zenon
  <2> QED
    BY <2>1, <2>3
<1>9. lead \o name \in Text
  BY <1>3, <1>4, TextConcat
<1> QED
  BY <1>6, <1>7, <1>8, <1>9 DEF value, rest

\* After the values of a row comes its end, after the rows the end of the
\* text.
LEMMA LastValueText ==
  ASSUME NEW t \in ResultSets, NEW r \in 1..Len(t.rows), NEW c \in Locations
  PROVE  FieldsText(t, r, Len(t.cols), c) = Ending(c) \o RowsText(t, r, c)
<1> DEFINE s == Separated(Elements(t, r, c))
<1>1. s \in Seq(Text) /\ Len(s) = Len(t.cols)
  BY ElementsType, SeparatedType
<1> HIDE DEF s
<1>2. After(s, Len(t.cols)) = << >>
  BY <1>1, AfterAll DEF Text
<1>3. Ending(c) \o RowsText(t, r, c) \in Text
  <2>1. r \in Nat
    BY ResultSetType
  <2> QED
    BY <2>1, BracketsType, TextLeftType, TextConcat
<1>4. << >> \o (Ending(c) \o RowsText(t, r, c)) = Ending(c) \o RowsText(t, r, c)
  BY <1>3, TextEmpty
<1>5. FieldsText(t, r, Len(t.cols), c) = After(s, Len(t.cols)) \o (Ending(c) \o RowsText(t, r, c))
  BY Zenon DEF FieldsText, s
<1> QED
  BY <1>2, <1>4, <1>5, Zenon

\* After the last row the list is closed.
LEMMA LastRowText ==
  ASSUME NEW t \in ResultSets, NEW c \in Locations
  PROVE  RowsText(t, Len(t.rows), c) = Closes(c)
<1> DEFINE s == Separated(Items(t, c))
<1>1. s \in Seq(Text) /\ Len(s) = Len(t.rows) + Offset(c)
  BY ItemsType, SeparatedType
<1> HIDE DEF s
<1>2. After(s, Len(s)) = << >>
  BY <1>1, AfterAll DEF Text
<1>3. RowsText(t, Len(t.rows), c) = << >> \o Closes(c)
  BY <1>1, <1>2, Zenon DEF RowsText, s
<1> QED
  BY <1>3, BracketsType, TextEmpty

\* The list of rows begins; in the compact format, with the column names.
LEMMA ListText ==
  ASSUME NEW t \in ResultSets, NEW c \in Locations
  PROVE  /\ RenderRows(t, c.format) \in Text
         /\ RenderRows(t, c.format) \o CloseObject(c)
              = <<"[">> \o (IF c.format = "normal" THEN RowsText(t, 0, c)
                                                   ELSE RenderNames(t.cols) \o RowsText(t, 0, c))
<1> DEFINE items == Items(t, c)
           s == Separated(items)
           open == <<"[">>
           shut == <<"]">>
           z == CloseObject(c)
           all == FlattenSeq(s)
<1>1. items \in Seq(Text) /\ s \in Seq(Text) /\ s \in Seq(Seq(Tokens))
  BY ItemsType, SeparatedType DEF Text
<1>2. open \in Text /\ shut \in Text
  BY LiteralTokens, TextToken
<1>3. z \in Text /\ Closes(c) = shut \o z
  BY BracketsType
<1>4. all \in Text
  BY <1>1, FlattenType DEF Text
<1>5. RenderRows(t, c.format) = (open \o all) \o shut
  <2>1. RenderRows(t, c.format) = (open \o Commas(items)) \o shut
    BY Zenon DEF RenderRows, Items
  <2> QED
    BY <2>1, CommasSeparate, Zenon
<1>6. all = (IF c.format = "normal" THEN << >> ELSE RenderNames(t.cols)) \o After(s, 0 + Offset(c))
  <2>1. CASE c.format = "normal"
    <3>1. After(s, 0) = all
      <4> HIDE DEF s
      <4> QED
        BY <1>1, AfterNone
    <3>2. 0 + Offset(c) = 0
      BY <2>1 DEF Offset
    <3>3. << >> \o all = all
      BY <1>4, TextEmpty
    <3> HIDE DEF s, all
    <3> QED
      BY <2>1, <3>1, <3>2, <3>3
  <2>2. CASE c.format # "normal"
    <3>1. Len(items) = Len(t.rows) + 1 /\ items[1] = RenderNames(t.cols)
      BY <2>2, ItemsType DEF Offset
    <3>2. Len(s) = Len(items) /\ s[1] = items[1]
      <4>1. 1 \in DOMAIN items
        BY <1>1, <3>1, ResultSetType, LenProperties
      <4> QED
        BY <1>1, <4>1, SeparatedType DEF Separated
    <3>3. 0 \in 0..(Len(s) - 1)
      BY <3>1, <3>2, ResultSetType
    <3> HIDE DEF items, s
    <3>4. After(s, 0) = s[0 + 1] \o After(s, 0 + 1) /\ After(s, 0) = FlattenSeq(s)
      BY <1>1, <3>3, AfterNext, AfterNone
    <3>5. 0 + Offset(c) = 1 /\ 0 + 1 = 1
      BY <2>2 DEF Offset
    <3> QED
      BY <2>2, <3>1, <3>2, <3>4, <3>5
  <2> QED
    BY <2>1, <2>2
<1>7. RowsText(t, 0, c) = After(s, 0 + Offset(c)) \o (shut \o z)
  BY <1>3, Zenon DEF RowsText
<1> DEFINE names == RenderNames(t.cols)
           rows == After(s, 0 + Offset(c))
<1>8. names \in Text /\ rows \in Text
  <2>1. 0 + Offset(c) \in Nat
    BY DEF Offset
  <2>2. rows \in Text
    <3> HIDE DEF s
    <3> QED
      BY <1>1, <2>1, AfterType DEF Text
  <2> QED
    BY <2>2, NamesType
<1> HIDE DEF items, s, open, shut, z, all, names, rows
<1>9. shut \o z \in Text
  BY <1>2, <1>3, TextConcat
<1>10. ((open \o all) \o shut) \o z = open \o (all \o (shut \o z))
  <2>1. open \o all \in Text
    BY <1>2, <1>4, TextConcat
  <2>2. ((open \o all) \o shut) \o z = (open \o all) \o (shut \o z)
    BY <1>2, <1>3, <2>1, TextAssoc
  <2>3. (open \o all) \o (shut \o z) = open \o (all \o (shut \o z))
    BY <1>2, <1>4, <1>9, TextAssoc
  <2> QED
    BY <2>2, <2>3, Zenon
<1>11. RenderRows(t, c.format) \in Text
  BY <1>2, <1>4, <1>5, TextConcat
<1>12. RenderRows(t, c.format) \o z = open \o (all \o (shut \o z))
  BY <1>5, <1>10, Zenon
<1>13. CASE c.format = "normal"
  <2>1. all = rows
    BY <1>6, <1>8, <1>13, TextEmpty DEF rows
  <2> QED
    BY <1>7, <1>11, <1>12, <1>13, <2>1, Zenon DEF open, z, rows
<1>14. CASE c.format # "normal"
  <2>1. all = names \o rows
    BY <1>6, <1>14 DEF names, rows
  <2>2. (names \o rows) \o (shut \o z) = names \o (rows \o (shut \o z))
    BY <1>8, <1>9, TextAssoc
  <2> QED
    BY <1>7, <1>11, <1>12, <1>14, <2>1, <2>2, Zenon DEF open, z, rows, names
<1> QED
  BY <1>13, <1>14

\* The column names, each with a comma but the last.
LEMMA NamesText ==
  ASSUME NEW t \in ResultSets, t.cols # << >>
  PROVE  FlattenSeq([i \in DOMAIN t.cols |->
                       Quoted(t.cols[i].name) \o IF i # Len(t.cols) THEN <<",">> ELSE << >>])
           = Commas(Names(t))
<1> DEFINE x == [i \in DOMAIN t.cols |->
                   Quoted(t.cols[i].name) \o IF i # Len(t.cols) THEN <<",">> ELSE << >>]
           n == Len(t.cols)
<1>1. /\ n \in Nat /\ DOMAIN t.cols = 1..n /\ Names(t) \in Seq(Text) /\ Len(Names(t)) = n
      /\ \A i \in 1..n : Names(t)[i] = Quoted(t.cols[i].name) /\ Quoted(t.cols[i].name) \in Text
  <2>1. \A i \in 1..n : Quoted(t.cols[i].name) \in Text
    BY ResultSetType, QuotedType DEF Columns
  <2> QED
    BY <2>1, ResultSetType, NamesType
<1>2. n # 0
  BY ResultSetType, EmptySeq
<1>3. Names(t) # << >>
  BY <1>1, <1>2, EmptySeq
<1>4. PICK a \in Seq(Text), y \in Text : Names(t) = a \o <<y>> /\ Len(a) = n - 1
  <2>1. Names(t) \in Seq(Text) /\ Len(Names(t)) = n
    BY <1>1
  <2>2. \E a \in Seq(Text), y \in Text : Names(t) = a \o <<y>> /\ Len(a) = Len(Names(t)) - 1
    BY <1>3, <2>1, FrontAndLast
  <2> HIDE DEF n
  <2> QED
    BY <2>1, <2>2
<1>5. /\ \A i \in 1..(n - 1) : Names(t)[i] = a[i]
      /\ Names(t)[n] = y
      /\ <<y>> \in Seq(Text) /\ Len(<<y>>) = 1 /\ <<y>>[1] = y
  <2>1. <<y>> \in Seq(Text) /\ Len(<<y>>) = 1 /\ <<y>>[1] = y
    BY SingletonType
  <2>2. /\ \A i \in 1..Len(a) : (a \o <<y>>)[i] = a[i]
        /\ \A i \in 1..Len(<<y>>) : (a \o <<y>>)[Len(a) + i] = <<y>>[i]
    BY <2>1, ConcatProperties
  <2>3. (n - 1) + 1 = n /\ 1 \in 1..1
    BY <1>1
  <2> QED
    BY <1>4, <2>1, <2>2, <2>3
<1>6. \A i \in 1..n : x[i] = Names(t)[i] \o IF i # n THEN Comma ELSE << >>
  BY <1>1, Zenon DEF Comma
<1>7. \A i \in 1..n : Names(t)[i] \in Text /\ Names(t)[i] \o Comma \in Text
                        /\ Names(t)[i] \o << >> = Names(t)[i]
  BY <1>1, CommaType, TextConcat, TextEmpty
<1>8. x \in Seq(Text) /\ Len(x) = n
  <2>1. \A i \in 1..n : x[i] \in Text
    BY <1>6, <1>7
  <2>2. x \in [1..n -> Text]
    BY <1>1, <2>1
  <2> HIDE DEF x, n
  <2> QED
    BY <1>1, <2>2, MapType
<1> HIDE DEF x, n
<1>9. /\ Followed(a) \in Seq(Text) /\ Len(Followed(a)) = n - 1
      /\ \A i \in 1..(n - 1) : Followed(a)[i] = a[i] \o Comma
  <2>1. Followed(a) \in Seq(Text) /\ Len(Followed(a)) = n - 1
    BY <1>4, SeparatedType
  <2>2. DOMAIN a = 1..(n - 1)
    BY <1>4, LenProperties
  <2>3. \A i \in 1..(n - 1) : Followed(a)[i] = a[i] \o Comma
    BY <2>2, Zenon DEF Followed
  <2> QED
    BY <2>1, <2>3
<1>10. x = Followed(a) \o <<y>>
  <2>1. \A i \in 1..(n - 1) : i \in 1..n /\ i # n
    BY <1>1
  <2>2. \A i \in 1..(n - 1) : x[i] = Followed(a)[i]
    BY <1>5, <1>6, <1>9, <2>1
  <2>3. n \in 1..n /\ (n - 1) + 1 = n /\ \A i \in 1..1 : i = 1
    BY <1>1, <1>2
  <2>4. x[n] = y
    BY <1>5, <1>6, <1>7, <2>3
  <2> DEFINE f == Followed(a)
             o == <<y>>
  <2>5. f \in Seq(Text) /\ Len(f) = n - 1 /\ o \in Seq(Text) /\ Len(o) = 1 /\ o[1] = y
    BY <1>5, <1>9
  <2>6. \A i \in 1..(n - 1) : x[i] = f[i]
    BY <2>2
  <2> HIDE DEF f, o
  <2>7. /\ Len(x) = Len(f) + Len(o)
        /\ \A i \in 1..Len(f) : x[i] = f[i]
        /\ \A i \in 1..Len(o) : x[Len(f) + i] = o[i]
    BY <1>1, <1>8, <2>3, <2>4, <2>5, <2>6
  <2>8. x = f \o o
    BY <1>8, <2>5, <2>7, IsConcat
  <2> QED
    BY <2>8 DEF f, o
<1>11. FlattenSeq(x) = FlattenSeq(Followed(a)) \o FlattenSeq(<<y>>) /\ FlattenSeq(<<y>>) = y
  <2>1. Followed(a) \in Seq(Seq(Tokens)) /\ <<y>> \in Seq(Seq(Tokens)) /\ y \in Seq(Tokens)
    BY <1>5, <1>9 DEF Text
  <2>2. FlattenSeq(Followed(a) \o <<y>>) = FlattenSeq(Followed(a)) \o FlattenSeq(<<y>>)
    BY <2>1, FlattenConcat
  <2>3. FlattenSeq(<<y>>) = y
    BY <2>1, FlattenOne
  <2> QED
    BY <1>10, <2>2, <2>3
<1>12. Commas(Names(t)) = Behind(a) \o y
  <2>1. <<y>> # << >>
    OBVIOUS
  <2>2. Commas(a \o <<y>>) = Behind(a) \o Commas(<<y>>)
    BY <1>5, <2>1, CommasJoin
  <2>3. Commas(<<y>>) = y
    BY BeforeOne
  <2> QED
    BY <1>4, <2>2, <2>3
<1>13. FlattenSeq(x) = Commas(Names(t))
  BY <1>11, <1>12, Zenon DEF Behind
<1> QED
  BY <1>13, Zenon DEF x, n

\* The members that are added to the outer object, each with a comma.
SuccessText(ok, c) ==
  IF c.success THEN <<"success", ":", IF ok THEN "true" ELSE "false", ",">> ELSE << >>

PropsText(c) ==
  FlattenSeq([i \in DOMAIN c.user_props |->
                <<c.user_props[i].key, ":">> \o Quoted(c.user_props[i].value) \o <<",">>])

\* A member of an object.
LEMMA MemberType ==
  ASSUME NEW key \in Tokens, NEW value \in Text
  PROVE  Member(key, value) \in Text /\ Member(key, value) = <<key, ":">> \o value
<1>1. <<key, ":">> \in Text
  BY LiteralTokens, PairType DEF Text
<1> QED
  BY <1>1, TextConcat DEF Member

\* The added members, each with a comma after it.
LEMMA AddedText ==
  ASSUME NEW c \in Locations, NEW ok \in BOOLEAN
  PROVE  /\ AddedMembers(ok, c) \in Seq(Text)
         /\ Behind(AddedMembers(ok, c)) = SuccessText(ok, c) \o PropsText(c)
         /\ SuccessText(ok, c) \in Text /\ PropsText(c) \in Text
<1> DEFINE v == IF ok THEN "true" ELSE "false"
           a == Optional(c.success, Member("success", <<v>>))
           b == [i \in DOMAIN c.user_props |->
                   Member(c.user_props[i].key, Quoted(c.user_props[i].value))]
           n == Len(c.user_props)
<1>1. /\ n \in Nat /\ DOMAIN c.user_props = 1..n
      /\ \A i \in 1..n : c.user_props[i].key \in STRING /\ c.user_props[i].value \in Seq(STRING)
  <2>1. c.user_props \in Seq([key : STRING, value : Seq(STRING)])
    BY DEF Locations
  <2>2. n \in Nat /\ DOMAIN c.user_props = 1..n
    BY <2>1, LenProperties
  <2>3. \A i \in 1..n : c.user_props[i] \in [key : STRING, value : Seq(STRING)]
    BY <2>1, ElementOfSeq
  <2> QED
    BY <2>2, <2>3
<1>2. v \in Tokens /\ <<v>> \in Text
  BY LiteralTokens, TextToken
<1>3. Member("success", <<v>>) \in Text /\ Member("success", <<v>>) = <<"success", ":">> \o <<v>>
  BY <1>2, LiteralTokens, MemberType
<1>4. a \in Seq(Text)
  <2>1. <<Member("success", <<v>>)>> \in Seq(Text) /\ << >> \in Seq(Text)
    BY <1>3, SingletonType, EmptySeq
  <2> QED
    BY <2>1 DEF Optional
<1>5. \A i \in 1..n : /\ Quoted(c.user_props[i].value) \in Text
                      /\ c.user_props[i].key \in Tokens
                      /\ <<c.user_props[i].key, ":">> \in Text
                      /\ Member(c.user_props[i].key, Quoted(c.user_props[i].value)) \in Text
  <2>1. \A i \in 1..n : Quoted(c.user_props[i].value) \in Text /\ c.user_props[i].key \in Tokens
    BY <1>1, QuotedType DEF Tokens
  <2>2. \A i \in 1..n : <<c.user_props[i].key, ":">> \in Text
    BY <2>1, LiteralTokens, PairType DEF Text
  <2> QED
    BY <2>1, <2>2, MemberType
<1>6. b \in Seq(Text) /\ Len(b) = n
  <2>1. b \in [1..n -> Text]
    BY <1>1, <1>5
  <2> HIDE DEF b, n
  <2> QED
    BY <1>1, <2>1, MapType
<1>7. AddedMembers(ok, c) = a \o b
  BY Zenon DEF AddedMembers
<1>8. Behind(a) = SuccessText(ok, c) /\ SuccessText(ok, c) \in Text
  <2>1. CASE c.success
    <3>1. a = <<Member("success", <<v>>)>>
      BY <2>1 DEF Optional
    <3>2. Behind(a) = Member("success", <<v>>) \o Comma
      BY <1>3, <3>1, BeforeOne
    <3>3. SuccessText(ok, c) = (<<"success", ":">> \o <<v>>) \o Comma
      <4>1. SuccessText(ok, c) = <<"success", ":", v, ",">>
        BY <2>1 DEF SuccessText
      <4>2. <<"success", ":", v, ",">> = (<<"success", ":">> \o <<v>>) \o <<",">>
        <5>1. "success" \in Tokens /\ ":" \in Tokens /\ "," \in Tokens /\ v \in Tokens
          BY <1>2, LiteralTokens
        <5>2. \A w \in Tokens, x, y, z \in Tokens :
                <<w, x, y, z>> = (<<w, x>> \o <<y>>) \o <<z>>
          BY FourConcat
        <5> HIDE DEF v
        <5> QED
          BY <5>1, <5>2, ZenonT(60)
      <4> QED
        BY <4>1, <4>2 DEF Comma
    <3>4. Member("success", <<v>>) \o Comma \in Text
      BY <1>3, CommaType, TextConcat
    <3> QED
      BY <1>3, <3>2, <3>3, <3>4, Zenon
  <2>2. CASE ~c.success
    BY <2>2, BeforeEmpty, TextEmpty DEF SuccessText, Optional
  <2> QED
    BY <2>1, <2>2
<1>9. Behind(b) = PropsText(c) /\ PropsText(c) \in Text
  <2> DEFINE x == [i \in DOMAIN c.user_props |->
                     <<c.user_props[i].key, ":">> \o Quoted(c.user_props[i].value) \o <<",">>]
  <2>1. \A i \in 1..n : b[i] \o Comma = <<c.user_props[i].key, ":">>
                                          \o Quoted(c.user_props[i].value) \o <<",">>
    BY <1>1, Zenon DEF Member, Comma
  <2>2. Followed(b) = x
    <3>1. DOMAIN b = 1..n
      BY <1>1
    <3>2. Followed(b) = [i \in 1..n |-> b[i] \o Comma]
      BY <3>1, Zenon DEF Followed
    <3>3. x = [i \in 1..n |-> <<c.user_props[i].key, ":">>
                                \o Quoted(c.user_props[i].value) \o <<",">>]
      BY <1>1, Zenon
    <3> QED
      BY <2>1, <3>2, <3>3
  <2>3. PropsText(c) = FlattenSeq(x)
    BY Zenon DEF PropsText
  <2>4. Behind(b) = PropsText(c)
    BY <2>2, <2>3, Zenon DEF Behind
  <2> QED
    BY <1>6, <2>4, BeforeType
<1> HIDE DEF a, b
<1>10. Behind(a \o b) = Behind(a) \o Behind(b)
  BY <1>4, <1>6, BeforeConcat
<1>11. a \o b \in Seq(Text)
  BY <1>4, <1>6, ConcatProperties
<1> QED
  BY <1>7, <1>8, <1>9, <1>10, <1>11, Zenon

\* Short tuples put together, as the members of an object are.
LEMMA ThreeConcat ==
  ASSUME NEW S, NEW a \in S, NEW b \in S, NEW c \in S
  PROVE  <<a, b, c>> = <<a>> \o <<b, c>> /\ <<a, b, c>> = <<a, b>> \o <<c>>
<1> DEFINE x == <<a, b, c>>
           y == <<a, b>>
           z == <<c>>
           u == <<a>>
           v == <<b, c>>
<1>1. x \in Seq(S) /\ Len(x) = 3 /\ x[1] = a /\ x[2] = b /\ x[3] = c
  OBVIOUS
<1>2. y \in Seq(S) /\ Len(y) = 2 /\ y[1] = a /\ y[2] = b
  BY PairType
<1>3. z \in Seq(S) /\ Len(z) = 1 /\ z[1] = c
  BY SingletonType
<1>4. u \in Seq(S) /\ Len(u) = 1 /\ u[1] = a
  BY SingletonType
<1>5. v \in Seq(S) /\ Len(v) = 2 /\ v[1] = b /\ v[2] = c
  BY PairType
<1> HIDE DEF x, y, z, u, v
<1>6. x = y \o z
  <2>1. /\ Len(x) = Len(y) + Len(z)
        /\ \A i \in 1..Len(y) : x[i] = y[i]
        /\ \A i \in 1..Len(z) : x[Len(y) + i] = z[i]
    BY <1>1, <1>2, <1>3
  <2> QED
    BY <1>1, <1>2, <1>3, <2>1, IsConcat
<1>7. x = u \o v
  <2>1. /\ Len(x) = Len(u) + Len(v)
        /\ \A i \in 1..Len(u) : x[i] = u[i]
        /\ \A i \in 1..Len(v) : x[Len(u) + i] = v[i]
    BY <1>1, <1>4, <1>5
  <2> QED
    BY <1>1, <1>4, <1>5, <2>1, IsConcat
<1> QED
  BY <1>6, <1>7 DEF x, y, z, u, v

\* The same for four tokens, in the grouping of a comma, a key and a value.
LEMMA CommaKeyValue ==
  ASSUME NEW S, NEW a \in S, NEW b \in S, NEW c \in S, NEW d \in S
  PROVE  <<a, b, c, d>> = <<a>> \o (<<b, c>> \o <<d>>)
<1>1. <<b, c, d>> = <<b, c>> \o <<d>>
  BY ThreeConcat, ZenonT(60)
<1> DEFINE x == <<a, b, c, d>>
           y == <<a>>
           z == <<b, c, d>>
<1>2. x \in Seq(S) /\ Len(x) = 4 /\ x[1] = a /\ x[2] = b /\ x[3] = c /\ x[4] = d
  OBVIOUS
<1>3. y \in Seq(S) /\ Len(y) = 1 /\ y[1] = a
  BY SingletonType
<1>4. z \in Seq(S) /\ Len(z) = 3 /\ z[1] = b /\ z[2] = c /\ z[3] = d
  OBVIOUS
<1> HIDE DEF x, y, z
<1>5. /\ Len(x) = Len(y) + Len(z)
      /\ \A i \in 1..Len(y) : x[i] = y[i]
      /\ \A i \in 1..Len(z) : x[Len(y) + i] = z[i]
  BY <1>2, <1>3, <1>4
<1>6. x = y \o z
  BY <1>2, <1>3, <1>4, <1>5, IsConcat
<1> QED
  BY <1>1, <1>6 DEF x, y, z

LEMMA NonEmptyConcatOf ==
  ASSUME NEW S, NEW x \in Seq(S), NEW y \in Seq(S), x # << >>
  PROVE  x \o y # << >>
<1>1. Len(x \o y) = Len(x) + Len(y) /\ Len(x) \in Nat /\ Len(y) \in Nat /\ Len(x) # 0
  BY ConcatProperties, LenProperties, EmptySeq
<1> QED
  BY <1>1, EmptySeq

\* What precedes the rows in the outer object.
PropertiesText(c) == <<"{">> \o SuccessText(TRUE, c) \o PropsText(c) \o <<"root", ":">>

\* A result set with columns is rendered as its list of rows, in an outer
\* object if there is one.
LEMMA RowsRendered ==
  ASSUME NEW t \in ResultSets, NEW c \in Locations, t.cols # << >>
  PROVE  /\ PropertiesText(c) \in Text
         /\ ~c.root => Render(t, c) = RenderRows(t, c.format) \o CloseObject(c)
         /\ c.root => Render(t, c) = PropertiesText(c) \o (RenderRows(t, c.format) \o CloseObject(c))
<1> DEFINE o == <<"{">>
           z == <<"}">>
           r == <<"root", ":">>
           s == SuccessText(TRUE, c)
           p == PropsText(c)
           x == RenderRows(t, c.format)
           am == AddedMembers(TRUE, c)
           m == Member("root", x)
<1>1. /\ am \in Seq(Text) /\ Behind(am) = s \o p
      /\ s \in Text /\ p \in Text
  BY AddedText
<1>2. x \in Text
  BY ListText
<1>3. m \in Text /\ m = r \o x
  BY <1>2, LiteralTokens, MemberType
<1>4. o \in Text /\ z \in Text /\ r \in Text
  <2>1. r \in Text
    BY LiteralTokens, PairType DEF Text
  <2> QED
    BY <2>1, LiteralTokens, TextToken
<1>5. PropertiesText(c) = ((o \o s) \o p) \o r
  BY Zenon DEF PropertiesText
<1>6. ~c.root => Render(t, c) = RenderRows(t, c.format) \o CloseObject(c)
  <2>1. SUFFICES ASSUME ~c.root PROVE Render(t, c) = x \o CloseObject(c)
    OBVIOUS
  <2>2. Render(t, c) = x /\ CloseObject(c) = << >>
    BY <2>1 DEF Render, CloseObject
  <2> QED
    BY <1>2, <2>2, TextEmpty
<1>7. c.root => Render(t, c) = (o \o Commas(am \o <<m>>)) \o z /\ CloseObject(c) = z
  BY Zenon DEF Render, Object, CloseObject
<1> HIDE DEF o, z, r, s, p, x, am, m
<1>8. Commas(am \o <<m>>) = (s \o p) \o (r \o x)
  <2>1. <<m>> \in Seq(Text) /\ <<m>> # << >>
    BY <1>3, SingletonType
  <2>2. Commas(am \o <<m>>) = Behind(am) \o Commas(<<m>>)
    BY <1>1, <2>1, CommasJoin
  <2>3. Commas(<<m>>) = m
    BY <1>3, BeforeOne
  <2> QED
    BY <1>1, <1>3, <2>2, <2>3
<1>9. o \o s \in Text /\ (o \o s) \o p \in Text /\ s \o p \in Text /\ r \o x \in Text
      /\ ((o \o s) \o p) \o r \in Text
  <2>1. o \o s \in Text /\ s \o p \in Text /\ r \o x \in Text
    BY <1>1, <1>2, <1>4, TextConcat
  <2>2. (o \o s) \o p \in Text
    BY <1>1, <2>1, TextConcat
  <2>3. ((o \o s) \o p) \o r \in Text
    BY <1>4, <2>2, TextConcat
  <2> QED
    BY <2>1, <2>2, <2>3
<1>10. (o \o ((s \o p) \o (r \o x))) \o z = (((o \o s) \o p) \o r) \o (x \o z)
  <2>1. (o \o s) \o p = o \o (s \o p)
    BY <1>1, <1>4, TextAssoc, SMTT(30)
  <2>2. (o \o (s \o p)) \o (r \o x) = o \o ((s \o p) \o (r \o x))
    BY <1>4, <1>9, TextAssoc, SMTT(30)
  <2> DEFINE q == (o \o s) \o p
             front == q \o r
  <2>3. q \in Text /\ front \in Text
    BY <1>9
  <2> HIDE DEF q
  <2>4. (q \o r) \o x = q \o (r \o x)
    BY <1>2, <1>4, <2>3, TextAssoc, SMTT(30)
  <2> HIDE DEF front
  <2>5. (front \o x) \o z = front \o (x \o z)
    BY <1>2, <1>4, <2>3, TextAssoc, ZenonT(60)
  <2> QED
    BY <2>1, <2>2, <2>4, <2>5, Zenon DEF q, front
<1>11. c.root => Render(t, c) = PropertiesText(c) \o (RenderRows(t, c.format) \o CloseObject(c))
  BY <1>5, <1>7, <1>8, <1>10, Zenon DEF x
<1>12. PropertiesText(c) \in Text
  BY <1>5, <1>9, Zenon
<1> QED
  BY <1>6, <1>11, <1>12

\* The object for a result without columns, as output_header writes it.
NumberText(key, n) == IF n = "0" THEN << >> ELSE <<",", key, ":", n>>

HeaderText(header, c) ==
  <<"{">>
    \o SuccessText(header.std_errcode = "0", c)
    \o PropsText(c)
    \o <<"errcode", ":", header.std_errcode>>
    \o (IF header.errstr = << >> THEN << >>
        ELSE <<",", "errstr", ":">> \o Quoted(header.errstr))
    \o NumberText("insert_id", header.insert_id)
    \o NumberText("affected_rows", header.affected_rows)
    \o <<"}">>

\* A number that is left out when it is zero.
LEMMA NumberMember ==
  ASSUME NEW key \in Tokens, NEW n \in STRING
  PROVE  LET o == Optional(n # "0", Member(key, <<n>>))
         IN o \in Seq(Text) /\ Before(o) = NumberText(key, n) /\ NumberText(key, n) \in Text
<1> DEFINE m == Member(key, <<n>>)
           o == Optional(n # "0", m)
<1>1. n \in Tokens /\ <<n>> \in Text
  BY TextToken DEF Tokens
<1>2. m \in Text /\ m = <<key, ":">> \o <<n>>
  BY <1>1, MemberType
<1>3. <<m>> \in Seq(Text) /\ << >> \in Seq(Text)
  BY <1>2, SingletonType, EmptySeq
<1>4. o \in Seq(Text)
  BY <1>3 DEF Optional
<1>5. CASE n = "0"
  BY <1>4, <1>5, BeforeEmpty, TextEmpty DEF Optional, NumberText
<1>6. CASE n # "0"
  <2>1. o = <<m>> /\ NumberText(key, n) = <<",", key, ":", n>>
    BY <1>6 DEF Optional, NumberText
  <2>2. Before(o) = Comma \o m
    BY <1>2, <2>1, BeforeOne
  <2>3. "," \in Tokens /\ ":" \in Tokens /\ key \in Tokens /\ n \in Tokens
    BY <1>1, LiteralTokens
  <2>4. \A w, x, y, z \in Tokens : <<w, x, y, z>> = <<w>> \o (<<x, y>> \o <<z>>)
    BY CommaKeyValue
  <2>5. <<",", key, ":", n>> = <<",">> \o (<<key, ":">> \o <<n>>)
    BY <2>3, <2>4, ZenonT(60)
  <2>6. Comma \o m \in Text
    BY <1>2, CommaType, TextConcat
  <2>7. NumberText(key, n) = Comma \o m
    BY <1>2, <2>1, <2>5, Zenon DEF Comma
  <2> HIDE DEF o, m
  <2> QED
    BY <1>4, <2>2, <2>6, <2>7, Zenon DEF o, m
<1> QED
  BY <1>5, <1>6

\* A result set without columns is rendered as the object of its header.
LEMMA HeaderRendered ==
  ASSUME NEW t \in ResultSets, NEW c \in Locations, t.cols = << >>
  PROVE  /\ HeaderText(t.header, c) = Render(t, c) /\ HeaderText(t.header, c) \in Text
         /\ Render(t, c) # << >>
<1> DEFINE h == t.header
           o == <<"{">>
           z == <<"}">>
           ok == h.std_errcode = "0"
           am == AddedMembers(ok, c)
           a == SuccessText(ok, c) \o PropsText(c)
           m == Member("errcode", <<h.std_errcode>>)
           q == Quoted(h.errstr)
           e == Optional(h.errstr # << >>, Member("errstr", q))
           i == Optional(h.insert_id # "0", Member("insert_id", <<h.insert_id>>))
           n == Optional(h.affected_rows # "0", Member("affected_rows", <<h.affected_rows>>))
           et == IF h.errstr = << >> THEN << >> ELSE <<",", "errstr", ":">> \o q
           it == NumberText("insert_id", h.insert_id)
           nt == NumberText("affected_rows", h.affected_rows)
           s == SuccessText(ok, c)
           p == PropsText(c)
           mt == <<"errcode", ":", h.std_errcode>>
<1>1. /\ h.std_errcode \in STRING /\ h.errstr \in Seq(STRING)
      /\ h.insert_id \in STRING /\ h.affected_rows \in STRING
  <2>1. h \in Headers
    BY ResultSetType
  <2> QED
    BY <2>1 DEF Headers
<1>2. /\ am \in Seq(Text) /\ Behind(am) = s \o p
      /\ s \in Text /\ p \in Text
  <2>1. ok \in BOOLEAN
    OBVIOUS
  <2> HIDE DEF ok
  <2> QED
    BY <2>1, AddedText
<1>3. m = mt /\ m \in Text
  <2>1. h.std_errcode \in Tokens
    BY <1>1 DEF Tokens
  <2>2. <<h.std_errcode>> \in Text /\ "errcode" \in Tokens /\ ":" \in Tokens
    BY <2>1, TextToken, LiteralTokens
  <2>3. m \in Text /\ m = <<"errcode", ":">> \o <<h.std_errcode>>
    BY <2>2, MemberType
  <2>4. \A x, y, w \in Tokens : <<x, y, w>> = <<x, y>> \o <<w>>
    BY ThreeConcat, ZenonT(60)
  <2>5. mt = <<"errcode", ":">> \o <<h.std_errcode>>
    BY <2>1, <2>2, <2>4, Zenon
  <2> QED
    BY <2>3, <2>5, Zenon
<1>4. e \in Seq(Text) /\ Before(e) = et /\ et \in Text
  <2>1. q \in Text /\ "errstr" \in Tokens /\ ":" \in Tokens /\ "," \in Tokens
    BY <1>1, QuotedType, LiteralTokens
  <2> DEFINE k == Member("errstr", q)
  <2>2. k \in Text /\ k = <<"errstr", ":">> \o q
    BY <2>1, MemberType
  <2>3. <<k>> \in Seq(Text) /\ << >> \in Seq(Text)
    BY <2>2, SingletonType, EmptySeq
  <2>4. e \in Seq(Text)
    BY <2>3 DEF Optional
  <2>5. CASE h.errstr = << >>
    BY <2>4, <2>5, BeforeEmpty, TextEmpty DEF Optional
  <2>6. CASE h.errstr # << >>
    <3>1. e = <<k>> /\ et = <<",", "errstr", ":">> \o q
      BY <2>6 DEF Optional
    <3>2. Before(e) = Comma \o k
      BY <2>2, <3>1, BeforeOne
    <3>3. \A x, y, w \in Tokens : <<x, y, w>> = <<x>> \o <<y, w>>
      BY ThreeConcat
    <3>4. <<",", "errstr", ":">> = Comma \o <<"errstr", ":">>
      BY <2>1, <3>3, Zenon DEF Comma
    <3>5. <<"errstr", ":">> \in Text
      BY <2>1, PairType DEF Text
    <3>6. (Comma \o <<"errstr", ":">>) \o q = Comma \o (<<"errstr", ":">> \o q)
      <4> HIDE DEF q
      <4> QED
        BY <2>1, <3>5, CommaType, TextAssoc
    <3>7. et = Comma \o k
      BY <2>2, <3>1, <3>4, <3>6, Zenon
    <3>8. Comma \o k \in Text
      BY <2>2, CommaType, TextConcat
    <3> QED
      BY <2>4, <3>2, <3>7, <3>8, Zenon
  <2> QED
    BY <2>5, <2>6
<1>5. i \in Seq(Text) /\ Before(i) = it /\ it \in Text
  BY <1>1, LiteralTokens, NumberMember
<1>6. n \in Seq(Text) /\ Before(n) = nt /\ nt \in Text
  BY <1>1, LiteralTokens, NumberMember
<1>7. o \in Text /\ z \in Text
  BY LiteralTokens, TextToken
<1>8. Render(t, c) = (o \o Commas(am \o (((<<m>> \o e) \o i) \o n))) \o z
  BY Zenon DEF Render, Object, HeaderMembers
<1>9. HeaderText(h, c) = ((((((o \o s) \o p) \o mt) \o et) \o it) \o nt) \o z
  BY Zenon DEF HeaderText
<1> HIDE DEF h, o, z, am, a, m, q, e, i, n, et, it, nt, s, p, mt, ok
<1>10. Commas(am \o (((<<m>> \o e) \o i) \o n)) = (s \o p) \o (((m \o et) \o it) \o nt)
  <2> DEFINE x == <<m>> \o e
             y == x \o i
             w == y \o n
  <2>1. <<m>> \in Seq(Text) /\ <<m>> # << >> /\ Commas(<<m>>) = m
    BY <1>3, SingletonType, BeforeOne
  <2>2. x \in Seq(Text) /\ x # << >> /\ Commas(x) = m \o et
    BY <1>4, <2>1, BeforeConcat, ConcatProperties, NonEmptyConcatOf
  <2> HIDE DEF x
  <2>3. y \in Seq(Text) /\ y # << >> /\ Commas(y) = (m \o et) \o it
    BY <1>5, <2>2, BeforeConcat, ConcatProperties, NonEmptyConcatOf
  <2> HIDE DEF y
  <2>4. w \in Seq(Text) /\ w # << >> /\ Commas(w) = ((m \o et) \o it) \o nt
    BY <1>6, <2>3, BeforeConcat, ConcatProperties, NonEmptyConcatOf
  <2> HIDE DEF w
  <2>5. Commas(am \o w) = (s \o p) \o (((m \o et) \o it) \o nt)
    BY <1>2, <2>4, CommasJoin
  <2> QED
    BY <2>5 DEF w, y, x
<1>11. /\ o \o s \in Text /\ (o \o s) \o p \in Text /\ s \o p \in Text
       /\ m \o et \in Text /\ (m \o et) \o it \in Text /\ ((m \o et) \o it) \o nt \in Text
  <2>1. o \o s \in Text /\ s \o p \in Text /\ m \o et \in Text
    BY <1>2, <1>3, <1>4, <1>7, TextConcat
  <2>2. (o \o s) \o p \in Text /\ (m \o et) \o it \in Text
    BY <1>2, <1>5, <2>1, TextConcat
  <2>3. ((m \o et) \o it) \o nt \in Text
    BY <1>6, <2>2, TextConcat
  <2> QED
    BY <2>1, <2>2, <2>3
<1>12. o \o ((s \o p) \o (((m \o et) \o it) \o nt))
         = (((((o \o s) \o p) \o m) \o et) \o it) \o nt
  <2> DEFINE f == (o \o s) \o p
             u == m \o et
             v == u \o it
             w == v \o nt
             b == s \o p
  <2>1. f \in Text /\ u \in Text /\ v \in Text /\ w \in Text /\ b \in Text
    BY <1>11
  <2>2. f = o \o b
    BY <1>2, <1>7, TextAssoc
  <2> HIDE DEF f, b, w
  <2>3. o \o (b \o w) = f \o w
    <3>1. (o \o b) \o w = o \o (b \o w)
      BY <1>7, <2>1, TextAssoc, SMTT(30)
    <3> QED
      BY <2>2, <3>1, Zenon
  <2> USE DEF w
  <2> HIDE DEF v
  <2>4. f \o w = (f \o v) \o nt
    BY <1>6, <2>1, TextAssoc, SMTT(30)
  <2> USE DEF v
  <2> HIDE DEF u
  <2>5. f \o v = (f \o u) \o it
    <3>1. f \in Text /\ u \in Text /\ it \in Text
      BY <1>5, <2>1
    <3>2. f \o (u \o it) = (f \o u) \o it
      BY <3>1, TextAssoc, Zenon
    <3> QED
      BY <3>2
  <2> USE DEF u
  <2>6. f \o u = (f \o m) \o et
    <3>1. f \in Text /\ m \in Text /\ et \in Text
      BY <1>3, <1>4, <2>1
    <3>2. f \o (m \o et) = (f \o m) \o et
      BY <3>1, TextAssoc, Zenon
    <3> QED
      BY <3>2
  <2> QED
    BY <2>3, <2>4, <2>5, <2>6, Zenon DEF f, b
<1>13. HeaderText(h, c) = Render(t, c)
  BY <1>3, <1>8, <1>9, <1>10, <1>12, Zenon
<1>14. Render(t, c) \in Text /\ Render(t, c) # << >>
  <2> DEFINE x == (s \o p) \o (((m \o et) \o it) \o nt)
  <2>1. x \in Text
    BY <1>11, TextConcat
  <2> HIDE DEF x
  <2>2. o \o x \in Text
    BY <1>7, <2>1, TextConcat
  <2>3. (o \o x) \o z \in Text
    BY <1>7, <2>2, TextConcat
  <2>4. o # << >>
    BY DEF o
  <2>5. o \o x # << >>
    BY <1>7, <2>1, <2>4, NonEmptyConcatOf DEF Text
  <2>6. (o \o x) \o z # << >>
    BY <1>7, <2>2, <2>5, NonEmptyConcatOf DEF Text
  <2> QED
    BY <1>8, <1>10, <2>3, <2>6, Zenon DEF x
<1> QED
  BY <1>13, <1>14 DEF h

\* The beginning and the rest of a sequence.
LEMMA TakeType ==
  ASSUME NEW S, NEW s \in Seq(S), NEW n \in 0..Len(s)
  PROVE  /\ SubSeq(s, 1, n) \in Seq(S) /\ Len(SubSeq(s, 1, n)) = n
         /\ \A i \in 1..n : SubSeq(s, 1, n)[i] = s[i]
<1> DEFINE m == Len(s)
<1>1. m \in Nat /\ n \in Nat /\ n <= m
  BY LenProperties
<1>2. \A i \in 1..n : s[i] \in S
  BY <1>1, ElementOfSeq
<1> HIDE DEF m
<1> DEFINE d == SubSeq(s, 1, n)
<1>3. /\ d \in Seq(S) /\ Len(d) = IF 1 <= n THEN n - 1 + 1 ELSE 0
      /\ \A i \in 1..(n - 1 + 1) : d[i] = s[1 + i - 1]
  BY <1>1, <1>2, SubSeqProperties
<1> HIDE DEF d
<1>4. d \in Seq(S) /\ Len(d) = n
  BY <1>1, <1>3
<1>5. \A i \in 1..n : i \in 1..(n - 1 + 1) /\ 1 + i - 1 = i
  BY <1>1
<1> QED
  BY <1>3, <1>4, <1>5 DEF d

LEMMA TakeAndDrop ==
  ASSUME NEW S, NEW s \in Seq(S), NEW n \in 0..Len(s)
  PROVE  s = SubSeq(s, 1, n) \o Drop(s, n)
<1> DEFINE a == SubSeq(s, 1, n)
           b == Drop(s, n)
<1>1. a \in Seq(S) /\ Len(a) = n /\ \A i \in 1..n : a[i] = s[i]
  BY TakeType
<1>2. b \in Seq(S) /\ Len(b) = Len(s) - n /\ \A i \in 1..(Len(s) - n) : b[i] = s[n + i]
  BY DropType
<1>3. Len(s) \in Nat
  BY LenProperties
<1> HIDE DEF a, b
<1>4. /\ Len(s) = Len(a) + Len(b)
      /\ \A i \in 1..Len(a) : s[i] = a[i]
      /\ \A i \in 1..Len(b) : s[Len(a) + i] = b[i]
  BY <1>1, <1>2, <1>3
<1>5. s = a \o b
  BY <1>1, <1>2, <1>4, IsConcat
<1> QED
  BY <1>5 DEF a, b

LEMMA DropDrop ==
  ASSUME NEW S, NEW s \in Seq(S), NEW n \in 0..Len(s), NEW m \in 0..(Len(s) - n)
  PROVE  Drop(Drop(s, n), m) = Drop(s, n + m)
<1> DEFINE a == Drop(s, n)
           l == Len(s)
<1>1. l \in Nat /\ n \in Nat /\ m \in Nat /\ n <= l /\ m <= l - n
  BY LenProperties
<1>2. a \in Seq(S) /\ Len(a) = l - n /\ \A i \in 1..(l - n) : a[i] = s[n + i]
  BY DropType
<1> HIDE DEF a, l
<1>3. /\ Drop(a, m) \in Seq(S) /\ Len(Drop(a, m)) = (l - n) - m
      /\ \A i \in 1..((l - n) - m) : Drop(a, m)[i] = a[m + i]
  <2>1. m \in 0..Len(a)
    BY <1>1, <1>2
  <2>2. /\ Drop(a, m) \in Seq(S) /\ Len(Drop(a, m)) = Len(a) - m
        /\ \A i \in 1..(Len(a) - m) : Drop(a, m)[i] = a[m + i]
    BY <1>2, <2>1, DropType, ZenonT(60)
  <2> QED
    BY <1>2, <2>2
<1>4. /\ Drop(s, n + m) \in Seq(S) /\ Len(Drop(s, n + m)) = l - (n + m)
      /\ \A i \in 1..(l - (n + m)) : Drop(s, n + m)[i] = s[(n + m) + i]
  <2>1. n + m \in 0..Len(s)
    BY <1>1 DEF l
  <2> QED
    BY <2>1, DropType DEF l
<1>5. \A i \in 1..((l - n) - m) : /\ i \in 1..(l - (n + m)) /\ m + i \in 1..(l - n)
                                  /\ n + (m + i) = (n + m) + i
  BY <1>1
<1>6. \A i \in 1..((l - n) - m) : Drop(a, m)[i] = Drop(s, n + m)[i]
  BY <1>2, <1>3, <1>4, <1>5
<1>7. Len(Drop(a, m)) = Len(Drop(s, n + m)) /\ Len(Drop(a, m)) = (l - n) - m
  BY <1>1, <1>3, <1>4
<1> DEFINE x == Drop(a, m)
           y == Drop(s, n + m)
<1>8. x \in Seq(S) /\ y \in Seq(S) /\ Len(x) = Len(y) /\ \A i \in 1..Len(x) : x[i] = y[i]
  BY <1>3, <1>4, <1>6, <1>7
<1> HIDE DEF x, y
<1>9. x = y
  BY <1>8, SeqEqual
<1> QED
  BY <1>9 DEF x, y, a

LEMMA DropNone ==
  ASSUME NEW S, NEW s \in Seq(S)
  PROVE  Drop(s, 0) = s /\ Drop(s, Len(s)) = << >>
<1>1. SubSeq(s, 1, Len(s)) = s /\ Len(s) \in Nat
  BY SubSeqFull, LenProperties
<1>2. Drop(s, 0) = s
  BY <1>1 DEF Drop
<1>3. Len(Drop(s, Len(s))) = 0 /\ Drop(s, Len(s)) \in Seq(S)
  <2>1. Len(s) \in 0..Len(s) /\ Len(s) - Len(s) = 0
    BY <1>1
  <2> QED
    BY <2>1, DropType
<1> QED
  BY <1>2, <1>3, EmptySeq

\* Some characters of a field are read, and what follows them on the wire w.
LEMMA CharsRead ==
  ASSUME NEW data \in Seq(STRING), NEW w \in Wire, NEW n \in 0..Len(data)
  PROVE  /\ Drop(CharUnits(data) \o w, n) = CharUnits(Drop(data, n)) \o w
         /\ CharUnits(data) \o w \in Wire
         /\ \A i \in 1..Len(data) : (CharUnits(data) \o w)[i] = Unit("char", data[i])
         /\ Len(CharUnits(data) \o w) = Len(data) + Len(w)
<1> DEFINE u == CharUnits(data)
           d == Drop(data, n)
           v == CharUnits(d)
<1>1. /\ u \in Wire /\ Len(u) = Len(data)
      /\ \A i \in 1..Len(data) : u[i] = Unit("char", data[i])
  BY CharUnitsType
<1>2. /\ d \in Seq(STRING) /\ Len(d) = Len(data) - n
      /\ \A i \in 1..(Len(data) - n) : d[i] = data[n + i]
  BY DropType
<1>3. /\ v \in Wire /\ Len(v) = Len(d)
      /\ \A i \in 1..Len(d) : v[i] = Unit("char", d[i])
  <2> HIDE DEF d
  <2> QED
    BY <1>2, CharUnitsType
<1>4. Len(data) \in Nat
  BY LenProperties
<1> HIDE DEF u, d, v
<1>5. /\ Drop(u, n) \in Wire /\ Len(Drop(u, n)) = Len(data) - n
      /\ \A i \in 1..(Len(data) - n) : Drop(u, n)[i] = u[n + i]
  <2>1. u \in Seq(WireUnits) /\ n \in 0..Len(u)
    BY <1>1 DEF Wire
  <2> QED
    BY <1>1, <2>1, DropType DEF Wire
<1>6. \A i \in 1..(Len(data) - n) : n + i \in 1..Len(data)
  BY <1>4
<1>7. \A i \in 1..(Len(data) - n) : Drop(u, n)[i] = v[i]
  BY <1>1, <1>2, <1>3, <1>5, <1>6
<1>8. Drop(u, n) = v
  <2> DEFINE x == Drop(u, n)
  <2>1. x \in Seq(WireUnits) /\ v \in Seq(WireUnits) /\ Len(x) = Len(v)
        /\ \A i \in 1..Len(x) : x[i] = v[i]
    BY <1>2, <1>3, <1>5, <1>7 DEF Wire
  <2> HIDE DEF x
  <2>2. x = v
    BY <2>1, SeqEqual
  <2> QED
    BY <2>2 DEF x
<1>9. Drop(u \o w, n) = Drop(u, n) \o w
  BY <1>1, DropMore DEF Wire
<1>10. /\ u \o w \in Wire /\ Len(u \o w) = Len(data) + Len(w)
       /\ \A i \in 1..Len(data) : (u \o w)[i] = u[i]
  <2>1. u \in Seq(WireUnits) /\ w \in Seq(WireUnits)
    BY <1>1 DEF Wire
  <2>2. u \o w \in Seq(WireUnits) /\ Len(u \o w) = Len(u) + Len(w)
        /\ \A i \in 1..Len(u) : (u \o w)[i] = u[i]
    BY <2>1, ConcatProperties
  <2> QED
    BY <1>1, <2>2 DEF Wire
<1>11. \A i \in 1..Len(data) : (u \o w)[i] = Unit("char", data[i])
  BY <1>1, <1>10
<1> QED
  BY <1>8, <1>9, <1>10, <1>11, Zenon DEF u, v, d

-----------------------------------------------------------------------------
(* What a handler finds at the front of the wire, and what it leaves.      *)

LEMMA PairThen ==
  ASSUME NEW a \in WireUnits, NEW b \in WireUnits, NEW w \in Wire
  PROVE  LET x == <<a, b>> \o w
         IN /\ x \in Wire /\ Len(x) = 2 + Len(w) /\ Len(w) \in Nat
            /\ x[1] = a
            /\ \A i \in 1..Len(w) : x[2 + i] = w[i]
            /\ Drop(x, 2) = w
            /\ \A n \in 0..Len(w) : Drop(x, 2 + n) = Drop(w, n)
<1> DEFINE p == <<a, b>>
           x == p \o w
<1>1. p \in Wire /\ p \in Seq(WireUnits) /\ Len(p) = 2 /\ p[1] = a
  BY PairType DEF Wire
<1>2. w \in Seq(WireUnits) /\ Len(w) \in Nat
  BY LenProperties DEF Wire
<1> HIDE DEF p
<1>3. /\ x \in Seq(WireUnits) /\ Len(x) = 2 + Len(w)
      /\ \A i \in 1..2 : x[i] = p[i]
      /\ \A i \in 1..Len(w) : x[2 + i] = w[i]
  <2>1. p \in Seq(WireUnits) /\ w \in Seq(WireUnits)
    BY <1>1, <1>2
  <2>2. /\ x \in Seq(WireUnits) /\ Len(x) = Len(p) + Len(w)
        /\ \A i \in 1..Len(p) : x[i] = p[i]
        /\ \A i \in 1..Len(w) : x[Len(p) + i] = w[i]
    BY <2>1, ConcatProperties
  <2> HIDE DEF x
  <2> QED
    BY <1>1, <2>2
<1>4. Drop(x, 2) = w
  <2>1. Drop(p \o w, Len(p)) = w
    BY <1>1, <1>2, DropFront
  <2> QED
    BY <1>1, <2>1
<1> HIDE DEF x
<1>5. \A n \in 0..Len(w) : Drop(x, 2 + n) = Drop(w, n)
  <2>1. ASSUME NEW n \in 0..Len(w)
        PROVE  Drop(x, 2 + n) = Drop(w, n)
    <3>1. 2 \in 0..Len(x) /\ n \in 0..(Len(x) - 2)
      BY <1>2, <1>3
    <3>2. Drop(Drop(x, 2), n) = Drop(x, 2 + n)
      BY <1>3, <3>1, DropDrop
    <3> QED
      BY <1>4, <3>2
  <2> QED
    BY <2>1
<1>6. x[1] = a
  <2>1. 1 \in 1..2
    OBVIOUS
  <2> QED
    BY <1>1, <1>3, <2>1
<1> QED
  BY <1>2, <1>3, <1>4, <1>5, <1>6 DEF x, p, Wire

LEMMA OneThen ==
  ASSUME NEW a \in WireUnits, NEW w \in Wire
  PROVE  LET x == <<a>> \o w
         IN x \in Wire /\ Len(x) = 1 + Len(w) /\ Len(w) \in Nat /\ x[1] = a /\ Drop(x, 1) = w
<1> DEFINE p == <<a>>
           x == p \o w
<1>1. p \in Wire /\ p \in Seq(WireUnits) /\ Len(p) = 1 /\ p[1] = a
  BY SingletonType DEF Wire
<1>2. w \in Seq(WireUnits) /\ Len(w) \in Nat
  BY LenProperties DEF Wire
<1> HIDE DEF p
<1>3. /\ x \in Seq(WireUnits) /\ Len(x) = 1 + Len(w)
      /\ \A i \in 1..1 : x[i] = p[i]
  <2>1. p \in Seq(WireUnits) /\ w \in Seq(WireUnits)
    BY <1>1, <1>2
  <2>2. /\ x \in Seq(WireUnits) /\ Len(x) = Len(p) + Len(w)
        /\ \A i \in 1..Len(p) : x[i] = p[i]
        /\ \A i \in 1..Len(w) : x[Len(p) + i] = w[i]
    BY <2>1, ConcatProperties
  <2> HIDE DEF x
  <2> QED
    BY <1>1, <2>2
<1>4. Drop(p \o w, Len(p)) = w
  BY <1>1, <1>2, DropFront
<1>5. x[1] = a
  BY <1>1, <1>3
<1> QED
  BY <1>1, <1>2, <1>3, <1>4, <1>5 DEF x, p, Wire

\* What stands in front of the wire in each state, and what is left when it was
\* read: the header,
LEMMA HeaderInFront ==
  ASSUME NEW t \in ResultSets
  PROVE  /\ Encode(t) \in Wire /\ Len(Encode(t)) >= 2
         /\ Encode(t)[1] = Unit("header", t)
         /\ Drop(Encode(t), 2) = ColsLeft(t, 0)
<1>1. Unit("header", t) \in WireUnits /\ Unit("header_rest", 0) \in WireUnits
  BY UnitType DEF Kinds
<1>2. ColsLeft(t, 0) \in Wire
  BY LeftType
<1> DEFINE a == Unit("header", t)
           b == Unit("header_rest", 0)
           w == ColsLeft(t, 0)
<1>3. Encode(t) = <<a, b>> \o w
  BY HeaderRead
<1> HIDE DEF a, b, w
<1>4. LET x == <<a, b>> \o w
      IN x \in Wire /\ Len(x) = 2 + Len(w) /\ Len(w) \in Nat /\ x[1] = a /\ Drop(x, 2) = w
  BY <1>1, <1>2, PairThen DEF a, b, w
<1> QED
  BY <1>3, <1>4 DEF a, w

\* a column,
LEMMA ColumnInFront ==
  ASSUME NEW t \in ResultSets, NEW k \in 0..(Len(t.cols) - 1)
  PROVE  /\ ColsLeft(t, k) \in Wire
         /\ ColsLeft(t, k)[1] = Unit("col", t.cols[k + 1])
         /\ Drop(ColsLeft(t, k), 2) = ColsLeft(t, k + 1)
<1>1. k + 1 \in 1..Len(t.cols) /\ k \in Nat /\ k + 1 \in Nat
  BY ResultSetType
<1>2. t.cols[k + 1] \in Columns
  BY <1>1, ResultSetType
<1> DEFINE a == Unit("col", t.cols[k + 1])
           b == Unit("col_rest", 0)
           w == ColsLeft(t, k + 1)
<1>3. a \in WireUnits /\ b \in WireUnits
  BY <1>2, UnitType DEF Kinds
<1>4. w \in Wire
  BY <1>1, LeftType
<1>5. ColsLeft(t, k) = <<a, b>> \o w
  BY ColumnRead DEF EncodeColumn
<1> HIDE DEF a, b, w
<1>6. LET x == <<a, b>> \o w
      IN x \in Wire /\ x[1] = a /\ Drop(x, 2) = w
  BY <1>3, <1>4, PairThen
<1> QED
  BY <1>5, <1>6 DEF a, w

\* the flag of a row or the terminator,
LEMMA FlagInFront ==
  ASSUME NEW t \in ResultSets, NEW r \in 0..Len(t.rows), t.cols # << >>
  PROVE  /\ RowsLeft(t, r) \in Wire
         /\ r < Len(t.rows) => /\ RowsLeft(t, r)[1] = Unit("flag", 1)
                               /\ Drop(RowsLeft(t, r), 1) = FieldsLeft(t, r + 1, 0)
         /\ r = Len(t.rows) => RowsLeft(t, r)[1] = Unit("flag", 0)
<1>1. Unit("flag", 1) \in WireUnits /\ Unit("flag", 0) \in WireUnits
  BY UnitType DEF Kinds
<1>2. RowsLeft(t, r) \in Wire
  <2>1. r \in Nat
    BY ResultSetType
  <2> QED
    BY <2>1, LeftType
<1>3. CASE r < Len(t.rows)
  <2>1. r \in 0..(Len(t.rows) - 1) /\ r + 1 \in 1..Len(t.rows) /\ r # Len(t.rows)
    BY <1>3, ResultSetType
  <2> DEFINE a == Unit("flag", 1)
             w == FieldsLeft(t, r + 1, 0)
  <2>2. RowsLeft(t, r) = <<a>> \o w
    BY <2>1, FlagRead
  <2>3. w \in Wire
    BY <2>1, LeftType
  <2> HIDE DEF a, w
  <2>4. LET x == <<a>> \o w IN x[1] = a /\ Drop(x, 1) = w
    BY <1>1, <2>3, OneThen DEF a
  <2> QED
    BY <1>2, <2>1, <2>2, <2>4 DEF a, w
<1>4. CASE r = Len(t.rows)
  <2> DEFINE a == Unit("flag", 0)
             w == Constantly("junk", t.junk)
  <2>1. RowsLeft(t, r) = <<a>> \o w
    BY <1>4, FlagRead
  <2>2. w \in Wire
    BY ResultSetType, ConstantlyType DEF Kinds
  <2> HIDE DEF a, w
  <2>3. LET x == <<a>> \o w IN x[1] = a
    BY <1>1, <2>2, OneThen DEF a
  <2>4. ~(r < Len(t.rows))
    BY <1>4, ResultSetType
  <2> QED
    BY <1>2, <2>1, <2>3, <2>4 DEF a
<1> QED
  BY <1>3, <1>4, ResultSetType

\* A field: its size, then its characters.
LEMMA SizeInFront ==
  ASSUME NEW t \in ResultSets, NEW r \in 1..Len(t.rows), NEW k \in 0..(Len(t.cols) - 1)
  PROVE  LET f == t.rows[r][k + 1]
             u == FieldsLeft(t, r, k)
             w == FieldsLeft(t, r, k + 1)
         IN /\ f \in Fields /\ u \in Wire /\ w \in Wire /\ u[1].kind = "size"
            /\ f.null => u[1].value = NullSize /\ Drop(u, 2) = w
            /\ ~f.null => /\ u[1].value = Len(f.data)
                          /\ \A i \in 1..Len(f.data) : u[2 + i].value = f.data[i]
                          /\ \A n \in 0..Len(f.data) :
                               Drop(u, 2 + n) = CharUnits(Drop(f.data, n)) \o w
<1> DEFINE f == t.rows[r][k + 1]
           u == FieldsLeft(t, r, k)
           w == FieldsLeft(t, r, k + 1)
<1>1. k + 1 \in 1..Len(t.cols) /\ k \in Nat /\ k + 1 \in Nat
  BY ResultSetType
<1>2. f \in Fields
  BY <1>1, ResultSetType
<1>3. u \in Wire /\ w \in Wire
  BY <1>1, LeftType
<1>4. u = EncodeField(f) \o w
  BY FieldRead
<1> DEFINE b == Unit("size_rest", 0)
<1>5. b \in WireUnits
  BY UnitType DEF Kinds
<1> HIDE DEF f, u, w, b
<1>6. CASE f.null
  <2> DEFINE a == Unit("size", NullSize)
  <2>1. a \in WireUnits /\ a.kind = "size" /\ a.value = NullSize
    BY UnitType DEF NullSize, Kinds
  <2> HIDE DEF a
  <2>2. u = <<a, b>> \o w
    BY <1>2, <1>4, <1>6, EncodeFieldType DEF a, b
  <2>3. LET x == <<a, b>> \o w IN x[1] = a /\ Drop(x, 2) = w
    BY <1>3, <1>5, <2>1, PairThen
  <2> QED
    BY <1>2, <1>3, <1>6, <2>1, <2>2, <2>3 DEF f, u, w
<1>7. CASE ~f.null
  <2> DEFINE a == Unit("size", Len(f.data))
             d == f.data
             v == CharUnits(d) \o w
  <2>1. d \in Seq(STRING) /\ Len(d) \in Nat
    BY <1>2, LenProperties DEF Fields
  <2>2. a \in WireUnits /\ a.kind = "size" /\ a.value = Len(d)
    BY <2>1, UnitType DEF Kinds
  <2> HIDE DEF d
  <2>3. /\ v \in Wire /\ Len(v) = Len(d) + Len(w)
        /\ \A i \in 1..Len(d) : v[i] = Unit("char", d[i])
        /\ \A n \in 0..Len(d) : Drop(v, n) = CharUnits(Drop(d, n)) \o w
    <3>1. 0 \in 0..Len(d)
      BY <2>1
    <3> QED
      BY <1>3, <2>1, <3>1, CharsRead
  <2>4. u = <<a, b>> \o v
    <3> DEFINE p == <<a, b>>
               c == CharUnits(d)
    <3>1. EncodeField(f) = p \o c
      BY <1>2, <1>7, EncodeFieldType DEF b, d
    <3>2. p \in Wire /\ c \in Wire
      <4>1. c \in Wire
        BY <2>1, CharUnitsType
      <4> QED
        BY <1>5, <2>2, <4>1, PairType DEF Wire
    <3> HIDE DEF p, c
    <3>3. (p \o c) \o w = p \o (c \o w)
      BY <1>3, <3>2, WireAssoc
    <3> QED
      BY <1>4, <3>1, <3>3, Zenon DEF p, c
  <2> HIDE DEF v, a
  <2>5. LET x == <<a, b>> \o v
        IN /\ x[1] = a
           /\ \A i \in 1..Len(v) : x[2 + i] = v[i]
           /\ \A n \in 0..Len(v) : Drop(x, 2 + n) = Drop(v, n)
    BY <1>5, <2>2, <2>3, PairThen
  <2>6. Len(w) \in Nat
    BY <1>3, LenProperties DEF Wire
  <2>7. \A i \in 1..Len(d) : i \in 1..Len(v)
    BY <2>1, <2>3, <2>6
  <2>8. \A n \in 0..Len(d) : n \in 0..Len(v)
    BY <2>1, <2>3, <2>6
  <2>9. \A i \in 1..Len(d) : u[2 + i].value = d[i]
    <3>1. \A i \in 1..Len(d) : u[2 + i] = Unit("char", d[i])
      BY <2>3, <2>4, <2>5, <2>7
    <3>2. \A x : Unit("char", x).value = x
      BY DEF Unit
    <3>3. ASSUME NEW i \in 1..Len(d)
          PROVE  u[2 + i].value = d[i]
      <4>1. u[2 + i] = Unit("char", d[i])
        BY <3>1
      <4>2. Unit("char", d[i]).value = d[i]
        BY <3>2, Zenon
      <4> QED
        BY <4>1, <4>2, Zenon
    <3> QED
      BY <3>3
  <2>10. \A n \in 0..Len(d) : Drop(u, 2 + n) = CharUnits(Drop(d, n)) \o w
    BY <2>3, <2>4, <2>5, <2>8
  <2>11. u[1] = a
    BY <2>4, <2>5
  <2> QED
    BY <1>2, <1>3, <1>7, <2>2, <2>9, <2>10, <2>11 DEF f, u, w, d
<1> QED
  BY <1>6, <1>7

-----------------------------------------------------------------------------
(* What is left on the wire, two units of it.                              *)

\* What follows the first unit.
LEMMA SecondUnit ==
  ASSUME NEW a \in WireUnits, NEW b \in WireUnits, NEW w \in Wire
  PROVE  LET x == <<a, b>> \o w
         IN Len(x) = 2 + Len(w) /\ Len(w) \in Nat /\ Len(x) >= 2 /\ x[2] = b
<1>1. <<a, b>> \in Seq(WireUnits) /\ Len(<<a, b>>) = 2 /\ <<a, b>>[2] = b
  BY PairType
<1>2. w \in Seq(WireUnits) /\ Len(w) \in Nat
  BY LenProperties DEF Wire
<1> DEFINE p == <<a, b>>
<1>3. p \in Seq(WireUnits) /\ Len(p) = 2 /\ p[2] = b
  BY <1>1
<1> HIDE DEF p
<1>4. Len(p \o w) = Len(p) + Len(w) /\ \A i \in 1..Len(p) : (p \o w)[i] = p[i]
  <2>1. p \in Seq(WireUnits)
    BY <1>3
  <2>2. w \in Seq(WireUnits)
    BY <1>2
  <2> QED
    BY ONLY <2>1, <2>2, ConcatProperties
<1>5. Len(p \o w) = 2 + Len(w) /\ (p \o w)[2] = b
  BY <1>2, <1>3, <1>4
<1> QED
  BY <1>2, <1>5 DEF p

\* What upstream may not cut in two.
Rests == {"header_rest", "col_rest", "size_rest"}

\* The header comes in two units,
LEMMA HeaderAhead ==
  ASSUME NEW t \in ResultSets
  PROVE  /\ Len(Encode(t)) >= 2 /\ Encode(t)[2].kind \in Rests
         /\ t.cols = << >> /\ t.junk = 0 => Len(Encode(t)) = 2
<1> DEFINE a == Unit("header", t)
           b == Unit("header_rest", 0)
           w == ColsLeft(t, 0)
<1>1. a \in WireUnits /\ b \in WireUnits /\ b.kind = "header_rest" /\ w \in Wire
  BY UnitType, LeftType DEF Kinds
<1>2. Encode(t) = <<a, b>> \o w
  BY HeaderRead
<1>3. t.cols = << >> /\ t.junk = 0 => w = << >>
  <2> SUFFICES ASSUME t.cols = << >>, t.junk = 0 PROVE w = << >>
    OBVIOUS
  <2>1. Len(t.cols) = 0 /\ t.rows = << >> /\ Len(t.rows) = 0
    BY EmptySeq DEF ResultSets
  <2>2. w = RowsLeft(t, 0)
    BY <2>1, ColumnRead
  <2>3. RowUnits(t) \in Seq(Seq(WireUnits)) /\ Len(RowUnits(t)) = 0
    BY <2>1, UnitsType DEF Wire
  <2>4. After(RowUnits(t), 0) = << >>
    BY <2>3, AfterAll
  <2>5. Constantly("junk", 0) = << >>
    BY DEF Constantly
  <2>6. End(t) = << >> \o << >>
    BY <2>5 DEF End
  <2>7. << >> \o << >> = << >>
    BY WireEmpty
  <2> QED
    BY <2>2, <2>4, <2>6, <2>7 DEF RowsLeft
<1> HIDE DEF a, b, w
<1>4. LET x == <<a, b>> \o w
      IN Len(x) = 2 + Len(w) /\ Len(w) \in Nat /\ Len(x) >= 2 /\ x[2] = b
  BY <1>1, SecondUnit
<1>5. w = << >> => Len(w) = 0
  BY EmptySeq
<1> QED
  BY <1>1, <1>2, <1>3, <1>4, <1>5 DEF Rests

\* a column does,
LEMMA ColumnAhead ==
  ASSUME NEW t \in ResultSets, NEW k \in 0..(Len(t.cols) - 1)
  PROVE  Len(ColsLeft(t, k)) >= 2 /\ ColsLeft(t, k)[2].kind \in Rests
<1> DEFINE a == Unit("col", t.cols[k + 1])
           b == Unit("col_rest", 0)
           w == ColsLeft(t, k + 1)
<1>1. k + 1 \in 1..Len(t.cols) /\ k + 1 \in Nat
  BY ResultSetType
<1>2. a \in WireUnits /\ b \in WireUnits /\ b.kind = "col_rest" /\ w \in Wire
  BY <1>1, ResultSetType, UnitType, LeftType DEF Kinds
<1>3. ColsLeft(t, k) = <<a, b>> \o w
  BY ColumnRead DEF EncodeColumn
<1> HIDE DEF a, b, w
<1>4. LET x == <<a, b>> \o w IN Len(x) >= 2 /\ x[2] = b
  BY <1>2, SecondUnit
<1> QED
  BY <1>2, <1>3, <1>4 DEF Rests

\* the terminator is the end of a result set without junk,
LEMMA FlagAhead ==
  ASSUME NEW t \in ResultSets, NEW r \in 0..Len(t.rows), t.cols # << >>
  PROVE  /\ Len(RowsLeft(t, r)) >= 1
         /\ r = Len(t.rows) /\ t.junk = 0 => Len(RowsLeft(t, r)) = 1
<1>1. Len(t.rows) \in Nat
  BY ResultSetType
<1>2. CASE r < Len(t.rows)
  <2> DEFINE a == Unit("flag", 1)
             w == FieldsLeft(t, r + 1, 0)
  <2>1. r \in 0..(Len(t.rows) - 1) /\ r + 1 \in 1..Len(t.rows)
    BY <1>1, <1>2
  <2>2. a \in WireUnits /\ w \in Wire
    BY <2>1, UnitType, LeftType DEF Kinds
  <2>3. RowsLeft(t, r) = <<a>> \o w
    BY <2>1, FlagRead
  <2> HIDE DEF a, w
  <2>4. LET x == <<a>> \o w IN Len(x) = 1 + Len(w) /\ Len(w) \in Nat
    BY <2>2, OneThen
  <2>5. Len(RowsLeft(t, r)) = 1 + Len(w) /\ Len(w) \in Nat
    BY <2>3, <2>4
  <2> QED
    BY <1>2, <2>5
<1>3. CASE r = Len(t.rows)
  <2> DEFINE a == Unit("flag", 0)
             w == Constantly("junk", t.junk)
  <2>1. a \in WireUnits /\ w \in Wire
    BY UnitType, ConstantlyType, ResultSetType DEF Kinds
  <2>2. RowsLeft(t, r) = <<a>> \o w
    BY <1>3, FlagRead
  <2>3. t.junk = 0 => Len(w) = 0
    BY EmptySeq DEF Constantly
  <2> HIDE DEF a, w
  <2>4. LET x == <<a>> \o w IN Len(x) = 1 + Len(w) /\ Len(w) \in Nat
    BY <2>1, OneThen
  <2>5. Len(RowsLeft(t, r)) = 1 + Len(w) /\ Len(w) \in Nat
    BY <2>2, <2>4
  <2> QED
    BY <2>3, <2>5
<1> QED
  BY <1>1, <1>2, <1>3

\* and the size of a field comes in two units, with its characters behind it.
LEMMA SizeAhead ==
  ASSUME NEW t \in ResultSets, NEW r \in 1..Len(t.rows), NEW k \in 0..(Len(t.cols) - 1)
  PROVE  LET f == t.rows[r][k + 1]
             x == FieldsLeft(t, r, k)
         IN /\ Len(x) >= 2 /\ x[2].kind = "size_rest"
            /\ ~f.null /\ f.data # << >> => Drop(x, 2) # << >> /\ Drop(x, 2)[1].kind = "char"
<1> DEFINE f == t.rows[r][k + 1]
           x == FieldsLeft(t, r, k)
           w == FieldsLeft(t, r, k + 1)
           b == Unit("size_rest", 0)
           chars == CharUnits(f.data)
<1>0. k + 1 \in 1..Len(t.cols) /\ k + 1 \in Nat
  BY ResultSetType
<1>1. k + 1 \in 1..Len(t.cols) /\ k + 1 \in Nat /\ f \in Fields
  <2> DEFINE c == k + 1
  <2>1. c \in 1..Len(t.cols)
    BY <1>0
  <2> HIDE DEF c
  <2>2. t.rows[r][c] \in Fields
    BY <2>1, ResultSetType
  <2> QED
    BY <1>0, <2>2 DEF c
<1>2. w \in Wire /\ b \in WireUnits /\ b.kind = "size_rest"
  BY <1>1, UnitType, LeftType DEF Kinds
<1>3. f.data \in Seq(STRING) /\ Len(f.data) \in Nat /\ f.null \in BOOLEAN
  BY <1>1, LenProperties DEF Fields
<1>4. x = EncodeField(f) \o w
  BY FieldRead
<1>5. chars \in Wire
  BY <1>3, CharUnitsType
<1>6. \E a \in WireUnits, v \in Wire : x = <<a, b>> \o v
  <2>1. CASE f.null
    <3>1. EncodeField(f) = <<Unit("size", NullSize), b>>
      BY <1>1, <2>1, EncodeFieldType
    <3>2. Unit("size", NullSize) \in WireUnits
      BY UnitType DEF Kinds, NullSize
    <3> QED
      BY <1>2, <1>4, <3>1, <3>2
  <2>2. CASE ~f.null
    <3> DEFINE a == Unit("size", Len(f.data))
               p == <<a, b>>
    <3>1. EncodeField(f) = p \o chars
      BY <1>1, <2>2, EncodeFieldType
    <3>2. a \in WireUnits
      BY <1>3, UnitType DEF Kinds
    <3>3. p \in Wire
      BY <1>2, <3>2, PairType DEF Wire
    <3>4. x = p \o (chars \o w) /\ chars \o w \in Wire
      <4> HIDE DEF p, chars, w
      <4>1. (p \o chars) \o w = p \o (chars \o w)
        BY <1>2, <1>5, <3>3, WireAssoc
      <4> QED
        BY <1>2, <1>4, <1>5, <3>1, <4>1, WireConcat
    <3> HIDE DEF a
    <3> QED
      BY <3>2, <3>4
  <2> QED
    BY <2>1, <2>2
<1>7. Len(x) >= 2 /\ x[2] = b
  <2>1. PICK a \in WireUnits, v \in Wire : x = <<a, b>> \o v
    BY <1>6
  <2> HIDE DEF b, x
  <2>2. LET y == <<a, b>> \o v IN Len(y) >= 2 /\ y[2] = b
    BY <1>2, SecondUnit
  <2> QED
    BY <2>1, <2>2
<1>8. ASSUME ~f.null, f.data # << >>
      PROVE  Drop(x, 2) # << >> /\ Drop(x, 2)[1].kind = "char"
  <2>1. 0 \in 0..Len(f.data) /\ 2 + 0 = 2
    BY <1>3
  <2>2. Drop(x, 2 + 0) = CharUnits(Drop(f.data, 0)) \o w
    BY <1>8, <2>1, SizeInFront
  <2>3. Drop(f.data, 0) = f.data
    BY <1>3, DropNone
  <2> DEFINE d == f.data
             y == CharUnits(d) \o w
  <2>4. Drop(x, 2) = y
    BY <2>1, <2>2, <2>3
  <2>5. Len(d) \in Nat \ {0} /\ 1 \in 1..Len(d) /\ d \in Seq(STRING) /\ 0 \in 0..Len(d)
    BY <1>3, <1>8, EmptySeq
  <2>6. Len(w) \in Nat
    BY <1>2, LenProperties DEF Wire
  <2> HIDE DEF d, w
  <2>7. y[1] = Unit("char", d[1]) /\ Len(y) = Len(d) + Len(w)
    BY <1>2, <2>5, CharsRead
  <2>8. Len(y) # 0 /\ Unit("char", d[1]).kind = "char"
    BY <2>5, <2>6, <2>7 DEF Unit
  <2>9. y # << >>
    <3>1. Len(<< >>) = 0
      BY EmptySeq
    <3> QED
      BY <2>8, <3>1
  <2> QED
    BY <2>4, <2>7, <2>8, <2>9
<1> QED
  BY <1>2, <1>7, <1>8
=============================================================================
