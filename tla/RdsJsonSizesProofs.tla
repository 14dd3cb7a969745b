------------------------- MODULE RdsJsonSizesProofs -------------------------
(***************************************************************************)
(* For all texts, numbers, properties and columns, and every way a value   *)
(* is cut: each output function writes as many bytes as it has asked for.  *)
(***************************************************************************)
EXTENDS RdsJsonSizes, TLAPS

\* For the least number principle.
Laws == INSTANCE RdsJsonWireProofs

IInv == TypeOK /\ FitsExactly

\* A copied text has its length and what escaping adds.
LEMMA CopyFits ==
  ASSUME NEW s \in Texts
  PROVE  /\ s.len \in Nat /\ s.esc \in Nat /\ KeyLen(s) \in Nat
         /\ Copy(s) = s.len + s.esc
BY TextsAssumption DEF Copy, KeyLen

\* The user properties are written in the size that was counted for them.
LEMMA PropsFit ==
  ASSUME NEW p \in Props
  PROVE  PropsSize(p) \in Nat /\ PropsWritten(p) = PropsSize(p)
<1>1. p \in [count : Nat, keys : Nat, len : Nat, esc : Nat]
  BY TextsAssumption
<1>2. p.count \in Nat /\ p.keys \in Nat /\ p.len \in Nat /\ p.esc \in Nat
  BY <1>1
<1>3. Copy(p) = p.len + p.esc
  BY <1>2 DEF Copy
<1> QED
  BY <1>2, <1>3 DEF PropsSize, PropsWritten

-----------------------------------------------------------------------------
(* The digits of a number.                                                 *)

\* What Power is defined by.
LEMMA PowerOf ==
  /\ Power[0] = 1
  /\ \A i \in 1..20 : Power[i] = 10 * Power[i - 1]
<1> DEFINE Upto(g, k) == /\ DOMAIN g = 0..k /\ g[0] = 1
                         /\ \A i \in 1..k : g[i] = 10 * g[i - 1]
           Some(k) == \E g : Upto(g, k)
           T == {k \in 0..20 : ~Some(k)}
           Recursion(f) == [i \in 0..20 |-> IF i = 0 THEN 1 ELSE 10 * f[i - 1]]
<1>1. T = {}
  <2>1. SUFFICES ASSUME T # {} PROVE FALSE
    OBVIOUS
  <2>2. PICK k \in T : \A m \in T : k <= m
    <3>1. T \subseteq Nat
      OBVIOUS
    <3> HIDE DEF T
    <3>2. QED
      BY <2>1, <3>1, Laws!LeastNumber
  <2>3. k \in 0..20 /\ ~\E g : Upto(g, k)
    BY <2>2
  <2>4. CASE k = 0
    <3>1. Upto([i \in 0..0 |-> 1], 0)
      OBVIOUS
    <3>2. QED
      BY <2>3, <2>4, <3>1
  <2>5. CASE k # 0
    <3>1. k - 1 \in 0..20 /\ ~(k <= k - 1)
      BY <2>3, <2>5
    <3>2. PICK g : Upto(g, k - 1)
      BY <2>2, <3>1
    <3> DEFINE h == [i \in 0..k |-> IF i = k THEN 10 * g[k - 1] ELSE g[i]]
    <3>3. ASSUME NEW i \in 1..k PROVE h[i] = 10 * h[i - 1]
      <4>1. i \in 0..k /\ i - 1 \in 0..k /\ i - 1 # k
        BY <2>3
      <4>2. CASE i = k
        BY <4>1, <4>2
      <4>3. CASE i # k
        <5>1. i \in 1..(k - 1)
          BY <2>3, <4>3
        <5>2. QED
          BY <3>2, <4>1, <4>3, <5>1
      <4>4. QED
        BY <4>2, <4>3
    <3>4. DOMAIN h = 0..k /\ h[0] = 1
      BY <2>3, <2>5, <3>2
    <3> HIDE DEF h
    <3>5. Upto(h, k)
      BY <3>3, <3>4
    <3>6. QED
      BY <2>3, <3>5
  <2>6. QED
    BY <2>4, <2>5
<1>2. PICK g : Upto(g, 20)
  <2> HIDE DEF Some
  <2>1. Some(20)
    BY <1>1
  <2>2. QED
    BY <2>1 DEF Some
<1> DEFINE h == [i \in 0..20 |-> g[i]]
<1>3. h = Recursion(h)
  <2>1. \A i \in 0..20 : h[i] = IF i = 0 THEN 1 ELSE 10 * h[i - 1]
    <3>1. \A i \in 0..20 : i # 0 => i \in 1..20 /\ i - 1 \in 0..20
      OBVIOUS
    <3>2. QED
      BY <1>2, <3>1
  <2>2. DOMAIN h = 0..20 /\ h = [i \in DOMAIN h |-> h[i]]
    OBVIOUS
  <2> HIDE DEF h
  <2>3. QED
    BY <2>1, <2>2
<1>4. Power = CHOOSE f : f = Recursion(f)
  BY Zenon DEF Power
<1> HIDE DEF h, Recursion
<1>5. Power = Recursion(Power)
  BY <1>3, <1>4, Zenon
<1>6. \A i \in 0..20 : Power[i] = IF i = 0 THEN 1 ELSE 10 * Power[i - 1]
  BY <1>5 DEF Recursion
<1>7. 0 \in 0..20 /\ \A i \in 1..20 : i \in 0..20 /\ i # 0
  OBVIOUS
<1>8. QED
  BY <1>6, <1>7

LEMMA PowerIsNat == \A i \in 0..20 : Power[i] \in Nat \ {0}
<1> DEFINE T == {i \in 0..20 : Power[i] \notin Nat \ {0}}
<1>1. SUFFICES ASSUME T # {} PROVE FALSE
  OBVIOUS
<1>2. PICK k \in T : \A m \in T : k <= m
  <2>1. T \subseteq Nat
    OBVIOUS
  <2> HIDE DEF T
  <2>2. QED
    BY <1>1, <2>1, Laws!LeastNumber
<1>3. k \in 0..20 /\ Power[k] \notin Nat \ {0}
  BY <1>2
<1>4. k # 0
  BY <1>3, PowerOf
<1>5. k \in 1..20 /\ k - 1 \in 0..20 /\ ~(k <= k - 1)
  BY <1>3, <1>4
<1>6. Power[k - 1] \in Nat \ {0}
  BY <1>2, <1>5
<1>7. QED
  BY <1>3, <1>5, <1>6, PowerOf

LEMMA Tenth ==
  ASSUME NEW n \in Nat
  PROVE  /\ n \div 10 \in Nat /\ n \div 10 <= n
         /\ n \div 10 # 0 => n \div 10 < n
         /\ n \div 10 = 0 <=> n < 10
         /\ \A p \in Nat : (n < 10 * p <=> n \div 10 < p) /\ (10 * p <= n <=> p <= n \div 10)
OBVIOUS

\* g has the sizes of the numbers up to k.
SizesUpto(g, k) ==
  /\ DOMAIN g = 0..k
  /\ \A i \in 0..k : g[i] = IF i \div 10 = 0 THEN 1 ELSE 1 + g[i \div 10]

LEMMA SizesExist == \A k \in Nat : \E g : SizesUpto(g, k)
<1> DEFINE T == {k \in Nat : ~\E g : SizesUpto(g, k)}
<1>1. SUFFICES ASSUME T # {} PROVE FALSE
  OBVIOUS
<1>2. PICK k \in T : \A m \in T : k <= m
  <2>1. T \subseteq Nat
    OBVIOUS
  <2> HIDE DEF T
  <2>2. QED
    BY <1>1, <2>1, Laws!LeastNumber
<1>3. k \in Nat /\ ~\E g : SizesUpto(g, k)
  BY <1>2
<1>4. CASE k = 0
  <2> DEFINE h == [i \in 0..0 |-> 1]
  <2>1. DOMAIN h = 0..0 /\ \A i \in 0..0 : i \div 10 = 0 /\ h[i] = 1
    OBVIOUS
  <2> HIDE DEF h
  <2>2. SizesUpto(h, 0)
    BY <2>1 DEF SizesUpto
  <2>3. QED
    BY <1>3, <1>4, <2>2
<1>5. CASE k # 0
  <2>1. k - 1 \in Nat /\ ~(k <= k - 1)
    BY <1>3, <1>5
  <2>2. PICK g : SizesUpto(g, k - 1)
    BY <1>2, <2>1
  <2> DEFINE h == [i \in 0..k |-> IF i = k THEN (IF k \div 10 = 0 THEN 1 ELSE 1 + g[k \div 10])
                                  ELSE g[i]]
  <2>3. ASSUME NEW i \in 0..k PROVE h[i] = IF i \div 10 = 0 THEN 1 ELSE 1 + h[i \div 10]
    <3>1. i \div 10 \in 0..k /\ i \div 10 # k
      BY <1>3, <1>5, Tenth
    <3>2. CASE i = k
      BY <3>1, <3>2
    <3>3. CASE i # k
      <4>1. i \in 0..(k - 1)
        BY <1>3, <3>3
      <4>2. g[i] = IF i \div 10 = 0 THEN 1 ELSE 1 + g[i \div 10]
        BY <2>2, <4>1 DEF SizesUpto
      <4>3. QED
        BY <3>1, <3>3, <4>2
    <3>4. QED
      BY <3>2, <3>3
  <2>4. DOMAIN h = 0..k
    OBVIOUS
  <2> HIDE DEF h
  <2>5. SizesUpto(h, k)
    BY <2>3, <2>4 DEF SizesUpto
  <2>6. QED
    BY <1>3, <2>5
<1>6. QED
  BY <1>4, <1>5

LEMMA SizesAgree ==
  ASSUME NEW j \in Nat, NEW k \in Nat, NEW f, NEW g, SizesUpto(f, j), SizesUpto(g, k)
  PROVE  \A i \in Nat : i <= j /\ i <= k => f[i] = g[i]
<1> DEFINE T == {i \in Nat : i <= j /\ i <= k /\ f[i] # g[i]}
<1>1. SUFFICES ASSUME T # {} PROVE FALSE
  OBVIOUS
<1>2. PICK i \in T : \A m \in T : i <= m
  <2>1. T \subseteq Nat
    OBVIOUS
  <2> HIDE DEF T
  <2>2. QED
    BY <1>1, <2>1, Laws!LeastNumber
<1>3. i \in Nat /\ i <= j /\ i <= k /\ f[i] # g[i] /\ i \in 0..j /\ i \in 0..k
  BY <1>2
<1>4. /\ f[i] = IF i \div 10 = 0 THEN 1 ELSE 1 + f[i \div 10]
      /\ g[i] = IF i \div 10 = 0 THEN 1 ELSE 1 + g[i \div 10]
  BY <1>3 DEF SizesUpto
<1> DEFINE m == i \div 10
<1>5. m \in Nat /\ m <= i /\ (m # 0 => m < i)
  BY <1>3, Tenth
<1>6. m # 0 /\ f[m] # g[m]
  BY <1>3, <1>4
<1> HIDE DEF m
<1>7. m \in T
  BY <1>3, <1>5, <1>6
<1>8. QED
  BY <1>2, <1>3, <1>5, <1>6, <1>7

\* What NumSize is defined by.
LEMMA NumSizeOf ==
  \A n \in Nat : NumSize[n] = IF n \div 10 = 0 THEN 1 ELSE 1 + NumSize[n \div 10]
<1> DEFINE Recursion(f) == [n \in Nat |-> IF n \div 10 = 0 THEN 1 ELSE 1 + f[n \div 10]]
           Sizes(n) == CHOOSE g : SizesUpto(g, n)
           h == [n \in Nat |-> Sizes(n)[n]]
<1>1. \A n \in Nat : SizesUpto(Sizes(n), n)
  BY SizesExist, Zenon
<1> HIDE DEF Sizes
<1>2. ASSUME NEW n \in Nat PROVE h[n] = IF n \div 10 = 0 THEN 1 ELSE 1 + h[n \div 10]
  <2> DEFINE m == n \div 10
  <2>1. m \in Nat /\ m <= n
    BY Tenth
  <2>2. Sizes(n)[n] = IF m = 0 THEN 1 ELSE 1 + Sizes(n)[m]
    BY <1>1 DEF SizesUpto
  <2> HIDE DEF m
  <2>3. Sizes(n)[m] = Sizes(m)[m]
    <3>1. SizesUpto(Sizes(n), n) /\ SizesUpto(Sizes(m), m) /\ m <= m
      BY <1>1, <2>1
    <3>2. QED
      BY <2>1, <3>1, SizesAgree
  <2>4. h[n] = IF m = 0 THEN 1 ELSE 1 + h[m]
    BY <2>1, <2>2, <2>3
  <2>5. QED
    BY <2>4 DEF m
<1>3. h = Recursion(h)
  <2>1. DOMAIN h = Nat /\ h = [n \in DOMAIN h |-> h[n]]
    OBVIOUS
  <2> HIDE DEF h
  <2>2. QED
    BY <1>2, <2>1
<1>4. NumSize = CHOOSE f : f = Recursion(f)
  BY Zenon DEF NumSize
<1> HIDE DEF h, Recursion
<1>5. NumSize = Recursion(NumSize)
  BY <1>3, <1>4, Zenon
<1>6. QED
  BY <1>5 DEF Recursion

\* The division by ten counts the digits.
LEMMA SizeIsDigits ==
  ASSUME NEW d \in 1..20, NEW n \in Nat, n < Power[d], d = 1 \/ Power[d - 1] <= n
  PROVE  NumSize[n] = d
<1> DEFINE Has(k, i) == i < Power[k] /\ (k = 1 \/ Power[k - 1] <= i)
           T == {k \in 1..20 : \E i \in Nat : Has(k, i) /\ NumSize[i] # k}
<1>1. SUFFICES ASSUME T # {} PROVE FALSE
  OBVIOUS
<1>2. PICK k \in T : \A m \in T : k <= m
  <2>1. T \subseteq Nat
    OBVIOUS
  <2> HIDE DEF T
  <2>2. QED
    BY <1>1, <2>1, Laws!LeastNumber
<1>3. k \in 1..20
  BY <1>2
<1>4. PICK i \in Nat : Has(k, i) /\ NumSize[i] # k
  BY <1>2
<1>5. NumSize[i] = IF i \div 10 = 0 THEN 1 ELSE 1 + NumSize[i \div 10]
  BY NumSizeOf
<1>6. Power[k] = 10 * Power[k - 1] /\ Power[k - 1] \in Nat \ {0}
  <2>1. k - 1 \in 0..20
    BY <1>3
  <2>2. QED
    BY <1>3, <2>1, PowerOf, PowerIsNat
<1>7. CASE k = 1
  <2>1. i < 10
    BY <1>4, <1>6, <1>7, PowerOf
  <2>2. i \div 10 = 0
    BY <2>1, Tenth
  <2>3. QED
    BY <1>4, <1>5, <1>7, <2>2
<1>8. CASE k # 1
  <2>1. k - 1 \in 1..20 /\ (k - 1) - 1 \in 0..20 /\ ~(k <= k - 1)
    BY <1>3, <1>8
  <2>2. Power[k - 1] = 10 * Power[(k - 1) - 1] /\ Power[(k - 1) - 1] \in Nat \ {0}
    BY <2>1, PowerOf, PowerIsNat
  <2> DEFINE m == i \div 10
  <2>3. m \in Nat /\ m < Power[k - 1] /\ Power[(k - 1) - 1] <= m
    BY <1>4, <1>6, <1>8, <2>2, Tenth
  <2>4. m # 0
    BY <2>2, <2>3
  <2> HIDE DEF m
  <2>5. Has(k - 1, m)
    BY <2>3
  <2>6. NumSize[m] = k - 1
    BY <1>2, <2>1, <2>3, <2>5
  <2>7. NumSize[i] = 1 + NumSize[m]
    BY <1>5, <2>4 DEF m
  <2>8. QED
    BY <1>3, <1>4, <2>6, <2>7
<1>9. QED
  BY <1>7, <1>8

\* For every number of at most 20 digits ngx_get_num_size, which counts the
\* divisions by ten, returns how many digits are printed (output.c 1107).
THEOREM DigitsAreCounted ==
  ASSUME NEW n \in Nat, NEW d \in 1..20, n < Power[d]
  PROVE  NumSize[n] = Decimal(n) /\ NumSize[n] \in 1..d
<1> DEFINE T == {k \in 1..20 : n < Power[k]}
           Is(k) == n < Power[k] /\ (k = 1 \/ Power[k - 1] <= n)
<1>1. PICK k \in T : \A m \in T : k <= m
  <2>1. T \subseteq Nat /\ T # {}
    OBVIOUS
  <2> HIDE DEF T
  <2>2. QED
    BY <2>1, Laws!LeastNumber
<1>2. k \in 1..20 /\ n < Power[k] /\ k <= d
  BY <1>1
<1>3. k = 1 \/ Power[k - 1] <= n
  <2>1. SUFFICES ASSUME k # 1 PROVE Power[k - 1] <= n
    OBVIOUS
  <2>2. k - 1 \in 1..20 /\ ~(k <= k - 1) /\ k - 1 \in 0..20
    BY <1>2, <2>1
  <2>3. ~(n < Power[k - 1])
    BY <1>1, <2>2
  <2>4. Power[k - 1] \in Nat
    BY <2>2, PowerIsNat
  <2>5. QED
    BY <2>3, <2>4
<1>4. Decimal(n) \in 1..20 /\ Is(Decimal(n))
  <2>1. \E i \in 1..20 : Is(i)
    BY <1>2, <1>3
  <2>2. Decimal(n) = CHOOSE i \in 1..20 : Is(i)
    BY Zenon DEF Decimal
  <2> HIDE DEF Is
  <2>3. QED
    BY <2>1, <2>2, Zenon
<1>5. NumSize[n] = Decimal(n)
  BY <1>4, SizeIsDigits
<1>6. NumSize[n] = k
  BY <1>2, <1>3, SizeIsDigits
<1>7. QED
  BY <1>2, <1>5, <1>6

\* A uint16_t has at most NGX_UINT16_LEN digits, a uint64_t NGX_UINT64_LEN.
LEMMA Widths ==
  /\ \A n \in Nat : n \div Power[4] <= 6 => n < Power[5]
  /\ \A n \in Nat : (n \div Power[9]) \div Power[9] <= 18 => n < Power[20]
<1>1. Power[1] = 10 /\ Power[2] = 100 /\ Power[3] = 1000 /\ Power[4] = 10000 /\ Power[5] = 100000
  <2>1. \A i \in 1..5 : Power[i] = 10 * Power[i - 1]
    BY PowerOf
  <2>2. /\ Power[1] = 10 * Power[0] /\ Power[2] = 10 * Power[1] /\ Power[3] = 10 * Power[2]
        /\ Power[4] = 10 * Power[3] /\ Power[5] = 10 * Power[4]
    BY <2>1
  <2>3. QED
    BY <2>2, PowerOf
<1>2. \A i \in 0..11 : Power[i] \in Nat /\ Power[i + 9] = 1000000000 * Power[i]
  <2>1. SUFFICES ASSUME NEW i \in 0..11
                 PROVE  Power[i] \in Nat /\ Power[i + 9] = 1000000000 * Power[i]
    OBVIOUS
  <2>2. /\ i + 1 \in 1..20 /\ i + 2 \in 1..20 /\ i + 3 \in 1..20 /\ i + 4 \in 1..20 /\ i + 5 \in 1..20
        /\ i + 6 \in 1..20 /\ i + 7 \in 1..20 /\ i + 8 \in 1..20 /\ i + 9 \in 1..20
        /\ (i + 1) - 1 = i /\ (i + 2) - 1 = i + 1 /\ (i + 3) - 1 = i + 2
        /\ (i + 4) - 1 = i + 3 /\ (i + 5) - 1 = i + 4 /\ (i + 6) - 1 = i + 5
        /\ (i + 7) - 1 = i + 6 /\ (i + 8) - 1 = i + 7 /\ (i + 9) - 1 = i + 8 /\ i \in 0..20
    OBVIOUS
  <2>3. Power[i] \in Nat
    BY <2>2, PowerIsNat
  <2>4. /\ Power[i + 1] = 10 * Power[i] /\ Power[i + 2] = 10 * Power[i + 1]
        /\ Power[i + 3] = 10 * Power[i + 2] /\ Power[i + 4] = 10 * Power[i + 3]
        /\ Power[i + 5] = 10 * Power[i + 4] /\ Power[i + 6] = 10 * Power[i + 5]
        /\ Power[i + 7] = 10 * Power[i + 6] /\ Power[i + 8] = 10 * Power[i + 7]
        /\ Power[i + 9] = 10 * Power[i + 8]
    BY <2>2, PowerOf
  <2>5. QED
    BY <2>3, <2>4, SMT
<1>3. /\ Power[11] \in Nat /\ Power[11] = 1000000000 * Power[2]
      /\ Power[20] = 1000000000 * Power[11]
      /\ Power[9] = 1000000000
  <2>1. 0 \in 0..11 /\ 2 \in 0..11 /\ 11 \in 0..11 /\ 0 + 9 = 9 /\ 2 + 9 = 11 /\ 11 + 9 = 20
    OBVIOUS
  <2>2. QED
    BY <1>2, <2>1, PowerOf, SMT
<1>4. ASSUME NEW n \in Nat, (n \div Power[9]) \div Power[9] <= 18
      PROVE  n < Power[20]
  <2>1. \A i, p \in Nat : i \div 1000000000 \in Nat
                          /\ (i < 1000000000 * p <=> i \div 1000000000 < p)
    BY SMT
  <2> DEFINE m == n \div 1000000000
             l == m \div 1000000000
  <2>2. m \in Nat /\ l \in Nat /\ l < Power[2] /\ Power[2] \in Nat
    BY <1>1, <1>3, <1>4, <2>1, SMT
  <2>3. m < 1000000000 * Power[2]
    BY <2>1, <2>2, SMT
  <2> HIDE DEF l
  <2>4. m < Power[11]
    BY <1>3, <2>3, SMT
  <2>5. n < 1000000000 * Power[11]
    BY <1>3, <2>1, <2>4, SMT
  <2>6. QED
    BY <1>3, <2>5, SMT
<1>5. QED
  BY <1>1, <1>4

\* A number is printed in full: the limits of ngx_snprintf do not cut it.
LEMMA NumberFits ==
  /\ \A n \in Numbers : NumSize[n] \in Nat /\ Printed(n, 20) = NumSize[n]
  /\ \A n \in ErrCodes : NumSize[n] \in Nat /\ Printed(n, 5) = NumSize[n]
<1>1. ASSUME NEW n \in Numbers PROVE NumSize[n] \in Nat /\ Printed(n, 20) = NumSize[n]
  <2>1. n \in Nat /\ n < Power[20] /\ 20 \in 1..20
    <3>1. n \in Nat /\ (n \div Power[9]) \div Power[9] <= 18
      BY NumbersAssumption
    <3>2. QED
      BY <3>1, Widths
  <2>2. NumSize[n] = Decimal(n) /\ NumSize[n] \in 1..20
    BY <2>1, DigitsAreCounted
  <2>3. QED
    BY <2>2 DEF Printed
<1>2. ASSUME NEW n \in ErrCodes PROVE NumSize[n] \in Nat /\ Printed(n, 5) = NumSize[n]
  <2>1. n \in Nat /\ n < Power[5] /\ 5 \in 1..20
    <3>1. n \in Nat /\ n \div Power[4] <= 6
      BY NumbersAssumption
    <3>2. QED
      BY <3>1, Widths
  <2>2. NumSize[n] = Decimal(n) /\ NumSize[n] \in 1..5
    BY <2>1, DigitsAreCounted
  <2>3. QED
    BY <2>2 DEF Printed
<1>3. QED
  BY <1>1, <1>2

-----------------------------------------------------------------------------
(* The calls.                                                              *)

\* A call that writes what it has computed keeps the invariant.
LEMMA EmitsKeeps ==
  ASSUME IInv, NEW function, NEW n \in Nat, NEW m, m = n, Emits(function, n, m),
         UNCHANGED ctxVars
  PROVE  IInv'
BY DEF IInv, TypeOK, FitsExactly, Emits, ctxVars

LEMMA HeaderKeeps ==
  ASSUME IInv, NEW success \in Texts, NEW key \in Texts, NEW props \in Props,
         NEW h \in Headers, OutputHeader(success, key, props, h)
  PROVE  IInv'
<1> DEFINE n == HeaderSize(success, key, key, props, h)
           m == HeaderWritten(success, key, key, props, h)
<1>1. /\ h.errstr \in Texts /\ h.std_errcode \in ErrCodes
      /\ h.insert_id \in Numbers /\ h.affected_rows \in Numbers
  BY DEF Headers
<1>2. /\ NumSize[h.std_errcode] \in Nat /\ Printed(h.std_errcode, 5) = NumSize[h.std_errcode]
      /\ NumSize[h.insert_id] \in Nat /\ Printed(h.insert_id, 20) = NumSize[h.insert_id]
      /\ NumSize[h.affected_rows] \in Nat
      /\ Printed(h.affected_rows, 20) = NumSize[h.affected_rows]
  BY <1>1, NumberFits
<1>3. /\ h.errstr.len \in Nat /\ h.errstr.esc \in Nat
      /\ Copy(h.errstr) = h.errstr.len + h.errstr.esc
      /\ KeyLen(success) \in Nat /\ KeyLen(key) \in Nat
  BY <1>1, CopyFits
<1>4. PropsSize(props) \in Nat /\ PropsWritten(props) = PropsSize(props)
  BY PropsFit
<1>5. n \in Nat /\ m = n
  BY <1>2, <1>3, <1>4 DEF HeaderSize, HeaderWritten, BoolLen
<1> QED
  BY <1>5, EmitsKeeps DEF OutputHeader

LEMMA PropsKeep ==
  ASSUME IInv, NEW success \in Texts, NEW root \in Texts, NEW props \in Props,
         OutputProps(success, root, props)
  PROVE  IInv'
<1>1. KeyLen(success) \in Nat /\ KeyLen(root) \in Nat
  BY CopyFits
<1>2. PropsSize(props) \in Nat /\ PropsWritten(props) = PropsSize(props)
  BY PropsFit
<1> DEFINE n == 2 + KeyLen(root) + (IF success.len # 0 THEN 6 + KeyLen(success) ELSE 0)
                  + PropsSize(props)
           m == 1 + (IF success.len = 0 THEN 0 ELSE KeyLen(success) + 6)
                  + PropsWritten(props) + KeyLen(root) + 1
<1>3. n \in Nat /\ m = n
  BY <1>1, <1>2
<1>4. Emits("output_props", n, m) /\ UNCHANGED ctxVars
  BY DEF OutputProps
<1> HIDE DEF n, m
<1> QED
  BY <1>3, <1>4, EmitsKeeps

LEMMA ColsKeep ==
  ASSUME IInv, NEW names \in Texts, OutputCols(names)
  PROVE  IInv'
<1>1. names.len \in Nat /\ names.esc \in Nat
  BY CopyFits
<1>2. col_count \in Nat /\ col_count >= 1
  BY DEF IInv, TypeOK
<1>3. ColsSize(names) \in Nat /\ ColsWritten(names) = ColsSize(names)
  BY <1>1, <1>2 DEF ColsSize, ColsWritten
<1> QED
  BY <1>3, EmitsKeeps DEF OutputCols

LEMMA FieldKeeps ==
  ASSUME IInv, NEW col \in Counts, NEW of_type \in {"int", "bool", "str"},
         NEW first_row \in BOOLEAN, NEW name \in Texts, NEW is_null \in BOOLEAN,
         NEW text \in Texts, NEW truth \in BOOLEAN, NEW rest \in Counts,
         OutputField(col, of_type, first_row, name, is_null, text, truth, rest)
  PROVE  IInv'
<1>1. /\ text.len \in Nat /\ text.esc \in Nat /\ Copy(text) = text.len + text.esc
      /\ name.len \in Nat /\ name.esc \in Nat /\ Copy(name) = name.len + name.esc
  BY CopyFits
<1>2. /\ format' = format /\ col_count' = col_count /\ cur_col' = col /\ type' = of_type
      /\ field_data_rest' = rest /\ col < col_count
  BY DEF OutputField
<1>3. col \in Nat /\ rest \in Nat
  BY CountsAssumption
<1>4. LeadSize(first_row, name) \in Nat /\ LeadWritten(first_row, name) = LeadSize(first_row, name)
  BY <1>1 DEF LeadSize, LeadWritten
<1>5. /\ ValueSize(is_null, text, truth, rest) \in Nat
      /\ ValueWritten(is_null, text, truth, rest) = ValueSize(is_null, text, truth, rest)
  BY <1>1, <1>2 DEF ValueSize, ValueWritten, BoolLen
<1>6. RowEnd(rest) \in Nat /\ RowEnd(rest) = RowEndSize(rest)
  BY DEF RowEnd, RowEndSize
<1>7. size' \in Nat /\ written' = size'
  BY <1>4, <1>5, <1>6 DEF OutputField, Emits
<1> QED
  BY <1>2, <1>3, <1>7 DEF IInv, TypeOK, FitsExactly

LEMMA MoreKeeps ==
  ASSUME IInv, NEW text \in Texts, OutputMoreFieldData(text)
  PROVE  IInv'
<1>1. text.len \in Nat /\ text.esc \in Nat /\ Copy(text) = text.len + text.esc
  BY CopyFits
<1>2. field_data_rest' \in Nat
  BY <1>1 DEF OutputMoreFieldData, Rest, IInv, TypeOK
<1>3. type \in {"int", "bool", "str"}
  BY DEF IInv, TypeOK
<1>4. /\ RowEndSize(field_data_rest') \in Nat
      /\ RowEnd(field_data_rest') = RowEndSize(field_data_rest')
  BY DEF RowEnd, RowEndSize
<1>5. size' \in Nat /\ written' = size'
  BY <1>1, <1>3, <1>4 DEF OutputMoreFieldData, Emits
<1> QED
  BY <1>2, <1>5 DEF OutputMoreFieldData, IInv, TypeOK, FitsExactly

LEMMA RetKeeps ==
  ASSUME IInv, NEW success \in Texts, NEW key \in Texts, NEW props \in Props,
         NEW errcode \in Texts, NEW zero \in BOOLEAN, NEW errstr \in Texts,
         RetHandler(success, key, props, errcode, zero, errstr)
  PROVE  IInv'
<1>1. /\ KeyLen(success) \in Nat /\ KeyLen(key) \in Nat /\ errcode.len \in Nat
      /\ errstr.len \in Nat /\ errstr.esc \in Nat /\ Copy(errstr) = errstr.len + errstr.esc
  BY CopyFits
<1>2. PropsSize(props) \in Nat /\ PropsWritten(props) = PropsSize(props)
  BY PropsFit
<1>3. size' \in Nat /\ written' = size'
  BY <1>1, <1>2 DEF RetHandler, Emits, BoolLen
<1> QED
  BY <1>3 DEF RetHandler, IInv, TypeOK, FitsExactly, ctxVars

LEMMA SetKeyKeeps ==
  ASSUME IInv, NEW s \in Texts, SetKey(s)
  PROVE  IInv'
<1>1. s.len \in Nat /\ s.esc \in Nat /\ Copy(s) = s.len + s.esc
  BY CopyFits
<1>2. size' \in Nat /\ written' = size'
  BY <1>1 DEF SetKey, Emits
<1> QED
  BY <1>2 DEF SetKey, IInv, TypeOK, FitsExactly, ctxVars

\* The invariant holds throughout.
THEOREM Invariance == Spec => []IInv
<1>1. Init => IInv
  BY CountsAssumption DEF Init, IInv, TypeOK, FitsExactly
<1>2. IInv /\ [Next]_vars => IInv'
  <2> SUFFICES ASSUME IInv, [Next]_vars PROVE IInv'
    OBVIOUS
  <2>1. CASE UNCHANGED vars
    BY <2>1 DEF vars, ctxVars, IInv, TypeOK, FitsExactly
  <2>2. CASE Next
    BY <2>2, HeaderKeeps, PropsKeep, ColsKeep, FieldKeeps, MoreKeeps, RetKeeps, SetKeyKeeps
       DEF Next
  <2> QED
    BY <2>1, <2>2
<1> QED
  BY <1>1, <1>2, PTL DEF Spec

\* The sizes are numbers, and cur_col and field_data_rest stay in range.
THEOREM TypeCorrect == Spec => []TypeOK
BY Invariance, PTL DEF IInv

\* No call of an output function, of the content handler or of a setter of a
\* key writes more or less than the memory it has asked for.
THEOREM ExactFit == Spec => []FitsExactly
BY Invariance, PTL DEF IInv
=============================================================================
