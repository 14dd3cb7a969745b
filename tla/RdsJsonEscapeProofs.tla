------------------------ MODULE RdsJsonEscapeProofs ------------------------
(***************************************************************************)
(* For every text: the two passes of escape_json_str agree, so the escaped *)
(* text fills the memory that was asked for and never leaves it; and a     *)
(* reader of JSON strings gets the text back.                              *)
(***************************************************************************)
EXTENDS RdsJsonEscape, SequenceTheorems, TLAPS

\* For the least number principle.
Laws == INSTANCE RdsJsonWireProofs

\* What is written for a byte is one byte and those that were counted.
LEMMA ByteFits ==
  ASSUME NEW c \in Bytes
  PROVE  /\ Escaped(c) \in Seq(Bytes)
         /\ Extra(c) \in Nat
         /\ Len(Escaped(c)) = 1 + Extra(c)
<1>0. <<c>> \in Seq(Bytes) /\ Len(<<c>>) = 1
  OBVIOUS
<1>1. CASE c >= 128
  <2>1. Escaped(c) = <<c>> /\ Extra(c) = 0
    BY <1>1 DEF Escaped, Extra
  <2> QED
    BY <1>0, <2>1
<1>2. CASE c < 128 /\ c \in Short
  <2>1. Letter(c) \in Bytes
    BY <1>2 DEF Letter, Short, Bytes, Backslash, Quote
  <2>2. ~ (c >= 128)
    BY <1>2 DEF Bytes
  <2>3. Escaped(c) = <<Backslash, Letter(c)>> /\ Extra(c) = 1
    BY <1>2, <2>2 DEF Escaped, Extra
  <2>4. Backslash \in Bytes
    BY DEF Backslash, Bytes
  <2>5. /\ <<Backslash, Letter(c)>> \in Seq(Bytes)
        /\ Len(<<Backslash, Letter(c)>>) = 2
    BY <2>1, <2>4
  <2> QED
    BY <2>3, <2>5
<1>3. CASE c < 128 /\ c \notin Short /\ c < 32
  <2>1. c \div 16 \in 0..15 /\ c % 16 \in 0..15
    BY <1>3 DEF Bytes
  <2>2. HexDigit(c \div 16) \in Bytes /\ HexDigit(c % 16) \in Bytes
    BY <2>1 DEF HexDigit, Bytes
  <2>3. ~ (c >= 128)
    BY <1>3 DEF Bytes
  <2> DEFINE h == HexDigit(c \div 16)
             l == HexDigit(c % 16)
             s == <<Backslash, LowerU, 48, 48, h, l>>
  <2>4. Escaped(c) = s /\ Extra(c) = 5
    BY <1>3, <2>3 DEF Escaped, Extra
  <2>5. Backslash \in Bytes /\ LowerU \in Bytes /\ 48 \in Bytes
    BY DEF Backslash, LowerU, Bytes
  <2>6. h \in Bytes /\ l \in Bytes
    BY <2>2
  <2> HIDE DEF h, l
  <2>7. s \in Seq(Bytes) /\ Len(s) = 6
    BY <2>5, <2>6
  <2> QED
    BY <2>4, <2>7
<1>4. CASE c < 128 /\ c \notin Short /\ c >= 32
  <2>1. ~ (c >= 128) /\ ~ (c < 32)
    BY <1>4 DEF Bytes
  <2>2. Escaped(c) = <<c>> /\ Extra(c) = 0
    BY <1>4, <2>1 DEF Escaped, Extra
  <2> QED
    BY <1>0, <2>2
<1> QED
  BY <1>1, <1>2, <1>3, <1>4 DEF Bytes

\* The count of a prefix is a number.
LEMMA CountIsNat ==
  ASSUME counts \in Seq(Nat), NEW i \in 0..Len(counts)
  PROVE  CountAt(counts, i) \in Nat
<1>1. CASE i = 0
  BY <1>1 DEF CountAt
<1>2. CASE i # 0
  <2>1. i \in 1..Len(counts)
    BY <1>2
  <2> QED
    BY <1>2, <2>1 DEF CountAt
<1> QED
  BY <1>1, <1>2

\* The counting loop.
LEMMA CountKeeps ==
  ASSUME IInv, Count
  PROVE  IInv'
<1>1. /\ src \in Seq(Bytes) /\ pos \in 0..Len(src) /\ pos < Len(src)
      /\ n \in Nat /\ counts \in Seq(Nat)
      /\ Len(counts) = pos /\ n = CountAt(counts, pos)
  BY DEF IInv, TypeOK, InStep, Count
<1>2. src[pos + 1] \in Bytes /\ pos + 1 \in 1..Len(src) /\ Len(src) \in Nat
  BY <1>1
<1>3. Extra(src[pos + 1]) \in Nat
  BY <1>2, ByteFits
<1>4. n' = n + Extra(src[pos + 1]) /\ n' \in Nat /\ n <= n'
  BY <1>1, <1>3 DEF Count
<1>5. /\ counts' \in Seq(Nat)
      /\ Len(counts') = pos + 1
      /\ \A i \in 1..pos : counts'[i] = counts[i]
      /\ counts'[pos + 1] = n'
  <2>1. counts' = Append(counts, n')
    BY DEF Count
  <2> QED
    BY <1>1, <1>4, <2>1, AppendProperties
<1>6. \A i \in 0..pos : CountAt(counts', i) = CountAt(counts, i)
  BY <1>1, <1>5 DEF CountAt
<1>7. CountAt(counts', pos + 1) = n' /\ CountAt(counts', pos) = n
  <2>1. pos + 1 # 0 /\ pos \in 0..pos
    BY <1>1
  <2> QED
    BY <1>1, <1>5, <1>6, <2>1 DEF CountAt
<1>8. TypeOK'
  BY <1>2, <1>4, <1>5 DEF IInv, TypeOK, Count
<1>9. \A i \in 1..Len(counts') : counts'[i] = CountAt(counts', i - 1) + Extra(src'[i])
  <2> SUFFICES ASSUME NEW i \in 1..(pos + 1)
               PROVE  counts'[i] = CountAt(counts', i - 1) + Extra(src[i])
    BY <1>5 DEF Count
  <2>1. CASE i <= pos
    <3>1. i \in 1..Len(counts) /\ i \in 1..pos /\ i - 1 \in 0..pos
      BY <1>1, <2>1
    <3>2. counts[i] = CountAt(counts, i - 1) + Extra(src[i])
      BY <3>1 DEF IInv, InStep
    <3> QED
      BY <1>5, <1>6, <3>1, <3>2
  <2>2. CASE i = pos + 1
    <3>1. i - 1 = pos
      BY <1>1, <2>2
    <3> QED
      BY <1>4, <1>5, <1>7, <2>2, <3>1
  <2> QED
    BY <1>1, <2>1, <2>2
<1>10. \A i, j \in 1..Len(counts') : i <= j => counts'[i] <= counts'[j]
  <2> SUFFICES ASSUME NEW i \in 1..(pos + 1), NEW j \in 1..(pos + 1), i <= j
               PROVE  counts'[i] <= counts'[j]
    BY <1>5
  <2>1. CASE j <= pos
    <3>1. i \in 1..pos /\ j \in 1..pos
      BY <1>1, <2>1
    <3>2. counts[i] <= counts[j]
      BY <1>1, <3>1 DEF IInv, InStep
    <3> QED
      BY <1>5, <3>1, <3>2
  <2>2. CASE j = pos + 1 /\ i <= pos
    <3>1. i \in 1..pos /\ pos \in 1..pos /\ i <= pos /\ pos # 0
      BY <1>1, <2>2
    <3>2. counts[i] <= counts[pos] /\ counts[i] \in Nat
      BY <1>1, <3>1 DEF IInv, InStep
    <3>3. counts[pos] = n
      BY <1>1, <3>1 DEF CountAt
    <3> QED
      BY <1>1, <1>4, <1>5, <2>2, <3>1, <3>2, <3>3
  <2>3. CASE j = pos + 1 /\ i = pos + 1
    BY <1>4, <1>5, <2>3
  <2> QED
    BY <1>1, <2>1, <2>2, <2>3
<1>11. InStep'
  <2>1. pass' = "count" /\ pos' = pos + 1 /\ dst' = << >>
    BY DEF Count, IInv, InStep
  <2>2. n' = CountAt(counts', pos + 1) /\ Len(counts') = pos + 1
    BY <1>5, <1>7
  <2>3. CountAt(counts', pos') = CountAt(counts', pos + 1)
    BY <2>1 DEF CountAt
  <2> QED
    BY <2>1, <2>2, <2>3, <1>9, <1>10 DEF InStep
<1> QED
  BY <1>8, <1>11 DEF IInv

\* The writing loop.
LEMMA WriteKeeps ==
  ASSUME IInv, Write
  PROVE  IInv'
<1>1. /\ src \in Seq(Bytes) /\ pos \in 0..Len(src) /\ pos < Len(src)
      /\ dst \in Seq(Bytes) /\ counts \in Seq(Nat) /\ Len(counts) = Len(src)
      /\ Len(dst) = pos + CountAt(counts, pos)
  BY DEF IInv, TypeOK, InStep, Write
<1>2. /\ src[pos + 1] \in Bytes /\ pos + 1 \in 1..Len(counts)
      /\ pos \in 0..Len(counts) /\ pos + 1 \in 0..Len(counts)
  BY <1>1
<1>3. /\ Escaped(src[pos + 1]) \in Seq(Bytes)
      /\ Extra(src[pos + 1]) \in Nat
      /\ Len(Escaped(src[pos + 1])) = 1 + Extra(src[pos + 1])
  BY <1>2, ByteFits
<1>4. CountAt(counts, pos) \in Nat /\ CountAt(counts, pos + 1) \in Nat
  BY <1>1, <1>2, CountIsNat
<1>5. CountAt(counts, pos + 1) = CountAt(counts, pos) + Extra(src[pos + 1])
  <2>1. counts[pos + 1] = CountAt(counts, (pos + 1) - 1) + Extra(src[pos + 1])
    BY <1>2 DEF IInv, InStep
  <2>2. (pos + 1) - 1 = pos /\ pos + 1 # 0
    BY <1>1
  <2> QED
    BY <2>1, <2>2 DEF CountAt
<1>6. dst' \in Seq(Bytes) /\ Len(dst') = Len(dst) + Len(Escaped(src[pos + 1]))
  <2>1. dst' = dst \o Escaped(src[pos + 1])
    BY DEF Write
  <2> QED
    BY <1>1, <1>3, <2>1, ConcatProperties
<1>7. Len(dst') = pos + 1 + CountAt(counts, pos + 1)
  BY <1>1, <1>3, <1>4, <1>5, <1>6
<1>8. TypeOK'
  BY <1>1, <1>6 DEF IInv, TypeOK, Write
<1>9. InStep'
  <2>1. pass = "write" /\ pass' = "write" /\ pos' = pos + 1
        /\ src' = src /\ n' = n /\ counts' = counts
    BY DEF Write
  <2>2. \A i : CountAt(counts', i) = CountAt(counts, i)
    BY <2>1 DEF CountAt
  <2>3. CountAt(counts', pos') = CountAt(counts, pos + 1)
    BY <2>1 DEF CountAt
  <2>4. CountAt(counts', Len(src')) = CountAt(counts, Len(src))
    BY <2>1 DEF CountAt
  <2> QED
    BY <1>7, <2>1, <2>2, <2>3, <2>4 DEF IInv, InStep
<1> QED
  BY <1>8, <1>9 DEF IInv

\* Every step keeps the invariant.
LEMMA StepKeeps ==
  ASSUME IInv, [Next]_vars
  PROVE  IInv'
<1>1. CASE Counted
  <2>1. /\ CountAt(counts', 0) = 0
        /\ CountAt(counts', Len(src)) = CountAt(counts, Len(src))
    BY <1>1 DEF CountAt, Counted
  <2> QED
    BY <1>1, <2>1 DEF Counted, IInv, TypeOK, InStep, CountAt
<1>2. CASE Written
  BY <1>2 DEF Written, IInv, TypeOK, InStep, CountAt
<1>3. CASE UNCHANGED vars
  BY <1>3 DEF vars, IInv, TypeOK, InStep, CountAt
<1> QED
  BY <1>1, <1>2, <1>3, CountKeeps, WriteKeeps DEF Next

\* The invariant holds throughout.
THEOREM Invariance == Spec => []IInv
<1>1. Init => IInv
  BY TextsAssumption DEF Init, IInv, TypeOK, InStep, CountAt, Bytes
<1>2. IInv /\ [Next]_vars => IInv'
  BY StepKeeps
<1> QED
  BY <1>1, <1>2, PTL DEF Spec

\* Both loops stay in the text, and what is written is bytes.
THEOREM TypeCorrect == Spec => []TypeOK
BY Invariance, PTL DEF IInv

\* For every text the writing pass writes as many bytes as the counting pass
\* has made its caller ask for (util.c 25-56 and 58-117).
THEOREM PassesAgree == Spec => []FillsItsMemory
<1>1. IInv => FillsItsMemory
  <2> SUFFICES ASSUME IInv, pass = "done" PROVE Len(dst) = Len(src) + n
    BY DEF FillsItsMemory
  <2> QED
    BY DEF IInv, TypeOK, InStep
<1> QED
  BY <1>1, Invariance, PTL

\* ... and at no time more.
THEOREM StaysInside == Spec => []NeverOverruns
<1>1. IInv => NeverOverruns
  <2> SUFFICES ASSUME IInv, pass = "write" PROVE Len(dst) <= Len(src) + n
    BY DEF NeverOverruns
  <2>1. CountAt(counts, pos) <= n
    <3>1. CASE pos = 0
      BY <3>1 DEF IInv, TypeOK, CountAt
    <3>2. CASE pos # 0
      BY <3>2 DEF IInv, TypeOK, InStep, CountAt
    <3> QED
      BY <3>1, <3>2
  <2>2. CountAt(counts, pos) \in Nat
    BY CountIsNat DEF IInv, TypeOK, InStep
  <2> QED
    BY <2>1, <2>2 DEF IInv, TypeOK, InStep
<1> QED
  BY <1>1, Invariance, PTL

-----------------------------------------------------------------------------
(* The reader.                                                             *)

\* g is what the reader has after each byte of s.
Readings(g, s) ==
  /\ DOMAIN g = 0..Len(s)
  /\ g[0] = Start
  /\ \A i \in 1..Len(s) : g[i] = ReadByte(g[i - 1], s[i])

LEMMA ReadingsExist ==
  ASSUME NEW s \in Seq(Bytes)
  PROVE  \E g : Readings(g, s)
<1> DEFINE Upto(g, k) == /\ DOMAIN g = 0..k /\ g[0] = Start
                         /\ \A i \in 1..k : g[i] = ReadByte(g[i - 1], s[i])
           T == {k \in 0..Len(s) : ~\E g : Upto(g, k)}
<1>1. Len(s) \in Nat
  BY LenProperties
<1>2. SUFFICES ASSUME T # {} PROVE FALSE
  BY <1>1 DEF Readings
<1>3. PICK k \in T : \A m \in T : k <= m
  <2>1. T \subseteq Nat
    BY <1>1
  <2> HIDE DEF T
  <2>2. QED
    BY <1>2, <2>1, Laws!LeastNumber
<1>4. k \in 0..Len(s) /\ ~\E g : Upto(g, k)
  BY <1>3
<1>5. CASE k = 0
  <2>1. Upto([i \in 0..0 |-> Start], 0)
    OBVIOUS
  <2>2. QED
    BY <1>4, <1>5, <2>1
<1>6. CASE k # 0
  <2>1. k - 1 \in 0..Len(s) /\ ~(k <= k - 1)
    BY <1>1, <1>4, <1>6
  <2>2. PICK g : Upto(g, k - 1)
    BY <1>3, <2>1
  <2> DEFINE h == [i \in 0..k |-> IF i = k THEN ReadByte(g[k - 1], s[k]) ELSE g[i]]
  <2>3. ASSUME NEW i \in 1..k PROVE h[i] = ReadByte(h[i - 1], s[i])
    <3>1. i \in 0..k /\ i - 1 \in 0..k /\ i - 1 # k
      BY <1>1, <1>4
    <3>2. CASE i = k
      BY <3>1, <3>2
    <3>3. CASE i # k
      <4>1. i \in 1..(k - 1)
        BY <1>1, <1>4, <3>3
      <4>2. QED
        BY <2>2, <3>1, <3>3, <4>1
    <3>4. QED
      BY <3>2, <3>3
  <2>4. DOMAIN h = 0..k /\ h[0] = Start
    BY <1>1, <1>4, <1>6, <2>2
  <2> HIDE DEF h
  <2>5. Upto(h, k)
    BY <2>3, <2>4
  <2>6. QED
    BY <1>4, <2>5
<1>7. QED
  BY <1>5, <1>6

\* Read computes the last of the readings.
LEMMA ReadIsReading ==
  ASSUME NEW s \in Seq(Bytes), NEW g, Readings(g, s)
  PROVE  Read(s) = g[Len(s)]
<1> DEFINE N == Len(s)
           Recursion(f) == [i \in 0..N |-> IF i = 0 THEN Start ELSE ReadByte(f[i - 1], s[i])]
           after == CHOOSE f : f = Recursion(f)
<1>1. N \in Nat
  BY LenProperties
<1>2. Read(s) = after[N]
  BY Zenon DEF Read
<1>3. DOMAIN g = 0..N /\ \E f : f = Recursion(f)
  <2>0. DOMAIN g = 0..N /\ g[0] = Start /\ \A i \in 1..N : g[i] = ReadByte(g[i - 1], s[i])
    BY DEF Readings
  <2> DEFINE h == [i \in 0..N |-> g[i]]
  <2>1. \A i \in 0..N : h[i] = IF i = 0 THEN Start ELSE ReadByte(h[i - 1], s[i])
    <3>1. ASSUME NEW i \in 0..N, i # 0 PROVE i \in 1..N /\ i - 1 \in 0..N
      BY <1>1, <3>1
    <3>2. QED
      BY <2>0, <3>1
  <2>2. h = Recursion(h)
    <3>1. DOMAIN h = 0..N /\ h = [i \in DOMAIN h |-> h[i]]
      OBVIOUS
    <3> HIDE DEF h
    <3>2. QED
      BY <2>1, <3>1
  <2> HIDE DEF h, Recursion
  <2>3. QED
    BY <2>0, <2>2
<1>4. after = Recursion(after)
  <2> HIDE DEF Recursion
  <2>1. QED
    BY <1>3, Zenon
<1> HIDE DEF after
<1>5. \A i \in 0..N : after[i] = IF i = 0 THEN Start ELSE ReadByte(after[i - 1], s[i])
  BY <1>4
<1> HIDE DEF Recursion
<1>6. after[N] = g[N]
  <2> DEFINE T == {k \in 0..N : after[k] # g[k]}
  <2>1. SUFFICES ASSUME T # {} PROVE FALSE
    BY <1>1
  <2>2. PICK k \in T : \A m \in T : k <= m
    <3>1. T \subseteq Nat
      BY <1>1
    <3> HIDE DEF T
    <3>2. QED
      BY <2>1, <3>1, Laws!LeastNumber
  <2>3. k \in 0..N /\ after[k] # g[k]
    BY <2>2
  <2>4. k # 0
    BY <1>1, <1>5, <2>3 DEF Readings
  <2>5. k \in 1..N /\ k - 1 \in 0..N /\ ~(k <= k - 1)
    BY <1>1, <2>3, <2>4
  <2>6. after[k - 1] = g[k - 1]
    BY <2>2, <2>5
  <2>7. QED
    BY <1>5, <2>3, <2>4, <2>5, <2>6 DEF Readings
<1>7. QED
  BY <1>2, <1>6

\* Reading on where s ends.
LEMMA ReadOn ==
  ASSUME NEW s \in Seq(Bytes), NEW t \in Seq(Bytes)
  PROVE  \E g : /\ g[0] = Read(s)
               /\ g[Len(t)] = Read(s \o t)
               /\ \A i \in 1..Len(t) : g[i] = ReadByte(g[i - 1], t[i])
<1> DEFINE k == Len(s)
           m == Len(t)
           st == s \o t
<1>1. /\ k \in Nat /\ m \in Nat /\ st \in Seq(Bytes) /\ Len(st) = k + m
      /\ \A i \in 1..k : st[i] = s[i]
      /\ \A i \in 1..m : st[k + i] = t[i]
  <2>1. k \in Nat /\ m \in Nat
    BY LenProperties
  <2>2. /\ st \in Seq(Bytes) /\ Len(st) = k + m
        /\ \A i \in 1..(k + m) : st[i] = IF i <= k THEN s[i] ELSE t[i - k]
    BY ConcatProperties
  <2> HIDE DEF st, k, m
  <2>3. \A i \in 1..k : st[i] = s[i]
    BY <2>1, <2>2
  <2>4. ASSUME NEW i \in 1..m PROVE st[k + i] = t[i]
    <3>1. k + i \in 1..(k + m) /\ ~(k + i <= k) /\ (k + i) - k = i
      BY <2>1
    <3>2. QED
      BY <2>2, <3>1
  <2>5. QED
    BY <2>1, <2>2, <2>3, <2>4
<1> HIDE DEF st
<1>2. PICK f : Readings(f, st)
  BY <1>1, ReadingsExist
<1>3. Read(st) = f[k + m]
  BY <1>1, <1>2, ReadIsReading
<1> HIDE DEF k, m
<1>4. f[0] = Start /\ \A i \in 1..(k + m) : f[i] = ReadByte(f[i - 1], st[i])
  BY <1>1, <1>2 DEF Readings
<1>5. Read(s) = f[k]
  <2> DEFINE g == [i \in 0..k |-> f[i]]
  <2>1. DOMAIN g = 0..k /\ g[0] = Start /\ g[k] = f[k]
    BY <1>1, <1>4
  <2>2. ASSUME NEW i \in 1..k PROVE g[i] = ReadByte(g[i - 1], s[i])
    <3>1. i \in 1..(k + m) /\ i \in 0..k /\ i - 1 \in 0..k
      BY <1>1
    <3>2. QED
      BY <1>1, <1>4, <3>1
  <2> HIDE DEF g
  <2>3. Readings(g, s)
    BY <2>1, <2>2 DEF Readings, k
  <2>4. QED
    BY <2>1, <2>3, ReadIsReading DEF k
<1> DEFINE g == [i \in 0..m |-> f[k + i]]
<1>6. g[0] = Read(s) /\ g[m] = Read(st)
  BY <1>1, <1>3, <1>5
<1>7. ASSUME NEW i \in 1..m PROVE g[i] = ReadByte(g[i - 1], t[i])
  <2>1. /\ i \in 0..m /\ i - 1 \in 0..m /\ k + i \in 1..(k + m)
        /\ (k + i) - 1 = k + (i - 1)
    BY <1>1
  <2>2. f[k + i] = ReadByte(f[k + (i - 1)], t[i])
    BY <1>1, <1>4, <2>1
  <2>3. QED
    BY <2>1, <2>2
<1> HIDE DEF g
<1>8. QED
  BY <1>6, <1>7 DEF m, st

\* The reader has the text x, and is in the escape sequence e or between two
\* characters.
InEscape(x, e) == [text |-> x, escape |-> e, valid |-> TRUE]
Between(x)     == InEscape(x, << >>)

\* A byte that is copied is read as itself.
LEMMA ReadCopied ==
  ASSUME NEW x, NEW c \in Bytes, c >= 32, c # Backslash, c # Quote
  PROVE  ReadByte(Between(x), c) = Between(Append(x, c))
<1>1. Len(<< >>) = 0 /\ ~(c < 32)
  BY DEF Bytes
<1>2. QED
  BY <1>1 DEF ReadByte, Between, InEscape, Got

\* A backslash begins an escape sequence.
LEMMA ReadBackslash ==
  ASSUME NEW x
  PROVE  ReadByte(Between(x), Backslash) = InEscape(x, Append(<< >>, Backslash))
<1>1. Len(<< >>) = 0
  OBVIOUS
<1>2. QED
  BY <1>1 DEF ReadByte, Between, InEscape, Waits

\* The letter of a short escape is read as the character it stands for.
LEMMA ReadLetter ==
  ASSUME NEW x, NEW e, Len(e) = 1, NEW c \in Short
  PROVE  ReadByte(InEscape(x, e), Letter(c)) = Between(Append(x, c))
<1>1. ~(Len(e) = 0)
  OBVIOUS
<1>2. Letter(c) # LowerU /\ Unescaped(Letter(c)) = c
  BY DEF Letter, LowerU, Unescaped, Short, Backslash, Quote
<1>3. Letter(c) \in {Letter(byte) : byte \in Short}
  OBVIOUS
<1> DEFINE r == InEscape(x, e)
<1>4. r.escape = e /\ Got(r, c) = Between(Append(x, c))
  BY DEF InEscape, Between, Got
<1> HIDE DEF r
<1>5. ReadByte(r, Letter(c)) = Got(r, Unescaped(Letter(c)))
  BY <1>1, <1>2, <1>3, <1>4 DEF ReadByte
<1>6. QED
  BY <1>2, <1>4, <1>5 DEF r

\* A u begins a number of four digits.
LEMMA ReadU ==
  ASSUME NEW x, NEW e, Len(e) = 1
  PROVE  ReadByte(InEscape(x, e), LowerU) = InEscape(x, Append(e, LowerU))
<1> DEFINE r == InEscape(x, e)
<1>1. ~(Len(e) = 0) /\ r.escape = e
  BY DEF InEscape
<1>2. Waits(r, LowerU) = InEscape(x, Append(e, LowerU))
  BY DEF InEscape, Waits
<1> HIDE DEF r
<1>3. ReadByte(r, LowerU) = Waits(r, LowerU)
  BY <1>1 DEF ReadByte
<1>4. QED
  BY <1>2, <1>3 DEF r

\* Three of them are waited with,
LEMMA ReadDigit ==
  ASSUME NEW x, NEW e, NEW k \in 2..4, Len(e) = k, NEW c \in HexDigits
  PROVE  ReadByte(InEscape(x, e), c) = InEscape(x, Append(e, c))
<1> DEFINE r == InEscape(x, e)
<1>1. ~(k = 0) /\ ~(k = 1) /\ ~(k = 5) /\ r.escape = e
  BY DEF InEscape
<1>2. Waits(r, c) = InEscape(x, Append(e, c))
  BY DEF InEscape, Waits
<1> HIDE DEF r
<1>3. ReadByte(r, c) = Waits(r, c)
  BY <1>1 DEF ReadByte
<1>4. QED
  BY <1>2, <1>3 DEF r

\* and the fourth gives the character.
LEMMA ReadLastDigit ==
  ASSUME NEW x, NEW e, Len(e) = 5, NEW c \in HexDigits
  PROVE  ReadByte(InEscape(x, e), c)
           = Between(Append(x, 4096 * Digit(e[3]) + 256 * Digit(e[4])
                                 + 16 * Digit(e[5]) + Digit(c)))
<1>1. ~(Len(e) = 0) /\ ~(Len(e) = 1) /\ ~(Len(e) \in 2..4)
  OBVIOUS
<1> DEFINE byte == 4096 * Digit(e[3]) + 256 * Digit(e[4]) + 16 * Digit(e[5]) + Digit(c)
<1>2. ReadByte(InEscape(x, e), c) = Got(InEscape(x, e), byte)
  BY <1>1 DEF ReadByte, InEscape
<1> HIDE DEF byte
<1>3. Got(InEscape(x, e), byte) = Between(Append(x, byte))
  BY DEF Got, InEscape, Between
<1>4. QED
  BY <1>2, <1>3 DEF byte

\* A digit that is waited with.
LEMMA Waited ==
  ASSUME NEW e \in Seq(Bytes), NEW c \in Bytes
  PROVE  /\ Append(e, c) \in Seq(Bytes) /\ Len(Append(e, c)) = Len(e) + 1
         /\ Append(e, c)[Len(e) + 1] = c
         /\ \A i \in 1..Len(e) : Append(e, c)[i] = e[i]
BY AppendProperties

\* The hexadecimal digits are those of their numbers.
LEMMA DigitOfHexDigit ==
  ASSUME NEW d \in 0..15
  PROVE  HexDigit(d) \in HexDigits /\ HexDigit(d) \in Bytes /\ Digit(HexDigit(d)) = d
<1>1. HexDigit(d) \in HexDigits /\ HexDigit(d) \in Bytes
  BY DEF HexDigits, HexDigit, Bytes
<1>2. Digit(HexDigit(d)) = d
  BY DEF Digit, HexDigit
<1>3. QED
  BY <1>1, <1>2

\* The escape sequence of a control character is read as that character.
LEMMA ReadControl ==
  ASSUME NEW x, NEW u \in 0..15, NEW l \in 0..15, NEW g,
         g[0] = Between(x),
         g[1] = ReadByte(g[0], Backslash), g[2] = ReadByte(g[1], LowerU),
         g[3] = ReadByte(g[2], 48), g[4] = ReadByte(g[3], 48),
         g[5] = ReadByte(g[4], HexDigit(u)), g[6] = ReadByte(g[5], HexDigit(l))
  PROVE  g[6] = Between(Append(x, 16 * u + l))
<1> DEFINE h == HexDigit(u)
           m == HexDigit(l)
           e1 == Append(<< >>, Backslash)
           e2 == Append(e1, LowerU)
           e3 == Append(e2, 48)
           e4 == Append(e3, 48)
           e5 == Append(e4, h)
<1>1. h \in HexDigits /\ h \in Bytes /\ Digit(h) = u /\ m \in HexDigits /\ Digit(m) = l
  BY DigitOfHexDigit
<1>2. 48 \in HexDigits /\ Digit(48) = 0
  <2>1. HexDigit(0) = 48
    BY DEF HexDigit
  <2>2. QED
    BY <2>1, DigitOfHexDigit
<1>3. Backslash \in Bytes /\ LowerU \in Bytes /\ 48 \in Bytes
  BY DEF Backslash, LowerU, Bytes
<1>4. g[5] = ReadByte(g[4], h) /\ g[6] = ReadByte(g[5], m)
  OBVIOUS
<1> HIDE DEF h, m
<1>5. e1 \in Seq(Bytes) /\ Len(e1) = 1
  BY <1>3
<1> HIDE DEF e1
<1>6. e2 \in Seq(Bytes) /\ Len(e2) = 2
  <2>1. /\ e2 \in Seq(Bytes) /\ Len(e2) = Len(e1) + 1
        /\ e2[Len(e1) + 1] = LowerU
        /\ \A i \in 1..Len(e1) : e2[i] = e1[i]
    BY <1>3, <1>5, Waited, Zenon
  <2> HIDE DEF e2
  <2>2. QED
    BY <1>3, <1>5, <2>1
<1>7. g[2] = InEscape(x, e2)
  <2>1. g[1] = InEscape(x, e1)
    BY ReadBackslash DEF e1
  <2>2. QED
    BY <1>5, <2>1, ReadU
<1> HIDE DEF e2
<1>8. e3 \in Seq(Bytes) /\ Len(e3) = 3 /\ e3[3] = 48
  <2>1. /\ e3 \in Seq(Bytes) /\ Len(e3) = Len(e2) + 1
        /\ e3[Len(e2) + 1] = 48
        /\ \A i \in 1..Len(e2) : e3[i] = e2[i]
    BY <1>3, <1>6, Waited, Zenon
  <2> HIDE DEF e3
  <2>2. QED
    BY <1>3, <1>6, <2>1
<1>9. g[3] = InEscape(x, e3)
  BY <1>2, <1>6, <1>7, ReadDigit
<1> HIDE DEF e3
<1>10. e4 \in Seq(Bytes) /\ Len(e4) = 4 /\ e4[3] = 48 /\ e4[4] = 48
  <2>1. /\ e4 \in Seq(Bytes) /\ Len(e4) = Len(e3) + 1
        /\ e4[Len(e3) + 1] = 48
        /\ \A i \in 1..Len(e3) : e4[i] = e3[i]
    BY <1>3, <1>8, Waited, Zenon
  <2> HIDE DEF e4
  <2>2. QED
    BY <1>3, <1>8, <2>1
<1>11. g[4] = InEscape(x, e4)
  BY <1>2, <1>8, <1>9, ReadDigit
<1> HIDE DEF e4
<1>12. e5 \in Seq(Bytes) /\ Len(e5) = 5 /\ e5[3] = 48 /\ e5[4] = 48 /\ e5[5] = h
  <2>1. /\ e5 \in Seq(Bytes) /\ Len(e5) = Len(e4) + 1
        /\ e5[Len(e4) + 1] = h
        /\ \A i \in 1..Len(e4) : e5[i] = e4[i]
    BY <1>1, <1>10, Waited, Zenon
  <2> HIDE DEF e5
  <2>2. QED
    BY <1>1, <1>10, <2>1
<1>13. g[5] = InEscape(x, e5)
  BY <1>1, <1>4, <1>10, <1>11, ReadDigit
<1> HIDE DEF e5
<1>14. g[6] = Between(Append(x, 4096 * Digit(e5[3]) + 256 * Digit(e5[4])
                                  + 16 * Digit(e5[5]) + Digit(m)))
  BY <1>1, <1>4, <1>12, <1>13, ReadLastDigit
<1>15. 4096 * Digit(e5[3]) + 256 * Digit(e5[4]) + 16 * Digit(e5[5]) + Digit(m)
         = 16 * u + l
  BY <1>1, <1>2, <1>12
<1>16. QED
  BY <1>14, <1>15

\* Whatever the byte: the reader gets it back from what is written for it.
LEMMA ByteReadsBack ==
  ASSUME NEW s \in Seq(Bytes), NEW x, NEW c \in Bytes, Read(s) = Between(x)
  PROVE  Read(s \o Escaped(c)) = Between(Append(x, c))
<1> DEFINE t == Escaped(c)
<1>1. t \in Seq(Bytes)
  BY ByteFits
<1>2. PICK g : /\ g[0] = Read(s)
               /\ g[Len(t)] = Read(s \o t)
               /\ \A i \in 1..Len(t) : g[i] = ReadByte(g[i - 1], t[i])
  BY <1>1, ReadOn
<1>3. CASE c >= 128 \/ (c \notin Short /\ c >= 32)
  <2>1. t = <<c>>
    BY <1>3 DEF Escaped, Bytes
  <2>2. c >= 32 /\ c # Backslash /\ c # Quote
    BY <1>3 DEF Bytes, Short, Backslash, Quote
  <2> HIDE DEF t
  <2>3. Len(t) = 1 /\ t[1] = c
    BY <2>1
  <2>4. g[1] = ReadByte(g[0], c)
    <3>1. 1 \in 1..Len(t) /\ 1 - 1 = 0
      BY <2>3
    <3>2. QED
      BY <1>2, <2>3, <3>1
  <2>5. Read(s \o t) = Between(Append(x, c))
    BY <1>2, <2>2, <2>3, <2>4, ReadCopied
  <2>6. QED
    BY <2>5 DEF t
<1>4. CASE c < 128 /\ c \in Short
  <2>1. t = <<Backslash, Letter(c)>>
    BY <1>4 DEF Escaped, Bytes
  <2> HIDE DEF t
  <2>2. Len(t) = 2 /\ t[1] = Backslash /\ t[2] = Letter(c)
    BY <2>1
  <2>3. g[1] = ReadByte(g[0], Backslash) /\ g[2] = ReadByte(g[1], Letter(c))
    <3>1. 1 \in 1..Len(t) /\ 1 - 1 = 0 /\ 2 \in 1..Len(t) /\ 2 - 1 = 1
      BY <2>2
    <3>2. QED
      BY <1>2, <2>2, <3>1
  <2>4. g[2] = Between(Append(x, c))
    BY <1>2, <1>4, <2>3, ReadBackslash, ReadLetter
  <2>5. Read(s \o t) = Between(Append(x, c))
    BY <1>2, <2>2, <2>4
  <2>6. QED
    BY <2>5 DEF t
<1>5. CASE c < 128 /\ c \notin Short /\ c < 32
  <2> DEFINE u == c \div 16
             l == c % 16
  <2>1. u \in 0..15 /\ l \in 0..15 /\ (16 * u) + l = c
    BY <1>5 DEF Bytes
  <2>2. t = <<Backslash, LowerU, 48, 48, HexDigit(u), HexDigit(l)>>
    BY <1>5 DEF Escaped, Bytes
  <2> HIDE DEF t, u, l
  <2>3. /\ Len(t) = 6 /\ t[1] = Backslash /\ t[2] = LowerU /\ t[3] = 48 /\ t[4] = 48
        /\ t[5] = HexDigit(u) /\ t[6] = HexDigit(l)
    BY <2>2
  <2>4. /\ g[1] = ReadByte(g[0], Backslash) /\ g[2] = ReadByte(g[1], LowerU)
        /\ g[3] = ReadByte(g[2], 48) /\ g[4] = ReadByte(g[3], 48)
        /\ g[5] = ReadByte(g[4], HexDigit(u)) /\ g[6] = ReadByte(g[5], HexDigit(l))
    <3>1. \A i \in 1..6 : g[i] = ReadByte(g[i - 1], t[i])
      BY <1>2, <2>3
    <3>2. /\ 1 \in 1..6 /\ 2 \in 1..6 /\ 3 \in 1..6 /\ 4 \in 1..6 /\ 5 \in 1..6 /\ 6 \in 1..6
          /\ 1 - 1 = 0 /\ 2 - 1 = 1 /\ 3 - 1 = 2 /\ 4 - 1 = 3 /\ 5 - 1 = 4 /\ 6 - 1 = 5
      OBVIOUS
    <3>3. QED
      BY <2>3, <3>1, <3>2
  <2>5. g[6] = Between(Append(x, 16 * u + l))
    <3>1. g[0] = Between(x)
      BY <1>2
    <3>2. QED
      BY <2>1, <2>4, <3>1, ReadControl
  <2>6. QED
    BY <1>2, <2>1, <2>3, <2>5 DEF t
<1>6. QED
  BY <1>3, <1>4, <1>5 DEF Bytes

\* An empty string is read as an empty text.
LEMMA ReadNothing == Read(<< >>) = Between(<< >>)
<1>1. << >> \in Seq(Bytes) /\ Len(<< >>) = 0
  OBVIOUS
<1>2. PICK g : Readings(g, << >>)
  BY <1>1, ReadingsExist
<1>3. Read(<< >>) = g[0]
  BY <1>1, <1>2, ReadIsReading
<1>4. g[0] = Start
  BY <1>2 DEF Readings
<1>5. QED
  BY <1>3, <1>4 DEF Start, Between, InEscape

\* What is written is read as the part of the text that was read.
LEMMA StepKeepsReadBack ==
  ASSUME IInv, WrittenReadsBack, [Next]_vars
  PROVE  WrittenReadsBack'
<1>1. CASE Count
  BY <1>1 DEF Count, WrittenReadsBack
<1>2. CASE Counted
  <2>1. pass' = "write" /\ pos' = 0 /\ src' = src /\ dst' = << >>
    BY <1>2 DEF Counted, IInv, InStep
  <2>2. SubSeq(src, 1, 0) = << >>
    BY DEF IInv, TypeOK
  <2>3. QED
    BY <2>1, <2>2, ReadNothing DEF WrittenReadsBack, Between, InEscape
<1>3. CASE Write
  <2>1. /\ pass = "write" /\ pos < Len(src) /\ src' = src /\ pos' = pos + 1
        /\ dst' = dst \o Escaped(src[pos + 1])
        /\ src \in Seq(Bytes) /\ dst \in Seq(Bytes) /\ pos \in 0..Len(src)
    BY <1>3 DEF Write, IInv, TypeOK
  <2>2. src[pos + 1] \in Bytes /\ Len(src) \in Nat
    BY <2>1
  <2>3. Read(dst) = Between(SubSeq(src, 1, pos))
    BY <2>1 DEF WrittenReadsBack, Between, InEscape
  <2>4. Read(dst') = Between(Append(SubSeq(src, 1, pos), src[pos + 1]))
    BY <2>1, <2>2, <2>3, ByteReadsBack
  <2>5. Append(SubSeq(src, 1, pos), src[pos + 1]) = SubSeq(src, 1, pos + 1)
    BY <2>1, <2>2
  <2>6. QED
    BY <2>1, <2>4, <2>5 DEF WrittenReadsBack, Between, InEscape
<1>4. CASE Written
  <2>1. pass = "write" /\ src' = src /\ pos' = pos /\ dst' = dst
    BY <1>4 DEF Written
  <2>2. QED
    BY <2>1 DEF WrittenReadsBack
<1>5. CASE UNCHANGED vars
  <2>1. pass' = pass /\ src' = src /\ pos' = pos /\ dst' = dst
    BY <1>5 DEF vars
  <2>2. QED
    BY <2>1 DEF WrittenReadsBack
<1>6. QED
  BY <1>1, <1>2, <1>3, <1>4, <1>5 DEF Next

\* Whatever the text, a reader of the JSON string that is made of it gets the
\* text back, with no quote that ends it early and no control character left
\* in it (util.c 58-117).
THEOREM TextReadsBack == Spec => []ReadsBack
<1>1. Init => WrittenReadsBack
  BY DEF Init, WrittenReadsBack
<1>2. IInv /\ WrittenReadsBack => ReadsBack
  <2> SUFFICES ASSUME IInv, WrittenReadsBack, pass = "done"
               PROVE  Read(dst) = [text |-> src, escape |-> << >>, valid |-> TRUE]
    BY DEF ReadsBack
  <2>1. pos = Len(src) /\ src \in Seq(Bytes) /\ SubSeq(src, 1, Len(src)) = src
    BY DEF IInv, TypeOK, InStep
  <2>2. QED
    BY <2>1 DEF WrittenReadsBack
<1>3. IInv /\ WrittenReadsBack /\ [Next]_vars => WrittenReadsBack'
  BY StepKeepsReadBack
<1>4. QED
  BY <1>1, <1>2, <1>3, Invariance, PTL DEF Spec
=============================================================================
