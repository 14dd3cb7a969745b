--------------------------- MODULE RdsJsonEscape ---------------------------
(***************************************************************************)
(* ngx_http_rds_json_escape_json_str (util.c): a first call with dst ==    *)
(* NULL counts the bytes that escaping adds, the caller gets memory for    *)
(* that many, and a second call writes the escaped text.  The two loops    *)
(* are written separately in the code and have to agree byte for byte.     *)
(***************************************************************************)
EXTENDS Integers, Sequences

CONSTANT
  Texts  \* the texts to be escaped

ASSUME TextsAssumption == Texts \subseteq Seq(0..255)

VARIABLES
  src,    \* the text
  pass,   \* "count", "write", or "done"
  pos,    \* bytes of src that the running loop has read
  n,      \* what the counting call has counted
  dst,    \* what the writing call has written
  counts  \* history: n after each byte

vars == <<src, pass, pos, n, dst, counts>>

Bytes == 0..255

\* The characters with a two-character escape, and its letter.
Backslash == 92
Quote     == 34
LowerU    == 117
Letter(c) ==
  CASE c = 13 -> 114         \* \r
    [] c = 10 -> 110         \* \n
    [] c = 12 -> 102         \* \f
    [] c = 8  -> 98          \* \b
    [] c = 9  -> 116         \* \t
    [] c \in {Backslash, Quote} -> c
Short == {13, 10, Backslash, Quote, 12, 8, 9}

HexDigit(d) == IF d < 10 THEN 48 + d ELSE 87 + d

\* Mutant: the counting loop has no default case.
ExtraMutant(c) == IF c < 128 /\ c \in Short THEN 1 ELSE 0

\* What the counting loop adds for a byte.
Extra(c) ==
  IF c >= 128 THEN 0
  ELSE IF c \in Short THEN 1
  ELSE IF c < 32 THEN 5 ELSE 0

\* Mutant: the high digit is taken from the wrong end.
EscapedMutant(c) ==
  IF c >= 128 THEN <<c>>
  ELSE IF c \in Short THEN <<Backslash, Letter(c)>>
  ELSE IF c < 32
    THEN <<Backslash, LowerU, 48, 48, HexDigit(c % 16), HexDigit(c \div 16)>>
    ELSE <<c>>

\* What the writing loop writes for it; the high bit is that of a byte of a
\* UTF-8 sequence, which is copied.
Escaped(c) ==
  IF c >= 128 THEN <<c>>
  ELSE IF c \in Short THEN <<Backslash, Letter(c)>>
  ELSE IF c < 32
    THEN <<Backslash, LowerU, 48, 48, HexDigit(c \div 16), HexDigit(c % 16)>>
    ELSE <<c>>

Init ==
  /\ src \in Texts
  /\ pass = "count"
  /\ pos = 0 /\ n = 0
  /\ dst = << >>
  /\ counts = << >>

\* One turn of the counting loop.
Count ==
  /\ pass = "count"
  /\ pos < Len(src)
  /\ n' = n + Extra(src[pos + 1])
  /\ counts' = Append(counts, n')
  /\ pos' = pos + 1
  /\ UNCHANGED <<src, pass, dst>>

\* The count is returned; the caller gets len + n bytes and calls again (or
\* copies the text when n is 0, which is what the writing loop does then).
Counted ==
  /\ pass = "count"
  /\ pos = Len(src)
  /\ pass' = "write"
  /\ pos' = 0
  /\ UNCHANGED <<src, n, dst, counts>>

\* Mutant: src is advanced by the short escape and again after the switch.
WriteMutant ==
  /\ pass = "write"
  /\ pos < Len(src)
  /\ dst' = dst \o Escaped(src[pos + 1])
  /\ pos' = IF src[pos + 1] \in Short THEN pos + 2 ELSE pos + 1
  /\ UNCHANGED <<src, pass, n, counts>>

\* One turn of the writing loop.
Write ==
  /\ pass = "write"
  /\ pos < Len(src)
  /\ dst' = dst \o Escaped(src[pos + 1])
  /\ pos' = pos + 1
  /\ UNCHANGED <<src, pass, n, counts>>

Written ==
  /\ pass = "write"
  /\ pos = Len(src)
  /\ pass' = "done"
  /\ UNCHANGED <<src, pos, n, dst, counts>>

Next == Count \/ Counted \/ Write \/ Written

Spec == Init /\ [][Next]_vars

-----------------------------------------------------------------------------
(* Properties.                                                             *)

\* The count after i bytes.
CountAt(cs, i) == IF i = 0 THEN 0 ELSE cs[i]

\* Both loops stay in the text; the counts are those of the first loop.
TypeOK ==
  /\ src \in Seq(Bytes)
  /\ pass \in {"count", "write", "done"}
  /\ pos \in 0..Len(src)
  /\ n \in Nat
  /\ dst \in Seq(Bytes)
  /\ counts \in Seq(Nat)

\* The inductive invariant: the loops run in step, what was written for the
\* first bytes of the text is what was counted for them.
InStep ==
  /\ pass = "count" =>
       Len(counts) = pos /\ n = CountAt(counts, pos) /\ dst = << >>
  /\ pass # "count" =>
       /\ Len(counts) = Len(src) /\ n = CountAt(counts, Len(src))
       /\ Len(dst) = pos + CountAt(counts, pos)
  /\ pass = "done" => pos = Len(src)
  /\ \A i \in 1..Len(counts) : counts[i] = CountAt(counts, i - 1) + Extra(src[i])
  /\ \A i, j \in 1..Len(counts) : i <= j => counts[i] <= counts[j]

\* The memory that the caller gets for the text, its length and the count,
\* is filled to the last byte and not overrun, whatever the text
\* (filter_module.c 591, output.c 289, handler.c 173 test this at run time;
\* output_cols does not).
FillsItsMemory == pass = "done" => Len(dst) = Len(src) + n

\* While it is being written the text does not leave this memory.
NeverOverruns == pass = "write" => Len(dst) <= Len(src) + n

IInv == TypeOK /\ InStep

\* A reader of JSON strings: the text it has got, the part of an escape
\* sequence it is in, and whether the bytes were those of one string so far.
Start == [text |-> << >>, escape |-> << >>, valid |-> TRUE]

HexDigits == {HexDigit(d) : d \in 0..15}

Digit(c) == IF c < 58 THEN c - 48 ELSE c - 87

Unescaped(letter) ==
  CASE letter = 114 -> 13 [] letter = 110 -> 10 [] letter = 102 -> 12
    [] letter = 98 -> 8 [] letter = 116 -> 9
    [] letter \in {Backslash, Quote} -> letter

Got(r, byte) == [text |-> Append(r.text, byte), escape |-> << >>, valid |-> r.valid]
Waits(r, c)  == [text |-> r.text, escape |-> Append(r.escape, c), valid |-> r.valid]
Refused(r)   == [text |-> r.text, escape |-> << >>, valid |-> FALSE]

\* The next byte is read.  Outside of an escape sequence a quote ends the
\* string, and control characters are not allowed.
ReadByte(r, c) ==
  CASE Len(r.escape) = 0 ->
         IF c = Backslash THEN Waits(r, c)
         ELSE IF c = Quote \/ c < 32 THEN Refused(r) ELSE Got(r, c)
    [] Len(r.escape) = 1 ->
         IF c = LowerU THEN Waits(r, c)
         ELSE IF c \in {Letter(byte) : byte \in Short} THEN Got(r, Unescaped(c)) ELSE Refused(r)
    [] Len(r.escape) \in 2..4 ->
         IF c \in HexDigits THEN Waits(r, c) ELSE Refused(r)
    [] Len(r.escape) = 5 ->
         IF c \in HexDigits
           THEN Got(r, 4096 * Digit(r.escape[3]) + 256 * Digit(r.escape[4])
                         + 16 * Digit(r.escape[5]) + Digit(c))
           ELSE Refused(r)

Read(s) ==
  LET after[i \in 0..Len(s)] == IF i = 0 THEN Start ELSE ReadByte(after[i - 1], s[i])
  IN after[Len(s)]

\* ReadsBack strengthened: what is written is read as the part of the text
\* that was read for it.
WrittenReadsBack ==
  pass # "count" => Read(dst) = [text |-> SubSeq(src, 1, pos), escape |-> << >>, valid |-> TRUE]

\* A reader of the JSON string gets the text back; no quote ends the string
\* early, and no control character is left in it (README.md "rds_json_ret":
\* properly quoted as a JSON string; t/escape.t).
ReadsBack ==
  pass = "done" => Read(dst) = [text |-> src, escape |-> << >>, valid |-> TRUE]
=============================================================================
