------------------------ MODULE RdsJsonFilterProofs -------------------------
(***************************************************************************)
(* Theorems about RdsJsonFilter, for all result sets, all layouts of the   *)
(* bufs, all configurations and lengths of chains:                         *)
(*   the header protocol (HeaderInv): one response header, in front, which *)
(* header_sent tells of; an answer to every request that is refused; and   *)
(* no raw data behind a promise of JSON;                                   *)
(*   the conversion (ConvInv): the handlers stand where the wire does, and *)
(* what they have written is the beginning of the JSON text, all of it at  *)
(* the end;                                                                *)
(*   legal layouts (LegalInv): the filter takes them.                      *)
(***************************************************************************)
EXTENDS RdsJsonFilter, RdsJsonWireProofs, TLAPS

\* The functions that run when the header was sent.
Later == (Functions \ {"process_header"}) \cup Outputs

\* What these functions leave to the others.
LEMMA LaterKeeps ==
  ASSUME HeaderInv, pc \in Later,
         UNCHANGED <<responseVars, requestVars, response, body, raw, failed>>,
         state' \in States \ {"expect_header"},
         pc' \in Later \cup {"output_bufs", "error"},
         exhausted => exhausted'
  PROVE  HeaderInv'
<1>1. ~Skipped
  BY DEF HeaderInv, LeftAlone, Later, Functions, Outputs
<1>2. headers = <<200>> /\ header_sent
  BY <1>1 DEF HeaderInv, HeaderInStep, Later
<1>3. UNCHANGED <<headers, header_sent, attached, header_only, error_end, head, Skipped>>
  BY DEF responseVars, requestVars, Skipped
<1>4. LeftAlone'
  BY <1>1, <1>3 DEF LeftAlone
<1>5. HeaderInStep'
  BY <1>1, <1>2, <1>3 DEF HeaderInv, HeaderInStep, Later, Functions, Outputs
<1>6. ErrorInStep'
  BY <1>1, <1>2, <1>3 DEF HeaderInv, ErrorInStep, Answered, Later, Functions, Outputs
<1> QED
  BY <1>2, <1>3, <1>4, <1>5, <1>6 DEF HeaderInv

\* A handler that has nothing to read returns.
LEMMA ReturnOkKeeps ==
  ASSUME HeaderInv, pc \in Functions, ReturnOk,
         UNCHANGED <<response, upstreamVars, body, raw, failed>>
  PROVE  HeaderInv'
BY DEF ReturnOk, HeaderInv, LeftAlone, HeaderInStep, ErrorInStep, Answered, Skipped,
       parserVars, responseVars, requestVars, Functions, Outputs

\* process_header, the only handler that sends a header.
LEMMA SendInvalidKeeps ==
  ASSUME HeaderInv, pc = "process_header", SendInvalid, exhausted => exhausted',
         UNCHANGED <<response, upstreamVars, body, raw, failed>>
  PROVE  HeaderInv'
<1>1. ~Skipped /\ headers = << >> /\ ~header_sent /\ json = << >> /\ body = << >>
  BY DEF HeaderInv, LeftAlone, HeaderInStep
<1>2. /\ headers' = <<500>> /\ header_sent' = TRUE /\ header_only' = head
      /\ error_end' = TRUE /\ pc' = "error"
  BY <1>1 DEF SendInvalid, ReturnError
<1>3. UNCHANGED <<Skipped, state, json, body, raw, head, failed>>
  BY DEF SendInvalid, Skipped, parserVars, requestVars
<1>4. ErrorInStep'
  BY <1>1, <1>2, <1>3 DEF HeaderInv, ErrorInStep, Answered
<1>5. LeftAlone' /\ HeaderInStep'
  BY <1>1, <1>2, <1>3 DEF HeaderInv, HeaderInStep, LeftAlone, Functions, Outputs
<1> QED
  BY <1>2, <1>3, <1>4, <1>5 DEF HeaderInv

\* The state has moved on, and the header was sent.
LEMMA HeaderSentKeeps ==
  ASSUME HeaderInv, pc = "process_header", SendHeader,
         state' \in States \ {"expect_header"},
         pc' \in {"process_col", "output_bufs", "error"},
         exhausted => exhausted',
         UNCHANGED <<requestVars, response, upstreamVars, body, raw, failed>>
  PROVE  HeaderInv'
BY DEF SendHeader, HeaderInv, LeftAlone, HeaderInStep, ErrorInStep, Answered,
       Skipped, responseVars, requestVars, Functions, Outputs, States

LEMMA ProcessHeaderKeeps ==
  ASSUME HeaderInv, ProcessHeader,
         UNCHANGED <<response, upstreamVars, body, raw, failed>>
  PROVE  HeaderInv'
<1> pc = "process_header" /\ pc \in Functions
  BY DEF ProcessHeader, Functions
<1>1. CASE ReturnOk
  BY <1>1, ReturnOkKeeps
<1>2. CASE SendInvalid /\ (UNCHANGED exhausted \/ exhausted' = TRUE)
  BY <1>2, SendInvalidKeeps
<1>3. ASSUME NEW header, EmptyResult(header)
      PROVE  HeaderInv'
  BY <1>3, HeaderSentKeeps DEF EmptyResult, Emit, ReturnError, States
<1>4. ASSUME NEW n, NEW rest, ExpectColumns(n, rest)
      PROVE  HeaderInv'
  BY <1>4, HeaderSentKeeps DEF ExpectColumns, ReturnError, States
<1> QED
  BY <1>1, <1>2, <1>3, <1>4 DEF ProcessHeader

\* The other handlers, which only read and emit.
LEMMA ProcessColKeeps ==
  ASSUME HeaderInv, ProcessCol,
         UNCHANGED <<response, upstreamVars, body, raw, failed>>
  PROVE  HeaderInv'
<1>1. CASE ReturnOk
  BY <1>1, ReturnOkKeeps DEF ProcessCol, Functions
<1>2. CASE ~ReturnOk
  <2>1. pc \in Later /\ state \in States \ {"expect_header"}
    BY DEF ProcessCol, Later, Functions, HeaderInv, LeftAlone, HeaderInStep, Outputs
  <2> QED
    BY <1>2, <2>1, LaterKeeps
    DEF ProcessCol, ReturnError, parserVars, responseVars, requestVars, Later, Functions,
        Outputs, States
<1> QED
  BY <1>1, <1>2

\* A later function runs in a later state.
LEMMA LaterState ==
  ASSUME HeaderInv, pc \in Later
  PROVE  state \in States \ {"expect_header"}
BY DEF Later, Functions, HeaderInv, LeftAlone, HeaderInStep, Outputs

LEMMA OutputsKeep ==
  ASSUME HeaderInv, OutputProps \/ OutputList \/ OutputCols,
         UNCHANGED <<response, upstreamVars, body, raw, failed>>
  PROVE  HeaderInv'
<1>1. pc \in Later
  BY DEF OutputProps, OutputList, OutputCols, Later, Outputs
<1>2. ASSUME NEW tokens, NEW next, NEW rest, next \in Later, Emit(tokens, next, rest)
      PROVE  pc' \in Later \cup {"output_bufs", "error"} /\ (exhausted => exhausted')
  BY <1>2 DEF Emit, ReturnError
<1>3. pc' \in Later \cup {"output_bufs", "error"} /\ (exhausted => exhausted')
  <2>1. {"output_list", "output_cols", "process_row"} \subseteq Later
    BY DEF Later, Functions, Outputs
  <2> QED
    BY <1>2, <2>1 DEF OutputProps, OutputList, OutputCols
<1>4. UNCHANGED <<state, responseVars, requestVars>>
  BY DEF OutputProps, OutputList, OutputCols, parserVars
<1> QED
  BY <1>1, <1>3, <1>4, LaterState, LaterKeeps

LEMMA ProcessRowKeeps ==
  ASSUME HeaderInv, ProcessRow,
         UNCHANGED <<response, upstreamVars, body, raw, failed>>
  PROVE  HeaderInv'
<1>1. CASE ReturnOk
  BY <1>1, ReturnOkKeeps DEF ProcessRow, Functions
<1>2. CASE ~ReturnOk
  <2>1. pc \in Later
    BY DEF ProcessRow, Later, Functions
  <2> QED
    BY <1>2, <2>1, LaterState, LaterKeeps
    DEF ProcessRow, EndOfRows, NextRow, Emit, ReturnError, parserVars, responseVars,
        requestVars, Later, Functions, Outputs, States
<1> QED
  BY <1>1, <1>2

\* What a part of a field does to state, pc and exhausted.
LEMMA FieldPart ==
  ASSUME NEW tokens, NEW rest, state \in States \ {"expect_header"},
         FieldEnds(tokens, rest) \/ FieldContinues(tokens, rest)
  PROVE  /\ state' \in States \ {"expect_header"}
         /\ pc' \in Later \cup {"output_bufs", "error"}
         /\ exhausted => exhausted'
BY DEF FieldEnds, FieldContinues, Emit, ReturnError, Later, Functions, States

LEMMA ProcessFieldKeeps ==
  ASSUME HeaderInv, ProcessField,
         UNCHANGED <<response, upstreamVars, body, raw, failed>>
  PROVE  HeaderInv'
<1>1. CASE ReturnOk
  BY <1>1, ReturnOkKeeps DEF ProcessField, Functions
<1>2. CASE ~ReturnOk
  <2>1. pc \in Later
    BY DEF ProcessField, Later, Functions
  <2>2. ASSUME NEW units, NEW total, NEW is_null, ReadField(units, total, is_null)
        PROVE  /\ state' \in States \ {"expect_header"}
               /\ pc' \in Later \cup {"output_bufs", "error"}
               /\ exhausted => exhausted'
    BY <2>1, <2>2, LaterState, FieldPart DEF ReadField, ReturnError
  <2>3. /\ state' \in States \ {"expect_header"}
        /\ pc' \in Later \cup {"output_bufs", "error"}
        /\ exhausted => exhausted'
    <3>1. CASE ReturnError /\ UNCHANGED <<state, exhausted>>
      BY <2>1, <3>1, LaterState DEF ReturnError
    <3>2. CASE \E total, is_null : ReadField(Units(in), total, is_null)
      BY <2>2, <3>2
    <3> QED
      BY <1>2, <3>1, <3>2 DEF ProcessField, parserVars
  <2>4. UNCHANGED <<responseVars, requestVars>>
    BY <1>2 DEF ProcessField
  <2> QED
    BY <2>1, <2>3, <2>4, LaterKeeps
<1> QED
  BY <1>1, <1>2

LEMMA ProcessMoreFieldDataKeeps ==
  ASSUME HeaderInv, ProcessMoreFieldData,
         UNCHANGED <<response, upstreamVars, body, raw, failed>>
  PROVE  HeaderInv'
<1>1. CASE ReturnOk
  BY <1>1, ReturnOkKeeps DEF ProcessMoreFieldData, Functions
<1>2. CASE ~ReturnOk
  <2>1. pc \in Later
    BY DEF ProcessMoreFieldData, Later, Functions
  <2>2. ASSUME NEW units, ReadMore(units)
        PROVE  /\ state' \in States \ {"expect_header"}
               /\ pc' \in Later \cup {"output_bufs", "error"}
               /\ exhausted => exhausted'
    BY <2>1, <2>2, LaterState, FieldPart DEF ReadMore, ReturnError
  <2> QED
    BY <1>2, <2>1, <2>2, LaterState, LaterKeeps
    DEF ProcessMoreFieldData, ReturnError, parserVars, responseVars, requestVars
<1> QED
  BY <1>1, <1>2

\* The header filter.
LEMMA HeaderFilterKeeps ==
  ASSUME HeaderInv, HeaderFilter
  PROVE  HeaderInv'
<1>1. CASE PassHeader
  BY <1>1 DEF PassHeader, HeaderInv, LeftAlone, HeaderInStep, ErrorInStep, Skipped,
              parserVars, requestVars, States
<1>2. CASE PostponeHeader
  BY <1>2 DEF PostponeHeader, HeaderInv, LeftAlone, HeaderInStep, ErrorInStep, Answered,
              Skipped, parserVars, requestVars, Functions, Outputs
<1>3. CASE HeaderFilterFails
  BY <1>3 DEF HeaderFilterFails, HeaderInv, LeftAlone, HeaderInStep, ErrorInStep, Answered,
              Skipped, parserVars, responseVars, requestVars, Functions, Outputs
<1> QED
  BY <1>1, <1>2, <1>3 DEF HeaderFilter

\* Upstream changes nothing but the chain.
LEMMA UpstreamKeeps ==
  ASSUME HeaderInv, Upstream
  PROVE  HeaderInv'
<1>1. UNCHANGED <<requestVars, pc, parserVars, responseVars, json, exhausted, response,
                  body, raw, failed>>
  BY DEF Upstream, AddMem, AddSpecial, AddFile
<1> QED
  BY <1>1 DEF HeaderInv, LeftAlone, HeaderInStep, ErrorInStep, Answered, Skipped,
              parserVars, responseVars, requestVars

\* The body filter.
LEMMA DispatchKeeps ==
  ASSUME HeaderInv, Dispatch
  PROVE  HeaderInv'
<1>1. ~Skipped
  BY DEF Dispatch, HeaderInv, LeftAlone
<1>2. /\ pc' \in Functions
      /\ pc' = "process_header" <=> state = "expect_header"
  BY DEF Dispatch, Handler, HeaderInv, States, Functions
<1> QED
  BY <1>1, <1>2
  DEF Dispatch, HeaderInv, LeftAlone, HeaderInStep, ErrorInStep, Answered, Skipped,
      parserVars, responseVars, requestVars, Functions, Outputs

LEMMA BodyFilterKeeps ==
  ASSUME HeaderInv, BodyFilter
  PROVE  HeaderInv'
<1>1. CASE PassThrough
  BY <1>1 DEF PassThrough, HeaderInv, LeftAlone, HeaderInStep, ErrorInStep, Answered, Skipped,
              parserVars, responseVars, requestVars
<1>2. CASE Dispatch
  BY <1>2, DispatchKeeps
<1>3. CASE Discard
  BY <1>3 DEF Discard, HeaderInv, LeftAlone, HeaderInStep, ErrorInStep, Answered, Skipped,
              parserVars, responseVars, requestVars
<1>4. CASE ProcessStep
  BY <1>4, ProcessHeaderKeeps, ProcessColKeeps, OutputsKeep, ProcessRowKeeps,
     ProcessFieldKeeps, ProcessMoreFieldDataKeeps DEF ProcessStep, Process
<1>5. CASE OutputBufs
  BY <1>5 DEF OutputBufs, HeaderInv, LeftAlone, HeaderInStep, ErrorInStep, Answered, Skipped,
              parserVars, responseVars, requestVars, Functions, Outputs
<1>6. CASE HandleError
  BY <1>6 DEF HandleError, HeaderPending, HeaderInv, LeftAlone, HeaderInStep, ErrorInStep,
              Answered, Skipped, requestVars, Functions, Outputs, States
<1> QED
  BY <1>1, <1>2, <1>3, <1>4, <1>5, <1>6 DEF BodyFilter

LEMMA NextKeepsHeader ==
  HeaderInv /\ [Next]_vars => HeaderInv'
<1> SUFFICES ASSUME HeaderInv, [Next]_vars
             PROVE  HeaderInv'
  OBVIOUS
<1>1. CASE UNCHANGED vars
  BY <1>1 DEF vars, HeaderInv, LeftAlone, HeaderInStep, ErrorInStep, Answered, Skipped,
              parserVars, responseVars, requestVars, upstreamVars
<1> QED
  BY <1>1, HeaderFilterKeeps, UpstreamKeeps, BodyFilterKeeps DEF Next

LEMMA HeaderProtocol == Spec => []HeaderInv
<1>1. Init => HeaderInv
  BY DEF Init, HeaderInv, LeftAlone, HeaderInStep, ErrorInStep, States, Functions, Outputs
<1> QED
  BY <1>1, NextKeepsHeader, PTL DEF Spec

-----------------------------------------------------------------------------
\* The client gets exactly one response header, before any byte of a body,
\* and no JSON after a 500 header, whatever the handlers fail on.
THEOREM HeaderComesFirst == Spec => []OneHeaderFirst
<1>1. HeaderInv => OneHeaderFirst
  <2> SUFFICES ASSUME HeaderInv
               PROVE  OneHeaderFirst
    OBVIOUS
  <2>1. Len(headers) = IF headers = << >> THEN 0 ELSE 1
    BY DEF HeaderInv
  <2>2. body # << >> \/ raw \/ error_end => headers # << >>
    BY DEF HeaderInv, LeftAlone, HeaderInStep, ErrorInStep
  <2>3. headers = <<500>> => body = << >>
    <3>1. <<500>> # <<200>>
      OBVIOUS
    <3> QED
      BY <3>1 DEF HeaderInv, LeftAlone, HeaderInStep
  <2> QED
    BY <2>1, <2>2, <2>3 DEF OneHeaderFirst
<1> QED
  BY <1>1, HeaderProtocol, PTL

\* ctx->header_sent tells exactly whether the postponed header was sent.
THEOREM HeaderSentTells == Spec => []HeaderSentExact
<1>1. HeaderInv => HeaderSentExact
  BY DEF HeaderInv, HeaderInStep, HeaderSentExact
<1> QED
  BY <1>1, HeaderProtocol, PTL

\* A refused request is answered with a 500 header and the end of the
\* response.
THEOREM RefusedGetsAnswer == Spec => []RefusedIsAnswered
<1>1. HeaderInv => RefusedIsAnswered
  BY DEF HeaderInv, ErrorInStep, Answered, RefusedIsAnswered
<1> QED
  BY <1>1, HeaderProtocol, PTL

\* RDS data never follow a promise of JSON.
THEOREM RawStaysApart == Spec => []NeverMixed
<1>1. HeaderInv => NeverMixed
  BY DEF HeaderInv, ErrorInStep, NeverMixed
<1> QED
  BY <1>1, HeaderProtocol, PTL

-----------------------------------------------------------------------------
(* Chains.                                                                 *)

Bufs == {b \in [kind : {"mem", "special", "file"}, units : Wire] :
           b.kind = "special" => b.units = << >>}

UnitsOf(chain) == [i \in DOMAIN chain |-> chain[i].units]

\* All units on a chain.
Chunks(chain) == FlattenSeq(UnitsOf(chain))

\* The units of a chain.
LEMMA UnitsOfType ==
  ASSUME NEW chain \in Seq(Bufs)
  PROVE  /\ UnitsOf(chain) \in Seq(Wire) /\ Len(UnitsOf(chain)) = Len(chain)
         /\ \A i \in 1..Len(chain) : UnitsOf(chain)[i] = chain[i].units
         /\ Chunks(chain) \in Wire
<1>1. Len(chain) \in Nat /\ DOMAIN chain = 1..Len(chain) /\ \A i \in 1..Len(chain) : chain[i] \in Bufs
  BY LenProperties, ElementOfSeq
<1>2. \A i \in 1..Len(chain) : UnitsOf(chain)[i] = chain[i].units /\ chain[i].units \in Wire
  BY <1>1 DEF UnitsOf, Bufs
<1>3. UnitsOf(chain) \in [1..Len(chain) -> Wire]
  BY <1>1, <1>2 DEF UnitsOf
<1>4. UnitsOf(chain) \in Seq(Wire) /\ Len(UnitsOf(chain)) = Len(chain)
  BY <1>1, <1>3, MapType
<1>5. Chunks(chain) \in Wire
  BY <1>4, FlattenType DEF Chunks, Wire
<1> QED
  BY <1>2, <1>4, <1>5

LEMMA ChunksConcat ==
  ASSUME NEW a \in Seq(Bufs), NEW b \in Seq(Bufs)
  PROVE  Chunks(a \o b) = Chunks(a) \o Chunks(b)
<1> DEFINE ab == a \o b
           x == UnitsOf(ab)
           y == UnitsOf(a)
           z == UnitsOf(b)
<1>1. /\ ab \in Seq(Bufs) /\ Len(ab) = Len(a) + Len(b)
      /\ \A i \in 1..Len(a) : ab[i] = a[i]
      /\ \A i \in 1..Len(b) : ab[Len(a) + i] = b[i]
      /\ Len(a) \in Nat /\ Len(b) \in Nat
  BY ConcatProperties, LenProperties
<1>2. /\ y \in Seq(Wire) /\ Len(y) = Len(a) /\ \A i \in 1..Len(a) : y[i] = a[i].units
      /\ z \in Seq(Wire) /\ Len(z) = Len(b) /\ \A i \in 1..Len(b) : z[i] = b[i].units
  BY UnitsOfType
<1> HIDE DEF ab
<1>3. x \in Seq(Wire) /\ Len(x) = Len(ab) /\ \A i \in 1..Len(ab) : x[i] = ab[i].units
  BY <1>1, UnitsOfType
<1> HIDE DEF x, y, z
<1>4. \A i \in 1..Len(a) : i \in 1..Len(ab)
  BY <1>1
<1>5. \A i \in 1..Len(b) : Len(a) + i \in 1..Len(ab)
  BY <1>1
<1>6. /\ Len(x) = Len(y) + Len(z)
      /\ \A i \in 1..Len(y) : x[i] = y[i]
      /\ \A i \in 1..Len(z) : x[Len(y) + i] = z[i]
  BY <1>1, <1>2, <1>3, <1>4, <1>5, ZenonT(60)
<1>7. x = y \o z
  BY <1>2, <1>3, <1>6, IsConcat
<1>8. FlattenSeq(y \o z) = FlattenSeq(y) \o FlattenSeq(z)
  BY <1>2, FlattenConcat DEF Wire
<1> QED
  BY <1>7, <1>8, Zenon DEF Chunks, x, y, z, ab

LEMMA ChunksOne ==
  ASSUME NEW b \in Bufs
  PROVE  Chunks(<<b>>) = b.units /\ <<b>> \in Seq(Bufs) /\ b.units \in Wire
<1>1. b.units \in Wire
  BY DEF Bufs
<1>2. UnitsOf(<<b>>) = <<b.units>>
  BY DEF UnitsOf
<1>3. FlattenSeq(<<b.units>>) = b.units
  BY <1>1, FlattenOne DEF Wire
<1> QED
  BY <1>1, <1>2, <1>3 DEF Chunks

LEMMA ChunksEmpty == Chunks(<< >>) = << >>
<1>1. UnitsOf(<< >>) = << >>
  BY DEF UnitsOf
<1> QED
  BY <1>1, FlattenEmpty DEF Chunks

\* A buf is put on a chain.
LEMMA ChunksAppend ==
  ASSUME NEW chain \in Seq(Bufs), NEW b \in Bufs
  PROVE  Append(chain, b) \in Seq(Bufs) /\ Chunks(Append(chain, b)) = Chunks(chain) \o b.units
<1>1. Append(chain, b) = chain \o <<b>> /\ Append(chain, b) \in Seq(Bufs)
  BY AppendIsConcat, AppendProperties
<1>2. Chunks(chain \o <<b>>) = Chunks(chain) \o Chunks(<<b>>)
  BY ChunksOne, ChunksConcat
<1> QED
  BY <1>1, <1>2, ChunksOne

\* A chain and its first buf.
LEMMA HeadOf ==
  ASSUME NEW chain \in Seq(Bufs), chain # << >>
  PROVE  /\ chain[1] \in Bufs /\ Tail(chain) \in Seq(Bufs) /\ chain = <<chain[1]>> \o Tail(chain)
         /\ Len(chain) \in Nat \ {0} /\ Len(Tail(chain)) = Len(chain) - 1
         /\ chain[1].units \in Wire
         /\ Chunks(chain) = chain[1].units \o Chunks(Tail(chain))
<1>1. /\ Len(chain) \in Nat \ {0} /\ Head(chain) = chain[1] /\ chain[1] \in Bufs
      /\ Tail(chain) \in Seq(Bufs) /\ Len(Tail(chain)) = Len(chain) - 1
      /\ chain = <<Head(chain)>> \o Tail(chain)
  <2>1. Len(chain) \in Nat \ {0}
    BY LenProperties, EmptySeq
  <2>2. Head(chain) \in Bufs /\ Tail(chain) \in Seq(Bufs) /\ Len(Tail(chain)) = Len(chain) - 1
    BY HeadTailProperties
  <2>3. Head(chain) = chain[1]
    OBVIOUS
  <2>4. chain = <<Head(chain)>> \o Tail(chain)
    OBVIOUS
  <2> QED
    BY <2>1, <2>2, <2>3, <2>4
<1> DEFINE b == chain[1]
           x == Tail(chain)
<1>2. <<b>> \in Seq(Bufs) /\ Chunks(<<b>>) = b.units /\ b.units \in Wire
  BY <1>1, ChunksOne
<1>3. Chunks(<<b>> \o x) = Chunks(<<b>>) \o Chunks(x)
  BY <1>1, <1>2, ChunksConcat
<1> HIDE DEF b, x
<1>4. Chunks(chain) = b.units \o Chunks(x)
  BY <1>1, <1>2, <1>3, Zenon DEF b, x
<1> QED
  BY <1>1, <1>2, <1>4 DEF b, x

\* n units of the first buf of a chain are read; w is still to come.
LEMMA HeadRead ==
  ASSUME NEW chain \in Seq(Bufs), chain # << >>, NEW w \in Wire,
         NEW n \in 0..Len(chain[1].units), chain[1].kind # "special"
  PROVE  /\ Chunks(chain) \o w \in Wire
         /\ Len(chain[1].units) <= Len(Chunks(chain) \o w)
         /\ \A i \in 1..Len(chain[1].units) : chain[1].units[i] = (Chunks(chain) \o w)[i]
         /\ Advance(chain, n) \in Seq(Bufs)
         /\ Chunks(Advance(chain, n)) \o w = Drop(Chunks(chain) \o w, n)
<1> DEFINE u == chain[1].units
           x == Tail(chain)
           y == Chunks(x)
           b == chain[1]
           c == [b EXCEPT !.units = SubSeq(@, n + 1, Len(@))]
           yw == y \o w
<1>1. /\ b \in Bufs /\ x \in Seq(Bufs) /\ chain = <<b>> \o x
      /\ Len(chain) \in Nat \ {0} /\ Len(x) = Len(chain) - 1
      /\ u \in Wire /\ Chunks(chain) = u \o y
  BY HeadOf
<1>2. y \in Wire /\ yw \in Wire
  BY <1>1, UnitsOfType, WireConcat
<1>3. Len(u) \in Nat /\ u \in Seq(WireUnits) /\ Drop(u, n) \in Wire
  <2>1. u \in Seq(WireUnits) /\ n \in 0..Len(u)
    BY <1>1 DEF Wire
  <2>2. Drop(u, n) \in Seq(WireUnits) /\ Len(u) \in Nat
    BY <2>1, DropType, LenProperties
  <2> QED
    BY <2>1, <2>2 DEF Wire
<1>4. Chunks(chain) \o w = u \o yw
  <2>1. (u \o y) \o w = u \o (y \o w)
    <3> HIDE DEF u, y
    <3> QED
      BY <1>1, <1>2, WireAssoc
  <2> QED
    BY <1>1, <2>1, Zenon
<1>5. /\ u \o yw \in Wire /\ Len(u) <= Len(u \o yw)
      /\ \A i \in 1..Len(u) : u[i] = (u \o yw)[i]
  <2> HIDE DEF u, yw
  <2>1. yw \in Seq(WireUnits) /\ Len(yw) \in Nat
    BY <1>2, LenProperties DEF Wire
  <2>2. u \o yw \in Seq(WireUnits) /\ Len(u \o yw) = Len(u) + Len(yw)
        /\ \A i \in 1..Len(u) : u[i] = (u \o yw)[i]
    BY <1>3, <2>1, ConcatProperties
  <2> QED
    BY <1>3, <2>1, <2>2 DEF Wire
<1>6. Drop(u \o yw, n) = Drop(u, n) \o yw
  <2>1. yw \in Seq(WireUnits)
    BY <1>2 DEF Wire
  <2>2. n \in 0..Len(u)
    OBVIOUS
  <2> HIDE DEF u, yw
  <2> QED
    BY <1>3, <2>1, <2>2, DropMore
<1>7. c \in Bufs /\ c.units = Drop(u, n)
  BY <1>1, <1>3 DEF Bufs, Drop
<1>8. CASE n >= Len(u)
  <2>1. n = Len(u)
    BY <1>3, <1>8
  <2>2. Drop(u, n) = << >>
    BY <1>3, <2>1, DropNone
  <2>3. << >> \o yw = yw
    BY <1>2, WireEmpty
  <2>4. Advance(chain, n) = x
    BY <1>8 DEF Advance
  <2> QED
    BY <1>1, <1>4, <1>5, <1>6, <2>2, <2>3, <2>4, Zenon
<1>9. CASE n < Len(u)
  <2>1. Advance(chain, n) = [chain EXCEPT ![1] = c]
    <3>1. ~(n >= Len(u))
      BY <1>3, <1>9
    <3>2. Advance(chain, n) = [chain EXCEPT ![1].units = SubSeq(@, n + 1, Len(@))]
      BY <3>1 DEF Advance
    <3> DEFINE sub == SubSeq(u, n + 1, Len(u))
    <3>3. [chain EXCEPT ![1].units = sub] = [chain EXCEPT ![1] = [b EXCEPT !.units = sub]]
      <4> HIDE DEF sub
      <4> QED
        OBVIOUS
    <3> QED
      BY <3>2, <3>3, Zenon
  <2> HIDE DEF c, x, b, u
  <2>2. [chain EXCEPT ![1] = c] = <<c>> \o x
    <3> DEFINE l == [chain EXCEPT ![1] = c]
    <3>1. /\ <<b>> \in Seq(Bufs) /\ Len(<<b>>) = 1
          /\ <<c>> \in Seq(Bufs) /\ Len(<<c>>) = 1 /\ <<c>>[1] = c
      BY <1>1, <1>7, SingletonType
    <3>2. DOMAIN chain = 1..Len(chain) /\ 1 \in 1..Len(chain)
      BY <1>1, LenProperties
    <3>3. l \in Seq(Bufs) /\ Len(l) = Len(chain) /\ l[1] = c
          /\ \A i \in 1..Len(chain) : i # 1 => l[i] = chain[i]
      <4>1. /\ \A i \in 1..Len(chain) : l[i] = IF i = 1 THEN c ELSE chain[i]
            /\ DOMAIN l = 1..Len(chain)
        BY <3>2
      <4>2. \A i \in 1..Len(chain) : chain[i] \in Bufs
        BY ElementOfSeq
      <4>3. l \in [1..Len(chain) -> Bufs]
        BY <1>7, <3>2, <4>2
      <4> HIDE DEF l
      <4>4. l \in Seq(Bufs) /\ Len(l) = Len(chain)
        BY <1>1, <4>3, MapType
      <4> QED
        BY <3>2, <4>1, <4>4
    <3>4. \A i \in 1..Len(x) : (<<b>> \o x)[Len(<<b>>) + i] = x[i]
      BY <1>1, <3>1, ConcatProperties
    <3>5. Len(x) \in Nat
      BY <1>1
    <3>6. \A i \in 1..Len(x) : 1 + i \in 1..Len(chain) /\ 1 + i # 1
      BY <1>1, <3>5
    <3>7. \A i \in 1..Len(x) : l[1 + i] = x[i]
      BY <1>1, <3>1, <3>3, <3>4, <3>6
    <3> DEFINE o == <<c>>
    <3>8. /\ o \in Seq(Bufs) /\ Len(l) = Len(o) + Len(x)
          /\ \A i \in 1..Len(o) : l[i] = o[i]
          /\ \A i \in 1..Len(x) : l[Len(o) + i] = x[i]
      BY <1>1, <3>1, <3>3, <3>7
    <3> HIDE DEF l, o
    <3>9. l = o \o x
      BY <1>1, <3>3, <3>8, IsConcat
    <3> QED
      BY <3>9 DEF l, o
  <2>3. /\ <<c>> \o x \in Seq(Bufs)
        /\ Chunks(<<c>> \o x) = Drop(u, n) \o y
    <3>1. <<c>> \in Seq(Bufs) /\ Chunks(<<c>>) = c.units
      BY <1>7, ChunksOne
    <3>2. <<c>> \o x \in Seq(Bufs) /\ Chunks(<<c>> \o x) = Chunks(<<c>>) \o Chunks(x)
      BY <1>1, <3>1, ChunksConcat, ConcatProperties
    <3> QED
      BY <1>7, <3>1, <3>2
  <2>4. (Drop(u, n) \o y) \o w = Drop(u, n) \o yw
    <3> DEFINE d == Drop(u, n)
    <3>1. d \in Wire
      BY <1>3
    <3> HIDE DEF d, y
    <3>2. (d \o y) \o w = d \o (y \o w)
      BY <1>2, <3>1, WireAssoc
    <3> QED
      BY <3>2 DEF d
  <2> QED
    BY <1>1, <1>4, <1>5, <1>6, <2>1, <2>2, <2>3, <2>4, ZenonT(60) DEF u
<1>10. n \in Nat
  BY <1>3
<1> QED
  BY <1>3, <1>8, <1>9, <1>10, SMTT(30)

\* What a handler reads, and what it leaves, when one special buf may stand in
\* front.
LEMMA ChainRead ==
  ASSUME NEW chain \in Seq(Bufs), ~NoData(chain), Units(chain) # << >>, NEW w \in Wire,
         NEW n \in 0..Len(Units(chain))
  PROVE  LET all == Chunks(chain) \o w
             u   == Units(chain)
         IN /\ u \in Wire /\ Len(u) \in Nat \ {0} /\ Len(u) <= Len(all) /\ Len(all) \in Nat
            /\ \A i \in 1..Len(u) : u[i] = all[i]
            /\ Advance(Skip(chain), n) \in Seq(Bufs)
            /\ Chunks(Advance(Skip(chain), n)) \o w = Drop(all, n)
<1> DEFINE s == Skip(chain)
<1>1. chain # << >>
  BY DEF NoData
<1>2. /\ chain[1] \in Bufs /\ Tail(chain) \in Seq(Bufs) /\ Len(chain) \in Nat \ {0}
      /\ Len(Tail(chain)) = Len(chain) - 1
      /\ Chunks(chain) = chain[1].units \o Chunks(Tail(chain))
  BY <1>1, HeadOf
<1>3. s \in Seq(Bufs) /\ s # << >> /\ Chunks(s) = Chunks(chain)
  <2>1. CASE chain[1].kind = "special"
    <3>1. s = Tail(chain) /\ Len(chain) # 1
      BY <2>1 DEF Skip, NoData
    <3>2. s # << >>
      <4>1. Len(s) # 0
        BY <1>2, <3>1
      <4> QED
        BY <1>2, <3>1, <4>1, EmptySeq
    <3>3. chain[1].units = << >>
      BY <1>2, <2>1 DEF Bufs
    <3>4. Chunks(Tail(chain)) \in Wire
      BY <1>2, UnitsOfType
    <3> QED
      BY <1>2, <3>1, <3>2, <3>3, <3>4, WireEmpty
  <2>2. CASE chain[1].kind # "special"
    BY <1>1, <2>2 DEF Skip
  <2> QED
    BY <2>1, <2>2
<1>4. InMemory(s[1]) /\ Units(chain) = s[1].units
  BY DEF Units
<1>5. s[1].kind # "special" /\ n \in 0..Len(s[1].units)
  BY <1>4 DEF InMemory
<1> HIDE DEF s
<1>6. s[1].units \in Wire
  BY <1>3, HeadOf
<1>7. /\ Chunks(s) \o w \in Wire
      /\ Len(s[1].units) <= Len(Chunks(s) \o w)
      /\ \A i \in 1..Len(s[1].units) : s[1].units[i] = (Chunks(s) \o w)[i]
      /\ Advance(s, n) \in Seq(Bufs)
      /\ Chunks(Advance(s, n)) \o w = Drop(Chunks(s) \o w, n)
  BY <1>3, <1>5, HeadRead
<1>8. Len(Units(chain)) \in Nat \ {0}
  BY <1>4, <1>6, LenProperties, EmptySeq DEF Wire
<1>9. Len(Chunks(s) \o w) \in Nat
  BY <1>7, LenProperties DEF Wire
<1> QED
  BY <1>3, <1>4, <1>6, <1>7, <1>8, <1>9 DEF s

-----------------------------------------------------------------------------
(* Values.                                                                 *)

\* What is still to be written of a value of which data is still to come.
ValueRest(type, data) ==
  IF type = "str" THEN Escape(data) \o <<"quote">> ELSE data

LEMMA ValueRestType ==
  ASSUME NEW type, NEW data \in Seq(STRING)
  PROVE  ValueRest(type, data) \in Text
BY QuotedType, TextOfChars, TextConcat DEF ValueRest

\* A field that has come whole is rendered.
LEMMA WholeValue ==
  ASSUME NEW col \in Columns, NEW f \in Fields, ~f.null, ~FieldRefused(col.type, f.data, 0)
  PROVE  FieldValue(col.type, f.data, 0, FALSE) = RenderField(col, f)
<1> DEFINE d == f.data
<1>1. col.type \in {"int", "float", "bool", "str"}
  BY DEF Columns
<1>2. CASE d = << >>
  BY <1>2 DEF FieldValue, RenderField
<1>3. CASE d # << >> /\ col.type \in {"int", "float"}
  BY <1>3, Zenon DEF FieldValue, RenderField
<1>4. CASE d # << >> /\ col.type = "bool"
  <2>1. d[1] \in TrueChars \cup FalseChars
    BY <1>4 DEF FieldRefused
  <2>2. d[1] \in FalseChars <=> ~(d[1] \in TrueChars)
    BY <2>1 DEF TrueChars, FalseChars
  <2>3. FieldValue(col.type, d, 0, FALSE) =
          IF d[1] \in FalseChars THEN <<"false">> ELSE <<"true">>
    BY <1>4, Zenon DEF FieldValue
  <2>4. RenderField(col, f) = IF d[1] \in TrueChars THEN <<"true">> ELSE <<"false">>
    BY <1>4, Zenon DEF RenderField
  <2>5. CASE d[1] \in TrueChars
    BY <2>2, <2>3, <2>4, <2>5, Zenon
  <2>6. CASE ~(d[1] \in TrueChars)
    BY <2>2, <2>3, <2>4, <2>6, Zenon
  <2> QED
    BY <2>5, <2>6
<1>5. CASE d # << >> /\ col.type = "str"
  <2>1. ClosingQuote(0) = <<"quote">>
    BY DEF ClosingQuote
  <2>2. FieldValue(col.type, d, 0, FALSE) = <<"quote">> \o Escape(d) \o ClosingQuote(0)
    BY <1>5, Zenon DEF FieldValue
  <2>3. RenderField(col, f) = Quoted(d)
    BY <1>5, Zenon DEF RenderField
  <2> QED
    BY <2>1, <2>2, <2>3, Zenon DEF Quoted
<1> QED
  BY <1>1, <1>2, <1>3, <1>4, <1>5

LEMMA NullValue ==
  ASSUME NEW col \in Columns, NEW f \in Fields, f.null
  PROVE  FieldValue(col.type, << >>, 0, TRUE) = RenderField(col, f)
<1>1. RenderField(col, f) = <<"null">>
  BY Zenon DEF RenderField
<1> QED
  BY <1>1 DEF FieldValue

\* The first part of a field is written, and what is still to be written of
\* it makes it whole.
LEMMA FirstPart ==
  ASSUME NEW col \in Columns, NEW f \in Fields, ~f.null,
         NEW a \in Seq(STRING), NEW b \in Seq(STRING), f.data = a \o b,
         NEW rest \in Nat \ {0}, ~FieldRefused(col.type, a, rest)
  PROVE  /\ col.type # "bool"
         /\ FieldValue(col.type, a, rest, FALSE) \in Text
         /\ FieldValue(col.type, a, rest, FALSE) \o ValueRest(col.type, b) = RenderField(col, f)
<1>1. col.type \in {"int", "float", "bool", "str"}
  BY DEF Columns
<1>2. a # << >> /\ col.type # "bool"
  BY DEF FieldRefused
<1>3. f.data # << >>
  BY <1>2, NonEmptyConcatOf
<1>4. CASE col.type \in {"int", "float"}
  <2>1. FieldValue(col.type, a, rest, FALSE) = a
    BY <1>2, <1>4, Zenon DEF FieldValue
  <2>2. RenderField(col, f) = f.data
    BY <1>3, <1>4, Zenon DEF RenderField
  <2>3. ValueRest(col.type, b) = b
    BY <1>4 DEF ValueRest
  <2> QED
    BY <1>2, <2>1, <2>2, <2>3, TextOfChars
<1>5. CASE col.type = "str"
  <2> DEFINE q == <<"quote">>
             x == Escape(a)
             y == Escape(b)
  <2>1. q \in Text /\ x \in Text /\ y \in Text
    BY QuotedType
  <2>2. FieldValue(col.type, a, rest, FALSE) = (q \o x) \o << >>
    <3>1. ClosingQuote(rest) = << >>
      BY DEF ClosingQuote
    <3>2. FieldValue(col.type, a, rest, FALSE) = <<"quote">> \o Escape(a) \o ClosingQuote(rest)
      BY <1>2, <1>5, Zenon DEF FieldValue
    <3> QED
      BY <3>1, <3>2, Zenon
  <2>3. RenderField(col, f) = (q \o Escape(f.data)) \o q
    BY <1>3, <1>5, Zenon DEF RenderField, Quoted
  <2>4. ValueRest(col.type, b) = y \o q
    BY <1>5 DEF ValueRest
  <2>5. Escape(f.data) = x \o y
    BY EscapeConcat
  <2> HIDE DEF q, x, y
  <2>6. q \o x \in Text /\ y \o q \in Text /\ x \o y \in Text
    BY <2>1, TextConcat
  <2>7. (q \o x) \o << >> = q \o x
    BY <2>6, TextEmpty
  <2>8. (q \o x) \o (y \o q) = (q \o (x \o y)) \o q
    <3>1. (q \o x) \o (y \o q) = ((q \o x) \o y) \o q
      BY <2>1, <2>6, TextAssoc, ZenonT(60)
    <3>2. (q \o x) \o y = q \o (x \o y)
      BY <2>1, TextAssoc
    <3> QED
      BY <3>1, <3>2, Zenon
  <2> QED
    BY <1>2, <2>2, <2>3, <2>4, <2>5, <2>6, <2>7, <2>8, Zenon
<1> QED
  BY <1>1, <1>2, <1>4, <1>5

\* More of a field is written.
LEMMA NextPart ==
  ASSUME NEW type \in {"int", "float", "str"}, NEW a \in Seq(STRING), NEW b \in Seq(STRING),
         NEW rest \in Nat, rest = 0 => b = << >>
  PROVE  /\ MoreValue(type, a, rest) \in Text
         /\ rest = 0 => MoreValue(type, a, rest) = ValueRest(type, a \o b)
         /\ rest # 0 => MoreValue(type, a, rest) \o ValueRest(type, b) = ValueRest(type, a \o b)
<1>1. a \in Text /\ b \in Text /\ a \o b \in Seq(STRING)
  BY TextOfChars, ConcatProperties
<1>2. rest = 0 => a \o b = a
  BY <1>1, TextEmpty
<1>3. CASE type \in {"int", "float"}
  <2>1. MoreValue(type, a, rest) = a
    BY <1>3, Zenon DEF MoreValue
  <2>2. type # "str"
    BY <1>3
  <2> QED
    BY <1>1, <1>2, <2>1, <2>2 DEF ValueRest
<1>4. CASE type = "str"
  <2> DEFINE q == <<"quote">>
             x == Escape(a)
             y == Escape(b)
  <2>1. q \in Text /\ x \in Text /\ y \in Text /\ y \o q \in Text
    BY QuotedType, TextConcat
  <2>2. MoreValue(type, a, rest) = x \o ClosingQuote(rest)
    BY <1>4, Zenon DEF MoreValue
  <2>3. ValueRest(type, b) = y \o q /\ ValueRest(type, a \o b) = Escape(a \o b) \o q
    BY <1>4 DEF ValueRest
  <2>4. Escape(a \o b) = x \o y
    BY EscapeConcat
  <2>5. CASE rest = 0
    <3>1. ClosingQuote(rest) = q
      BY <2>5 DEF ClosingQuote
    <3>2. ValueRest(type, a \o b) = x \o q
      BY <1>2, <2>3, <2>5, Zenon
    <3>3. x \o q \in Text
      <4> HIDE DEF q, x
      <4> QED
        BY <2>1, TextConcat
    <3> QED
      BY <2>2, <2>5, <3>1, <3>2, <3>3, Zenon
  <2>6. CASE rest # 0
    <3>1. ClosingQuote(rest) = << >>
      BY <2>6 DEF ClosingQuote
    <3> HIDE DEF q, x, y
    <3>2. x \o << >> = x
      BY <2>1, TextEmpty
    <3>3. (x \o y) \o q = x \o (y \o q)
      BY <2>1, TextAssoc
    <3> QED
      BY <2>1, <2>2, <2>3, <2>4, <2>6, <3>1, <3>2, <3>3, Zenon
  <2> QED
    BY <2>5, <2>6
<1> QED
  BY <1>3, <1>4

-----------------------------------------------------------------------------
(* The invariant of the conversion.                                        *)

\* The characters that are missing of field k + 1 of row r when n are.
Missing(t, r, k, n) == Drop(t.rows[r][k + 1].data, Len(t.rows[r][k + 1].data) - n)

\* What is to come on the wire, and what is to be written, in a state of the
\* conversion of t: r rows, k columns and all but n characters of a field are
\* through, and the function p runs next.
WireFrom(t, s, r, k, n) ==
  IF s = "expect_header" THEN Encode(t)
  ELSE IF s = "expect_col" THEN ColsLeft(t, k)
  ELSE IF s = "expect_row" THEN RowsLeft(t, r)
  ELSE IF s = "expect_field" THEN FieldsLeft(t, r, k)
  ELSE CharUnits(Missing(t, r, k, n)) \o FieldsLeft(t, r, k + 1)

TextFrom(t, c, s, p, r, k, n) ==
  IF s = "done" THEN << >>
  ELSE IF s \in {"expect_header", "expect_col"} \/ p = "output_props" THEN Render(t, c)
  ELSE IF p = "output_list" THEN RenderRows(t, c.format) \o CloseObject(c)
  ELSE IF p = "output_cols" THEN RenderNames(t.cols) \o RowsText(t, 0, c)
  ELSE IF s = "expect_row" THEN RowsText(t, r, c)
  ELSE IF s = "expect_field"
    THEN IF k = 0 THEN RowsText(t, r - 1, c) ELSE FieldsText(t, r, k, c)
  ELSE ValueRest(t.cols[k + 1].type, Missing(t, r, k, n)) \o FieldsText(t, r, k + 1, c)

RestOfWire == WireFrom(res, state, row, cur_col, field_data_rest)
RestOfText == TextFrom(res, conf, state, pc, row, cur_col, field_data_rest)

Live == attached /\ ~failed /\ pc \notin {"error", "header_filter"}

ControlType ==
  /\ pc \in Functions \cup Outputs \cup {"header_filter", "event", "output_bufs", "error"}
  /\ head \in BOOLEAN /\ header_sent \in BOOLEAN /\ attached \in BOOLEAN
  /\ header_only \in BOOLEAN
  /\ legal \in BOOLEAN /\ raw \in BOOLEAN /\ failed \in BOOLEAN /\ exhausted \in BOOLEAN
  /\ failed => pc = "event"

DataType ==
  /\ conf \in Locations /\ res \in ResultSets
  /\ in \in Seq(Bufs) /\ wire \in Wire
  /\ json \in Text /\ body \in Text /\ Len(body) <= Len(json)

ParserType ==
  /\ state \in States
  /\ cols \in Seq(Columns) /\ col_count \in Nat /\ cur_col \in 0..col_count
  /\ Len(cols) <= col_count
  /\ row \in Nat /\ field_data_rest \in Nat
  /\ state \in {"expect_col", "expect_field", "expect_more_field_data"} => cur_col < col_count

\* The function that runs next belongs to the state, and the counters stand
\* within the result set.
Placed ==
  /\ pc = "process_header" => state = "expect_header"
  /\ pc = "process_col" => state = "expect_col"
  /\ pc = "process_row" => state = "expect_row"
  /\ pc = "process_field" => state = "expect_field"
  /\ pc = "process_more_field_data" => state = "expect_more_field_data"
  /\ pc \in Outputs => state = "expect_row" /\ row = 0
  /\ pc = "output_props" => conf.root
  /\ pc = "output_cols" => conf.format # "normal"

ColPlace ==
  state = "expect_col" =>
    /\ col_count = Len(res.cols) /\ cur_col < col_count
    /\ cols = SubSeq(res.cols, 1, cur_col)

RowPlace ==
  state = "expect_row" =>
    /\ col_count = Len(res.cols) /\ col_count > 0 /\ cols = res.cols
    /\ row \in 0..Len(res.rows)

FieldPlace ==
  state \in {"expect_field", "expect_more_field_data"} =>
    /\ col_count = Len(res.cols) /\ cur_col < col_count /\ cols = res.cols
    /\ row \in 1..Len(res.rows)

MorePlace ==
  /\ state = "expect_more_field_data" =>
       /\ ~res.rows[row][cur_col + 1].null
       /\ field_data_rest \in 1..(Len(res.rows[row][cur_col + 1].data) - 1)
       /\ res.cols[cur_col + 1].type # "bool"
  /\ state # "expect_more_field_data" => field_data_rest = 0

Place == Placed /\ ColPlace /\ RowPlace /\ FieldPlace /\ MorePlace

Reading == Live /\ state # "done" /\ (pc = "event" => ~header_only)

\* Nothing has happened yet.
Fresh ==
  pc = "header_filter" =>
    Unread = Encode(res) /\ state = "expect_header" /\ field_data_rest = 0

\* What was written makes the text whole with what is to be written, unless
\* the conversion has failed; the next filter has what was written by the end
\* of a call.
TextInv ==
  /\ (~failed /\ pc # "error") => json \o RestOfText = Render(res, conf)
  /\ IsPrefix(json, Render(res, conf))
  /\ (~failed /\ pc = "event") => body = json

ConvInv ==
  /\ ControlType /\ DataType /\ ParserType
  /\ Live => Place
  /\ Reading => Unread = RestOfWire
  /\ Fresh
  /\ TextInv

LEMMA UnreadIsChunks ==
  Unread = Chunks(in) \o wire /\ Unread' = Chunks(in') \o wire'
BY DEF Unread, Chunks, UnitsOf

\* The JSON text is text.
LEMMA RenderType ==
  ASSUME NEW t \in ResultSets, NEW c \in Locations
  PROVE  Render(t, c) \in Text
<1>1. CASE t.cols = << >>
  BY <1>1, HeaderRendered
<1>2. CASE t.cols # << >>
  <2> DEFINE x == RenderRows(t, c.format)
             z == CloseObject(c)
  <2>1. x \in Text /\ z \in Text /\ PropertiesText(c) \in Text
    BY <1>2, ListText, BracketsType, RowsRendered
  <2>2. /\ ~c.root => Render(t, c) = x \o z
        /\ c.root => Render(t, c) = PropertiesText(c) \o (x \o z)
    BY <1>2, RowsRendered
  <2> HIDE DEF x, z
  <2> QED
    BY <2>1, <2>2, TextConcat
<1> QED
  BY <1>1, <1>2

LEMMA PrefixOfText ==
  ASSUME NEW a \in Text, NEW b \in Text
  PROVE  IsPrefix(a, a \o b)
<1> DEFINE ab == a \o b
<1>1. a \in Seq(Tokens) /\ b \in Seq(Tokens) /\ Len(a) \in Nat /\ Len(b) \in Nat
  BY LenProperties DEF Text
<1>2. /\ ab \in Seq(Tokens) /\ Len(ab) = Len(a) + Len(b)
      /\ \A i \in 1..Len(a) : ab[i] = a[i]
  BY <1>1, ConcatProperties
<1> HIDE DEF ab
<1>3. Len(a) <= Len(ab) /\ Len(a) \in 0..Len(ab) /\ Len(a) \in 0..Len(a)
  BY <1>1, <1>2
<1>4. /\ SubSeq(ab, 1, Len(a)) \in Seq(Tokens) /\ Len(SubSeq(ab, 1, Len(a))) = Len(a)
      /\ \A i \in 1..Len(a) : SubSeq(ab, 1, Len(a))[i] = ab[i]
  BY <1>2, <1>3, TakeType
<1>5. SubSeq(a, 1, Len(a)) = a
  BY <1>1, SubSeqFull
<1> DEFINE x == SubSeq(ab, 1, Len(a))
<1>6. x \in Seq(Tokens) /\ Len(x) = Len(a) /\ \A i \in 1..Len(x) : x[i] = a[i]
  BY <1>2, <1>4
<1> HIDE DEF x
<1>7. x = a
  BY <1>1, <1>6, SeqEqual
<1>8. IsPrefix(a, ab)
  BY <1>3, <1>5, <1>7 DEF IsPrefix, x
<1> QED
  BY <1>8 DEF ab

LEMMA MissingType ==
  ASSUME NEW t \in ResultSets, NEW r \in 1..Len(t.rows), NEW k \in 0..(Len(t.cols) - 1),
         NEW n \in 0..Len(t.rows[r][k + 1].data)
  PROVE  /\ Missing(t, r, k, n) \in Seq(STRING) /\ Len(Missing(t, r, k, n)) = n
         /\ t.rows[r][k + 1].data \in Seq(STRING) /\ Len(t.rows[r][k + 1].data) \in Nat
<1> DEFINE d == t.rows[r][k + 1].data
<1>1. k + 1 \in 1..Len(t.cols)
  BY ResultSetType
<1>2. d \in Seq(STRING) /\ Len(d) \in Nat
  BY <1>1, ResultSetType, LenProperties DEF Fields
<1>3. n \in 0..Len(d)
  OBVIOUS
<1> HIDE DEF d
<1>4. Len(d) - n \in 0..Len(d) /\ Len(d) - (Len(d) - n) = n
  BY <1>2, <1>3
<1>5. Drop(d, Len(d) - n) \in Seq(STRING) /\ Len(Drop(d, Len(d) - n)) = n
  BY <1>2, <1>4, DropType
<1> QED
  BY <1>2, <1>5 DEF Missing, d

\* What is left to be written is text, in every place of the result set.
LEMMA TextFromType ==
  ASSUME NEW t \in ResultSets, NEW c \in Locations, NEW s \in States, NEW p,
         NEW r \in Nat, NEW k \in Nat, NEW n \in Nat,
         s \in {"expect_field", "expect_more_field_data"} =>
           r \in 1..Len(t.rows) /\ k < Len(t.cols),
         s = "expect_more_field_data" => n \in 0..Len(t.rows[r][k + 1].data)
  PROVE  TextFrom(t, c, s, p, r, k, n) \in Text
<1>1. Render(t, c) \in Text /\ << >> \in Text
  BY RenderType, TextEmpty
<1>2. RenderRows(t, c.format) \o CloseObject(c) \in Text
  BY ListText, BracketsType, TextConcat
<1>3. \A i \in Nat : RowsText(t, i, c) \in Text
  BY TextLeftType
<1>4. RenderNames(t.cols) \o RowsText(t, 0, c) \in Text
  <2>1. RenderNames(t.cols) \in Text
    BY NamesType
  <2> QED
    BY <1>3, <2>1, TextConcat
<1>5. CASE s = "expect_field"
  <2>1. r - 1 \in Nat /\ FieldsText(t, r, k, c) \in Text
    BY <1>5, TextLeftType
  <2> QED
    BY <1>1, <1>2, <1>3, <1>4, <1>5, <2>1 DEF TextFrom
<1>6. CASE s = "expect_more_field_data"
  <2>1. k \in 0..(Len(t.cols) - 1) /\ r \in 1..Len(t.rows)
    BY <1>6, ResultSetType
  <2>2. Missing(t, r, k, n) \in Seq(STRING)
    BY <1>6, <2>1, MissingType
  <2>3. ValueRest(t.cols[k + 1].type, Missing(t, r, k, n)) \in Text
    BY <2>2, ValueRestType
  <2>4. FieldsText(t, r, k + 1, c) \in Text
    BY <2>1, TextLeftType
  <2>5. ValueRest(t.cols[k + 1].type, Missing(t, r, k, n)) \o FieldsText(t, r, k + 1, c) \in Text
    BY <2>3, <2>4, TextConcat
  <2> QED
    BY <1>1, <1>2, <1>4, <1>6, <2>5 DEF TextFrom
<1>7. CASE s \in {"expect_header", "expect_col", "expect_row", "done"}
  BY <1>1, <1>2, <1>3, <1>4, <1>7 DEF TextFrom
<1> QED
  BY <1>5, <1>6, <1>7 DEF States

LEMMA RestOfTextType ==
  ConvInv /\ Place => RestOfText \in Text
<1> SUFFICES ASSUME ConvInv, Place PROVE RestOfText \in Text
  OBVIOUS
<1>1. /\ res \in ResultSets /\ conf \in Locations /\ state \in States
      /\ row \in Nat /\ field_data_rest \in Nat /\ col_count \in Nat /\ cur_col \in Nat
  BY DEF ConvInv, DataType, ParserType
<1>2. state \in {"expect_field", "expect_more_field_data"} =>
        row \in 1..Len(res.rows) /\ cur_col < Len(res.cols)
  BY DEF Place, FieldPlace
<1>3. state = "expect_more_field_data" =>
        field_data_rest \in 0..Len(res.rows[row][cur_col + 1].data)
  BY DEF Place, MorePlace, FieldPlace
<1> QED
  BY <1>1, <1>2, <1>3, TextFromType DEF RestOfText

-----------------------------------------------------------------------------
(* A handler or an output function runs.                                   *)

\* Where a function that runs stands.
LEMMA Running ==
  ASSUME ConvInv, HeaderInv, pc \in Functions \cup Outputs
  PROVE  /\ Live /\ Reading /\ Place /\ state # "done"
         /\ res \in ResultSets /\ conf \in Locations
         /\ Unread = RestOfWire
         /\ json \o RestOfText = Render(res, conf)
         /\ json \in Text /\ in \in Seq(Bufs) /\ wire \in Wire
<1>1. ~Skipped
  BY DEF HeaderInv, LeftAlone, Functions, Outputs
<1>2. ~failed /\ pc \notin {"error", "header_filter", "event"}
  BY DEF ConvInv, ControlType, Functions, Outputs
<1>3. attached
  BY <1>1, <1>2 DEF HeaderInv, ErrorInStep
<1>4. Live
  BY <1>2, <1>3 DEF Live
<1>5. Place
  BY <1>4 DEF ConvInv
<1>6. state # "done"
  BY <1>5 DEF Place, Placed, Functions
<1>7. Reading
  BY <1>2, <1>4, <1>6 DEF Reading
<1>8. res \in ResultSets /\ conf \in Locations /\ json \in Text /\ in \in Seq(Bufs) /\ wire \in Wire
  BY DEF ConvInv, DataType
<1>9. Unread = RestOfWire /\ json \o RestOfText = Render(res, conf)
  BY <1>2, <1>7 DEF ConvInv, TextInv
<1> QED
  BY <1>4, <1>5, <1>6, <1>7, <1>8, <1>9

\* What Process leaves to the others.
Others == <<requestVars, response, upstreamVars, body, raw, failed>>

\* What was written is written.
Grows == IsPrefix(json, json')

\* A function fails.
LEMMA StepFails ==
  ASSUME ConvInv, HeaderInv, pc \in Functions \cup Outputs, UNCHANGED Others,
         ReturnError, UNCHANGED json, ParserType',
         header_sent' \in BOOLEAN, attached' \in BOOLEAN, header_only' \in BOOLEAN,
         exhausted' \in BOOLEAN
  PROVE  ConvInv' /\ Grows
<1>1. pc' = "error" /\ in' = << >>
  BY DEF ReturnError
<1>2. ~failed
  BY Running DEF Live
<1>3. UNCHANGED <<conf, head, res, wire, legal, body, raw, failed, json>>
  BY DEF Others, requestVars, upstreamVars
<1>4. ControlType'
  BY <1>1, <1>2, <1>3 DEF ConvInv, ControlType
<1>5. DataType'
  BY <1>1, <1>3, EmptySeq DEF ConvInv, DataType
<1>6. ~Live' /\ ~Reading' /\ Fresh'
  BY <1>1 DEF Live, Reading, Fresh
<1>7. TextInv'
  BY <1>1, <1>3 DEF ConvInv, TextInv
<1>8. Grows
  <2>1. json \in Text /\ json \o << >> = json /\ << >> \in Text
    BY TextEmpty DEF ConvInv, DataType
  <2>2. IsPrefix(json, json)
    BY <2>1, PrefixOfText
  <2> QED
    BY <1>3, <2>2 DEF Grows
<1> QED
  BY <1>4, <1>5, <1>6, <1>7, <1>8 DEF ConvInv

\* A function writes tokens and goes on, or returns.
LEMMA StepGoes ==
  ASSUME ConvInv, HeaderInv, pc \in Functions \cup Outputs, UNCHANGED Others,
         pc' \in Functions \cup Outputs \cup {"output_bufs"},
         NEW tokens \in Text, json' = json \o tokens,
         in' \in Seq(Bufs), ParserType', Place',
         header_sent' \in BOOLEAN, attached' \in BOOLEAN, header_only' \in BOOLEAN,
         exhausted' \in BOOLEAN,
         state' # "done" => Unread' = RestOfWire',
         RestOfText = tokens \o RestOfText', RestOfText' \in Text
  PROVE  ConvInv' /\ Grows
<1>1. pc' \notin {"header_filter", "event", "error"}
  BY DEF Functions, Outputs
<1>2. ~failed
  BY Running DEF Live
<1>3. UNCHANGED <<conf, head, res, wire, legal, body, raw, failed>>
  BY DEF Others, requestVars, upstreamVars
<1>4. ControlType'
  BY <1>1, <1>2, <1>3 DEF ConvInv, ControlType
<1>5. json \in Text /\ json' \in Text /\ Len(json) \in Nat /\ Len(tokens) \in Nat
      /\ Len(json') = Len(json) + Len(tokens)
  <2>1. json \in Text
    BY DEF ConvInv, DataType
  <2>2. json \in Seq(Tokens) /\ tokens \in Seq(Tokens)
    BY <2>1 DEF Text
  <2>3. json \o tokens \in Text /\ Len(json \o tokens) = Len(json) + Len(tokens)
    BY <2>1, <2>2, TextConcat, ConcatProperties
  <2> QED
    BY <2>1, <2>2, <2>3, LenProperties
<1>6. Len(body) \in Nat
  BY LenProperties DEF ConvInv, DataType, Text
<1>7. DataType'
  <2>1. Len(body) <= Len(json')
    BY <1>5, <1>6 DEF ConvInv, DataType
  <2> QED
    BY <1>3, <1>5, <2>1 DEF ConvInv, DataType
<1>8. Fresh'
  BY <1>1 DEF Fresh
<1>9. Reading' => Unread' = RestOfWire'
  BY DEF Reading
<1>10. json' \o RestOfText' = Render(res, conf)
  <2> DEFINE rest == RestOfText'
             old == RestOfText
  <2>1. rest \in Text /\ old = tokens \o rest /\ json \o old = Render(res, conf)
    BY Running
  <2> HIDE DEF rest, old
  <2>2. (json \o tokens) \o rest = json \o (tokens \o rest)
    BY <1>5, <2>1, TextAssoc, ZenonT(60)
  <2>3. (json \o tokens) \o rest = Render(res, conf)
    BY <2>1, <2>2, Zenon
  <2> QED
    BY <2>3 DEF rest
<1>11. IsPrefix(json', Render(res, conf))
  <2> DEFINE rest == RestOfText'
             j == json'
  <2>1. j \in Text /\ rest \in Text /\ j \o rest = Render(res, conf)
    BY <1>5, <1>10
  <2> HIDE DEF rest, j
  <2>2. IsPrefix(j, Render(res, conf))
    BY <2>1, PrefixOfText
  <2> QED
    BY <2>2 DEF j
<1>12. TextInv'
  BY <1>1, <1>3, <1>10, <1>11 DEF TextInv
<1>13. Grows
  <2>1. IsPrefix(json, json \o tokens)
    BY <1>5, PrefixOfText
  <2> QED
    BY <2>1 DEF Grows
<1> QED
  BY <1>4, <1>7, <1>8, <1>9, <1>12, <1>13 DEF ConvInv

\* A handler has nothing to read.
LEMMA StepReturns ==
  ASSUME ConvInv, HeaderInv, pc \in Functions, UNCHANGED Others, ReturnOk
  PROVE  ConvInv' /\ Grows
<1>1. /\ pc' = "output_bufs" /\ in' = << >> /\ NoData(in)
      /\ UNCHANGED <<state, cols, col_count, cur_col, row, field_data_rest, header_sent, attached,
                     headers, header_only, error_end, json, exhausted>>
  BY DEF ReturnOk, parserVars, responseVars
<1>2. UNCHANGED <<conf, head, res, wire, legal, body, raw, failed>>
  BY DEF Others, requestVars, upstreamVars
<1>3. Place /\ state # "done" /\ Unread = RestOfWire /\ in \in Seq(Bufs) /\ json \in Text
      /\ res \in ResultSets /\ conf \in Locations /\ wire \in Wire
  BY Running
<1>4. Place'
  BY <1>1, <1>2, <1>3
  DEF Place, Placed, ColPlace, RowPlace, FieldPlace, MorePlace, Outputs
<1>5. ParserType'
  BY <1>1 DEF ConvInv, ParserType
<1>6. RestOfWire' = RestOfWire
  BY <1>1, <1>2 DEF RestOfWire
<1>7. Chunks(in) = Chunks(<< >>)
  <2>1. CASE in # << >>
    <3>1. Len(in) = 1 /\ in[1].kind = "special"
      BY <1>1, <2>1 DEF NoData
    <3>2. in[1] \in Bufs /\ Tail(in) \in Seq(Bufs) /\ Len(Tail(in)) = 0
          /\ Chunks(in) = in[1].units \o Chunks(Tail(in))
      BY <1>3, <2>1, <3>1, HeadOf
    <3>3. in[1].units = << >> /\ Tail(in) = << >>
      BY <3>1, <3>2, EmptySeq DEF Bufs
    <3>4. << >> \o << >> = << >>
      BY WireEmpty
    <3> QED
      BY <3>2, <3>3, <3>4, ChunksEmpty
  <2> QED
    BY <2>1
<1>8. Unread' = Unread
  <2>1. Chunks(in') = Chunks(in)
    BY <1>1, <1>7
  <2> QED
    BY <1>2, <2>1, UnreadIsChunks, Zenon
<1>9. RestOfText' = RestOfText
  <2>1. pc \notin Outputs /\ pc' \notin Outputs
    BY <1>1 DEF Functions, Outputs
  <2> QED
    BY <1>1, <1>2, <2>1 DEF RestOfText, TextFrom, Outputs
<1>10. RestOfText \in Text
  BY <1>3, RestOfTextType
<1>11. << >> \in Text /\ RestOfText = << >> \o RestOfText /\ json = json \o << >>
  BY <1>3, <1>10, TextEmpty
<1>12. /\ header_sent' \in BOOLEAN /\ attached' \in BOOLEAN /\ header_only' \in BOOLEAN
       /\ exhausted' \in BOOLEAN
  BY <1>1 DEF ConvInv, ControlType
<1>13. /\ json' = json \o << >> /\ in' \in Seq(Bufs)
       /\ RestOfText = << >> \o RestOfText' /\ RestOfText' \in Text
       /\ Unread' = RestOfWire'
       /\ pc' \in Functions \cup Outputs \cup {"output_bufs"}
  BY <1>1, <1>3, <1>6, <1>8, <1>9, <1>10, <1>11, EmptySeq
<1> QED
  BY <1>4, <1>5, <1>11, <1>12, <1>13, StepGoes

\* What a handler reads is the beginning of what is to come.
LEMMA FrontRead ==
  ASSUME ConvInv, HeaderInv, pc \in Functions, ~NoData(in), Units(in) # << >>
  PROVE  /\ Len(Units(in)) \in Nat \ {0} /\ Units(in) \in Wire
         /\ Len(Units(in)) <= Len(RestOfWire) /\ Len(RestOfWire) \in Nat
         /\ \A i \in 1..Len(Units(in)) : Units(in)[i] = RestOfWire[i]
         /\ \A n \in 0..Len(Units(in)) :
              /\ Advance(Skip(in), n) \in Seq(Bufs)
              /\ Chunks(Advance(Skip(in), n)) \o wire = Drop(RestOfWire, n)
<1>1. in \in Seq(Bufs) /\ wire \in Wire /\ Chunks(in) \o wire = RestOfWire
  BY Running, UnreadIsChunks
<1>2. ASSUME NEW n \in 0..Len(Units(in))
      PROVE  /\ Units(in) \in Wire /\ Len(Units(in)) \in Nat \ {0}
             /\ Len(Units(in)) <= Len(RestOfWire) /\ Len(RestOfWire) \in Nat
             /\ \A i \in 1..Len(Units(in)) : Units(in)[i] = RestOfWire[i]
             /\ Advance(Skip(in), n) \in Seq(Bufs)
             /\ Chunks(Advance(Skip(in), n)) \o wire = Drop(RestOfWire, n)
  BY <1>1, ChainRead
<1>3. Units(in) \in Wire
  <2>1. Units(in) = Skip(in)[1].units
    BY DEF Units
  <2>2. in # << >>
    BY DEF NoData
  <2>3. Skip(in) \in Seq(Bufs) /\ Skip(in) # << >>
    <3>1. in[1] \in Bufs /\ Tail(in) \in Seq(Bufs) /\ Len(in) \in Nat \ {0}
          /\ Len(Tail(in)) = Len(in) - 1
      BY <1>1, <2>2, HeadOf
    <3>2. in[1].kind = "special" => Tail(in) # << >>
      <4>1. in[1].kind = "special" => Len(in) # 1
        BY DEF NoData
      <4>2. in[1].kind = "special" => Len(Tail(in)) # 0
        BY <3>1, <4>1
      <4>3. Len(<< >>) = 0
        BY EmptySeq
      <4> QED
        BY <4>2, <4>3
    <3> QED
      BY <1>1, <2>2, <3>1, <3>2 DEF Skip
  <2> QED
    BY <2>1, <2>3, HeadOf
<1>4. 0 \in 0..Len(Units(in))
  BY <1>3, LenProperties DEF Wire
<1> QED
  BY <1>2, <1>4

\* An output_* function writes, or fails.
LEMMA EmitCases ==
  ASSUME NEW tokens, NEW next, NEW rest, Emit(tokens, next, rest)
  PROVE  \/ json' = json \o tokens /\ pc' = next /\ in' = rest /\ UNCHANGED exhausted
         \/ exhausted' = TRUE /\ ReturnError /\ UNCHANGED json
BY DEF Emit

-----------------------------------------------------------------------------
(* process_header                                                          *)

LEMMA HeaderObjectText ==
  ASSUME NEW header
  PROVE  HeaderObject(header) = HeaderText(header, conf)
BY Zenon DEF HeaderObject, HeaderText, Success, UserProps, Number, NumberText, SuccessText, PropsText

LEMMA SendHeaderBooleans ==
  ASSUME ConvInv, SendHeader
  PROVE  header_sent' \in BOOLEAN /\ attached' \in BOOLEAN /\ header_only' \in BOOLEAN
BY DEF ConvInv, ControlType, SendHeader, responseVars

\* process_header reads the header of the result set.
LEMMA HeaderIsRead ==
  ASSUME ConvInv, HeaderInv, pc = "process_header", ~NoData(in), HeaderParses(Units(in))
  PROVE  /\ Units(in)[1].value = res /\ Len(Units(in)) >= 2
         /\ Advance(Skip(in), 2) \in Seq(Bufs)
         /\ Chunks(Advance(Skip(in), 2)) \o wire = ColsLeft(res, 0)
<1>1. pc \in Functions
  BY DEF Functions
<1>2. res \in ResultSets /\ RestOfWire = Encode(res)
  BY <1>1, Running DEF Place, Placed, RestOfWire, WireFrom
<1>3. Len(Units(in)) >= 2
  BY DEF HeaderParses
<1>4. Units(in) # << >>
  <2>1. Len(<< >>) = 0
    BY EmptySeq
  <2> QED
    BY <1>3, <2>1
<1>5. /\ Len(Units(in)) \in Nat
      /\ \A i \in 1..Len(Units(in)) : Units(in)[i] = RestOfWire[i]
      /\ \A n \in 0..Len(Units(in)) :
           /\ Advance(Skip(in), n) \in Seq(Bufs)
           /\ Chunks(Advance(Skip(in), n)) \o wire = Drop(RestOfWire, n)
  BY <1>1, <1>4, FrontRead
<1>6. 1 \in 1..Len(Units(in)) /\ 2 \in 0..Len(Units(in))
  BY <1>3, <1>5
<1>7. Encode(res)[1] = Unit("header", res) /\ Drop(Encode(res), 2) = ColsLeft(res, 0)
  BY <1>2, HeaderInFront
<1>8. Units(in)[1] = Unit("header", res)
  BY <1>2, <1>5, <1>6, <1>7
<1>9. Unit("header", res).value = res
  BY <1>2, UnitType DEF Kinds
<1> QED
  BY <1>2, <1>3, <1>5, <1>6, <1>7, <1>8, <1>9

\* process_header sends the header and takes it off the wire.
LEMMA HeaderConverts ==
  ASSUME ConvInv, HeaderInv, ProcessHeader, UNCHANGED <<response, upstreamVars, body, raw, failed>>
  PROVE  ConvInv' /\ Grows
<1>1. pc = "process_header" /\ pc \in Functions /\ UNCHANGED Others
  BY DEF ProcessHeader, Functions, Others, ReturnOk, SendInvalid, EmptyResult, ExpectColumns
<1>2. state = "expect_header" /\ res \in ResultSets /\ conf \in Locations
      /\ RestOfWire = Encode(res) /\ RestOfText = Render(res, conf) /\ Place
  BY <1>1, Running DEF Place, Placed, RestOfWire, RestOfText, WireFrom, TextFrom
<1>3. CASE ReturnOk
  BY <1>1, <1>3, StepReturns
<1>4. CASE SendInvalid /\ (UNCHANGED exhausted \/ exhausted' = TRUE)
  <2>1. /\ ReturnError /\ UNCHANGED json /\ UNCHANGED parserVars
        /\ header_sent' \in BOOLEAN /\ attached' \in BOOLEAN /\ header_only' \in BOOLEAN
        /\ exhausted' \in BOOLEAN
    BY <1>4, ZenonT(60) DEF SendInvalid, ConvInv, ControlType, responseVars
  <2>2. ParserType'
    BY <2>1 DEF ConvInv, ParserType, parserVars
  <2> QED
    BY <1>1, <2>1, <2>2, StepFails
<1>5. ASSUME ~NoData(in), HeaderParses(Units(in))
      PROVE  /\ Units(in)[1].value = res /\ Len(Units(in)) >= 2
             /\ Advance(Skip(in), 2) \in Seq(Bufs)
             /\ Chunks(Advance(Skip(in), 2)) \o wire = ColsLeft(res, 0)
  BY <1>1, <1>5, HeaderIsRead
<1>6. CASE /\ ~NoData(in) /\ HeaderParses(Units(in))
           /\ Len(Units(in)[1].value.cols) = 0 /\ EmptyResult(Units(in)[1].value.header)
  <2>1. Units(in)[1].value = res
    BY <1>5, <1>6
  <2>2. res.cols = << >>
    <3>1. Len(res.cols) = 0
      BY <1>6, <2>1
    <3>2. res.cols \in Seq(Columns)
      BY <1>2, ResultSetType
    <3> QED
      BY <3>1, <3>2, EmptySeq
  <2>3. HeaderObject(res.header) = Render(res, conf) /\ Render(res, conf) \in Text
    <3>1. HeaderObject(res.header) = HeaderText(res.header, conf)
      BY HeaderObjectText
    <3> QED
      BY <1>2, <2>2, <3>1, HeaderRendered
  <2>4. /\ state' = "done" /\ SendHeader /\ Emit(Render(res, conf), "output_bufs", << >>)
        /\ UNCHANGED <<cols, col_count, cur_col, row, field_data_rest>>
    BY <1>6, <2>1, <2>3 DEF EmptyResult
  <2>5. header_sent' \in BOOLEAN /\ attached' \in BOOLEAN /\ header_only' \in BOOLEAN
    BY <2>4, SendHeaderBooleans
  <2>6. ParserType'
    BY <2>4 DEF ConvInv, ParserType, States
  <2>7. CASE exhausted' = TRUE /\ ReturnError /\ UNCHANGED json
    BY <1>1, <2>5, <2>6, <2>7, StepFails
  <2>8. CASE /\ json' = json \o Render(res, conf) /\ pc' = "output_bufs" /\ in' = << >>
             /\ UNCHANGED exhausted
    <3>1. Place'
      BY <1>2, <2>4, <2>8 DEF Place, Placed, ColPlace, RowPlace, FieldPlace, MorePlace, Outputs
    <3>2. RestOfText' = << >>
      BY <2>4 DEF RestOfText, TextFrom
    <3>3. Render(res, conf) = Render(res, conf) \o << >> /\ << >> \in Text
      BY <2>3, TextEmpty
    <3>4. in' \in Seq(Bufs) /\ exhausted' \in BOOLEAN
      BY <2>8, EmptySeq DEF ConvInv, ControlType
    <3>5. RestOfText = Render(res, conf) \o RestOfText' /\ RestOfText' \in Text
      BY <1>2, <3>2, <3>3
    <3>6. pc' \in Functions \cup Outputs \cup {"output_bufs"} /\ json' = json \o Render(res, conf)
      BY <2>8
    <3>7. state' # "done" => Unread' = RestOfWire'
      BY <2>4
    <3> QED
      BY <1>1, <2>3, <2>5, <2>6, <3>1, <3>4, <3>5, <3>6, <3>7, StepGoes
  <2> QED
    BY <2>4, <2>7, <2>8, EmitCases
<1>7. CASE /\ ~NoData(in) /\ HeaderParses(Units(in))
           /\ Len(Units(in)[1].value.cols) > 0
           /\ ExpectColumns(Len(Units(in)[1].value.cols), Advance(Skip(in), 2))
  <2>1. /\ Units(in)[1].value = res /\ Len(Units(in)) >= 2
        /\ Advance(Skip(in), 2) \in Seq(Bufs)
        /\ Chunks(Advance(Skip(in), 2)) \o wire = ColsLeft(res, 0)
    BY <1>5, <1>7
  <2>2. Len(res.cols) > 0 /\ Len(res.cols) \in Nat /\ res.cols \in Seq(Columns)
    BY <1>2, <1>7, <2>1, ResultSetType
  <2>3. /\ state' = "expect_col" /\ cur_col' = 0 /\ col_count' = Len(res.cols) /\ cols' = << >>
        /\ SendHeader /\ UNCHANGED <<row, field_data_rest, json>>
    BY <1>7, <2>1 DEF ExpectColumns
  <2>4. header_sent' \in BOOLEAN /\ attached' \in BOOLEAN /\ header_only' \in BOOLEAN
    BY <2>3, SendHeaderBooleans
  <2>5. ParserType'
    <3>1. cols' \in Seq(Columns) /\ Len(cols') = 0
      BY <2>3, EmptySeq
    <3> QED
      BY <2>2, <2>3, <3>1 DEF ConvInv, ParserType, States
  <2>6. CASE exhausted' = TRUE /\ ReturnError
    BY <1>1, <2>3, <2>4, <2>5, <2>6, StepFails
  <2>7. CASE pc' = "process_col" /\ in' = Advance(Skip(in), 2) /\ UNCHANGED exhausted
    <3>1. Place'
      <4>1. SubSeq(res.cols, 1, 0) = << >>
        BY SubSeqEmpty
      <4>2. UNCHANGED res
        BY <1>1 DEF Others, upstreamVars
      <4> QED
        BY <1>2, <2>2, <2>3, <2>7, <4>1, <4>2
        DEF Place, Placed, ColPlace, RowPlace, FieldPlace, MorePlace, Outputs
    <3>2. UNCHANGED <<res, conf, wire>>
      BY <1>1 DEF Others, upstreamVars, requestVars
    <3>3. RestOfText' = Render(res, conf)
      BY <2>3, <3>2 DEF RestOfText, TextFrom
    <3>4. Render(res, conf) \in Text /\ json \in Text
      BY <1>1, <1>2, RenderType, Running
    <3>5. /\ << >> \in Text /\ json' = json \o << >> /\ RestOfText = << >> \o RestOfText'
          /\ RestOfText' \in Text
      BY <1>2, <2>3, <3>3, <3>4, TextEmpty
    <3>6. Unread' = RestOfWire'
      <4>1. RestOfWire' = ColsLeft(res, 0)
        BY <2>3, <3>2 DEF RestOfWire, WireFrom
      <4>2. Unread' = Chunks(in') \o wire'
        BY UnreadIsChunks
      <4> QED
        BY <2>1, <2>7, <3>2, <4>1, <4>2
    <3>7. in' \in Seq(Bufs) /\ exhausted' \in BOOLEAN
          /\ pc' \in Functions \cup Outputs \cup {"output_bufs"}
      BY <2>1, <2>7 DEF ConvInv, ControlType, Functions
    <3> QED
      BY <1>1, <2>4, <2>5, <3>1, <3>5, <3>6, <3>7, StepGoes
  <2> QED
    BY <1>7, <2>6, <2>7 DEF ExpectColumns
<1> QED
  BY <1>3, <1>4, <1>6, <1>7 DEF ProcessHeader

\* What a step of Process leaves.
LEMMA OthersKept ==
  ASSUME UNCHANGED Others
  PROVE  UNCHANGED <<res, conf, wire>>
BY DEF Others, upstreamVars, requestVars

LEMMA ResponseBooleans ==
  ASSUME ConvInv, UNCHANGED responseVars
  PROVE  header_sent' \in BOOLEAN /\ attached' \in BOOLEAN /\ header_only' \in BOOLEAN
BY DEF ConvInv, ControlType, responseVars

\* A handler that cannot read what it needs.
LEMMA NothingRead ==
  ASSUME ConvInv, HeaderInv, pc \in Functions, UNCHANGED Others, ReturnError,
         UNCHANGED <<parserVars, responseVars, json, exhausted>>
  PROVE  ConvInv' /\ Grows
<1>1. ParserType'
  BY DEF ConvInv, ParserType, parserVars
<1>2. header_sent' \in BOOLEAN /\ attached' \in BOOLEAN /\ header_only' \in BOOLEAN
  BY ResponseBooleans
<1>3. exhausted' \in BOOLEAN
  BY DEF ConvInv, ControlType
<1> QED
  BY <1>1, <1>2, <1>3, StepFails

LEMMA NotEmpty ==
  ASSUME NEW x, Len(x) >= 1
  PROVE  x # << >>
<1>1. Len(<< >>) = 0
  BY EmptySeq
<1> QED
  BY <1>1

-----------------------------------------------------------------------------
(* process_col                                                             *)

\* It takes a column off the wire.
LEMMA ColConverts ==
  ASSUME ConvInv, HeaderInv, ProcessCol, UNCHANGED <<response, upstreamVars, body, raw, failed>>
  PROVE  ConvInv' /\ Grows
<1>1. pc = "process_col" /\ pc \in Functions /\ UNCHANGED Others
  BY DEF ProcessCol, Functions, Others, ReturnOk
<1>2. CASE ReturnOk
  BY <1>1, <1>2, StepReturns
<1>3. CASE ReturnError /\ UNCHANGED <<parserVars, responseVars, requestVars, json, exhausted>>
  BY <1>1, <1>3, NothingRead
<1>4. CASE /\ ~NoData(in) /\ ColParses(Units(in))
           /\ cols' = Append(cols, Units(in)[1].value)
           /\ cur_col' = cur_col + 1
           /\ IF cur_col' >= col_count
                THEN /\ state' = "expect_row"
                     /\ row' = 0
                     /\ pc' = IF conf.root THEN "output_props" ELSE "output_list"
                ELSE /\ pc' = "process_col"
                     /\ UNCHANGED <<state, row>>
           /\ in' = Advance(Skip(in), 2)
           /\ UNCHANGED <<col_count, field_data_rest, responseVars, requestVars, json,
                          exhausted>>
  <2> DEFINE k == cur_col
             n == Len(res.cols)
  <2>1. /\ state = "expect_col" /\ res \in ResultSets /\ conf \in Locations /\ json \in Text
        /\ RestOfWire = ColsLeft(res, cur_col) /\ RestOfText = Render(res, conf)
        /\ Place
    BY <1>1, Running DEF Place, Placed, RestOfWire, RestOfText, WireFrom, TextFrom
  <2>2. /\ col_count = n /\ k \in Nat /\ k < n /\ n \in Nat /\ cols = SubSeq(res.cols, 1, k)
        /\ field_data_rest = 0
    BY <2>1, ResultSetType DEF ConvInv, ParserType, Place, ColPlace, MorePlace
  <2>3. k \in 0..(n - 1) /\ k + 1 \in 1..n /\ k + 1 \in Nat
    BY <2>2
  <2>4. UNCHANGED <<res, conf, wire>>
    BY <1>1, OthersKept
  <2>5. Len(Units(in)) >= 2 /\ Units(in) # << >>
    <3>1. Len(Units(in)) >= 2
      BY <1>4 DEF ColParses
    <3>2. Len(<< >>) = 0
      BY EmptySeq
    <3> QED
      BY <3>1, <3>2
  <2>6. /\ Len(Units(in)) \in Nat
        /\ \A i \in 1..Len(Units(in)) : Units(in)[i] = RestOfWire[i]
        /\ \A m \in 0..Len(Units(in)) :
             /\ Advance(Skip(in), m) \in Seq(Bufs)
             /\ Chunks(Advance(Skip(in), m)) \o wire = Drop(RestOfWire, m)
    BY <1>1, <1>4, <2>5, FrontRead
  <2>7. 1 \in 1..Len(Units(in)) /\ 2 \in 0..Len(Units(in))
    BY <2>5, <2>6
  <2>8. ColsLeft(res, k)[1] = Unit("col", res.cols[k + 1])
        /\ Drop(ColsLeft(res, k), 2) = ColsLeft(res, k + 1)
    BY <2>1, <2>3, ColumnInFront
  <2>9. res.cols \in Seq(Columns) /\ res.cols[k + 1] \in Columns
    BY <2>1, <2>3, ResultSetType
  <2>10. Units(in)[1].value = res.cols[k + 1]
    <3>1. Units(in)[1] = Unit("col", res.cols[k + 1])
      BY <2>1, <2>6, <2>7, <2>8
    <3>2. Unit("col", res.cols[k + 1]).value = res.cols[k + 1]
      BY <2>9, UnitType DEF Kinds
    <3> QED
      BY <3>1, <3>2
  <2>11. in' \in Seq(Bufs) /\ Unread' = ColsLeft(res, k + 1)
    <3>1. Unread' = Chunks(in') \o wire'
      BY UnreadIsChunks
    <3> QED
      BY <1>4, <2>1, <2>4, <2>6, <2>7, <2>8, <3>1
  <2>12. cols' = SubSeq(res.cols, 1, k + 1) /\ cols' \in Seq(Columns) /\ Len(cols') = k + 1
    <3>1. SubSeq(res.cols, 1, k + 1) = SubSeq(res.cols, 1, (k + 1) - 1) \o <<res.cols[k + 1]>>
      <4>1. 1 \in 1..Len(res.cols) /\ k + 1 \in 1..Len(res.cols)
        BY <2>2
      <4> QED
        BY <2>9, <4>1, SubSeqRecursiveSecond
    <3>2. (k + 1) - 1 = k
      BY <2>2
    <3>3. k \in 0..Len(res.cols) /\ k + 1 \in 0..Len(res.cols)
      BY <2>2
    <3>4. SubSeq(res.cols, 1, k) \in Seq(Columns)
      BY <2>9, <3>3, TakeType
    <3>5. Append(SubSeq(res.cols, 1, k), res.cols[k + 1]) = SubSeq(res.cols, 1, k) \o <<res.cols[k + 1]>>
      BY <2>9, <3>4, AppendIsConcat
    <3>6. SubSeq(res.cols, 1, k + 1) \in Seq(Columns) /\ Len(SubSeq(res.cols, 1, k + 1)) = k + 1
      BY <2>9, <3>3, TakeType
    <3> QED
      BY <1>4, <2>2, <2>10, <3>1, <3>2, <3>5, <3>6
  <2>13. ParserType'
    BY <1>4, <2>2, <2>12 DEF ConvInv, ParserType, States
  <2>14. header_sent' \in BOOLEAN /\ attached' \in BOOLEAN /\ header_only' \in BOOLEAN
         /\ exhausted' \in BOOLEAN
    BY <1>4, ResponseBooleans DEF ConvInv, ControlType
  <2>15. Place' /\ Unread' = RestOfWire' /\ RestOfText' = Render(res, conf)
         /\ pc' \in Functions \cup Outputs
    <3>1. CASE k + 1 >= n
      <4>1. k + 1 = n
        BY <2>2, <3>1
      <4>2. /\ state' = "expect_row" /\ row' = 0
            /\ pc' = IF conf.root THEN "output_props" ELSE "output_list"
            /\ col_count' = n /\ field_data_rest' = 0
        BY <1>4, <2>2, <3>1
      <4>3. cols' = res.cols
        BY <2>9, <2>12, <4>1, SubSeqFull
      <4>4. Place'
        BY <2>2, <2>4, <4>2, <4>3, ResultSetType, <2>1
        DEF Place, Placed, ColPlace, RowPlace, FieldPlace, MorePlace, Outputs
      <4>5. RestOfWire' = RowsLeft(res, 0)
        BY <2>4, <4>2 DEF RestOfWire, WireFrom
      <4>6. ColsLeft(res, n) = RowsLeft(res, 0)
        BY <2>1, ColumnRead
      <4>7. RestOfText' = Render(res, conf)
        <5>1. res.cols # << >>
          <6>1. Len(res.cols) # 0
            BY <2>2
          <6>2. Len(<< >>) = 0
            BY EmptySeq
          <6> QED
            BY <6>1, <6>2
        <5>2. CASE conf.root
          BY <2>4, <4>2, <5>2 DEF RestOfText, TextFrom
        <5>3. CASE ~conf.root
          <6>1. Render(res, conf) = RenderRows(res, conf.format) \o CloseObject(conf)
            BY <2>1, <5>1, <5>3, RowsRendered
          <6>2. RestOfText' = RenderRows(res, conf.format) \o CloseObject(conf)
            BY <2>4, <4>2, <5>3 DEF RestOfText, TextFrom
          <6> QED
            BY <6>1, <6>2
        <5> QED
          BY <5>2, <5>3
      <4>8. pc' \in Functions \cup Outputs
        BY <4>2 DEF Outputs
      <4> QED
        BY <2>11, <4>1, <4>4, <4>5, <4>6, <4>7, <4>8
    <3>2. CASE ~(k + 1 >= n)
      <4>1. /\ pc' = "process_col" /\ state' = "expect_col" /\ cur_col' = k + 1
            /\ col_count' = n /\ field_data_rest' = 0 /\ k + 1 < n
        BY <1>4, <2>1, <2>2, <3>2
      <4>2. Place'
        BY <2>2, <2>4, <2>12, <4>1
        DEF Place, Placed, ColPlace, RowPlace, FieldPlace, MorePlace, Outputs
      <4>3. RestOfWire' = ColsLeft(res, k + 1) /\ RestOfText' = Render(res, conf)
        BY <2>4, <4>1 DEF RestOfWire, WireFrom, RestOfText, TextFrom
      <4> QED
        BY <2>11, <4>1, <4>2, <4>3 DEF Functions
    <3> QED
      BY <3>1, <3>2
  <2>16. /\ << >> \in Text /\ json' = json \o << >> /\ RestOfText = << >> \o RestOfText'
         /\ RestOfText' \in Text
    <3>1. Render(res, conf) \in Text
      BY <2>1, RenderType
    <3>2. json' = json
      BY <1>4
    <3> QED
      BY <2>1, <2>15, <3>1, <3>2, TextEmpty
  <2> QED
    BY <1>1, <2>11, <2>13, <2>14, <2>15, <2>16, StepGoes
<1> QED
  BY <1>2, <1>3, <1>4 DEF ProcessCol

\* The output functions at the beginning of the rows: each writes its tokens
\* and hands the chain on.
LEMMA OutputConverts ==
  ASSUME ConvInv, HeaderInv, pc \in Outputs, UNCHANGED Others,
         UNCHANGED <<parserVars, responseVars>>,
         NEW tokens \in Text, NEW next \in Functions \cup Outputs,
         Emit(tokens, next, in),
         next \in Functions => next = "process_row",
         next \in Outputs => next \in {"output_list", "output_cols"},
         next = "output_cols" => conf.format # "normal",
         RestOfText = tokens \o TextFrom(res, conf, state, next, row, cur_col, field_data_rest)
  PROVE  ConvInv' /\ Grows
<1>1. pc \in Functions \cup Outputs
  OBVIOUS
<1>2. /\ Place /\ state = "expect_row" /\ Unread = RestOfWire /\ res \in ResultSets
      /\ conf \in Locations /\ in \in Seq(Bufs)
  BY <1>1, Running DEF Place, Placed
<1>3. UNCHANGED <<res, conf, wire>>
  BY OthersKept
<1>4. UNCHANGED <<state, cols, col_count, cur_col, row, field_data_rest>>
  BY DEF parserVars
<1>5. ParserType'
  BY <1>4 DEF ConvInv, ParserType
<1>6. header_sent' \in BOOLEAN /\ attached' \in BOOLEAN /\ header_only' \in BOOLEAN
  BY ResponseBooleans
<1>7. CASE exhausted' = TRUE /\ ReturnError /\ UNCHANGED json
  BY <1>1, <1>5, <1>6, <1>7, StepFails
<1>8. CASE json' = json \o tokens /\ pc' = next /\ in' = in /\ UNCHANGED exhausted
  <2>1. Place'
    <3>1. row = 0
      BY <1>2 DEF Place, Placed
    <3> QED
      BY <1>2, <1>3, <1>4, <1>8, <3>1
      DEF Place, Placed, ColPlace, RowPlace, FieldPlace, MorePlace, Functions, Outputs
  <2>2. RestOfText' = TextFrom(res, conf, state, next, row, cur_col, field_data_rest)
    BY <1>3, <1>4, <1>8 DEF RestOfText
  <2>3. TextFrom(res, conf, state, next, row, cur_col, field_data_rest) \in Text
    <3>1. state \in States /\ row \in Nat /\ cur_col \in Nat /\ field_data_rest \in Nat
      BY DEF ConvInv, ParserType
    <3> QED
      BY <1>2, <3>1, TextFromType
  <2>4. Unread' = RestOfWire'
    <3>1. Unread' = Unread
      BY <1>3, <1>8, UnreadIsChunks
    <3>2. RestOfWire' = RestOfWire
      BY <1>3, <1>4 DEF RestOfWire
    <3> QED
      BY <1>2, <3>1, <3>2
  <2>5. exhausted' \in BOOLEAN /\ in' \in Seq(Bufs) /\ pc' \in Functions \cup Outputs
    BY <1>2, <1>8 DEF ConvInv, ControlType
  <2>6. RestOfText = tokens \o RestOfText' /\ RestOfText' \in Text
    BY <2>2, <2>3
  <2> QED
    BY <1>1, <1>5, <1>6, <1>8, <2>1, <2>4, <2>5, <2>6, StepGoes
<1> QED
  BY <1>7, <1>8, EmitCases

\* In the middle of the rows there are columns.
LEMMA HasColumns ==
  ASSUME ConvInv, Place, state \in {"expect_row", "expect_field", "expect_more_field_data"}
  PROVE  /\ res.cols # << >> /\ cols = res.cols /\ col_count = Len(res.cols)
         /\ Len(res.cols) \in Nat \ {0}
<1>1. cols = res.cols /\ col_count = Len(res.cols) /\ col_count > 0 /\ col_count \in Nat
  BY DEF ConvInv, ParserType, Place, RowPlace, FieldPlace
<1>2. Len(<< >>) = 0
  BY EmptySeq
<1> QED
  BY <1>1, <1>2

\* output_props, output_list and output_cols write the beginning of the text.
LEMMA PropsConvert ==
  ASSUME ConvInv, HeaderInv, OutputProps, UNCHANGED <<response, upstreamVars, body, raw, failed>>
  PROVE  ConvInv' /\ Grows
<1>1. pc = "output_props" /\ pc \in Outputs /\ UNCHANGED Others
      /\ UNCHANGED <<parserVars, responseVars>>
  BY DEF OutputProps, Others, Outputs
<1>2. /\ Place /\ state = "expect_row" /\ conf.root /\ res \in ResultSets /\ conf \in Locations
      /\ RestOfText = Render(res, conf)
  BY <1>1, Running DEF Place, Placed, RestOfText, TextFrom
<1>3. Emit(PropertiesText(conf), "output_list", in)
  <2>1. PropertiesText(conf) = <<"{">> \o Success(TRUE) \o UserProps \o <<"root", ":">>
    BY Zenon DEF PropertiesText, Success, UserProps, SuccessText, PropsText
  <2> QED
    BY <2>1 DEF OutputProps
<1>4. PropertiesText(conf) \in Text
      /\ RestOfText = PropertiesText(conf) \o (RenderRows(res, conf.format) \o CloseObject(conf))
  BY <1>2, HasColumns, RowsRendered
<1>5. TextFrom(res, conf, state, "output_list", row, cur_col, field_data_rest)
        = RenderRows(res, conf.format) \o CloseObject(conf)
  BY <1>2 DEF TextFrom
<1>6. "output_list" \in Outputs /\ "output_list" \notin Functions
  BY DEF Functions, Outputs
<1> QED
  BY <1>1, <1>3, <1>4, <1>5, <1>6, OutputConverts

LEMMA ListConverts ==
  ASSUME ConvInv, HeaderInv, OutputList, UNCHANGED <<response, upstreamVars, body, raw, failed>>
  PROVE  ConvInv' /\ Grows
<1> DEFINE next == IF conf.format = "compact" THEN "output_cols" ELSE "process_row"
<1>1. pc = "output_list" /\ pc \in Outputs /\ UNCHANGED Others
      /\ UNCHANGED <<parserVars, responseVars>> /\ Emit(<<"[">>, next, in)
  BY DEF OutputList, Others, Outputs
<1>2. /\ Place /\ state = "expect_row" /\ res \in ResultSets /\ conf \in Locations
      /\ RestOfText = RenderRows(res, conf.format) \o CloseObject(conf) /\ row = 0
  BY <1>1, Running DEF Place, Placed, RestOfText, TextFrom
<1>3. <<"[">> \in Text
  BY LiteralTokens, TextToken
<1>4. RestOfText = <<"[">> \o (IF conf.format = "normal" THEN RowsText(res, 0, conf)
                               ELSE RenderNames(res.cols) \o RowsText(res, 0, conf))
  BY <1>2, ListText
<1>5. conf.format \in {"normal", "compact"}
  BY <1>2 DEF Locations
<1>6. TextFrom(res, conf, state, next, row, cur_col, field_data_rest)
        = IF conf.format = "normal" THEN RowsText(res, 0, conf)
          ELSE RenderNames(res.cols) \o RowsText(res, 0, conf)
  BY <1>2, <1>5 DEF TextFrom
<1>7. next \in Functions \cup Outputs /\ (next \in Functions => next = "process_row")
      /\ (next \in Outputs => next \in {"output_list", "output_cols"})
      /\ (next = "output_cols" => conf.format # "normal")
  BY DEF Functions, Outputs
<1> HIDE DEF next
<1>8. RestOfText = <<"[">> \o TextFrom(res, conf, state, next, row, cur_col, field_data_rest)
  BY <1>4, <1>6
<1> QED
  BY <1>1, <1>3, <1>7, <1>8, OutputConverts

LEMMA ColsConvert ==
  ASSUME ConvInv, HeaderInv, OutputCols, UNCHANGED <<response, upstreamVars, body, raw, failed>>
  PROVE  ConvInv' /\ Grows
<1>1. pc = "output_cols" /\ pc \in Outputs /\ UNCHANGED Others
      /\ UNCHANGED <<parserVars, responseVars>> /\ Emit(ColNames, "process_row", in)
  BY DEF OutputCols, Others, Outputs
<1>2. /\ Place /\ state = "expect_row" /\ res \in ResultSets /\ conf \in Locations
      /\ RestOfText = RenderNames(res.cols) \o RowsText(res, 0, conf) /\ row = 0
  BY <1>1, Running DEF Place, Placed, RestOfText, TextFrom
<1>3. res.cols # << >> /\ cols = res.cols /\ col_count = Len(res.cols)
  BY <1>2, HasColumns
<1>4. ColNames = RenderNames(res.cols) /\ ColNames \in Text
  <2>1. RenderNames(res.cols) = <<"[">> \o Commas(Names(res)) \o <<"]">> /\ RenderNames(res.cols) \in Text
    BY <1>2, NamesType
  <2>2. FlattenSeq([i \in DOMAIN res.cols |->
                      Quoted(res.cols[i].name) \o IF i # Len(res.cols) THEN <<",">> ELSE << >>])
          = Commas(Names(res))
    BY <1>2, <1>3, NamesText
  <2>3. ColNames = <<"[">> \o FlattenSeq([i \in DOMAIN res.cols |->
                      Quoted(res.cols[i].name) \o IF i # Len(res.cols) THEN <<",">> ELSE << >>]) \o <<"]">>
    BY <1>3, Zenon DEF ColNames
  <2> QED
    BY <2>1, <2>2, <2>3, Zenon
<1>5. TextFrom(res, conf, state, "process_row", row, cur_col, field_data_rest) = RowsText(res, 0, conf)
  BY <1>2 DEF TextFrom
<1>6. "process_row" \in Functions /\ "process_row" \notin Outputs
  BY DEF Functions, Outputs
<1>7. RestOfText = ColNames \o TextFrom(res, conf, state, "process_row", row, cur_col, field_data_rest)
  BY <1>2, <1>4, <1>5
<1> QED
  BY <1>1, <1>4, <1>6, <1>7, OutputConverts

-----------------------------------------------------------------------------
(* process_row                                                             *)

\* It takes the flag of a row off the wire, or ends the text.
LEMMA RowConverts ==
  ASSUME ConvInv, HeaderInv, ProcessRow, UNCHANGED <<response, upstreamVars, body, raw, failed>>
  PROVE  ConvInv' /\ Grows
<1>1. pc = "process_row" /\ pc \in Functions /\ UNCHANGED Others
  BY DEF ProcessRow, Functions, Others, ReturnOk
<1>2. CASE ReturnOk
  BY <1>1, <1>2, StepReturns
<1>3. CASE ReturnError /\ UNCHANGED <<parserVars, responseVars, requestVars, json, exhausted>>
  BY <1>1, <1>3, NothingRead
<1>4. CASE /\ ~NoData(in) /\ Units(in) # << >>
           /\ IF Units(in)[1].value = 0 THEN EndOfRows(Units(in)) ELSE NextRow
           /\ UNCHANGED <<responseVars, requestVars>>
  <2>1. /\ state = "expect_row" /\ res \in ResultSets /\ conf \in Locations /\ json \in Text
        /\ RestOfWire = RowsLeft(res, row) /\ RestOfText = RowsText(res, row, conf)
        /\ Place
    <3>1. state = "expect_row" /\ Place
      BY <1>1, Running DEF Place, Placed
    <3> QED
      BY <1>1, <3>1, Running DEF RestOfWire, RestOfText, WireFrom, TextFrom
  <2>2. /\ col_count = Len(res.cols) /\ col_count > 0 /\ cols = res.cols /\ res.cols # << >>
        /\ row \in 0..Len(res.rows) /\ Len(res.rows) \in Nat /\ field_data_rest = 0
        /\ col_count \in Nat
    BY <2>1, HasColumns, ResultSetType
    DEF Place, RowPlace, MorePlace, ConvInv, ParserType
  <2>3. UNCHANGED <<res, conf, wire>>
    BY <1>1, OthersKept
  <2>4. /\ Len(Units(in)) \in Nat \ {0}
        /\ \A i \in 1..Len(Units(in)) : Units(in)[i] = RestOfWire[i]
        /\ \A m \in 0..Len(Units(in)) :
             /\ Advance(Skip(in), m) \in Seq(Bufs)
             /\ Chunks(Advance(Skip(in), m)) \o wire = Drop(RestOfWire, m)
    BY <1>1, <1>4, FrontRead
  <2>5. 1 \in 1..Len(Units(in)) /\ 1 \in 0..Len(Units(in))
    BY <2>4
  <2>6. Units(in)[1] = RowsLeft(res, row)[1]
    BY <2>1, <2>4, <2>5
  <2>7. /\ row < Len(res.rows) => /\ RowsLeft(res, row)[1] = Unit("flag", 1)
                                  /\ Drop(RowsLeft(res, row), 1) = FieldsLeft(res, row + 1, 0)
        /\ row = Len(res.rows) => RowsLeft(res, row)[1] = Unit("flag", 0)
    BY <2>1, <2>2, FlagInFront
  <2>8. Unit("flag", 1).value = 1 /\ Unit("flag", 0).value = 0
    BY DEF Unit
  <2>9. header_sent' \in BOOLEAN /\ attached' \in BOOLEAN /\ header_only' \in BOOLEAN
    BY <1>4, ResponseBooleans
  <2>10. CASE Units(in)[1].value = 0
    <3>1. EndOfRows(Units(in))
      BY <1>4, <2>10
    <3>2. row = Len(res.rows)
      <4>1. CASE row < Len(res.rows)
        BY <2>6, <2>7, <2>8, <2>10, <4>1
      <4> QED
        BY <2>2, <4>1
    <3>3. /\ state' = "done" /\ UNCHANGED <<cols, col_count, cur_col, row, field_data_rest>>
          /\ \/ Emit(Closing, "output_bufs", << >>)
             \/ ReturnError /\ UNCHANGED <<json, exhausted>>
      BY <3>1 DEF EndOfRows
    <3>4. ParserType'
      BY <3>3 DEF ConvInv, ParserType, States
    <3>5. CASE ReturnError /\ UNCHANGED json /\ (UNCHANGED exhausted \/ exhausted' = TRUE)
      <4>1. exhausted' \in BOOLEAN
        BY <3>5 DEF ConvInv, ControlType
      <4> QED
        BY <1>1, <2>9, <3>4, <3>5, <4>1, StepFails
    <3>6. CASE json' = json \o Closing /\ pc' = "output_bufs" /\ in' = << >> /\ UNCHANGED exhausted
      <4>1. Closing = Closes(conf) /\ Closing \in Text /\ RestOfText = Closing
        <5>1. Closing = Closes(conf)
          BY Zenon DEF Closing, Closes
        <5>2. Closes(conf) \in Text /\ RowsText(res, Len(res.rows), conf) = Closes(conf)
          BY <2>1, BracketsType, LastRowText
        <5> QED
          BY <2>1, <3>2, <5>1, <5>2
      <4>2. RestOfText' = << >>
        BY <3>3 DEF RestOfText, TextFrom
      <4>3. RestOfText = Closing \o RestOfText' /\ RestOfText' \in Text
        BY <4>1, <4>2, TextEmpty
      <4>4. Place'
        BY <2>2, <3>3, <3>6
        DEF Place, Placed, ColPlace, RowPlace, FieldPlace, MorePlace, Outputs
      <4>5. in' \in Seq(Bufs) /\ exhausted' \in BOOLEAN
            /\ pc' \in Functions \cup Outputs \cup {"output_bufs"}
        BY <3>6, EmptySeq DEF ConvInv, ControlType
      <4>6. state' # "done" => Unread' = RestOfWire'
        BY <3>3
      <4>7. json' = json \o Closing
        BY <3>6
      <4> QED
        BY <1>1, <2>9, <3>4, <4>1, <4>3, <4>4, <4>5, <4>6, <4>7, StepGoes
    <3> QED
      BY <3>3, <3>5, <3>6, EmitCases
  <2>11. CASE Units(in)[1].value # 0
    <3>1. NextRow
      BY <1>4, <2>11
    <3>2. row < Len(res.rows) /\ row \in Nat
      <4>1. CASE row = Len(res.rows)
        BY <2>6, <2>7, <2>8, <2>11, <4>1
      <4> QED
        BY <2>2, <4>1
    <3>3. /\ row' = row + 1 /\ cur_col' = 0 /\ state' = "expect_field" /\ pc' = "process_field"
          /\ in' = Advance(Skip(in), 1)
          /\ UNCHANGED <<cols, col_count, field_data_rest, json, exhausted>>
      BY <3>1 DEF NextRow, FirstCol
    <3>4. ParserType'
      BY <2>2, <3>2, <3>3 DEF ConvInv, ParserType, States
    <3>5. Place'
      BY <2>2, <2>3, <3>2, <3>3
      DEF Place, Placed, ColPlace, RowPlace, FieldPlace, MorePlace, Outputs
    <3>6. in' \in Seq(Bufs) /\ Unread' = RestOfWire'
      <4>1. Unread' = Chunks(in') \o wire'
        BY UnreadIsChunks
      <4>2. RestOfWire' = FieldsLeft(res, row + 1, 0)
        BY <2>3, <3>3 DEF RestOfWire, WireFrom
      <4> QED
        BY <2>1, <2>3, <2>4, <2>5, <2>7, <3>2, <3>3, <4>1, <4>2
    <3>7. RestOfText' = RestOfText /\ RestOfText \in Text
      <4>1. RestOfText' = RowsText(res, (row + 1) - 1, conf)
        BY <2>3, <3>3 DEF RestOfText, TextFrom
      <4>2. (row + 1) - 1 = row
        BY <3>2
      <4> QED
        BY <2>1, <4>1, <4>2, RestOfTextType
    <3>8. /\ << >> \in Text /\ json' = json \o << >> /\ RestOfText = << >> \o RestOfText'
          /\ RestOfText' \in Text
      BY <2>1, <3>3, <3>7, TextEmpty
    <3>9. exhausted' \in BOOLEAN /\ pc' \in Functions
      BY <3>3 DEF ConvInv, ControlType, Functions
    <3> QED
      BY <1>1, <2>9, <3>4, <3>5, <3>6, <3>8, <3>9, StepGoes
  <2> QED
    BY <2>10, <2>11
<1> QED
  BY <1>2, <1>3, <1>4 DEF ProcessRow

-----------------------------------------------------------------------------
(* process_field and process_more_field_data                               *)

\* Where both handlers are.
LEMMA InField ==
  ASSUME ConvInv, Place, state \in {"expect_field", "expect_more_field_data"}
  PROVE  /\ cols = res.cols /\ col_count = Len(res.cols) /\ col_count \in Nat
         /\ cur_col \in Nat /\ cur_col < col_count /\ cur_col \in 0..(Len(res.cols) - 1)
         /\ row \in 1..Len(res.rows) /\ row \in Nat /\ field_data_rest \in Nat
         /\ res \in ResultSets /\ conf \in Locations
         /\ res.cols[cur_col + 1] \in Columns /\ res.rows[row][cur_col + 1] \in Fields
<1>1. /\ cols = res.cols /\ col_count = Len(res.cols) /\ col_count \in Nat
      /\ cur_col \in Nat /\ cur_col < col_count
      /\ row \in 1..Len(res.rows) /\ row \in Nat /\ field_data_rest \in Nat
      /\ res \in ResultSets /\ conf \in Locations
  BY DEF ConvInv, ParserType, DataType, Place, FieldPlace
<1>2. cur_col \in 0..(Len(res.cols) - 1) /\ cur_col + 1 \in 1..Len(res.cols)
  BY <1>1
<1> QED
  BY <1>1, <1>2, ResultSetType

\* A field ends, maybe with its row.
LEMMA EndConverts ==
  ASSUME ConvInv, HeaderInv, pc \in Functions, UNCHANGED Others,
         state \in {"expect_field", "expect_more_field_data"},
         UNCHANGED <<cols, col_count, row, responseVars>>, field_data_rest' = 0,
         NEW value \in Text, NEW left \in Seq(Bufs), FieldEnds(value \o RowEnd(0), left),
         Chunks(left) \o wire = FieldsLeft(res, row, cur_col + 1),
         RestOfText = value \o FieldsText(res, row, cur_col + 1, conf)
  PROVE  ConvInv' /\ Grows
<1> DEFINE text == value \o RowEnd(0)
           k == cur_col
           n == Len(res.cols)
<1>1. Place /\ json \in Text
  BY Running
<1>2. /\ cols = res.cols /\ col_count = n /\ n \in Nat /\ k \in Nat /\ k < n
      /\ row \in 1..Len(res.rows) /\ row \in Nat /\ res \in ResultSets /\ conf \in Locations
  BY <1>1, InField
<1>3. UNCHANGED <<res, conf, wire>>
  BY OthersKept
<1>4. header_sent' \in BOOLEAN /\ attached' \in BOOLEAN /\ header_only' \in BOOLEAN
  BY ResponseBooleans
<1>5. cur_col' = k + 1
  BY DEF FieldEnds
<1>6. CASE k + 1 = n
  <2>1. state' = "expect_row" /\ Emit(text, "process_row", left)
    BY <1>2, <1>5, <1>6 DEF FieldEnds
  <2>2. ParserType'
    BY <1>2, <1>5, <2>1 DEF ConvInv, ParserType, States
  <2>3. CASE exhausted' = TRUE /\ ReturnError /\ UNCHANGED json
    BY <1>4, <2>2, <2>3, StepFails
  <2>4. CASE json' = json \o text /\ pc' = "process_row" /\ in' = left /\ UNCHANGED exhausted
    <3>1. Place'
      BY <1>2, <1>3, <1>5, <2>1, <2>4
      DEF Place, Placed, ColPlace, RowPlace, FieldPlace, MorePlace, Outputs
    <3>2. Unread' = RestOfWire'
      <4>1. Unread' = Chunks(in') \o wire'
        BY UnreadIsChunks
      <4>2. RestOfWire' = RowsLeft(res, row)
        BY <1>3, <2>1 DEF RestOfWire, WireFrom
      <4>3. FieldsLeft(res, row, n) = RowsLeft(res, row)
        BY <1>2, FieldRead
      <4> QED
        BY <1>3, <1>6, <2>4, <4>1, <4>2, <4>3
    <3>3. RestOfText' = RowsText(res, row, conf) /\ RestOfText' \in Text
      <4>1. RestOfText' = RowsText(res, row, conf)
        BY <1>3, <2>1, <2>4 DEF RestOfText, TextFrom
      <4> QED
        BY <1>2, <4>1, TextLeftType
    <3>4. RowEnd(0) = Ending(conf) /\ Ending(conf) \in Text
      <4>1. cur_col = col_count - 1
        BY <1>2, <1>6
      <4> QED
        BY <1>2, <4>1, BracketsType DEF RowEnd, Ending
    <3>5. FieldsText(res, row, n, conf) = Ending(conf) \o RowsText(res, row, conf)
      BY <1>2, LastValueText
    <3>6. text \in Text /\ RestOfText = text \o RestOfText'
      <4> DEFINE x == Ending(conf)
                 y == RowsText(res, row, conf)
      <4>1. x \in Text /\ y \in Text /\ text = value \o x /\ RestOfText = value \o (x \o y)
        BY <1>6, <3>3, <3>4, <3>5
      <4> HIDE DEF x, y, text
      <4>2. (value \o x) \o y = value \o (x \o y)
        BY <4>1, TextAssoc
      <4>3. value \o x \in Text
        BY <4>1, TextConcat
      <4>4. RestOfText' = y
        BY <3>3 DEF y
      <4> QED
        BY <4>1, <4>2, <4>3, <4>4, Zenon
    <3>7. exhausted' \in BOOLEAN /\ in' \in Seq(Bufs) /\ pc' \in Functions
      BY <2>4 DEF ConvInv, ControlType, Functions
    <3>8. json' = json \o text
      BY <2>4
    <3> HIDE DEF text
    <3> QED
      BY <1>4, <2>2, <3>1, <3>2, <3>3, <3>6, <3>7, <3>8, StepGoes
  <2> QED
    BY <2>1, <2>3, <2>4, EmitCases
<1>7. CASE k + 1 # n
  <2>1. state' = "expect_field" /\ Emit(text, "process_field", left) /\ k + 1 < n
    BY <1>2, <1>5, <1>7 DEF FieldEnds
  <2>2. ParserType'
    BY <1>2, <1>5, <2>1 DEF ConvInv, ParserType, States
  <2>3. CASE exhausted' = TRUE /\ ReturnError /\ UNCHANGED json
    BY <1>4, <2>2, <2>3, StepFails
  <2>4. CASE json' = json \o text /\ pc' = "process_field" /\ in' = left /\ UNCHANGED exhausted
    <3>1. Place'
      BY <1>2, <1>3, <1>5, <2>1, <2>4
      DEF Place, Placed, ColPlace, RowPlace, FieldPlace, MorePlace, Outputs
    <3>2. Unread' = RestOfWire'
      <4>1. Unread' = Chunks(in') \o wire'
        BY UnreadIsChunks
      <4>2. RestOfWire' = FieldsLeft(res, row, k + 1)
        BY <1>3, <1>5, <2>1 DEF RestOfWire, WireFrom
      <4> QED
        BY <1>3, <2>4, <4>1, <4>2
    <3>3. RestOfText' = FieldsText(res, row, k + 1, conf) /\ RestOfText' \in Text
      <4>1. RestOfText' = FieldsText(res, row, k + 1, conf)
        BY <1>2, <1>3, <1>5, <2>1, <2>4 DEF RestOfText, TextFrom
      <4> QED
        BY <1>2, <4>1, TextLeftType
    <3>4. text = value
      <4>1. RowEnd(0) = << >>
        BY <1>2, <1>7 DEF RowEnd
      <4> QED
        BY <4>1, TextEmpty
    <3>5. exhausted' \in BOOLEAN /\ in' \in Seq(Bufs) /\ pc' \in Functions
      BY <2>4 DEF ConvInv, ControlType, Functions
    <3>6. json' = json \o value /\ RestOfText = value \o RestOfText'
      BY <2>4, <3>3, <3>4
    <3> QED
      BY <1>4, <2>2, <3>1, <3>2, <3>3, <3>5, <3>6, StepGoes
  <2> QED
    BY <2>1, <2>3, <2>4, EmitCases
<1> QED
  BY <1>6, <1>7

\* A part of a field is through.
LEMMA PartConverts ==
  ASSUME ConvInv, HeaderInv, pc \in Functions, UNCHANGED Others,
         state \in {"expect_field", "expect_more_field_data"},
         UNCHANGED <<cols, col_count, row, responseVars>>,
         ~res.rows[row][cur_col + 1].null, res.cols[cur_col + 1].type # "bool",
         NEW rest \in 1..(Len(res.rows[row][cur_col + 1].data) - 1), field_data_rest' = rest,
         NEW value \in Text, NEW left \in Seq(Bufs), FieldContinues(value \o RowEnd(rest), left),
         Chunks(left) \o wire = CharUnits(Missing(res, row, cur_col, rest))
                                  \o FieldsLeft(res, row, cur_col + 1),
         RestOfText = value \o (ValueRest(res.cols[cur_col + 1].type, Missing(res, row, cur_col, rest))
                                  \o FieldsText(res, row, cur_col + 1, conf))
  PROVE  ConvInv' /\ Grows
<1> DEFINE k == cur_col
<1>1. Place /\ json \in Text
  BY Running
<1>2. /\ cols = res.cols /\ col_count = Len(res.cols) /\ Len(res.cols) \in Nat
      /\ k \in Nat /\ k < Len(res.cols) /\ k \in 0..(Len(res.cols) - 1)
      /\ row \in 1..Len(res.rows) /\ row \in Nat /\ res \in ResultSets /\ conf \in Locations
  BY <1>1, InField
<1>3. UNCHANGED <<res, conf, wire>>
  BY OthersKept
<1>4. header_sent' \in BOOLEAN /\ attached' \in BOOLEAN /\ header_only' \in BOOLEAN
  BY ResponseBooleans
<1>5. rest \in Nat /\ rest # 0 /\ rest \in 0..Len(res.rows[row][k + 1].data)
  <2>1. Len(res.rows[row][k + 1].data) \in Nat
    BY <1>1, InField, LenProperties DEF Fields
  <2> QED
    BY <2>1
<1>6. value \o RowEnd(rest) = value
  <2>1. RowEnd(rest) = << >>
    BY <1>5 DEF RowEnd
  <2> QED
    BY <2>1, TextEmpty
<1>7. state' = "expect_more_field_data" /\ cur_col' = k
      /\ Emit(value, "process_more_field_data", left)
  BY <1>6 DEF FieldContinues
<1>8. ParserType'
  BY <1>2, <1>5, <1>7 DEF ConvInv, ParserType, States
<1>9. CASE exhausted' = TRUE /\ ReturnError /\ UNCHANGED json
  BY <1>4, <1>8, <1>9, StepFails
<1>10. CASE /\ json' = json \o value /\ pc' = "process_more_field_data" /\ in' = left
            /\ UNCHANGED exhausted
  <2>1. Place'
    BY <1>2, <1>3, <1>7, <1>10
    DEF Place, Placed, ColPlace, RowPlace, FieldPlace, MorePlace, Outputs
  <2>2. Unread' = RestOfWire'
    <3>1. Unread' = Chunks(in') \o wire'
      BY UnreadIsChunks
    <3>2. RestOfWire' = CharUnits(Missing(res, row, k, rest)) \o FieldsLeft(res, row, k + 1)
      BY <1>3, <1>7 DEF RestOfWire, WireFrom
    <3> QED
      BY <1>3, <1>10, <3>1, <3>2
  <2>3. RestOfText' = TextFrom(res, conf, "expect_more_field_data", pc', row, k, rest)
    BY <1>3, <1>7 DEF RestOfText
  <2>4. TextFrom(res, conf, "expect_more_field_data", pc', row, k, rest)
          = ValueRest(res.cols[k + 1].type, Missing(res, row, k, rest))
              \o FieldsText(res, row, k + 1, conf)
    BY <1>10 DEF TextFrom
  <2>5. RestOfText' \in Text
    <3>1. TextFrom(res, conf, "expect_more_field_data", pc', row, k, rest) \in Text
      BY <1>2, <1>5, TextFromType DEF States
    <3> QED
      BY <2>3, <3>1
  <2>6. exhausted' \in BOOLEAN /\ in' \in Seq(Bufs) /\ pc' \in Functions
    BY <1>10 DEF ConvInv, ControlType, Functions
  <2>7. RestOfText = value \o RestOfText' /\ json' = json \o value
    BY <1>10, <2>3, <2>4
  <2> QED
    BY <1>4, <1>8, <2>1, <2>2, <2>5, <2>6, <2>7, StepGoes
<1> QED
  BY <1>7, <1>9, <1>10, EmitCases

\* The text of a field begins with its lead.
LEMMA FieldTextAhead ==
  ASSUME ConvInv, Place, state = "expect_field"
  PROVE  LET v == RenderField(res.cols[cur_col + 1], res.rows[row][cur_col + 1])
             w == FieldsText(res, row, cur_col + 1, conf)
         IN /\ Lead \in Text /\ v \in Text /\ w \in Text
            /\ RestOfText = Lead \o (v \o w)
            /\ RestOfText = (Lead \o v) \o w
<1> DEFINE v == RenderField(res.cols[cur_col + 1], res.rows[row][cur_col + 1])
           w == FieldsText(res, row, cur_col + 1, conf)
           l == Ahead(res, row, cur_col, conf)
           k == cur_col
<1>1. /\ cols = res.cols /\ cur_col \in Nat /\ k \in 0..(Len(res.cols) - 1)
      /\ row \in 1..Len(res.rows) /\ res \in ResultSets /\ conf \in Locations
      /\ res.cols[cur_col + 1] \in Columns /\ res.rows[row][cur_col + 1] \in Fields
  BY InField
<1>2. v \in Text
  BY <1>1, RenderFieldType
<1>3. w \in Text
  BY <1>1, TextLeftType
<1>4. /\ (IF k = 0 THEN RowsText(res, row - 1, conf) ELSE FieldsText(res, row, k, conf))
           = l \o (v \o w)
      /\ l \in Text
  BY <1>1, ValueText
<1>5. RestOfText = IF k = 0 THEN RowsText(res, row - 1, conf) ELSE FieldsText(res, row, k, conf)
  <2>1. pc \notin Outputs
    BY DEF Place, Placed
  <2> QED
    BY <2>1 DEF RestOfText, TextFrom, Outputs
<1>6. Lead = l
  BY <1>1, Zenon DEF Lead, Ahead, FirstRow
<1> HIDE DEF v, w, l
<1>7. (l \o v) \o w = l \o (v \o w)
  BY <1>2, <1>3, <1>4, TextAssoc
<1>8. RestOfText = l \o (v \o w)
  BY <1>4, <1>5, Zenon
<1> QED
  BY <1>2, <1>3, <1>4, <1>6, <1>7, <1>8, Zenon DEF v, w

\* The first n characters of a field that were read with its size.
LEMMA ValuesOf ==
  ASSUME NEW data \in Seq(STRING), NEW u \in Wire, NEW n \in 0..Len(data), 2 + n <= Len(u),
         \A i \in 1..n : u[2 + i].value = data[i]
  PROVE  Values(SubSeq(u, 3, Len(u)), n) = SubSeq(data, 1, n)
<1> DEFINE w == SubSeq(u, 3, Len(u))
           v == Values(w, n)
           x == SubSeq(data, 1, n)
<1>1. Len(u) \in Nat /\ Len(data) \in Nat /\ n \in Nat /\ 2 \in 0..Len(u) /\ 2 + 1 = 3
  BY LenProperties DEF Wire
<1>2. w = Drop(u, 2)
  BY <1>1 DEF Drop
<1>3. \A i \in 1..(Len(u) - 2) : Drop(u, 2)[i] = u[2 + i]
  <2>1. u \in Seq(WireUnits)
    BY DEF Wire
  <2>2. 2 \in 0..Len(u)
    BY <1>1
  <2> QED
    BY ONLY <2>1, <2>2, DropType
<1>4. \A i \in 1..n : i \in 1..(Len(u) - 2)
  BY <1>1
<1>5. \A i \in 1..n : w[i].value = data[i]
  BY <1>2, <1>3, <1>4
<1>6. v = [i \in 1..n |-> w[i].value]
  BY DEF Values
<1>7. x \in Seq(STRING) /\ Len(x) = n /\ \A i \in 1..n : x[i] = data[i]
  BY TakeType
<1>8. \A i \in 1..n : data[i] \in STRING
  <2>1. \A i \in 1..n : i \in 1..Len(data)
    BY <1>1
  <2> QED
    BY <2>1, ElementOfSeq
<1>9. v \in [1..n -> STRING] /\ \A i \in 1..n : v[i] = data[i]
  BY <1>5, <1>6, <1>8, SMTT(30)
<1> HIDE DEF v, x
<1>10. v \in Seq(STRING) /\ Len(v) = n
  BY <1>1, <1>9, MapType
<1> QED
  BY <1>7, <1>9, <1>10, SeqEqual DEF v, x

\* What process_field reads: the size, and as much of the data as is in the buf.
LEMMA FieldData ==
  ASSUME ConvInv, HeaderInv, pc = "process_field", ~NoData(in), Len(Units(in)) >= 2
  PROVE  LET f     == res.rows[row][cur_col + 1]
             u     == Units(in)
             total == Len(f.data)
             len   == FieldLen(total, u)
             data  == Values(SubSeq(u, 3, Len(u)), len)
         IN /\ f.data \in Seq(STRING) /\ total \in Nat /\ f.null \in BOOLEAN
            /\ Len(u) \in Nat
            /\ f.null => /\ u[1].value = NullSize
                         /\ Advance(Skip(in), 2) \in Seq(Bufs)
                         /\ Chunks(Advance(Skip(in), 2)) \o wire = FieldsLeft(res, row, cur_col + 1)
            /\ ~f.null =>
                 /\ u[1].value = total /\ total # NullSize
                 /\ len \in 0..total /\ 2 + len \in 0..Len(u)
                 /\ data = SubSeq(f.data, 1, len)
                 /\ Advance(Skip(in), 2 + len) \in Seq(Bufs)
                 /\ Chunks(Advance(Skip(in), 2 + len)) \o wire
                      = CharUnits(Drop(f.data, len)) \o FieldsLeft(res, row, cur_col + 1)
<1> DEFINE k == cur_col
           u == Units(in)
           f == res.rows[row][k + 1]
           next == FieldsLeft(res, row, k + 1)
           total == Len(f.data)
           len == FieldLen(total, u)
           data == Values(SubSeq(u, 3, Len(u)), len)
<1>1. pc \in Functions
  BY DEF Functions
<1>2. state = "expect_field" /\ Place /\ RestOfWire = FieldsLeft(res, row, k)
  <2>1. state = "expect_field" /\ Place
    BY <1>1, Running DEF Place, Placed
  <2> QED
    BY <2>1 DEF RestOfWire, WireFrom
<1>3. /\ k \in 0..(Len(res.cols) - 1) /\ row \in 1..Len(res.rows)
      /\ res \in ResultSets /\ f \in Fields
  BY <1>2, InField
<1>4. f.data \in Seq(STRING) /\ total \in Nat /\ f.null \in BOOLEAN
  BY <1>3, LenProperties DEF Fields
<1>5. /\ Len(u) \in Nat \ {0} /\ u \in Wire /\ Len(u) <= Len(RestOfWire)
      /\ \A i \in 1..Len(u) : u[i] = RestOfWire[i]
      /\ \A n \in 0..Len(u) :
           /\ Advance(Skip(in), n) \in Seq(Bufs)
           /\ Chunks(Advance(Skip(in), n)) \o wire = Drop(RestOfWire, n)
  <2>1. u # << >>
    <3>1. Len(<< >>) = 0
      BY EmptySeq
    <3> QED
      BY <3>1
  <2> QED
    BY <1>1, <2>1, FrontRead
<1>6. Len(u) >= 2 /\ 1 \in 1..Len(u) /\ 2 \in 0..Len(u)
  BY <1>5
<1>7. /\ f.null => RestOfWire[1].value = NullSize /\ Drop(RestOfWire, 2) = next
      /\ ~f.null => /\ RestOfWire[1].value = Len(f.data)
                    /\ \A i \in 1..Len(f.data) : RestOfWire[2 + i].value = f.data[i]
                    /\ \A n \in 0..Len(f.data) :
                         Drop(RestOfWire, 2 + n) = CharUnits(Drop(f.data, n)) \o next
  BY <1>2, <1>3, SizeInFront
<1>8. u[1].value = RestOfWire[1].value
  BY <1>5, <1>6
<1>9. len \in Nat /\ len \in 0..total /\ 2 + len \in 0..Len(u) /\ 2 + len <= Len(u)
  <2>1. total \in Nat /\ Len(u) \in Nat /\ Len(u) >= 2
    BY <1>4, <1>5, <1>6
  <2>2. len = IF Len(u) - 2 >= total THEN total ELSE Len(u) - 2
    BY DEF FieldLen
  <2> HIDE DEF total, u, len
  <2> QED
    BY <2>1, <2>2
<1>10. f.null => /\ Advance(Skip(in), 2) \in Seq(Bufs)
                 /\ Chunks(Advance(Skip(in), 2)) \o wire = next
  BY <1>5, <1>6, <1>7
<1>11. ASSUME ~f.null
       PROVE  /\ data = SubSeq(f.data, 1, len) /\ total # NullSize
              /\ Advance(Skip(in), 2 + len) \in Seq(Bufs)
              /\ Chunks(Advance(Skip(in), 2 + len)) \o wire = CharUnits(Drop(f.data, len)) \o next
  <2>1. \A i \in 1..len : u[2 + i].value = f.data[i]
    <3>1. \A i \in 1..len : i \in 1..total /\ 2 + i \in 1..Len(u)
      BY <1>4, <1>5, <1>9, SMTT(30)
    <3>2. \A i \in 1..len : u[2 + i] = RestOfWire[2 + i]
      BY <1>5, <3>1
    <3> QED
      BY <1>7, <1>11, <3>1, <3>2
  <2>2. len \in 0..Len(f.data)
    BY <1>9
  <2>3. Advance(Skip(in), 2 + len) \in Seq(Bufs)
        /\ Chunks(Advance(Skip(in), 2 + len)) \o wire = CharUnits(Drop(f.data, len)) \o next
    BY <1>5, <1>7, <1>9, <1>11
  <2>4. total # NullSize
    BY <1>4 DEF NullSize
  <2> HIDE DEF len
  <2>5. data = SubSeq(f.data, 1, len)
    BY <1>4, <1>5, <1>9, <2>1, <2>2, ValuesOf
  <2> QED
    BY <2>3, <2>4, <2>5
<1> QED
  BY <1>4, <1>5, <1>7, <1>8, <1>9, <1>10, <1>11

\* process_field writes what it takes off the wire.
LEMMA FieldConverts ==
  ASSUME ConvInv, HeaderInv, ProcessField, UNCHANGED <<response, upstreamVars, body, raw, failed>>
  PROVE  ConvInv' /\ Grows
<1>1. pc = "process_field" /\ pc \in Functions /\ UNCHANGED Others
  BY DEF ProcessField, Functions, Others, ReturnOk
<1>2. CASE ReturnOk
  BY <1>1, <1>2, StepReturns
<1>3. CASE ReturnError /\ UNCHANGED <<parserVars, responseVars, requestVars, json, exhausted>>
  BY <1>1, <1>3, NothingRead
<1>4. CASE /\ ~NoData(in) /\ Len(Units(in)) >= 2
           /\ IF Units(in)[1].value = NullSize THEN ReadField(Units(in), 0, TRUE)
                ELSE ReadField(Units(in), Units(in)[1].value, FALSE)
           /\ UNCHANGED <<cols, col_count, row, responseVars, requestVars>>
  <2> DEFINE k == cur_col
             u == Units(in)
             f == res.rows[row][k + 1]
             col == res.cols[k + 1]
             next == FieldsLeft(res, row, k + 1)
             tail == FieldsText(res, row, k + 1, conf)
  <2>1. state = "expect_field" /\ Place /\ RestOfWire = FieldsLeft(res, row, k) /\ json \in Text
    <3>1. state = "expect_field" /\ Place /\ json \in Text
      BY <1>1, Running DEF Place, Placed
    <3> QED
      BY <3>1 DEF RestOfWire, WireFrom
  <2>2. /\ cols = res.cols /\ col_count = Len(res.cols) /\ k \in Nat /\ k < col_count
        /\ k \in 0..(Len(res.cols) - 1) /\ row \in 1..Len(res.rows)
        /\ res \in ResultSets /\ conf \in Locations /\ col \in Columns /\ f \in Fields
        /\ field_data_rest = 0 /\ col_count \in Nat /\ row \in Nat
    BY <2>1, InField, SMTT(30) DEF Place, MorePlace
  <2>3. /\ f.data \in Seq(STRING) /\ Len(f.data) \in Nat /\ f.null \in BOOLEAN
        /\ Len(u) \in Nat
        /\ f.null => /\ u[1].value = NullSize
                     /\ Advance(Skip(in), 2) \in Seq(Bufs)
                     /\ Chunks(Advance(Skip(in), 2)) \o wire = next
    BY <1>1, <1>4, FieldData
  <2>6. next \in Wire
    BY <2>1, <2>2, SizeInFront, SMTT(30)
  <2>8. /\ Lead \in Text /\ tail \in Text
        /\ RestOfText = Lead \o (RenderField(col, f) \o tail)
        /\ RestOfText = (Lead \o RenderField(col, f)) \o tail
        /\ RenderField(col, f) \in Text
    BY <2>1, FieldTextAhead
  <2>9. Type = col.type
    BY <2>2 DEF Type
  <2>10. exhausted \in BOOLEAN
    BY DEF ConvInv, ControlType
  <2>11. header_sent' \in BOOLEAN /\ attached' \in BOOLEAN /\ header_only' \in BOOLEAN
    BY <1>4, ResponseBooleans
  <2>12. ASSUME NEW n \in Nat, field_data_rest' = n, ReturnError,
                UNCHANGED <<state, cur_col, json, exhausted>>
         PROVE  ConvInv' /\ Grows
    <3>1. ParserType'
      BY <1>4, <2>12 DEF ConvInv, ParserType
    <3>2. exhausted' \in BOOLEAN
      BY <2>10, <2>12
    <3> QED
      BY <1>1, <2>11, <2>12, <3>1, <3>2, StepFails
  <2>13. UNCHANGED <<cols, col_count, row, responseVars>>
    BY <1>4
  <2>14. CASE f.null
    <3>1. ReadField(u, 0, TRUE)
      BY <1>4, <2>3, <2>14
    <3>2. FieldLen(0, u) = 0
      BY <1>4, <2>3 DEF FieldLen
    <3>3. Values(SubSeq(u, 3, Len(u)), 0) = << >>
      BY DEF Values
    <3> DEFINE value == Lead \o RenderField(col, f)
               left == Advance(Skip(in), 2)
    <3>4. /\ field_data_rest' = 0
          /\ \/ ReturnError /\ UNCHANGED <<state, cur_col, json, exhausted>>
             \/ FieldEnds(value \o RowEnd(0), left)
      <4>1. FieldValue(Type, << >>, 0, TRUE) = RenderField(col, f)
        BY <2>2, <2>9, <2>14, NullValue
      <4>2. 0 - 0 = 0 /\ 2 + 0 = 2 /\ ~(0 < 0)
        OBVIOUS
      <4> QED
        BY <3>1, <3>2, <3>3, <4>1, <4>2, Zenon DEF ReadField
    <3>5. value \in Text
      <4> DEFINE v == RenderField(col, f)
      <4>1. v \in Text
        BY <2>8
      <4> HIDE DEF v
      <4>2. Lead \o v \in Text
        BY <2>8, <4>1, TextConcat
      <4> QED
        BY <4>2 DEF v
    <3>6. left \in Seq(Bufs) /\ Chunks(left) \o wire = next
      BY <2>3, <2>14, SMTT(30)
    <3>7. RestOfText = value \o tail
      BY <2>8
    <3> HIDE DEF value, left
    <3>8. CASE FieldEnds(value \o RowEnd(0), left)
      BY <1>1, <2>1, <2>13, <3>4, <3>5, <3>6, <3>7, <3>8, EndConverts
    <3> QED
      BY <2>12, <3>4, <3>8
  <2>15. CASE ~f.null
    <3> DEFINE total == Len(f.data)
               len == FieldLen(total, u)
               data == Values(SubSeq(u, 3, Len(u)), len)
               rest == total - len
               left == Advance(Skip(in), 2 + len)
               value == Lead \o FieldValue(Type, data, rest, FALSE)
    <3>9. /\ u[1].value = total /\ total # NullSize
          /\ len \in 0..total /\ 2 + len \in 0..Len(u)
          /\ data = SubSeq(f.data, 1, len)
          /\ left \in Seq(Bufs) /\ Chunks(left) \o wire = CharUnits(Drop(f.data, len)) \o next
      BY <1>1, <1>4, <2>15, FieldData
    <3>1. ReadField(u, total, FALSE)
      BY <1>4, <3>9
    <3>2. /\ field_data_rest' = rest
          /\ IF FieldRefused(Type, data, rest)
               THEN ReturnError /\ UNCHANGED <<state, cur_col, json, exhausted>>
               ELSE IF len < total THEN FieldContinues(value \o RowEnd(rest), left)
                                   ELSE FieldEnds(value \o RowEnd(rest), left)
      BY <3>1, Zenon DEF ReadField
    <3>3. len \in Nat /\ rest \in Nat /\ (len < total <=> rest # 0) /\ rest <= total
      <4> HIDE DEF len, total
      <4> QED
        BY <2>3, <3>9, SMTT(30) DEF total
    <3>4. data = SubSeq(f.data, 1, len) /\ data \in Seq(STRING)
          /\ f.data = data \o Drop(f.data, len) /\ Drop(f.data, len) \in Seq(STRING)
          /\ Len(Drop(f.data, len)) = total - len
      <4>1. data = SubSeq(f.data, 1, len) /\ len \in 0..Len(f.data)
        BY <3>9
      <4> HIDE DEF len, data
      <4>2. SubSeq(f.data, 1, len) \in Seq(STRING)
        BY <2>3, <4>1, TakeType
      <4>3. f.data = SubSeq(f.data, 1, len) \o Drop(f.data, len)
        BY <2>3, <4>1, TakeAndDrop
      <4>4. Drop(f.data, len) \in Seq(STRING) /\ Len(Drop(f.data, len)) = Len(f.data) - len
        BY <2>3, <4>1, DropType
      <4> QED
        BY <4>1, <4>2, <4>3, <4>4
    <3>5. left \in Seq(Bufs) /\ Chunks(left) \o wire = CharUnits(Drop(f.data, len)) \o next
      BY <3>9
    <3> HIDE DEF len, left, data
    <3>6. CASE FieldRefused(Type, data, rest)
      BY <2>12, <3>2, <3>3, <3>6
    <3>7. CASE ~FieldRefused(Type, data, rest) /\ rest = 0
      <4>1. FieldEnds(value \o RowEnd(0), left) /\ field_data_rest' = 0
        BY <3>2, <3>3, <3>7
      <4>2. len = total
        BY <3>3, <3>7
      <4>3. data = f.data /\ Drop(f.data, len) = << >>
        <5>1. Drop(f.data, len) = << >>
          BY <2>3, <4>2, DropNone
        <5>2. SubSeq(f.data, 1, Len(f.data)) = f.data
          BY <2>3, SubSeqFull
        <5> QED
          BY <3>4, <4>2, <5>1, <5>2
      <4>4. value = Lead \o RenderField(col, f)
        <5>1. FieldValue(col.type, f.data, 0, FALSE) = RenderField(col, f)
          BY <2>2, <2>9, <2>15, <3>7, <4>3, WholeValue
        <5> QED
          BY <2>9, <3>7, <4>3, <5>1
      <4>5. Chunks(left) \o wire = next
        <5>1. CharUnits(<< >>) = << >>
          BY DEF CharUnits
        <5>2. << >> \o next = next
          BY <2>6, WireEmpty
        <5> QED
          BY <3>5, <4>3, <5>1, <5>2
      <4>6. value \in Text /\ RestOfText = value \o tail
        <5> DEFINE v == RenderField(col, f)
        <5>1. v \in Text /\ value = Lead \o v /\ RestOfText = (Lead \o v) \o tail
          BY <2>8, <4>4
        <5> HIDE DEF v, value, tail
        <5>2. Lead \o v \in Text
          BY <2>8, <5>1, TextConcat
        <5> QED
          BY <5>1, <5>2
      <4> HIDE DEF value
      <4> QED
        BY <1>1, <2>1, <2>13, <3>5, <4>1, <4>5, <4>6, EndConverts
    <3>8. CASE ~FieldRefused(Type, data, rest) /\ rest # 0
      <4>1. FieldContinues(value \o RowEnd(rest), left) /\ field_data_rest' = rest
        BY <3>2, <3>3, <3>8
      <4>2. rest \in 1..(Len(f.data) - 1) /\ rest \in Nat \ {0}
        <5>1. len # 0
          <6>1. data # << >>
            <7>1. rest > 0
              BY <3>3, <3>8
            <7> QED
              BY <3>8, <7>1 DEF FieldRefused
          <6>2. SubSeq(f.data, 1, 0) = << >>
            BY SubSeqEmpty
          <6> QED
            BY <3>4, <6>1, <6>2
        <5> QED
          BY <2>3, <3>3, <3>8, <5>1
      <4>3. Missing(res, row, k, rest) = Drop(f.data, len)
        <5>1. total - rest = len
          BY <2>3, <3>3
        <5> QED
          BY <5>1 DEF Missing
      <4> DEFINE b == Drop(f.data, len)
                 v == FieldValue(Type, data, rest, FALSE)
                 y == ValueRest(col.type, b)
      <4>4. col.type # "bool" /\ v \in Text /\ v \o y = RenderField(col, f)
        <5>2. ~FieldRefused(col.type, data, rest) /\ ~f.null /\ f.data = data \o b
              /\ data \in Seq(STRING) /\ b \in Seq(STRING) /\ col \in Columns /\ f \in Fields
          BY <2>2, <2>9, <2>15, <3>4, <3>8
        <5> HIDE DEF rest, b, f, col
        <5>1. /\ col.type # "bool"
              /\ FieldValue(col.type, data, rest, FALSE) \in Text
              /\ FieldValue(col.type, data, rest, FALSE) \o ValueRest(col.type, b) = RenderField(col, f)
          BY <4>2, <5>2, FirstPart
        <5>3. v = FieldValue(col.type, data, rest, FALSE)
          BY <2>9
        <5> HIDE DEF v
        <5> QED
          BY <5>1, <5>3
      <4>5. y \in Text
        BY <3>4, ValueRestType
      <4>6. value \in Text /\ RestOfText = value \o (y \o tail)
        <5>1. value = Lead \o v /\ RestOfText = Lead \o ((v \o y) \o tail) /\ tail \in Text
              /\ v \in Text /\ y \in Text
          BY <2>8, <4>4, <4>5
        <5> HIDE DEF v, y, value, tail
        <5>2. (v \o y) \o tail = v \o (y \o tail)
          BY <5>1, TextAssoc
        <5>3. y \o tail \in Text /\ Lead \o v \in Text
          BY <2>8, <5>1, TextConcat
        <5>4. (Lead \o v) \o (y \o tail) = Lead \o (v \o (y \o tail))
          <6> DEFINE z == y \o tail
          <6>1. z \in Text
            BY <5>3
          <6> HIDE DEF z
          <6>2. (Lead \o v) \o z = Lead \o (v \o z)
            BY <2>8, <5>1, <6>1, TextAssoc, ZenonT(60)
          <6> QED
            BY <6>2 DEF z
        <5> QED
          BY <5>1, <5>2, <5>3, <5>4, ZenonT(60)
      <4> HIDE DEF value, rest
      <4> QED
        BY <1>1, <2>1, <2>13, <2>15, <3>5, <4>1, <4>2, <4>3, <4>4, <4>6, PartConverts
    <3> QED
      BY <3>6, <3>7, <3>8
  <2> QED
    BY <2>3, <2>14, <2>15
<1> QED
  BY <1>2, <1>3, <1>4 DEF ProcessField

\* The first n characters of the rest of a field.
LEMMA ValuesOfMore ==
  ASSUME NEW data \in Seq(STRING), NEW u, NEW n \in 0..Len(data),
         \A i \in 1..n : u[i].value = data[i]
  PROVE  Values(u, n) = SubSeq(data, 1, n)
<1> DEFINE v == Values(u, n)
           x == SubSeq(data, 1, n)
<1>1. Len(data) \in Nat /\ n \in Nat
  BY LenProperties
<1>2. v = [i \in 1..n |-> u[i].value]
  BY DEF Values
<1>3. x \in Seq(STRING) /\ Len(x) = n /\ \A i \in 1..n : x[i] = data[i]
  BY TakeType
<1>4. \A i \in 1..n : data[i] \in STRING
  <2>1. \A i \in 1..n : i \in 1..Len(data)
    BY <1>1
  <2> QED
    BY <2>1, ElementOfSeq
<1>5. v \in [1..n -> STRING] /\ \A i \in 1..n : v[i] = data[i]
  BY <1>2, <1>4
<1> HIDE DEF v, x
<1>6. v \in Seq(STRING) /\ Len(v) = n
  BY <1>1, <1>5, MapType, SMTT(30)
<1> QED
  BY <1>3, <1>5, <1>6, SeqEqual DEF v, x

\* What process_more_field_data reads of a field.
LEMMA MoreData ==
  ASSUME ConvInv, HeaderInv, pc = "process_more_field_data", in # << >>, InMemory(in[1])
  PROVE  LET u    == in[1].units
             f    == res.rows[row][cur_col + 1]
             m    == Missing(res, row, cur_col, field_data_rest)
             len  == IF Len(u) >= field_data_rest THEN field_data_rest ELSE Len(u)
             data == Values(u, len)
             rest == field_data_rest - len
             left == Advance(in, len)
             next == FieldsLeft(res, row, cur_col + 1)
         IN /\ rest \in Nat /\ rest <= field_data_rest /\ len \in 0..field_data_rest
            /\ len \in 0..Len(u) /\ Len(u) \in Nat
            /\ m \in Seq(STRING) /\ Len(m) = field_data_rest /\ data = SubSeq(m, 1, len)
            /\ data \in Seq(STRING) /\ m = data \o Drop(m, len)
            /\ Drop(m, len) \in Seq(STRING) /\ Len(Drop(m, len)) = rest
            /\ Drop(m, len) = Missing(res, row, cur_col, rest)
            /\ left \in Seq(Bufs) /\ Chunks(left) \o wire = CharUnits(Drop(m, len)) \o next
<1> DEFINE k == cur_col
           n == field_data_rest
           u == in[1].units
           f == res.rows[row][k + 1]
           next == FieldsLeft(res, row, k + 1)
           m == Missing(res, row, k, n)
           len == IF Len(u) >= n THEN n ELSE Len(u)
           data == Values(u, len)
           rest == n - len
           left == Advance(in, len)
<1>0. pc \in Functions
  BY DEF Functions
<1>1. state = "expect_more_field_data" /\ Place
  BY <1>0, Running DEF Place, Placed
<1>2. RestOfWire = CharUnits(m) \o next
  BY <1>1 DEF RestOfWire, WireFrom
<1>3. /\ k \in Nat /\ k \in 0..(Len(res.cols) - 1) /\ row \in 1..Len(res.rows)
      /\ res \in ResultSets /\ f \in Fields /\ n \in Nat
  BY <1>1, InField
<1>4. n \in 1..(Len(f.data) - 1)
  BY <1>1 DEF Place, MorePlace
<1>6. m \in Seq(STRING) /\ Len(m) = n /\ f.data \in Seq(STRING) /\ Len(f.data) \in Nat
  <2>1. f.data \in Seq(STRING) /\ Len(f.data) \in Nat
    BY <1>3, LenProperties DEF Fields
  <2>2. n \in 0..Len(f.data)
    BY <1>4, <2>1
  <2> QED
    BY <1>3, <2>1, <2>2, MissingType
<1>7. next \in Wire
  <2>1. k + 1 \in Nat
    BY <1>3
  <2> QED
    BY <1>3, <2>1, LeftType
<1>8. /\ in \in Seq(Bufs) /\ wire \in Wire /\ Chunks(in) \o wire = RestOfWire
      /\ in[1].kind # "special" /\ u \in Wire /\ Len(u) \in Nat
  <2>1. in \in Seq(Bufs) /\ wire \in Wire /\ Chunks(in) \o wire = RestOfWire
    BY <1>0, Running, UnreadIsChunks
  <2>2. u \in Wire
    BY <2>1, HeadOf
  <2> QED
    BY <2>1, <2>2, LenProperties DEF InMemory, Wire
<1>9. len \in Nat /\ len \in 0..n /\ len \in 0..Len(u) /\ rest \in Nat /\ rest <= n
  <2> HIDE DEF n, u
  <2> QED
    BY <1>3, <1>8
<1>10. /\ \A i \in 1..Len(u) : u[i] = RestOfWire[i]
       /\ left \in Seq(Bufs) /\ Chunks(left) \o wire = Drop(RestOfWire, len)
  <2> HIDE DEF len
  <2> QED
    BY <1>8, <1>9, HeadRead
<1>11. /\ Drop(RestOfWire, len) = CharUnits(Drop(m, len)) \o next
       /\ \A i \in 1..n : RestOfWire[i] = Unit("char", m[i])
  <2> HIDE DEF m, next, len, n
  <2> QED
    BY <1>2, <1>6, <1>7, <1>9, CharsRead
<1>12. data = SubSeq(m, 1, len) /\ data \in Seq(STRING) /\ m = data \o Drop(m, len)
       /\ Drop(m, len) \in Seq(STRING) /\ Len(Drop(m, len)) = rest
  <2>1. \A i \in 1..len : u[i].value = m[i]
    <3>1. \A i \in 1..len : i \in 1..n /\ i \in 1..Len(u)
      BY <1>3, <1>8, <1>9
    <3>2. \A i \in 1..len : u[i] = Unit("char", m[i])
      BY <1>10, <1>11, <3>1
    <3>3. \A i \in 1..len : Unit("char", m[i]).value = m[i]
      BY DEF Unit
    <3> HIDE DEF len, m, u
    <3> QED
      BY <3>2, <3>3
  <2>2. len \in 0..Len(m)
    BY <1>6, <1>9
  <2> HIDE DEF len, m, u, n
  <2>3. data = SubSeq(m, 1, len)
    BY <1>6, <2>1, <2>2, ValuesOfMore
  <2>4. SubSeq(m, 1, len) \in Seq(STRING)
    BY <1>6, <2>2, TakeType
  <2>5. m = SubSeq(m, 1, len) \o Drop(m, len)
    BY <1>6, <2>2, TakeAndDrop
  <2>6. Drop(m, len) \in Seq(STRING) /\ Len(Drop(m, len)) = Len(m) - len
    BY <1>6, <2>2, DropType
  <2> QED
    BY <1>6, <2>3, <2>4, <2>5, <2>6
<1>13. Drop(m, len) = Missing(res, row, k, rest)
  <2> DEFINE d == f.data
             a == Len(d) - n
  <2>1. d \in Seq(STRING) /\ a \in 0..Len(d) /\ len \in 0..(Len(d) - a) /\ a + len = Len(d) - rest
    <3>1. d \in Seq(STRING) /\ Len(d) \in Nat /\ n \in 1..Len(d)
      BY <1>4, <1>6
    <3> HIDE DEF d, len, n
    <3> QED
      BY <1>3, <1>9, <3>1
  <2>2. m = Drop(d, a) /\ Missing(res, row, k, rest) = Drop(d, Len(d) - rest)
    BY DEF Missing
  <2> HIDE DEF d, a, len, n, m
  <2>3. Drop(Drop(d, a), len) = Drop(d, a + len)
    BY <2>1, DropDrop
  <2> QED
    BY <2>1, <2>2, <2>3
<1>14. Chunks(left) \o wire = CharUnits(Drop(m, len)) \o next
  BY <1>10, <1>11
<1> QED
  BY <1>6, <1>8, <1>9, <1>10, <1>12, <1>13, <1>14

\* So does process_more_field_data.
LEMMA MoreConverts ==
  ASSUME ConvInv, HeaderInv, ProcessMoreFieldData,
         UNCHANGED <<response, upstreamVars, body, raw, failed>>
  PROVE  ConvInv' /\ Grows
<1>1. pc = "process_more_field_data" /\ pc \in Functions /\ UNCHANGED Others
  BY DEF ProcessMoreFieldData, Functions, Others, ReturnOk
<1>2. CASE ReturnOk
  BY <1>1, <1>2, StepReturns
<1>3. CASE ReturnError /\ UNCHANGED <<parserVars, responseVars, requestVars, json, exhausted>>
  BY <1>1, <1>3, NothingRead
<1>4. CASE /\ in # << >> /\ InMemory(in[1])
           /\ ReadMore(in[1].units)
           /\ UNCHANGED <<cols, col_count, row, responseVars, requestVars>>
  <2> DEFINE k == cur_col
             n == field_data_rest
             u == in[1].units
             f == res.rows[row][k + 1]
             type == res.cols[k + 1].type
             next == FieldsLeft(res, row, k + 1)
             tail == FieldsText(res, row, k + 1, conf)
             m == Missing(res, row, k, n)
             len == IF Len(u) >= n THEN n ELSE Len(u)
             data == Values(u, len)
             rest == n - len
             left == Advance(in, len)
             value == MoreValue(Type, data, rest)
  <2>1. state = "expect_more_field_data" /\ Place
    BY <1>1, Running DEF Place, Placed
  <2>2. RestOfText = ValueRest(type, m) \o tail
    <3>1. pc \notin Outputs
      BY <1>1 DEF Outputs
    <3> QED
      BY <2>1, <3>1 DEF RestOfText, TextFrom, Outputs
  <2>3. /\ cols = res.cols /\ col_count = Len(res.cols) /\ k \in Nat /\ k < col_count
        /\ k \in 0..(Len(res.cols) - 1) /\ row \in 1..Len(res.rows)
        /\ res \in ResultSets /\ conf \in Locations /\ f \in Fields
        /\ res.cols[k + 1] \in Columns /\ n \in Nat
    BY <2>1, InField
  <2>4. ~f.null /\ n \in 1..(Len(f.data) - 1) /\ type # "bool"
    BY <2>1 DEF Place, MorePlace
  <2>5. type \in {"int", "float", "str"} /\ Type = type
    BY <2>3, <2>4 DEF Columns, Type
  <2>6. Len(f.data) \in Nat
    BY <2>3, LenProperties DEF Fields
  <2>7. next \in Wire /\ tail \in Text
    <3>1. k + 1 \in Nat
      BY <2>3, SMTT(30)
    <3> QED
      BY <2>3, <3>1, LeftType, TextLeftType
  <2>8. /\ rest \in Nat /\ rest <= n /\ m \in Seq(STRING)
        /\ data \in Seq(STRING) /\ m = data \o Drop(m, len)
        /\ Drop(m, len) \in Seq(STRING) /\ Len(Drop(m, len)) = rest
        /\ Drop(m, len) = Missing(res, row, k, rest)
        /\ left \in Seq(Bufs) /\ Chunks(left) \o wire = CharUnits(Drop(m, len)) \o next
    BY <1>1, <1>4, MoreData
  <2>9. rest \in Nat /\ rest <= n
    BY <2>8
  <2>10. left \in Seq(Bufs)
    BY <2>8
  <2>12. data \in Seq(STRING) /\ m = data \o Drop(m, len)
         /\ Drop(m, len) \in Seq(STRING) /\ Len(Drop(m, len)) = rest
    BY <2>8
  <2>13. Drop(m, len) = Missing(res, row, k, rest)
    BY <2>8
  <2>14. /\ value \in Text
         /\ rest = 0 => value = ValueRest(type, m)
         /\ rest # 0 => value \o ValueRest(type, Drop(m, len)) = ValueRest(type, m)
    <3> DEFINE b == Drop(m, len)
    <3>1. data \in Seq(STRING) /\ b \in Seq(STRING) /\ m = data \o b /\ rest \in Nat
          /\ (rest = 0 => b = << >>)
      <4>1. b \in Seq(STRING) /\ Len(b) = rest
        BY <2>12
      <4> HIDE DEF b
      <4>2. rest = 0 => b = << >>
        BY <4>1, EmptySeq
      <4> QED
        BY <2>9, <2>12, <4>1, <4>2 DEF b
    <3>2. value = MoreValue(type, data, rest)
      BY <2>5
    <3> HIDE DEF b, m, data, rest, type, value
    <3>3. /\ MoreValue(type, data, rest) \in Text
          /\ rest = 0 => MoreValue(type, data, rest) = ValueRest(type, data \o b)
          /\ rest # 0 => MoreValue(type, data, rest) \o ValueRest(type, b) = ValueRest(type, data \o b)
      BY <2>5, <3>1, NextPart
    <3> QED
      BY <3>1, <3>2, <3>3 DEF b
  <2>15. /\ field_data_rest' = rest
         /\ IF MoreRefused(Type, data)
              THEN ReturnError /\ UNCHANGED <<state, cur_col, json, exhausted>>
              ELSE IF rest > 0 THEN FieldContinues(value \o RowEnd(rest), left)
                               ELSE FieldEnds(value \o RowEnd(rest), left)
    BY <1>4, Zenon DEF ReadMore
  <2>16. UNCHANGED <<cols, col_count, row, responseVars>>
    BY <1>4
  <2>17. Chunks(left) \o wire = CharUnits(Drop(m, len)) \o next
    BY <2>8
  <2> HIDE DEF len, data, left, value, m
  <2>18. CASE MoreRefused(Type, data)
    <3>1. ReturnError /\ UNCHANGED <<state, cur_col, json, exhausted>>
      BY <2>15, <2>18
    <3>2. ParserType'
      <4>1. field_data_rest' \in Nat
        BY <2>9, <2>15
      <4> QED
        BY <1>4, <3>1, <4>1 DEF ConvInv, ParserType
    <3>3. header_sent' \in BOOLEAN /\ attached' \in BOOLEAN /\ header_only' \in BOOLEAN
          /\ exhausted' \in BOOLEAN
      BY <1>4, <3>1, ResponseBooleans DEF ConvInv, ControlType
    <3> QED
      BY <1>1, <3>1, <3>2, <3>3, StepFails
  <2>19. CASE ~MoreRefused(Type, data) /\ rest = 0
    <3>1. FieldEnds(value \o RowEnd(0), left) /\ field_data_rest' = 0
      BY <2>15, <2>19
    <3>2. Drop(m, len) = << >>
      <4>1. Len(Drop(m, len)) = 0
        BY <2>12, <2>19
      <4> QED
        BY <2>12, <4>1, EmptySeq
    <3>3. Chunks(left) \o wire = next
      <4>1. CharUnits(<< >>) = << >>
        BY DEF CharUnits
      <4>2. << >> \o next = next
        BY <2>7, WireEmpty
      <4> QED
        BY <2>17, <3>2, <4>1, <4>2
    <3>4. RestOfText = value \o tail
      BY <2>2, <2>14, <2>19
    <3> QED
      BY <1>1, <2>1, <2>10, <2>14, <2>16, <3>1, <3>3, <3>4, EndConverts
  <2>20. CASE ~MoreRefused(Type, data) /\ rest # 0
    <3>1. FieldContinues(value \o RowEnd(rest), left) /\ field_data_rest' = rest
      BY <2>9, <2>15, <2>20
    <3>2. rest \in 1..(Len(f.data) - 1)
      <4>1. n \in 1..(Len(f.data) - 1) /\ Len(f.data) \in Nat
        BY <2>4, <2>6
      <4> HIDE DEF rest, f, n
      <4> QED
        BY <2>3, <2>9, <2>20, <4>1
    <3>3. Chunks(left) \o wire = CharUnits(Missing(res, row, k, rest)) \o next
      BY <2>13, <2>17
    <3>4. RestOfText = value \o (ValueRest(type, Missing(res, row, k, rest)) \o tail)
      <4> DEFINE y == ValueRest(type, Drop(m, len))
      <4>1. y \in Text
        BY <2>12, ValueRestType
      <4>2. RestOfText = (value \o y) \o tail /\ value \in Text /\ tail \in Text
        BY <2>2, <2>7, <2>14, <2>20
      <4>3. RestOfText = value \o (y \o tail)
        <5> HIDE DEF y, tail
        <5>1. (value \o y) \o tail = value \o (y \o tail)
          BY <4>1, <4>2, TextAssoc
        <5> QED
          BY <4>2, <5>1
      <4> QED
        BY <2>13, <4>3
    <3> HIDE DEF rest
    <3> QED
      BY <1>1, <2>1, <2>4, <2>10, <2>14, <2>16, <3>1, <3>2, <3>3, <3>4, PartConverts
  <2> QED
    BY <2>18, <2>19, <2>20
<1> QED
  BY <1>2, <1>3, <1>4 DEF ProcessMoreFieldData

\* Every function of the state machine keeps the invariant.
LEMMA ProcessConverts ==
  ASSUME ConvInv, HeaderInv, ProcessStep
  PROVE  ConvInv' /\ Grows
<1>1. UNCHANGED <<response, upstreamVars, body, raw, failed>>
  BY DEF ProcessStep
<1>2. \/ ProcessHeader \/ ProcessCol \/ ProcessRow
      \/ OutputProps \/ OutputList \/ OutputCols
      \/ ProcessField \/ ProcessMoreFieldData
  BY DEF ProcessStep, Process
<1> QED
  BY <1>1, <1>2, HeaderConverts, ColConverts, RowConverts, PropsConvert, ListConverts,
     ColsConvert, FieldConverts, MoreConverts

-----------------------------------------------------------------------------
(* The actions around the handlers.                                        *)

\* What the conversion is about.
conversionVars == <<requestVars, in, parserVars, attached, json, res, wire>>

\* The state of the conversion stays what it is.
LEMMA KeptPlace ==
  ASSUME UNCHANGED conversionVars
  PROVE  /\ UNCHANGED <<conf, head, in, state, cols, col_count, cur_col, row, field_data_rest,
                        attached, json, res, wire>>
         /\ Unread' = Unread /\ RestOfWire' = RestOfWire
         /\ ConvInv => ParserType'
<1>1. UNCHANGED <<conf, head, in, state, cols, col_count, cur_col, row, field_data_rest,
                  attached, json, res, wire>>
  BY DEF conversionVars, requestVars, parserVars
<1>2. Unread' = Unread
  BY <1>1, UnreadIsChunks
<1>3. RestOfWire' = RestOfWire
  BY <1>1 DEF RestOfWire
<1>4. ConvInv => ParserType'
  BY <1>1 DEF ConvInv, ParserType
<1> QED
  BY <1>1, <1>2, <1>3, <1>4

\* The header filter leaves the conversion at its beginning.
LEMMA HeaderFilterConverts ==
  ASSUME ConvInv, HeaderInv, HeaderFilter
  PROVE  ConvInv'
<1>1. pc = "header_filter" /\ pc' = "event" /\ UNCHANGED <<requestVars, in, parserVars, json, res, wire>>
      /\ UNCHANGED <<legal, body, raw, header_sent>>
  BY DEF HeaderFilter, PassHeader, PostponeHeader, HeaderFilterFails, upstreamVars, responseVars
<1>2. UNCHANGED <<conf, head, in, state, cols, col_count, cur_col, row, field_data_rest, json,
                  res, wire, legal, body, raw, header_sent>>
  BY <1>1 DEF requestVars, parserVars
<1>3. /\ Unread = Encode(res) /\ state = "expect_header" /\ field_data_rest = 0
      /\ ~failed
  BY <1>1 DEF ConvInv, Fresh, ControlType
<1>4. Unread' = Unread
  BY <1>2, UnreadIsChunks
<1>5. ControlType'
  BY <1>1, <1>2 DEF ConvInv, ControlType, HeaderFilter, PassHeader, PostponeHeader,
     HeaderFilterFails, responseVars
<1>6. DataType' /\ ParserType'
  BY <1>2 DEF ConvInv, DataType, ParserType
<1>7. Place'
  BY <1>1, <1>2, <1>3 DEF Place, Placed, ColPlace, RowPlace, FieldPlace, MorePlace, Outputs
<1>8. RestOfWire' = Encode(res)
  BY <1>2, <1>3 DEF RestOfWire, WireFrom
<1>9. Fresh'
  BY <1>1 DEF Fresh
<1>10. RestOfText' = RestOfText
  BY <1>1, <1>2, <1>3 DEF RestOfText, TextFrom
<1>11. json = << >> /\ body = << >>
  BY <1>1, <1>3 DEF HeaderInv, LeftAlone, HeaderInStep
<1>12. TextInv'
  BY <1>1, <1>2, <1>3, <1>10, <1>11 DEF ConvInv, TextInv
<1> QED
  BY <1>3, <1>4, <1>5, <1>6, <1>7, <1>8, <1>9, <1>12 DEF ConvInv

\* What upstream puts on the chain comes off the wire.
LEMMA AddBufConverts ==
  ASSUME ConvInv, pc = "event", ~failed,
         UNCHANGED <<requestVars, pc, parserVars, responseVars, json, exhausted, response, res,
                     body, raw, failed>>,
         NEW b \in Bufs, in' = Append(in, b), wire' \in Wire, b.units \o wire' = wire,
         legal' \in BOOLEAN
  PROVE  ConvInv'
<1>1. UNCHANGED <<conf, head, pc, state, cols, col_count, cur_col, row, field_data_rest, header_sent,
                  attached, headers, header_only, error_end, json, exhausted, res, body, raw, failed>>
  BY DEF requestVars, parserVars, responseVars
<1>2. in \in Seq(Bufs) /\ b.units \in Wire /\ Chunks(in) \in Wire
  BY UnitsOfType DEF ConvInv, DataType, Bufs
<1>3. in' \in Seq(Bufs) /\ Chunks(in') = Chunks(in) \o b.units
  BY <1>2, ChunksAppend
<1>4. Unread' = Unread
  <2> DEFINE x == Chunks(in)
             u == b.units
             w == wire'
  <2>1. x \in Wire /\ u \in Wire /\ w \in Wire /\ wire = u \o w /\ Chunks(in') = x \o u
    BY <1>2, <1>3
  <2>2. Unread = x \o wire /\ Unread' = Chunks(in') \o w
    BY UnreadIsChunks
  <2> HIDE DEF x, u, w
  <2>3. (x \o u) \o w = x \o (u \o w)
    BY <2>1, WireAssoc
  <2> QED
    BY <2>1, <2>2, <2>3, Zenon
<1>5. ControlType' /\ ParserType'
  BY <1>1 DEF ConvInv, ControlType, ParserType
<1>6. DataType'
  BY <1>1, <1>3 DEF ConvInv, DataType
<1>7. RestOfWire' = RestOfWire /\ RestOfText' = RestOfText
  BY <1>1 DEF RestOfWire, RestOfText
<1>8. Live' => Live /\ Place'
  BY <1>1 DEF ConvInv, Live, Place, Placed, ColPlace, RowPlace, FieldPlace, MorePlace
<1>9. Reading' => Reading
  BY <1>1 DEF Reading, Live
<1>10. Fresh' /\ TextInv'
  BY <1>1, <1>7 DEF ConvInv, Fresh, TextInv
<1> QED
  BY <1>4, <1>5, <1>6, <1>7, <1>8, <1>9, <1>10 DEF ConvInv

\* However upstream cuts the wire into bufs, what is unread stays the same.
LEMMA UpstreamConverts ==
  ASSUME ConvInv, Upstream
  PROVE  ConvInv'
<1>1. wire \in Wire /\ legal \in BOOLEAN
  BY DEF ConvInv, DataType, ControlType
<1>2. ASSUME NEW n \in 1..Len(wire), AddMem(n)
      PROVE  ConvInv'
  <2> DEFINE sent == SubSeq(wire, 1, n)
             rest == SubSeq(wire, n + 1, Len(wire))
             b == [kind |-> "mem", units |-> sent]
  <2>1. /\ pc = "event" /\ ~failed /\ in' = Append(in, b) /\ wire' = rest
        /\ legal' = (legal /\ LegalCut(sent, rest))
        /\ UNCHANGED <<requestVars, pc, parserVars, responseVars, json, exhausted, response, res,
                       body, raw, failed>>
    BY <1>2 DEF AddMem, CanAddBuf
  <2>2. wire \in Seq(WireUnits) /\ n \in 0..Len(wire) /\ Len(wire) \in Nat
    BY <1>1, LenProperties DEF Wire
  <2>3. sent \in Wire /\ rest \in Wire /\ wire = sent \o rest
    <3>1. rest = Drop(wire, n)
      BY DEF Drop
    <3>2. sent \in Seq(WireUnits) /\ Drop(wire, n) \in Seq(WireUnits) /\ wire = sent \o Drop(wire, n)
      <4>1. sent \in Seq(WireUnits)
        BY <2>2, TakeType
      <4>2. Drop(wire, n) \in Seq(WireUnits)
        BY <2>2, DropType
      <4>3. wire = sent \o Drop(wire, n)
        BY <2>2, TakeAndDrop
      <4> QED
        BY <4>1, <4>2, <4>3
    <3> QED
      BY <3>1, <3>2 DEF Wire
  <2>4. b \in Bufs /\ b.units = sent
    BY <2>3 DEF Bufs
  <2>5. legal' \in BOOLEAN
    BY <1>1, <2>1 DEF LegalCut
  <2> HIDE DEF b, sent, rest
  <2> QED
    BY <2>1, <2>3, <2>4, <2>5, AddBufConverts
<1>3. CASE AddSpecial
  <2> DEFINE b == [kind |-> "special", units |-> << >>]
  <2>1. /\ pc = "event" /\ ~failed /\ in' = Append(in, b) /\ wire' = wire
        /\ legal' \in BOOLEAN
        /\ UNCHANGED <<requestVars, pc, parserVars, responseVars, json, exhausted, response, res,
                       body, raw, failed>>
    BY <1>1, <1>3 DEF AddSpecial, CanAddBuf
  <2>2. b \in Bufs /\ b.units = << >>
    BY WireEmpty DEF Bufs
  <2>3. b.units \o wire' = wire
    BY <1>1, <2>1, <2>2, WireEmpty
  <2> HIDE DEF b
  <2> QED
    BY <1>1, <2>1, <2>2, <2>3, AddBufConverts
<1>4. CASE AddFile
  <2> DEFINE b == [kind |-> "file", units |-> <<wire[1]>>]
  <2>1. /\ pc = "event" /\ ~failed /\ in' = Append(in, b) /\ wire' = Tail(wire) /\ wire # << >>
        /\ legal' = FALSE
        /\ UNCHANGED <<requestVars, pc, parserVars, responseVars, json, exhausted, response, res,
                       body, raw, failed>>
    BY <1>4 DEF AddFile, CanAddBuf
  <2>2. /\ Head(wire) = wire[1] /\ Head(wire) \in WireUnits /\ Tail(wire) \in Seq(WireUnits)
        /\ wire = <<Head(wire)>> \o Tail(wire)
    <3>1. wire \in Seq(WireUnits)
      BY <1>1 DEF Wire
    <3>2. Head(wire) \in WireUnits /\ Tail(wire) \in Seq(WireUnits)
      BY <2>1, <3>1, HeadTailProperties
    <3>3. Head(wire) = wire[1]
      BY <2>1, <3>1
    <3>4. wire = <<Head(wire)>> \o Tail(wire)
      BY <2>1, <3>1
    <3> QED
      BY <3>2, <3>3, <3>4
  <2>3. b \in Bufs /\ b.units = <<wire[1]>>
    <3>1. <<wire[1]>> \in Wire
      BY <2>2, SingletonType DEF Wire
    <3> QED
      BY <3>1 DEF Bufs
  <2>4. wire' \in Wire /\ b.units \o wire' = wire /\ legal' \in BOOLEAN
    BY <2>1, <2>2, <2>3 DEF Wire
  <2> HIDE DEF b
  <2> QED
    BY <2>1, <2>3, <2>4, AddBufConverts
<1> QED
  BY <1>2, <1>3, <1>4 DEF Upstream

\* A chain that is not converted is gone for the conversion, which is over.
LEMMA PassThroughConverts ==
  ASSUME ConvInv, PassThrough
  PROVE  ConvInv'
<1>1. /\ pc = "event" /\ ~failed /\ in' = << >> /\ raw' = TRUE
      /\ header_only \/ ~attached
      /\ UNCHANGED <<conf, head, pc, state, cols, col_count, cur_col, row, field_data_rest,
                     header_sent, attached, headers, header_only, json, exhausted, res, wire,
                     legal, body, failed>>
  BY DEF PassThrough, requestVars, parserVars, responseVars, upstreamVars
<1>2. ControlType' /\ ParserType'
  BY <1>1 DEF ConvInv, ControlType, ParserType
<1>3. DataType'
  BY <1>1, EmptySeq DEF ConvInv, DataType
<1>4. Live' => Live /\ Place'
  BY <1>1 DEF ConvInv, Live, Place, Placed, ColPlace, RowPlace, FieldPlace, MorePlace
<1>5. ~Reading' /\ Fresh'
  BY <1>1 DEF Reading, Live, Fresh
<1>6. RestOfText' = RestOfText
  BY <1>1 DEF RestOfText
<1>7. TextInv'
  BY <1>1, <1>6 DEF ConvInv, TextInv
<1> QED
  BY <1>2, <1>3, <1>4, <1>5, <1>7 DEF ConvInv

\* The body filter calls the function of the state.
LEMMA DispatchConverts ==
  ASSUME ConvInv, Dispatch
  PROVE  ConvInv'
<1>1. /\ pc = "event" /\ ~failed /\ pc' = Handler /\ attached /\ ~header_only /\ state # "done"
      /\ UNCHANGED <<conf, head, in, state, cols, col_count, cur_col, row, field_data_rest,
                     header_sent, attached, headers, header_only, json, exhausted, res, wire,
                     legal, body, raw, failed>>
  BY DEF Dispatch, requestVars, parserVars, responseVars, upstreamVars
<1>2. Live /\ Reading /\ Place /\ Unread = RestOfWire /\ state \in States
  BY <1>1 DEF Live, Reading, ConvInv, ParserType
<1>3. /\ state = "expect_header" => pc' = "process_header"
      /\ state = "expect_col" => pc' = "process_col"
      /\ state = "expect_row" => pc' = "process_row"
      /\ state = "expect_field" => pc' = "process_field"
      /\ state = "expect_more_field_data" => pc' = "process_more_field_data"
  BY <1>1 DEF Handler
<1>4. pc' \in Functions
  BY <1>1, <1>2, <1>3 DEF States, Functions
<1>5. ControlType' /\ DataType' /\ ParserType'
  BY <1>1, <1>4 DEF ConvInv, ControlType, DataType, ParserType
<1>6. Place'
  BY <1>1, <1>2, <1>3, <1>4
  DEF Place, Placed, ColPlace, RowPlace, FieldPlace, MorePlace, States, Functions, Outputs
<1>7. Unread' = RestOfWire'
  <2>1. Unread' = Unread
    BY <1>1, UnreadIsChunks
  <2>2. RestOfWire' = RestOfWire
    BY <1>1 DEF RestOfWire
  <2> QED
    BY <1>2, <2>1, <2>2
<1>8. Fresh'
  BY <1>4 DEF Fresh, Functions
<1>9. RestOfText' = RestOfText
  <2>1. pc \notin Outputs /\ pc' \notin Outputs
    BY <1>1, <1>4 DEF Functions, Outputs
  <2> QED
    BY <1>1, <2>1 DEF RestOfText, TextFrom, Outputs
<1>10. TextInv'
  BY <1>1, <1>4, <1>9 DEF ConvInv, TextInv, Functions
<1> QED
  BY <1>5, <1>6, <1>7, <1>8, <1>10 DEF ConvInv

\* What comes after the end is of no account.
LEMMA DiscardConverts ==
  ASSUME ConvInv, Discard
  PROVE  ConvInv'
<1>1. /\ pc = "event" /\ ~failed /\ in' = << >> /\ state = "done"
      /\ UNCHANGED <<conf, head, pc, state, cols, col_count, cur_col, row, field_data_rest,
                     header_sent, attached, headers, header_only, json, exhausted, res, wire,
                     legal, body, raw, failed>>
  BY DEF Discard, requestVars, parserVars, responseVars, upstreamVars
<1>2. ControlType' /\ ParserType'
  BY <1>1 DEF ConvInv, ControlType, ParserType
<1>3. DataType'
  BY <1>1, EmptySeq DEF ConvInv, DataType
<1>4. Live' => Live /\ Place'
  BY <1>1 DEF ConvInv, Live, Place, Placed, ColPlace, RowPlace, FieldPlace, MorePlace
<1>5. ~Reading' /\ Fresh'
  BY <1>1 DEF Reading, Live, Fresh
<1>6. RestOfText' = RestOfText
  BY <1>1 DEF RestOfText
<1>7. TextInv'
  BY <1>1, <1>6 DEF ConvInv, TextInv
<1> QED
  BY <1>2, <1>3, <1>4, <1>5, <1>7 DEF ConvInv

\* The next body filter has what was written when a call ends.
LEMMA OutputConvertsAll ==
  ASSUME ConvInv, OutputBufs
  PROVE  ConvInv'
<1>1. /\ pc = "output_bufs" /\ pc' = "event" /\ body' = json
      /\ UNCHANGED <<conf, head, in, state, cols, col_count, cur_col, row, field_data_rest,
                     header_sent, attached, headers, header_only, json, exhausted, res, wire,
                     legal, raw, failed>>
  BY DEF OutputBufs, requestVars, parserVars, responseVars, upstreamVars
<1>2. ControlType' /\ ParserType'
  BY <1>1 DEF ConvInv, ControlType, ParserType
<1>3. DataType'
  <2>1. Len(json) \in Nat
    BY LenProperties DEF ConvInv, DataType, Text
  <2> QED
    BY <1>1, <2>1 DEF ConvInv, DataType
<1>4. Live' => Live /\ Place'
  BY <1>1 DEF ConvInv, Live, Place, Placed, ColPlace, RowPlace, FieldPlace, MorePlace, Outputs
<1>5. Reading' => Unread' = RestOfWire'
  <2>1. Unread' = Unread
    BY <1>1, UnreadIsChunks
  <2>2. RestOfWire' = RestOfWire
    BY <1>1 DEF RestOfWire
  <2>3. Reading' => Reading
    BY <1>1 DEF Reading, Live
  <2> QED
    BY <2>1, <2>2, <2>3 DEF ConvInv
<1>6. Fresh'
  BY <1>1 DEF Fresh
<1>7. RestOfText' = RestOfText
  BY <1>1 DEF RestOfText, TextFrom
<1>8. TextInv'
  BY <1>1, <1>7 DEF ConvInv, TextInv
<1> QED
  BY <1>2, <1>3, <1>4, <1>5, <1>6, <1>8 DEF ConvInv

\* An error ends the conversion; what was written stays a beginning.
LEMMA ErrorConverts ==
  ASSUME ConvInv, HandleError
  PROVE  ConvInv'
<1>1. /\ pc = "error" /\ pc' = "event" /\ state' = "done" /\ failed' = TRUE /\ header_sent' = TRUE
      /\ header_only' \in {head, header_only}
      /\ UNCHANGED <<conf, head, in, cols, col_count, cur_col, row, field_data_rest,
                     attached, json, exhausted, res, wire, legal, body, raw>>
  BY DEF HandleError, requestVars, upstreamVars
<1>2. ControlType' /\ DataType'
  BY <1>1 DEF ConvInv, ControlType, DataType
<1>3. ParserType'
  BY <1>1 DEF ConvInv, ParserType, States
<1>4. ~Live' /\ ~Reading' /\ Fresh'
  BY <1>1 DEF Live, Reading, Fresh
<1>5. TextInv'
  BY <1>1 DEF ConvInv, TextInv
<1> QED
  BY <1>2, <1>3, <1>4, <1>5 DEF ConvInv

-----------------------------------------------------------------------------

\* Nothing is written, and the whole result set is to come.
LEMMA InitConverts ==
  Init => ConvInv
<1> SUFFICES ASSUME Init PROVE ConvInv
  OBVIOUS
<1>1. /\ conf \in Locations /\ res \in ResultSets /\ head \in BOOLEAN
      /\ wire = Encode(res) /\ pc = "header_filter" /\ in = << >> /\ state = "expect_header"
      /\ cols = << >> /\ json = << >> /\ body = << >>
  BY ResultsAssumption, FormatsAssumption DEF Init
<1>2. ControlType
  BY <1>1 DEF Init, ControlType
<1>3. DataType
  <2>1. Encode(res) \in Wire
    BY <1>1, HeaderInFront
  <2>2. << >> \in Text /\ Len(<< >>) = 0 /\ << >> \in Seq(Bufs)
    BY TextEmpty, EmptySeq
  <2> QED
    BY <1>1, <2>1, <2>2 DEF DataType
<1>4. ParserType
  <2>1. << >> \in Seq(Columns) /\ Len(<< >>) = 0
    BY EmptySeq
  <2> QED
    BY <1>1, <2>1 DEF Init, ParserType, States
<1>5. ~Live /\ ~Reading
  BY <1>1 DEF Live, Reading
<1>6. Fresh
  <2>1. Chunks(in) \o wire = Encode(res)
    BY <1>1, ChunksEmpty, HeaderInFront, WireEmpty
  <2> QED
    BY <1>1, <2>1, UnreadIsChunks DEF Init, Fresh
<1>7. TextInv
  <2>1. Render(res, conf) \in Text
    BY <1>1, RenderType
  <2>2. json \o Render(res, conf) = Render(res, conf) /\ << >> \in Text
    BY <1>1, <2>1, TextEmpty
  <2>3. RestOfText = Render(res, conf)
    BY <1>1 DEF RestOfText, TextFrom
  <2>4. IsPrefix(<< >>, << >> \o Render(res, conf))
    BY <2>1, <2>2, PrefixOfText
  <2> QED
    BY <1>1, <2>2, <2>3, <2>4 DEF TextInv
<1> QED
  BY <1>2, <1>3, <1>4, <1>5, <1>6, <1>7 DEF ConvInv

\* The invariant of the conversion is inductive, given the header protocol.
LEMMA NextConverts ==
  HeaderInv /\ ConvInv /\ [Next]_vars => ConvInv'
<1> SUFFICES ASSUME HeaderInv, ConvInv, [Next]_vars PROVE ConvInv'
  OBVIOUS
<1>1. CASE HeaderFilter
  BY <1>1, HeaderFilterConverts
<1>2. CASE Upstream
  BY <1>2, UpstreamConverts
<1>3. CASE BodyFilter
  BY <1>3, PassThroughConverts, DispatchConverts, DiscardConverts, ProcessConverts,
     OutputConvertsAll, ErrorConverts DEF BodyFilter
<1>4. CASE UNCHANGED vars
  <2>1. UNCHANGED <<conf, head, pc, in, state, cols, col_count, cur_col, row, field_data_rest,
                    header_sent, attached, header_only, json, exhausted, res, wire, legal,
                    body, raw, failed>>
    BY <1>4 DEF vars, requestVars, parserVars, responseVars, upstreamVars
  <2>2. ControlType' /\ DataType' /\ ParserType'
    BY <2>1 DEF ConvInv, ControlType, DataType, ParserType
  <2>3. /\ Live' => Live /\ Place'
        /\ Reading' => Reading
    BY <2>1 DEF ConvInv, Live, Reading, Place, Placed, ColPlace, RowPlace, FieldPlace, MorePlace
  <2>4. Unread' = Unread
    BY <2>1, UnreadIsChunks
  <2>5. RestOfWire' = RestOfWire /\ RestOfText' = RestOfText
    BY <2>1 DEF RestOfWire, RestOfText
  <2>6. Fresh' /\ TextInv'
    BY <2>1, <2>4, <2>5 DEF ConvInv, Fresh, TextInv
  <2> QED
    BY <2>2, <2>3, <2>4, <2>5, <2>6 DEF ConvInv
<1> QED
  BY <1>1, <1>2, <1>3, <1>4 DEF Next

\* In every reachable state the handlers stand where the wire does, and what was
\* written makes the JSON text whole with what is to be written.
LEMMA Conversion == Spec => []ConvInv
<1>1. Spec => []HeaderInv
  BY HeaderProtocol
<1>2. Init => ConvInv
  BY InitConverts
<1>3. HeaderInv /\ ConvInv /\ [Next]_vars => ConvInv'
  BY NextConverts
<1> QED
  BY <1>1, <1>2, <1>3, PTL DEF Spec

-----------------------------------------------------------------------------

\* The request context, the chain and the response are well-formed, and ctx->cols
\* is only indexed within its size, for every result set and every layout
\* (process_col, output_field: ctx->cols[ctx->cur_col]).
THEOREM FilterTypeCorrect == Spec => []TypeOK
<1>1. HeaderInv /\ ConvInv => TypeOK
  <2> SUFFICES ASSUME HeaderInv, ConvInv PROVE TypeOK
    OBVIOUS
  <2>1. \A i \in DOMAIN in : in[i].kind \in {"mem", "special", "file"}
    <3>1. in \in Seq(Bufs)
      BY DEF ConvInv, DataType
    <3>2. \A i \in DOMAIN in : in[i] \in Bufs
      BY <3>1, LenProperties, ElementOfSeq
    <3> QED
      BY <3>2 DEF Bufs
  <2>2. \A i \in DOMAIN headers : headers[i] \in {200, 500}
    <3>1. headers \in {<< >>, <<200>>, <<500>>}
      BY DEF HeaderInv
    <3> QED
      BY <3>1
  <2> QED
    BY <2>1, <2>2 DEF ConvInv, ControlType, DataType, ParserType, TypeOK
<1> QED
  BY <1>1, HeaderProtocol, Conversion, PTL

\* However upstream cuts a result set of any size, and whatever fails: what the
\* output_* functions have emitted is the beginning of the JSON text of the
\* result set.
THEOREM JsonIsTheBeginning == Spec => []JsonIsPrefix
<1>1. ConvInv => JsonIsPrefix
  BY DEF ConvInv, TextInv, JsonIsPrefix
<1> QED
  BY <1>1, Conversion, PTL

\* A conversion that ends without an error has passed the whole JSON text to the
\* next body filter (process_row at the terminator, process_header without
\* columns).
THEOREM ConversionIsComplete == Spec => []DoneIsComplete
<1>1. ConvInv => DoneIsComplete
  <2> SUFFICES ASSUME ConvInv, state = "done", ~failed, pc = "event"
               PROVE  body = Render(res, conf)
    BY DEF DoneIsComplete
  <2>1. body = json /\ json \o RestOfText = Render(res, conf) /\ json \in Text
    BY DEF ConvInv, TextInv, DataType
  <2>2. RestOfText = << >>
    BY DEF RestOfText, TextFrom
  <2> QED
    BY <2>1, <2>2, TextEmpty
<1> QED
  BY <1>1, Conversion, PTL

\* In the middle of a field its characters come next.
LEMMA MoreToCome ==
  ASSUME ConvInv, Place, state = "expect_more_field_data"
  PROVE  /\ field_data_rest > 0 /\ RestOfWire[1].kind = "char"
         /\ Len(RestOfWire) >= field_data_rest
         /\ \A i \in 1..field_data_rest : RestOfWire[i].kind = "char"
<1> DEFINE k == cur_col
           n == field_data_rest
           d == res.rows[row][k + 1].data
           m == Missing(res, row, k, n)
           next == FieldsLeft(res, row, k + 1)
<1>1. /\ k \in Nat /\ k \in 0..(Len(res.cols) - 1) /\ row \in 1..Len(res.rows) /\ n \in Nat
      /\ res \in ResultSets /\ res.rows[row][k + 1] \in Fields
  BY InField
<1>2. n \in 1..(Len(d) - 1) /\ Len(d) \in Nat
  BY <1>1, LenProperties DEF Place, MorePlace, Fields
<1>3. n \in 0..Len(d) /\ n > 0 /\ 1 \in 1..n
  BY <1>2
<1>4. m \in Seq(STRING) /\ Len(m) = n
  BY <1>1, <1>3, MissingType
<1>5. next \in Wire /\ Len(next) \in Nat
  <2>1. k + 1 \in Nat
    BY <1>1
  <2>2. next \in Wire
    BY <1>1, <2>1, LeftType
  <2> HIDE DEF next
  <2> QED
    BY <2>2, LenProperties DEF Wire
<1>6. RestOfWire = CharUnits(m) \o next
  BY DEF RestOfWire, WireFrom
<1> HIDE DEF m, next
<1>7. /\ \A i \in 1..n : RestOfWire[i] = Unit("char", m[i])
      /\ Len(RestOfWire) = n + Len(next)
  <2>1. 0 \in 0..Len(m)
    BY <1>1, <1>4
  <2> QED
    BY <1>4, <1>5, <1>6, <2>1, CharsRead
<1>8. \A i \in 1..n : RestOfWire[i].kind = "char"
  <2>1. \A i \in 1..n : Unit("char", m[i]).kind = "char"
    BY DEF Unit
  <2> QED
    BY <1>7, <2>1
<1> QED
  BY <1>1, <1>3, <1>5, <1>7, <1>8

\* The unit that comes next when the machine is in step.
LEMMA NextUnit ==
  ASSUME ConvInv, Place, state # "done"
  PROVE  RestOfWire # << >> => RestOfWire[1].kind \in Awaits(state)
<1>1. res \in ResultSets /\ state \in States /\ cur_col \in Nat /\ row \in Nat
  BY DEF ConvInv, DataType, ParserType
<1>2. CASE state = "expect_header"
  <2>1. RestOfWire[1] = Unit("header", res)
    BY <1>1, <1>2, HeaderInFront DEF RestOfWire, WireFrom
  <2>2. Unit("header", res).kind = "header"
    BY DEF Unit
  <2>3. Awaits(state) = {"header"}
    BY <1>2, Zenon DEF Awaits
  <2> QED
    BY <2>1, <2>2, <2>3
<1>3. CASE state = "expect_col"
  <2>1. cur_col \in 0..(Len(res.cols) - 1)
    BY <1>1, <1>3 DEF Place, ColPlace
  <2>2. RestOfWire[1] = Unit("col", res.cols[cur_col + 1])
    BY <1>1, <1>3, <2>1, ColumnInFront DEF RestOfWire, WireFrom
  <2>3. Unit("col", res.cols[cur_col + 1]).kind = "col"
    BY DEF Unit
  <2>4. Awaits(state) = {"col"}
    BY <1>3 DEF Awaits
  <2> QED
    BY <2>2, <2>3, <2>4
<1>4. CASE state = "expect_row"
  <2>1. res.cols # << >> /\ row \in 0..Len(res.rows)
    BY <1>4, HasColumns DEF Place, RowPlace
  <2>2. RestOfWire[1] = Unit("flag", 1) \/ RestOfWire[1] = Unit("flag", 0)
    <3>1. row < Len(res.rows) \/ row = Len(res.rows)
      BY <1>1, <2>1, ResultSetType
    <3>2. RestOfWire = RowsLeft(res, row)
      BY <1>4 DEF RestOfWire, WireFrom
    <3> QED
      BY <1>1, <2>1, <3>1, <3>2, FlagInFront
  <2>3. Unit("flag", 1).kind = "flag" /\ Unit("flag", 0).kind = "flag"
    BY DEF Unit
  <2>4. Awaits(state) = {"flag"}
    BY <1>4 DEF Awaits
  <2> QED
    BY <2>2, <2>3, <2>4
<1>5. CASE state = "expect_field"
  <2>1. cur_col \in 0..(Len(res.cols) - 1) /\ row \in 1..Len(res.rows)
    BY <1>5, InField
  <2>2. RestOfWire = FieldsLeft(res, row, cur_col)
    BY <1>5 DEF RestOfWire, WireFrom
  <2>3. RestOfWire[1].kind = "size"
    BY <1>1, <2>1, <2>2, SizeInFront
  <2>4. Awaits(state) = {"size"}
    BY <1>5 DEF Awaits
  <2> QED
    BY <2>3, <2>4
<1>6. CASE state = "expect_more_field_data"
  <2>1. RestOfWire[1].kind = "char"
    BY <1>6, MoreToCome
  <2>2. Awaits(state) = {"char"}
    BY <1>6 DEF Awaits
  <2> QED
    BY <2>1, <2>2
<1> QED
  BY <1>1, <1>2, <1>3, <1>4, <1>5, <1>6 DEF States

\* ctx->state, the function that runs next, field_data_rest and the next unread
\* unit agree in every reachable state: no handler reads a unit that is meant for
\* another one.
THEOREM StaysInStep == Spec => []InStep
<1>1. ConvInv => InStep
  <2> SUFFICES ASSUME ConvInv, Converting, state # "done"
               PROVE  /\ pc \in Functions => pc = Handler
                      /\ Unread # << >> => Unread[1].kind \in Awaits(state)
                      /\ state = "expect_more_field_data" <=> field_data_rest > 0
                      /\ field_data_rest > 0 =>
                           /\ Len(Unread) >= field_data_rest
                           /\ \A i \in 1..field_data_rest : Unread[i].kind = "char"
    BY DEF InStep
  <2>1. Live /\ Reading
    BY DEF Converting, Live, Reading
  <2>2. Place /\ Unread = RestOfWire
    BY <2>1 DEF ConvInv
  <2>3. state \in States /\ field_data_rest \in Nat
    BY DEF ConvInv, ParserType
  <2>4. pc \in Functions => pc = Handler
    BY <2>2, <2>3 DEF Place, Placed, Functions, Handler
  <2>5. Unread # << >> => Unread[1].kind \in Awaits(state)
    BY <2>2, NextUnit
  <2>6. state = "expect_more_field_data" => field_data_rest > 0
    BY <2>2, <2>3, MoreToCome
  <2>7. state # "expect_more_field_data" => field_data_rest = 0
    BY <2>2 DEF Place, MorePlace
  <2>8. state = "expect_more_field_data" =>
          /\ Len(Unread) >= field_data_rest
          /\ \A i \in 1..field_data_rest : Unread[i].kind = "char"
    BY <2>2, MoreToCome
  <2> QED
    BY <2>3, <2>4, <2>5, <2>6, <2>7, <2>8
<1> QED
  BY <1>1, Conversion, PTL

-----------------------------------------------------------------------------
(* Legal layouts.                                                          *)

\* How upstream has laid the units out that are still to be read, w being
\* those that are not on the chain: what follows a buf is what may follow it.
BufInPlace(chain, w, i) ==
  LET rest == Chunks(Drop(chain, i)) \o w
  IN /\ chain[i].kind # "file"
     /\ chain[i].kind = "mem" => chain[i].units # << >> /\ LegalCut(chain[i].units, rest)
     /\ chain[i].kind = "special" /\ rest # << >> =>
          rest[1].kind # "char" /\ \A j \in 1..(i - 1) : chain[j].kind = "mem"

Layout(chain, w) == \A i \in 1..Len(chain) : BufInPlace(chain, w, i)

LegalInv == (legal => Layout(in, wire)) /\ LegalNeverFails

\* There is nothing on an empty chain to be out of place.
LEMMA LayoutEmpty ==
  ASSUME NEW w
  PROVE  Layout(<< >>, w)
<1>1. Len(<< >>) = 0
  BY EmptySeq
<1> QED
  BY <1>1 DEF Layout

\* A buf has gone.
LEMMA LayoutTail ==
  ASSUME NEW chain \in Seq(Bufs), chain # << >>, NEW w, Layout(chain, w)
  PROVE  Layout(Tail(chain), w)
<1> DEFINE t == Tail(chain)
<1>1. t \in Seq(Bufs) /\ Len(chain) \in Nat \ {0} /\ Len(t) = Len(chain) - 1
  BY HeadOf
<1>2. t = Drop(chain, 1) /\ \A i \in 1..Len(t) : t[i] = chain[i + 1]
  BY <1>1 DEF Drop
<1> HIDE DEF t
<1>3. ASSUME NEW i \in 1..Len(t)
      PROVE  BufInPlace(t, w, i)
  <2>1. i + 1 \in 1..Len(chain) /\ 1 \in 0..Len(chain) /\ i \in 0..(Len(chain) - 1)
    BY <1>1
  <2>2. BufInPlace(chain, w, i + 1)
    BY <2>1 DEF Layout
  <2>3. Drop(t, i) = Drop(chain, 1 + i) /\ 1 + i = i + 1
    BY <1>1, <1>2, <2>1, DropDrop
  <2>4. t[i] = chain[i + 1] /\ Drop(t, i) = Drop(chain, i + 1)
    BY <1>2, <2>3
  <2>5. \A j \in 1..(i - 1) : t[j] = chain[j + 1] /\ j + 1 \in 1..((i + 1) - 1)
    BY <1>1, <1>2
  <2> QED
    BY <2>2, <2>4, <2>5 DEF BufInPlace
<1> QED
  BY <1>3 DEF Layout, t

\* A buf is put on the chain.
LEMMA LayoutAppend ==
  ASSUME NEW chain \in Seq(Bufs), NEW b \in Bufs, NEW w \in Wire,
         Layout(chain, b.units \o w),
         BufInPlace(Append(chain, b), w, Len(chain) + 1)
  PROVE  Layout(Append(chain, b), w)
<1> DEFINE c == Append(chain, b)
           o == <<b>>
<1>1. /\ c = chain \o o /\ o \in Seq(Bufs) /\ Len(chain) \in Nat /\ Len(c) = Len(chain) + 1
      /\ \A i \in 1..Len(chain) : c[i] = chain[i]
  <2>1. o \in Seq(Bufs)
    BY ChunksOne
  <2>2. c = chain \o o
    BY AppendIsConcat
  <2> QED
    BY <2>1, <2>2, AppendProperties, LenProperties
<1>2. Chunks(o) = b.units /\ b.units \in Wire
  BY ChunksOne
<1> HIDE DEF c, o
<1>3. ASSUME NEW i \in 1..Len(chain)
      PROVE  BufInPlace(c, w, i)
  <2>1. BufInPlace(chain, b.units \o w, i)
    BY DEF Layout
  <2>2. i \in 0..Len(chain) /\ \A j \in 1..(i - 1) : j \in 1..Len(chain)
    BY <1>1
  <2>3. Drop(c, i) = Drop(chain, i) \o o
    BY <1>1, <2>2, DropMore
  <2> DEFINE d == Drop(chain, i)
             x == Chunks(d)
             u == b.units
  <2>4. d \in Seq(Bufs)
    BY <2>2, DropType
  <2>5. Chunks(d \o o) = x \o u
    BY <1>1, <1>2, <2>4, ChunksConcat
  <2>6. x \in Wire /\ u \in Wire
    BY <1>2, <2>4, UnitsOfType
  <2>7. Chunks(Drop(c, i)) = x \o u
    BY <2>3, <2>5
  <2>8. Chunks(Drop(c, i)) \o w = x \o (u \o w)
    <3> HIDE DEF x, u, d
    <3>1. (x \o u) \o w = x \o (u \o w)
      BY <2>6, WireAssoc
    <3> QED
      BY <2>7, <3>1, Zenon
  <2>9. \A j \in 1..(i - 1) : c[j] = chain[j]
    BY <1>1, <2>2
  <2>10. c[i] = chain[i]
    BY <1>1
  <2> QED
    BY <2>1, <2>8, <2>9, <2>10 DEF BufInPlace
<1>4. \A i \in 1..Len(c) : i \in 1..Len(chain) \/ i = Len(chain) + 1
  BY <1>1
<1>5. BufInPlace(c, w, Len(chain) + 1)
  BY DEF c
<1> QED
  BY <1>3, <1>4, <1>5 DEF Layout, c

\* The units at the head of a chain and what follows them.
LEMMA LayoutMem ==
  ASSUME NEW chain \in Seq(Bufs), chain # << >>, NEW w \in Wire, Layout(chain, w),
         chain[1].kind = "mem"
  PROVE  LET u == chain[1].units IN
         /\ u # << >> /\ u \in Wire
         /\ Drop(Chunks(chain) \o w, Len(u)) = Chunks(Drop(chain, 1)) \o w
         /\ LegalCut(u, Chunks(Drop(chain, 1)) \o w)
<1> DEFINE u == chain[1].units
           x == Chunks(Tail(chain))
           xw == x \o w
<1>1. /\ Len(chain) \in Nat \ {0} /\ Tail(chain) \in Seq(Bufs)
      /\ u \in Wire /\ Chunks(chain) = u \o x
  BY HeadOf
<1>2. Tail(chain) = Drop(chain, 1)
  BY DEF Drop
<1>3. 1 \in 1..Len(chain)
  BY <1>1
<1>4. BufInPlace(chain, w, 1)
  BY <1>3 DEF Layout
<1>5. u # << >> /\ LegalCut(u, Chunks(Drop(chain, 1)) \o w)
  BY <1>4 DEF BufInPlace
<1>6. x \in Wire /\ xw \in Wire
  BY <1>1, UnitsOfType, WireConcat
<1>7. Chunks(chain) \o w = u \o xw
  <2> HIDE DEF u, x
  <2>1. (u \o x) \o w = u \o (x \o w)
    BY <1>1, <1>6, WireAssoc
  <2> QED
    BY <1>1, <2>1, Zenon
<1>8. Drop(u \o xw, Len(u)) = xw
  <2>1. u \in Seq(WireUnits) /\ xw \in Seq(WireUnits)
    BY <1>1, <1>6 DEF Wire
  <2> HIDE DEF u, xw
  <2> QED
    BY <2>1, DropFront
<1> QED
  BY <1>1, <1>2, <1>5, <1>7, <1>8

\* Units of the first buf are read.
LEMMA LayoutAdvance ==
  ASSUME NEW chain \in Seq(Bufs), chain # << >>, NEW w \in Wire, Layout(chain, w),
         chain[1].kind = "mem", NEW n \in 0..Len(chain[1].units)
  PROVE  Layout(Advance(chain, n), w)
<1> DEFINE u == chain[1].units
           b == chain[1]
           c == Advance(chain, n)
           d == SubSeq(u, n + 1, Len(u))
<1>1. /\ b \in Bufs /\ Len(chain) \in Nat \ {0} /\ u \in Wire /\ DOMAIN chain = 1..Len(chain)
  BY HeadOf, LenProperties
<1>2. u \in Seq(WireUnits) /\ Len(u) \in Nat
  BY <1>1, LenProperties DEF Wire
<1>3. CASE n >= Len(u)
  <2>1. c = Tail(chain)
    BY <1>3 DEF Advance
  <2> QED
    BY <2>1, LayoutTail
<1>4. CASE ~(n >= Len(u))
  <2>1. c = [chain EXCEPT ![1].units = d]
    BY <1>4 DEF Advance
  <2>2. /\ c[1].kind = "mem" /\ c[1].units = d /\ DOMAIN c = DOMAIN chain
        /\ \A i \in 1..Len(chain) : i # 1 => c[i] = chain[i]
    <3> HIDE DEF d
    <3> QED
      BY <1>1, <2>1 DEF Bufs
  <2>3. c \in Seq(Bufs)
    BY <1>4, HeadRead, WireEmpty
  <2>4. Len(c) = Len(chain)
    BY <1>1, <2>2, <2>3, LenProperties
  <2>5. /\ d \in Seq(WireUnits) /\ Len(d) = Len(u) - n /\ Len(d) \in Nat \ {0}
        /\ d[Len(d)] = u[Len(u)]
    <3>1. n \in 0..Len(u) /\ d = Drop(u, n)
      BY DEF Drop
    <3> HIDE DEF d, u
    <3>2. d \in Seq(WireUnits) /\ Len(d) = Len(u) - n /\ \A i \in 1..(Len(u) - n) : d[i] = u[n + i]
      BY <1>2, <3>1, DropType
    <3>3. Len(d) \in Nat \ {0} /\ Len(d) \in 1..(Len(u) - n) /\ n + Len(d) = Len(u)
      BY <1>2, <1>4, <3>1, <3>2
    <3> QED
      BY <3>2, <3>3
  <2>6. d # << >>
    <3>1. Len(<< >>) = 0
      BY EmptySeq
    <3> HIDE DEF d
    <3> QED
      BY <2>5, <3>1
  <2> HIDE DEF c, d
  <2>7. ASSUME NEW i \in 1..Len(chain)
        PROVE  Drop(c, i) = Drop(chain, i)
    <3>1. i \in 0..Len(chain) /\ i \in 0..Len(c)
      BY <1>1, <2>4
    <3>2. /\ Drop(c, i) \in Seq(Bufs) /\ Len(Drop(c, i)) = Len(c) - i
          /\ \A j \in 1..(Len(c) - i) : Drop(c, i)[j] = c[i + j]
      BY <2>3, <3>1, DropType
    <3>3. /\ Drop(chain, i) \in Seq(Bufs) /\ Len(Drop(chain, i)) = Len(chain) - i
          /\ \A j \in 1..(Len(chain) - i) : Drop(chain, i)[j] = chain[i + j]
      BY <3>1, DropType
    <3>4. \A j \in 1..(Len(chain) - i) : i + j \in 1..Len(chain) /\ i + j # 1
      BY <1>1
    <3>5. \A j \in 1..(Len(chain) - i) : c[i + j] = chain[i + j]
      BY <2>2, <3>4
    <3> DEFINE x == Drop(c, i)
               y == Drop(chain, i)
    <3>6. x \in Seq(Bufs) /\ y \in Seq(Bufs) /\ Len(x) = Len(y)
          /\ \A j \in 1..Len(x) : x[j] = y[j]
      BY <2>4, <3>2, <3>3, <3>5
    <3> HIDE DEF x, y
    <3>7. x = y
      BY <3>6, SeqEqual
    <3> QED
      BY <3>7 DEF x, y
  <2>8. BufInPlace(c, w, 1)
    <3>1. LegalCut(u, Chunks(Drop(chain, 1)) \o w)
      BY LayoutMem
    <3>2. Drop(c, 1) = Drop(chain, 1)
      BY <1>1, <2>7
    <3>3. LegalCut(d, Chunks(Drop(chain, 1)) \o w)
      BY <2>5, <3>1 DEF LegalCut
    <3> QED
      BY <2>2, <2>6, <3>2, <3>3 DEF BufInPlace
  <2>9. ASSUME NEW i \in 1..Len(chain), i # 1
        PROVE  BufInPlace(c, w, i)
    <3>1. BufInPlace(chain, w, i)
      BY DEF Layout
    <3>2. c[i] = chain[i] /\ Drop(c, i) = Drop(chain, i)
      BY <2>2, <2>7, <2>9
    <3>3. \A j \in 1..(i - 1) : j \in 1..Len(chain) /\ (c[j].kind = "mem" \/ c[j] = chain[j])
      BY <1>1, <2>2
    <3> QED
      BY <3>1, <3>2, <3>3 DEF BufInPlace
  <2> QED
    BY <2>4, <2>8, <2>9 DEF Layout, c
<1> QED
  BY <1>3, <1>4

\* A handler finds what is next in memory, when anything is.
LEMMA LayoutHead ==
  ASSUME NEW chain \in Seq(Bufs), ~NoData(chain), NEW w \in Wire, Layout(chain, w),
         Chunks(chain) \o w # << >>
  PROVE  /\ ~Unreadable(chain)
         /\ Units(chain) # << >>
         /\ LegalCut(Units(chain), Drop(Chunks(chain) \o w, Len(Units(chain))))
         /\ \A n \in 0..Len(Units(chain)) : Layout(Advance(Skip(chain), n), w)
<1> DEFINE s == Skip(chain)
<1>1. chain # << >>
  BY DEF NoData
<1>2. /\ chain[1] \in Bufs /\ Len(chain) \in Nat \ {0} /\ Tail(chain) \in Seq(Bufs)
      /\ Len(Tail(chain)) = Len(chain) - 1 /\ Chunks(chain) = chain[1].units \o Chunks(Tail(chain))
  BY <1>1, HeadOf
<1>3. BufInPlace(chain, w, 1)
  BY <1>2 DEF Layout
<1>4. ~Unreadable(chain)
  BY <1>3 DEF BufInPlace, Unreadable
<1>5. s \in Seq(Bufs) /\ s # << >> /\ s[1].kind = "mem" /\ Chunks(s) = Chunks(chain) /\ Layout(s, w)
  <2>1. CASE chain[1].kind = "mem"
    BY <1>1, <2>1 DEF Skip
  <2>2. CASE chain[1].kind = "special"
    <3>1. s = Tail(chain) /\ Len(chain) # 1
      BY <2>2 DEF Skip, NoData
    <3>2. Len(s) \in Nat \ {0} /\ s \in Seq(Bufs)
      BY <1>2, <3>1
    <3>3. s # << >>
      <4>1. Len(<< >>) = 0
        BY EmptySeq
      <4> QED
        BY <3>2, <4>1
    <3>4. Layout(s, w)
      BY <1>1, <3>1, LayoutTail
    <3>5. Chunks(s) = Chunks(chain)
      <4>1. chain[1].units = << >>
        BY <1>2, <2>2 DEF Bufs
      <4>2. Chunks(Tail(chain)) \in Wire
        BY <1>2, UnitsOfType
      <4> QED
        BY <1>2, <3>1, <4>1, <4>2, WireEmpty
    <3>6. s[1] = chain[2] /\ 2 \in 1..Len(chain)
      BY <1>2, <3>1, <3>2
    <3>7. BufInPlace(chain, w, 2)
      BY <3>6 DEF Layout
    <3>8. s[1].kind # "special"
      <4> SUFFICES ASSUME s[1].kind = "special" PROVE FALSE
        OBVIOUS
      <4> DEFINE rest == Chunks(Drop(chain, 2)) \o w
      <4>1. rest = << >>
        <5>1. 1 \in 1..(2 - 1) /\ chain[1].kind # "mem"
          BY <2>2
        <5>2. rest # << >> => \A j \in 1..(2 - 1) : chain[j].kind = "mem"
          BY <3>6, <3>7 DEF BufInPlace
        <5> HIDE DEF rest
        <5> QED
          BY <5>1, <5>2
      <4>2. s[1] \in Bufs /\ Chunks(s) = s[1].units \o Chunks(Tail(s)) /\ Tail(s) \in Seq(Bufs)
        BY <3>2, <3>3, HeadOf
      <4>3. s[1].units = << >>
        BY <4>2 DEF Bufs
      <4>4. Tail(s) = Drop(chain, 2)
        <5>1. Tail(s) = Drop(s, 1) /\ s = Drop(chain, 1)
          BY <3>1 DEF Drop
        <5>2. 1 \in 0..Len(chain) /\ 1 \in 0..(Len(chain) - 1) /\ 1 + 1 = 2
          BY <1>2, <3>6
        <5> QED
          BY <5>1, <5>2, DropDrop
      <4>5. Chunks(s) = Chunks(Drop(chain, 2))
        <5>1. Chunks(Tail(s)) \in Wire
          BY <4>2, UnitsOfType
        <5> QED
          BY <4>2, <4>3, <4>4, <5>1, WireEmpty
      <4> QED
        BY <3>5, <4>1, <4>5
    <3>9. s[1] \in Bufs /\ s[1].kind # "file"
      <4>1. s[1] \in Bufs
        BY <3>2, <3>3, HeadOf
      <4> QED
        BY <3>6, <3>7, <4>1 DEF BufInPlace
    <3> QED
      BY <3>2, <3>3, <3>4, <3>5, <3>8, <3>9 DEF Bufs
  <2> QED
    BY <1>2, <1>3, <2>1, <2>2 DEF Bufs, BufInPlace
<1>6. Units(chain) = s[1].units
  BY <1>5 DEF Units, InMemory
<1> HIDE DEF s
<1>7. LET u == s[1].units IN
      /\ u # << >> /\ u \in Wire
      /\ Drop(Chunks(s) \o w, Len(u)) = Chunks(Drop(s, 1)) \o w
      /\ LegalCut(u, Chunks(Drop(s, 1)) \o w)
  BY <1>5, LayoutMem
<1>8. \A n \in 0..Len(s[1].units) : Layout(Advance(s, n), w)
  BY <1>5, LayoutAdvance
<1> QED
  BY <1>4, <1>5, <1>6, <1>7, <1>8 DEF s

\* A legal cut does not leave a first unit alone.
LEMMA WholePair ==
  ASSUME NEW all \in Wire, Len(all) >= 2, all[2].kind \in Rests,
         NEW u \in Wire, u # << >>, LegalCut(u, Drop(all, Len(u)))
  PROVE  Len(u) >= 2 /\ Len(u) \in Nat
<1>1. Len(u) \in Nat \ {0} /\ Len(all) \in Nat
  BY LenProperties, EmptySeq DEF Wire
<1>2. ASSUME Len(u) = 1
      PROVE  FALSE
  <2> DEFINE d == Drop(all, 1)
  <2>1. all \in Seq(WireUnits) /\ 1 \in 0..Len(all) /\ 1 \in 1..(Len(all) - 1) /\ 1 + 1 = 2
    BY <1>1 DEF Wire
  <2>2. Len(d) = Len(all) - 1 /\ d[1] = all[1 + 1]
    BY <2>1, DropType
  <2>3. d # << >>
    <3>1. Len(<< >>) = 0
      BY EmptySeq
    <3>2. Len(d) # 0
      BY <1>1, <2>1, <2>2
    <3> QED
      BY <3>1, <3>2
  <2>4. LegalCut(u, d)
    BY <1>2
  <2> HIDE DEF d
  <2> QED
    BY <2>1, <2>2, <2>3, <2>4 DEF LegalCut, Rests
<1>3. Len(u) # 1
  BY ONLY <1>2
<1> QED
  BY ONLY <1>1, <1>3

-----------------------------------------------------------------------------

\* There is something to come as long as the conversion is not done.
LEMMA WireAhead ==
  ASSUME ConvInv, Place, state # "done"
  PROVE  RestOfWire # << >>
<1>1. res \in ResultSets /\ state \in States /\ cur_col \in Nat
  BY DEF ConvInv, DataType, ParserType
<1>2. Len(RestOfWire) >= 1
  <2>1. CASE state = "expect_header"
    BY <1>1, <2>1, HeaderAhead DEF RestOfWire, WireFrom
  <2>2. CASE state = "expect_col"
    <3>1. cur_col \in 0..(Len(res.cols) - 1)
      BY <1>1, <2>2 DEF Place, ColPlace
    <3> QED
      BY <1>1, <2>2, <3>1, ColumnAhead DEF RestOfWire, WireFrom
  <2>3. CASE state = "expect_row"
    <3>1. res.cols # << >> /\ row \in 0..Len(res.rows)
      BY <2>3, HasColumns DEF Place, RowPlace
    <3> QED
      BY <1>1, <2>3, <3>1, FlagAhead DEF RestOfWire, WireFrom
  <2>4. CASE state = "expect_field"
    <3>1. cur_col \in 0..(Len(res.cols) - 1) /\ row \in 1..Len(res.rows)
      BY <2>4, InField
    <3>2. Len(FieldsLeft(res, row, cur_col)) >= 2
      BY <1>1, <3>1, SizeAhead
    <3> QED
      BY <2>4, <3>2 DEF RestOfWire, WireFrom
  <2>5. CASE state = "expect_more_field_data"
    <3>1. field_data_rest \in Nat
      BY DEF ConvInv, ParserType
    <3> QED
      BY <2>5, <3>1, MoreToCome
  <2> QED
    BY <1>1, <2>1, <2>2, <2>3, <2>4, <2>5 DEF States
<1> QED
  BY <1>2, NotEmpty

\* What a handler reads when the layout is legal.
LEMMA LegalRead ==
  ASSUME ConvInv, HeaderInv, LegalInv, pc \in Functions, legal, ~NoData(in)
  PROVE  /\ ~Unreadable(in) /\ Units(in) # << >> /\ Units(in) \in Wire
         /\ RestOfWire \in Wire
         /\ LegalCut(Units(in), Drop(RestOfWire, Len(Units(in))))
         /\ \A n \in 0..Len(Units(in)) : Layout(Advance(Skip(in), n), wire)
<1>1. /\ Place /\ state # "done" /\ in \in Seq(Bufs) /\ wire \in Wire
      /\ Chunks(in) \o wire = RestOfWire
  BY Running, UnreadIsChunks
<1>2. RestOfWire # << >> /\ Layout(in, wire)
  BY <1>1, WireAhead DEF LegalInv
<1>3. Chunks(in) \o wire # << >>
  BY <1>1, <1>2
<1>4. /\ ~Unreadable(in) /\ Units(in) # << >>
      /\ LegalCut(Units(in), Drop(Chunks(in) \o wire, Len(Units(in))))
      /\ \A n \in 0..Len(Units(in)) : Layout(Advance(Skip(in), n), wire)
  BY <1>1, <1>2, <1>3, LayoutHead
<1>5. Units(in) \in Wire
  BY <1>4, FrontRead
<1>6. RestOfWire \in Wire
  <2>1. Chunks(in) \in Wire
    BY <1>1, UnitsOfType
  <2>2. Chunks(in) \o wire \in Wire
    BY <1>1, <2>1, WireConcat
  <2> QED
    BY <1>1, <2>2
<1> QED
  BY <1>1, <1>4, <1>5, <1>6

\* A step of a handler keeps the layout legal, and fails only when memory does.
LEMMA LegalStep ==
  ASSUME LegalInv, UNCHANGED Others, exhausted => exhausted',
         legal => Layout(in', wire),
         legal /\ ValidResult(res) /\ ~exhausted' => pc' # "error"
  PROVE  LegalInv'
<1>1. UNCHANGED <<res, wire, legal, failed>>
  BY DEF Others, upstreamVars
<1>2. legal' => Layout(in', wire')
  BY <1>1
<1>3. LegalNeverFails'
  BY <1>1 DEF LegalInv, LegalNeverFails, ValidResult
<1> QED
  BY <1>2, <1>3 DEF LegalInv

-----------------------------------------------------------------------------
(* The ways out of a handler.                                              *)

LEMMA LegalReturns ==
  ASSUME LegalInv, UNCHANGED Others, ReturnOk
  PROVE  LegalInv'
<1>1. pc' = "output_bufs" /\ in' = << >> /\ UNCHANGED exhausted
  BY DEF ReturnOk
<1>2. Layout(in', wire)
  BY <1>1, LayoutEmpty
<1> QED
  BY <1>1, <1>2, LegalStep

LEMMA LegalError ==
  ASSUME LegalInv, UNCHANGED Others, ReturnError, exhausted => exhausted',
         legal /\ ValidResult(res) => exhausted'
  PROVE  LegalInv'
<1>1. in' = << >>
  BY DEF ReturnError
<1>2. Layout(in', wire)
  BY <1>1, LayoutEmpty
<1> QED
  BY <1>2, LegalStep

LEMMA LegalEmit ==
  ASSUME LegalInv, UNCHANGED Others, NEW tokens, NEW next, NEW rest, Emit(tokens, next, rest),
         next # "error", legal => Layout(rest, wire)
  PROVE  LegalInv'
<1>1. CASE pc' = next /\ in' = rest /\ UNCHANGED exhausted
  BY <1>1, LegalStep
<1>2. CASE exhausted' = TRUE /\ ReturnError
  BY <1>2, LegalError
<1> QED
  BY <1>1, <1>2, EmitCases

\* A chain that cannot be read does not end.
LEMMA UnreadableIsData == Unreadable(in) => ~NoData(in)
BY DEF Unreadable, NoData

-----------------------------------------------------------------------------
(* The handlers.                                                           *)

\* In a legal layout the whole of what a parser takes is in the buf.
LEMMA PairRead ==
  ASSUME ConvInv, HeaderInv, LegalInv, pc \in Functions, legal, ~NoData(in),
         Len(RestOfWire) >= 2, RestOfWire[2].kind \in Rests
  PROVE  /\ ~Unreadable(in) /\ Units(in) # << >>
         /\ Len(Units(in)) \in Nat /\ Len(Units(in)) >= 2
         /\ \A i \in 1..Len(Units(in)) : Units(in)[i] = RestOfWire[i]
         /\ 1 \in 1..Len(Units(in)) /\ Len(Units(in)) <= Len(RestOfWire)
         /\ LegalCut(Units(in), Drop(RestOfWire, Len(Units(in))))
<1> DEFINE u == Units(in)
           all == RestOfWire
<1>1. /\ ~Unreadable(in) /\ u # << >> /\ u \in Wire /\ all \in Wire
      /\ LegalCut(u, Drop(all, Len(u)))
  BY LegalRead
<1>2. \A i \in 1..Len(u) : u[i] = all[i]
  BY <1>1, FrontRead
<1>3. Len(u) <= Len(all)
  BY <1>1, FrontRead
<1>4. Len(all) >= 2 /\ all[2].kind \in Rests
  OBVIOUS
<1> HIDE DEF u, all
<1>5. Len(u) >= 2 /\ Len(u) \in Nat
  BY <1>1, <1>4, WholePair
<1>6. 1 \in 1..Len(u)
  BY <1>5
<1> QED
  BY <1>1, <1>2, <1>3, <1>5, <1>6 DEF u, all

\* In a legal layout process_header refuses no valid header,
LEMMA HeaderLegal ==
  ASSUME ConvInv, HeaderInv, LegalInv, ProcessHeader,
         UNCHANGED <<response, upstreamVars, body, raw, failed>>
  PROVE  LegalInv'
<1>1. pc = "process_header" /\ pc \in Functions /\ UNCHANGED Others
  BY DEF ProcessHeader, Functions, Others, ReturnOk, SendInvalid, EmptyResult, ExpectColumns
<1>2. res \in ResultSets /\ RestOfWire = Encode(res)
  BY <1>1, Running DEF Place, Placed, RestOfWire, WireFrom
<1>3. ASSUME legal, ValidResult(res), ~NoData(in)
      PROVE  /\ ~Unreadable(in) /\ HeaderParses(Units(in)) /\ Units(in)[1].value = res
             /\ res.cols = << >> => Len(Units(in)) = 2
  <2>1. Len(Encode(res)) >= 2 /\ Encode(res)[2].kind \in Rests
    BY <1>2, HeaderAhead
  <2>2. res.cols = << >> => Len(Encode(res)) = 2
    BY <1>2, <1>3, HeaderAhead DEF ValidResult
  <2>3. /\ ~Unreadable(in) /\ Len(Units(in)) \in Nat /\ Len(Units(in)) >= 2
        /\ 1 \in 1..Len(Units(in)) /\ Len(Units(in)) <= Len(Encode(res))
        /\ \A i \in 1..Len(Units(in)) : Units(in)[i] = Encode(res)[i]
    BY <1>1, <1>2, <1>3, <2>1, PairRead
  <2>4. Units(in)[1] = Unit("header", res)
    <3>1. Encode(res)[1] = Unit("header", res)
      BY <1>2, HeaderInFront
    <3> QED
      BY <2>3, <3>1
  <2>5. Units(in)[1].value = res
    <3>1. Unit("header", res).value = res
      BY <1>2, UnitType DEF Kinds
    <3> QED
      BY <2>4, <3>1
  <2>6. HeaderParses(Units(in))
    BY <1>3, <2>3, <2>5 DEF HeaderParses, ValidResult
  <2>7. res.cols = << >> => Len(Units(in)) = 2
    BY <2>2, <2>3
  <2> QED
    BY <2>3, <2>5, <2>6, <2>7
<1>4. CASE ReturnOk
  BY <1>1, <1>4, LegalReturns
<1>5. CASE SendInvalid /\ exhausted' = TRUE
  <2>1. ReturnError
    BY <1>5 DEF SendInvalid
  <2> QED
    BY <1>1, <1>5, <2>1, LegalError
<1>6. CASE /\ Unreadable(in) \/ (~NoData(in) /\ ~HeaderParses(Units(in)))
           /\ SendInvalid /\ UNCHANGED exhausted
  <2>1. ReturnError
    BY <1>6 DEF SendInvalid
  <2>2. ~(legal /\ ValidResult(res))
    BY <1>3, <1>6, UnreadableIsData
  <2> QED
    BY <1>1, <1>6, <2>1, <2>2, LegalError
<1>7. CASE ~NoData(in) /\ EmptyResult(Units(in)[1].value.header)
  <2>1. Emit(HeaderObject(Units(in)[1].value.header), "output_bufs", << >>)
    BY <1>7 DEF EmptyResult
  <2>2. Layout(<< >>, wire)
    BY LayoutEmpty
  <2> QED
    BY <1>1, <2>1, <2>2, LegalEmit
<1>8. CASE /\ ~NoData(in) /\ Len(Units(in)[1].value.cols) = 0 /\ Len(Units(in)) > 2
           /\ SendInvalid /\ UNCHANGED exhausted
  <2>1. ReturnError
    BY <1>8 DEF SendInvalid
  <2>2. ASSUME legal, ValidResult(res)
        PROVE  FALSE
    <3>1. Units(in)[1].value = res /\ (res.cols = << >> => Len(Units(in)) = 2)
      BY <1>3, <1>8, <2>2
    <3>2. Len(res.cols) = 0
      BY <1>8, <3>1
    <3>3. res.cols \in Seq(Columns)
      BY <1>2, ResultSetType
    <3>4. res.cols = << >>
      BY <3>2, <3>3, EmptySeq
    <3>5. Len(Units(in)) = 2
      BY <3>1, <3>4
    <3> QED
      BY <1>8, <3>5
  <2> QED
    BY <1>1, <1>8, <2>1, <2>2, LegalError
<1>9. CASE /\ ~NoData(in) /\ HeaderParses(Units(in))
           /\ ExpectColumns(Len(Units(in)[1].value.cols), Advance(Skip(in), 2))
  <2>1. CASE pc' = "process_col" /\ in' = Advance(Skip(in), 2) /\ UNCHANGED exhausted
    <3>1. legal => Layout(in', wire)
      <4> SUFFICES ASSUME legal PROVE Layout(in', wire)
        OBVIOUS
      <4>1. Units(in) \in Wire /\ \A n \in 0..Len(Units(in)) : Layout(Advance(Skip(in), n), wire)
        BY <1>1, <1>9, LegalRead
      <4>2. Len(Units(in)) \in Nat
        BY <4>1, LenProperties DEF Wire
      <4>3. 2 \in 0..Len(Units(in))
        BY <1>9, <4>2 DEF HeaderParses
      <4> QED
        BY <2>1, <4>1, <4>3
    <3> QED
      BY <1>1, <2>1, <3>1, LegalStep
  <2>2. CASE exhausted' = TRUE /\ ReturnError
    BY <1>1, <2>2, LegalError
  <2> QED
    BY <1>9, <2>1, <2>2 DEF ExpectColumns
<1> QED
  BY <1>4, <1>5, <1>6, <1>7, <1>8, <1>9 DEF ProcessHeader

\* process_col no column,
LEMMA ColLegal ==
  ASSUME ConvInv, HeaderInv, LegalInv, ProcessCol,
         UNCHANGED <<response, upstreamVars, body, raw, failed>>
  PROVE  LegalInv'
<1>1. pc = "process_col" /\ pc \in Functions /\ UNCHANGED Others
  BY DEF ProcessCol, Functions, Others, ReturnOk
<1>2. /\ res \in ResultSets /\ RestOfWire = ColsLeft(res, cur_col)
      /\ cur_col \in 0..(Len(res.cols) - 1) /\ cur_col + 1 \in 1..Len(res.cols)
  <2>1. state = "expect_col" /\ Place /\ res \in ResultSets
    BY <1>1, Running DEF Place, Placed
  <2>2. cur_col \in Nat /\ cur_col < Len(res.cols) /\ Len(res.cols) \in Nat
    BY <2>1, ResultSetType DEF ConvInv, ParserType, Place, ColPlace
  <2> QED
    BY <2>1, <2>2 DEF RestOfWire, WireFrom
<1>3. ASSUME legal, ValidResult(res), ~NoData(in)
      PROVE  ~Unreadable(in) /\ ColParses(Units(in))
  <2>1. Len(RestOfWire) >= 2 /\ RestOfWire[2].kind \in Rests
    BY <1>2, ColumnAhead
  <2>2. /\ ~Unreadable(in) /\ Len(Units(in)) >= 2
        /\ 1 \in 1..Len(Units(in))
        /\ \A i \in 1..Len(Units(in)) : Units(in)[i] = RestOfWire[i]
    BY <1>1, <1>3, <2>1, PairRead
  <2>3. Units(in)[1] = Unit("col", res.cols[cur_col + 1])
    <3>1. ColsLeft(res, cur_col)[1] = Unit("col", res.cols[cur_col + 1])
      BY <1>2, ColumnInFront
    <3> QED
      BY <1>2, <2>2, <3>1
  <2>4. Units(in)[1].value = res.cols[cur_col + 1]
    BY <2>3 DEF Unit
  <2>5. res.cols[cur_col + 1].name # << >>
    <3>1. DOMAIN res.cols = 1..Len(res.cols)
      BY <1>2, ResultSetType
    <3> QED
      BY <1>2, <1>3, <3>1 DEF ValidResult
  <2> QED
    BY <2>2, <2>4, <2>5 DEF ColParses
<1>4. CASE ReturnOk
  BY <1>1, <1>4, LegalReturns
<1>5. CASE /\ Unreadable(in) \/ (~NoData(in) /\ ~ColParses(Units(in)))
           /\ ReturnError
           /\ UNCHANGED <<parserVars, responseVars, requestVars, json, exhausted>>
  <2>1. ~(legal /\ ValidResult(res))
    BY <1>3, <1>5, UnreadableIsData
  <2> QED
    BY <1>1, <1>5, <2>1, LegalError
<1>6. CASE /\ ~NoData(in) /\ ColParses(Units(in)) /\ in' = Advance(Skip(in), 2)
           /\ pc' # "error" /\ UNCHANGED exhausted
  <2>1. ASSUME legal
        PROVE  Layout(in', wire)
    <3>1. Units(in) \in Wire /\ \A n \in 0..Len(Units(in)) : Layout(Advance(Skip(in), n), wire)
      BY <1>1, <1>6, <2>1, LegalRead
    <3>2. Len(Units(in)) \in Nat
      BY <3>1, LenProperties DEF Wire
    <3>3. 2 \in 0..Len(Units(in))
      BY <1>6, <3>2 DEF ColParses
    <3> QED
      BY <1>6, <3>1, <3>3
  <2> QED
    BY <1>1, <1>6, <2>1, LegalStep
<1>7. ReturnOk \/ (/\ Unreadable(in) \/ (~NoData(in) /\ ~ColParses(Units(in)))
                   /\ ReturnError
                   /\ UNCHANGED <<parserVars, responseVars, requestVars, json, exhausted>>)
      \/ (/\ ~NoData(in) /\ ColParses(Units(in)) /\ in' = Advance(Skip(in), 2)
          /\ pc' # "error" /\ UNCHANGED exhausted)
  BY DEF ProcessCol
<1> QED
  BY <1>4, <1>5, <1>6, <1>7

\* and the functions that write the beginning fail for memory only;
LEMMA OutputLegal ==
  ASSUME ConvInv, HeaderInv, LegalInv, OutputProps \/ OutputList \/ OutputCols,
         UNCHANGED <<response, upstreamVars, body, raw, failed>>
  PROVE  LegalInv'
<1>1. UNCHANGED Others
  BY DEF OutputProps, OutputList, OutputCols, Others
<1>2. legal => Layout(in, wire)
  BY DEF LegalInv
<1>3. CASE OutputProps
  <2>1. Emit(<<"{">> \o Success(TRUE) \o UserProps \o <<"root", ":">>, "output_list", in)
    BY <1>3 DEF OutputProps
  <2> QED
    BY <1>1, <1>2, <2>1, LegalEmit
<1>4. CASE OutputList
  <2>1. Emit(<<"[">>, IF conf.format = "compact" THEN "output_cols" ELSE "process_row", in)
    BY <1>4 DEF OutputList
  <2>2. (IF conf.format = "compact" THEN "output_cols" ELSE "process_row") # "error"
    OBVIOUS
  <2> QED
    BY <1>1, <1>2, <2>1, <2>2, LegalEmit
<1>5. CASE OutputCols
  <2>1. Emit(ColNames, "process_row", in)
    BY <1>5 DEF OutputCols
  <2> QED
    BY <1>1, <1>2, <2>1, LegalEmit
<1> QED
  BY <1>3, <1>4, <1>5

\* process_row finds the flag, and the end of the buf behind the terminator;
LEMMA RowLegal ==
  ASSUME ConvInv, HeaderInv, LegalInv, ProcessRow,
         UNCHANGED <<response, upstreamVars, body, raw, failed>>
  PROVE  LegalInv'
<1>1. pc = "process_row" /\ pc \in Functions /\ UNCHANGED Others
  BY DEF ProcessRow, Functions, Others, ReturnOk
<1>2. /\ res \in ResultSets /\ RestOfWire = RowsLeft(res, row) /\ res.cols # << >>
      /\ row \in 0..Len(res.rows) /\ Len(res.rows) \in Nat
  <2>1. state = "expect_row" /\ Place /\ res \in ResultSets
    BY <1>1, Running DEF Place, Placed
  <2>2. res.cols # << >> /\ row \in 0..Len(res.rows)
    BY <2>1, HasColumns DEF Place, RowPlace
  <2> QED
    BY <2>1, <2>2, ResultSetType DEF RestOfWire, WireFrom
<1>3. ASSUME legal, ~NoData(in)
      PROVE  /\ ~Unreadable(in) /\ Units(in) # << >>
             /\ Len(Units(in)) \in Nat \ {0} /\ Len(Units(in)) <= Len(RestOfWire)
             /\ Units(in)[1] = RestOfWire[1] /\ Layout(Advance(Skip(in), 1), wire)
  <2>1. ~Unreadable(in) /\ Units(in) # << >>
    BY <1>1, <1>3, LegalRead
  <2>2. \A n \in 0..Len(Units(in)) : Layout(Advance(Skip(in), n), wire)
    BY <1>1, <1>3, LegalRead
  <2>3. /\ Len(Units(in)) \in Nat \ {0} /\ Len(Units(in)) <= Len(RestOfWire)
        /\ \A i \in 1..Len(Units(in)) : Units(in)[i] = RestOfWire[i]
    BY <1>1, <1>3, <2>1, FrontRead
  <2>4. 1 \in 0..Len(Units(in)) /\ 1 \in 1..Len(Units(in))
    BY <2>3
  <2> QED
    BY <2>1, <2>2, <2>3, <2>4
<1>4. CASE ReturnOk
  BY <1>1, <1>4, LegalReturns
<1>5. CASE /\ Unreadable(in) \/ (~NoData(in) /\ Units(in) = << >>)
           /\ ReturnError
           /\ UNCHANGED <<parserVars, responseVars, requestVars, json, exhausted>>
  <2>1. ~legal
    BY <1>3, <1>5, UnreadableIsData
  <2> QED
    BY <1>1, <1>5, <2>1, LegalError
<1>6. CASE ~NoData(in) /\ Units(in)[1].value = 0 /\ EndOfRows(Units(in))
  <2>1. CASE Emit(Closing, "output_bufs", << >>)
    <3>1. Layout(<< >>, wire)
      BY LayoutEmpty
    <3> QED
      BY <1>1, <2>1, <3>1, LegalEmit
  <2>2. CASE Len(Units(in)) # 1 /\ ReturnError /\ UNCHANGED exhausted
    <3>1. ASSUME legal, ValidResult(res)
          PROVE  FALSE
      <4>1. /\ Len(Units(in)) \in Nat \ {0} /\ Len(Units(in)) <= Len(RestOfWire)
            /\ Units(in)[1] = RestOfWire[1]
        BY <1>3, <1>6, <3>1
      <4>2. row = Len(res.rows)
        <5>1. CASE row < Len(res.rows)
          <6>1. RowsLeft(res, row)[1] = Unit("flag", 1)
            BY <1>2, <5>1, FlagInFront
          <6>2. Unit("flag", 1).value = 1
            BY DEF Unit
          <6> QED
            BY <1>2, <1>6, <4>1, <6>1, <6>2
        <5> QED
          BY <1>2, <5>1
      <4>3. Len(RestOfWire) = 1
        BY <1>2, <3>1, <4>2, FlagAhead DEF ValidResult
      <4> QED
        BY <2>2, <4>1, <4>3
    <3> QED
      BY <1>1, <2>2, <3>1, LegalError
  <2> QED
    BY <1>6, <2>1, <2>2 DEF EndOfRows
<1>7. CASE ~NoData(in) /\ NextRow
  <2>1. pc' = "process_field" /\ in' = Advance(Skip(in), 1) /\ UNCHANGED exhausted
    BY <1>7 DEF NextRow
  <2>2. legal => Layout(in', wire)
    BY <1>3, <1>7, <2>1
  <2> QED
    BY <1>1, <2>1, <2>2, LegalStep
<1> QED
  BY <1>4, <1>5, <1>6, <1>7 DEF ProcessRow

-----------------------------------------------------------------------------
(* What output_field and output_more_field_data refuse.                    *)

\* The first part of an acceptable field is not refused.
LEMMA NotRefused ==
  ASSUME NEW col \in Columns, NEW f \in Fields, ValidField(col, f), ~f.null,
         NEW n \in 0..Len(f.data), n = 0 => f.data = << >>
  PROVE  ~FieldRefused(col.type, SubSeq(f.data, 1, n), Len(f.data) - n)
<1> DEFINE d == f.data
           x == SubSeq(d, 1, n)
           rest == Len(d) - n
<1>1. d \in Seq(STRING) /\ Len(d) \in Nat /\ DOMAIN d = 1..Len(d) /\ n \in Nat
  BY LenProperties DEF Fields
<1>2. x \in Seq(STRING) /\ Len(x) = n /\ \A i \in 1..n : x[i] = d[i]
  BY <1>1, TakeType
<1>3. DOMAIN x = 1..n
  BY <1>2, LenProperties
<1>4. d = << >> => Len(d) = 0
  BY EmptySeq
<1> HIDE DEF x
<1>5. ~(x = << >> /\ rest > 0)
  <2>1. x = << >> => n = 0
    BY <1>2, EmptySeq
  <2>2. x = << >> => rest = 0
    BY <1>1, <1>4, <2>1
  <2> QED
    BY <2>2
<1>6. x # << >> => n \in 1..Len(d) /\ d # << >> /\ 1 \in 1..n
  <2>1. x # << >> => n # 0
    BY <1>2, EmptySeq
  <2>2. x # << >> => n \in 1..Len(d) /\ 1 \in 1..n /\ Len(d) # 0
    BY <1>1, <2>1
  <2> QED
    BY <1>4, <2>2
<1>7. ASSUME x # << >>, col.type = "int", NEW i \in DOMAIN x
      PROVE  ~(x[i] \notin Digits /\ ~(i = 1 /\ x[i] = "-"))
  <2>1. \A j \in DOMAIN d : d[j] \in Digits \/ (j = 1 /\ d[j] = "-")
    BY <1>6, <1>7 DEF ValidField
  <2>2. i \in DOMAIN d /\ x[i] = d[i]
    BY <1>1, <1>2, <1>3, <1>7
  <2> QED
    BY <2>1, <2>2
<1>8. ASSUME x # << >>, col.type = "bool"
      PROVE  x[1] \in TrueChars \cup FalseChars /\ Len(x) = 1 /\ rest = 0
  <2>1. Len(d) = 1 /\ d[1] \in TrueChars \cup FalseChars
    BY <1>6, <1>8 DEF ValidField
  <2>2. n = 1 /\ rest = 0
    BY <1>1, <1>6, <1>8, <2>1
  <2> QED
    BY <1>2, <2>1, <2>2
<1>9. ~FieldRefused(col.type, x, rest)
  BY <1>5, <1>7, <1>8 DEF FieldRefused
<1> QED
  BY <1>9 DEF x

\* Nor is what follows it.
LEMMA MoreNotRefused ==
  ASSUME NEW col \in Columns, NEW f \in Fields, ValidField(col, f), ~f.null,
         NEW n \in 1..(Len(f.data) - 1), NEW len \in 0..n
  PROVE  ~MoreRefused(col.type, SubSeq(Drop(f.data, Len(f.data) - n), 1, len))
<1> DEFINE d == f.data
           k == Len(d) - n
           m == Drop(d, k)
           x == SubSeq(m, 1, len)
<1>1. d \in Seq(STRING) /\ Len(d) \in Nat /\ DOMAIN d = 1..Len(d)
  BY LenProperties DEF Fields
<1>2. n \in Nat /\ k \in 0..Len(d) /\ k \in Nat /\ k >= 1 /\ Len(d) - k = n /\ len \in Nat
  BY <1>1
<1>3. m \in Seq(STRING) /\ Len(m) = n /\ \A i \in 1..n : m[i] = d[k + i]
  <2> HIDE DEF m, k
  <2>1. Drop(d, k) \in Seq(STRING) /\ Len(Drop(d, k)) = Len(d) - k
        /\ \A i \in 1..(Len(d) - k) : Drop(d, k)[i] = d[k + i]
    BY <1>1, <1>2, DropType
  <2> QED
    BY <1>2, <2>1 DEF m
<1> HIDE DEF m
<1>4. x \in Seq(STRING) /\ Len(x) = len /\ \A i \in 1..len : x[i] = m[i]
  BY <1>2, <1>3, TakeType
<1>5. DOMAIN x = 1..len
  BY <1>4, LenProperties
<1> HIDE DEF x, k
<1>6. ASSUME col.type = "int", NEW i \in DOMAIN x
      PROVE  x[i] \in Digits
  <2>1. d # << >>
    <3>1. Len(d) # 0
      BY <1>1, <1>2
    <3> QED
      BY <3>1, EmptySeq
  <2>2. \A j \in DOMAIN d : d[j] \in Digits \/ (j = 1 /\ d[j] = "-")
    BY <1>6, <2>1 DEF ValidField
  <2>3. i \in 1..len /\ i \in 1..n /\ k + i \in 1..Len(d) /\ k + i # 1
    BY <1>1, <1>2, <1>5, <1>6
  <2>4. x[i] = d[k + i]
    BY <1>3, <1>4, <2>3
  <2> QED
    BY <1>1, <2>2, <2>3, <2>4
<1>7. ~MoreRefused(col.type, x)
  BY <1>6 DEF MoreRefused
<1> QED
  BY <1>7 DEF x, m, k

\* The field at hand is one that a driver is supposed to send.
LEMMA FieldIsValid ==
  ASSUME ConvInv, Place, state \in {"expect_field", "expect_more_field_data"}, ValidResult(res)
  PROVE  ValidField(res.cols[cur_col + 1], res.rows[row][cur_col + 1])
<1>1. /\ res \in ResultSets /\ row \in 1..Len(res.rows) /\ cur_col \in 0..(Len(res.cols) - 1)
      /\ cur_col + 1 \in 1..Len(res.cols)
  <2>1. /\ res \in ResultSets /\ row \in 1..Len(res.rows) /\ cur_col \in 0..(Len(res.cols) - 1)
        /\ cur_col \in Nat
    BY InField
  <2> QED
    BY <2>1
<1>2. DOMAIN res.rows = 1..Len(res.rows) /\ DOMAIN res.cols = 1..Len(res.cols)
  BY <1>1, ResultSetType
<1> QED
  BY <1>1, <1>2 DEF ValidResult

\* Where a handler goes on after a field or a part of one.
LEMMA FieldGoesOn ==
  ASSUME LegalInv, UNCHANGED Others, NEW tokens, NEW rest, NEW left,
         FieldEnds(tokens, left) \/ FieldContinues(tokens, left),
         legal => Layout(left, wire)
  PROVE  LegalInv'
<1>1. \/ Emit(tokens, "process_row", left)
      \/ Emit(tokens, "process_field", left)
      \/ Emit(tokens, "process_more_field_data", left)
  BY DEF FieldEnds, FieldContinues
<1>2. CASE Emit(tokens, "process_row", left)
  BY <1>2, LegalEmit
<1>3. CASE Emit(tokens, "process_field", left)
  BY <1>3, LegalEmit
<1>4. CASE Emit(tokens, "process_more_field_data", left)
  BY <1>4, LegalEmit
<1> QED
  BY <1>1, <1>2, <1>3, <1>4

\* process_field finds the size, some of the data, and digits or truth values;
LEMMA FieldLegal ==
  ASSUME ConvInv, HeaderInv, LegalInv, ProcessField,
         UNCHANGED <<response, upstreamVars, body, raw, failed>>
  PROVE  LegalInv'
<1> DEFINE u == Units(in)
           k == cur_col
           f == res.rows[row][k + 1]
           col == res.cols[k + 1]
<1>1. pc = "process_field" /\ pc \in Functions /\ UNCHANGED Others
  BY DEF ProcessField, Functions, Others, ReturnOk
<1>2. state = "expect_field" /\ Place /\ RestOfWire = FieldsLeft(res, row, k)
  <2>1. state = "expect_field" /\ Place
    BY <1>1, Running DEF Place, Placed
  <2> QED
    BY <2>1 DEF RestOfWire, WireFrom
<1>3. /\ cols = res.cols /\ k \in 0..(Len(res.cols) - 1) /\ row \in 1..Len(res.rows)
      /\ res \in ResultSets /\ f \in Fields /\ col \in Columns
  BY <1>2, InField
<1>4. /\ Len(RestOfWire) >= 2 /\ RestOfWire[2].kind = "size_rest"
      /\ ~f.null /\ f.data # << >> =>
           Drop(RestOfWire, 2) # << >> /\ Drop(RestOfWire, 2)[1].kind = "char"
  BY <1>2, <1>3, SizeAhead
<1>5. ASSUME legal, ~NoData(in)
      PROVE  /\ ~Unreadable(in) /\ Len(u) \in Nat /\ Len(u) >= 2
             /\ \A i \in 1..Len(u) : u[i] = RestOfWire[i]
             /\ LegalCut(u, Drop(RestOfWire, Len(u)))
             /\ \A n \in 0..Len(u) : Layout(Advance(Skip(in), n), wire)
  <2>1. RestOfWire[2].kind \in Rests
    BY <1>4 DEF Rests
  <2>2. \A n \in 0..Len(Units(in)) : Layout(Advance(Skip(in), n), wire)
    BY <1>1, <1>5, LegalRead
  <2> QED
    BY <1>1, <1>4, <1>5, <2>1, <2>2, PairRead
<1>6. CASE ReturnOk
  BY <1>1, <1>6, LegalReturns
<1>7. CASE /\ Unreadable(in) \/ (~NoData(in) /\ Len(u) < 2)
           /\ ReturnError
           /\ UNCHANGED <<parserVars, responseVars, requestVars, json, exhausted>>
  <2>1. ~legal
    BY <1>5, <1>7, UnreadableIsData, SMTT(30)
  <2> QED
    BY <1>1, <1>7, <2>1, LegalError
<1>8. ASSUME ~NoData(in), Len(u) >= 2
      PROVE  /\ f.data \in Seq(STRING) /\ Len(f.data) \in Nat /\ f.null \in BOOLEAN
             /\ Len(u) \in Nat
             /\ f.null => u[1].value = NullSize
             /\ ~f.null =>
                  /\ u[1].value = Len(f.data) /\ Len(f.data) # NullSize
                  /\ FieldLen(Len(f.data), u) \in 0..Len(f.data)
                  /\ 2 + FieldLen(Len(f.data), u) \in 0..Len(u)
                  /\ Values(SubSeq(u, 3, Len(u)), FieldLen(Len(f.data), u))
                       = SubSeq(f.data, 1, FieldLen(Len(f.data), u))
  BY <1>1, <1>8, FieldData
<1>9. CASE ~NoData(in) /\ Len(u) >= 2 /\ f.null /\ ReadField(u, 0, TRUE)
  <2>1. Len(u) \in Nat
    BY <1>8, <1>9
  <2>2. FieldLen(0, u) = 0 /\ 0 - 0 = 0 /\ 2 + 0 = 2 /\ ~(0 < 0)
    BY <1>9, <2>1 DEF FieldLen
  <2>3. Values(SubSeq(u, 3, Len(u)), 0) = << >>
    BY DEF Values
  <2>4. ~FieldRefused(Type, << >>, 0)
    BY DEF FieldRefused
  <2> DEFINE text == Lead \o FieldValue(Type, << >>, 0, TRUE) \o RowEnd(0)
             left == Advance(Skip(in), 2)
  <2>5. FieldEnds(text, left)
    BY <1>9, <2>2, <2>3, <2>4, Zenon DEF ReadField
  <2>6. legal => Layout(left, wire)
    <3>1. 2 \in 0..Len(u)
      BY <1>9, <2>1
    <3> QED
      BY <1>5, <1>9, <3>1
  <2> HIDE DEF text, left
  <2> QED
    BY <1>1, <2>5, <2>6, FieldGoesOn
<1>10. CASE ~NoData(in) /\ Len(u) >= 2 /\ ~f.null /\ ReadField(u, Len(f.data), FALSE)
  <2> DEFINE total == Len(f.data)
             len == FieldLen(total, u)
             data == SubSeq(f.data, 1, len)
             rest == total - len
             left == Advance(Skip(in), 2 + len)
             text == Lead \o FieldValue(Type, data, rest, FALSE) \o RowEnd(rest)
  <2>1. /\ f.data \in Seq(STRING) /\ total \in Nat /\ Len(u) \in Nat
        /\ len \in 0..total /\ 2 + len \in 0..Len(u)
        /\ Values(SubSeq(u, 3, Len(u)), len) = data
    BY <1>8, <1>10
  <2>2. IF FieldRefused(Type, data, rest)
          THEN ReturnError /\ UNCHANGED <<state, cur_col, json, exhausted>>
          ELSE IF len < total THEN FieldContinues(text, left)
                              ELSE FieldEnds(text, left)
    BY <1>10, <2>1, Zenon DEF ReadField
  <2>3. legal => Layout(left, wire)
    BY <1>5, <1>10, <2>1
  <2>4. CASE FieldRefused(Type, data, rest)
    <3>1. ReturnError /\ UNCHANGED exhausted
      BY <2>2, <2>4
    <3>2. ASSUME legal, ValidResult(res)
          PROVE  FALSE
      <4>1. ValidField(col, f)
        BY <1>2, <3>2, FieldIsValid
      <4>2. Type = col.type
        BY <1>3 DEF Type
      <4>3. len = 0 => f.data = << >>
        <5> SUFFICES ASSUME len = 0, f.data # << >> PROVE FALSE
          OBVIOUS
        <5>1. total # 0
          BY <2>1, EmptySeq, SMTT(30)
        <5>2. Len(u) = 2
          BY <1>10, <2>1, <5>1 DEF FieldLen
        <5>3. LegalCut(u, Drop(RestOfWire, 2)) /\ u[2] = RestOfWire[2]
          <6>1. 2 \in 1..Len(u)
            BY <5>2
          <6> QED
            BY <1>5, <1>10, <3>2, <5>2, <6>1
        <5>4. u[Len(u)].kind = "size_rest"
          BY <1>4, <5>2, <5>3
        <5>5. Drop(RestOfWire, 2) # << >> /\ Drop(RestOfWire, 2)[1].kind = "char"
          BY <1>4, <1>10
        <5> QED
          BY <5>3, <5>4, <5>5 DEF LegalCut
      <4> HIDE DEF len, f, col
      <4>4. ~FieldRefused(col.type, SubSeq(f.data, 1, len), Len(f.data) - len)
        BY <1>3, <1>10, <2>1, <4>1, <4>3, NotRefused
      <4> QED
        BY <2>4, <4>2, <4>4
    <3> QED
      BY <1>1, <3>1, <3>2, LegalError
  <2>5. CASE ~FieldRefused(Type, data, rest)
    <3>1. FieldContinues(text, left) \/ FieldEnds(text, left)
      BY <2>2, <2>5
    <3> HIDE DEF text, left
    <3> QED
      BY <1>1, <2>3, <3>1, FieldGoesOn
  <2> QED
    BY <2>4, <2>5
<1>11. CASE /\ ~NoData(in) /\ Len(u) >= 2
            /\ IF u[1].value = NullSize THEN ReadField(u, 0, TRUE)
                                        ELSE ReadField(u, u[1].value, FALSE)
  <2>1. CASE f.null
    BY <1>8, <1>9, <1>11, <2>1
  <2>2. CASE ~f.null
    <3>1. u[1].value = Len(f.data) /\ Len(f.data) # NullSize
      BY <1>8, <1>11, <2>2
    <3>2. ReadField(u, Len(f.data), FALSE)
      BY <1>11, <3>1, Zenon
    <3> QED
      BY <1>10, <1>11, <2>2, <3>2
  <2> QED
    BY <2>1, <2>2
<1> QED
  BY <1>6, <1>7, <1>11 DEF ProcessField

\* process_more_field_data finds data in memory, and digits after the sign.
LEMMA MoreLegal ==
  ASSUME ConvInv, HeaderInv, LegalInv, ProcessMoreFieldData,
         UNCHANGED <<response, upstreamVars, body, raw, failed>>
  PROVE  LegalInv'
<1> DEFINE k == cur_col
           n == field_data_rest
           f == res.rows[row][k + 1]
           col == res.cols[k + 1]
<1>1. pc = "process_more_field_data" /\ pc \in Functions /\ UNCHANGED Others
  BY DEF ProcessMoreFieldData, Functions, Others, ReturnOk
<1>2. /\ state = "expect_more_field_data" /\ Place /\ in \in Seq(Bufs) /\ wire \in Wire
      /\ Chunks(in) \o wire = RestOfWire
  BY <1>1, Running, UnreadIsChunks DEF Place, Placed
<1>3. /\ cols = res.cols /\ res \in ResultSets /\ f \in Fields /\ col \in Columns
      /\ ~f.null /\ n \in 1..(Len(f.data) - 1) /\ n \in Nat
  BY <1>2, InField DEF Place, MorePlace
<1>4. /\ RestOfWire[1].kind = "char" /\ RestOfWire # << >>
  <2>1. n > 0 /\ RestOfWire[1].kind = "char" /\ Len(RestOfWire) >= n
    BY <1>2, MoreToCome
  <2>2. Len(RestOfWire) # 0
    <3>1. RestOfWire \in Wire
      <4>1. Chunks(in) \in Wire
        BY <1>2, UnitsOfType
      <4>2. Chunks(in) \o wire \in Wire
        BY <1>2, <4>1, WireConcat
      <4> QED
        BY <1>2, <4>2
    <3>2. Len(RestOfWire) \in Nat
      BY <3>1, LenProperties DEF Wire
    <3> QED
      BY <1>3, <2>1, <3>2
  <2> QED
    BY <2>1, <2>2, EmptySeq
<1>5. ASSUME legal, in # << >>
      PROVE  InMemory(in[1]) /\ Layout(in, wire)
  <2>1. Layout(in, wire)
    BY <1>5 DEF LegalInv
  <2>2. /\ in[1] \in Bufs /\ Len(in) \in Nat \ {0} /\ Tail(in) \in Seq(Bufs)
        /\ Chunks(in) = in[1].units \o Chunks(Tail(in))
    BY <1>2, <1>5, HeadOf
  <2>3. BufInPlace(in, wire, 1)
    BY <2>1, <2>2 DEF Layout
  <2>4. in[1].kind # "special"
    <3> SUFFICES ASSUME in[1].kind = "special" PROVE FALSE
      OBVIOUS
    <3>1. in[1].units = << >>
      BY <2>2 DEF Bufs
    <3>2. Chunks(Tail(in)) \in Wire
      BY <2>2, UnitsOfType
    <3>3. Chunks(in) = Chunks(Tail(in))
      BY <2>2, <3>1, <3>2, WireEmpty
    <3>4. Tail(in) = Drop(in, 1)
      BY DEF Drop
    <3>5. Chunks(Drop(in, 1)) \o wire = RestOfWire
      BY <1>2, <3>3, <3>4
    <3> QED
      BY <1>4, <2>3, <3>5 DEF BufInPlace
  <2>5. in[1].kind # "file"
    BY <2>3 DEF BufInPlace
  <2>6. in[1].kind \in {"mem", "special", "file"}
    BY <2>2 DEF Bufs
  <2> QED
    BY <2>1, <2>4, <2>5, <2>6 DEF InMemory
<1>6. CASE ReturnOk
  BY <1>1, <1>6, LegalReturns
<1>7. CASE in # << >> /\ ~InMemory(in[1]) /\ ReturnError /\ UNCHANGED exhausted
  BY <1>1, <1>5, <1>7, LegalError
<1>8. CASE in # << >> /\ InMemory(in[1]) /\ ReadMore(in[1].units)
  <2> DEFINE u == in[1].units
             m == Missing(res, row, k, n)
             len == IF Len(u) >= n THEN n ELSE Len(u)
             data == Values(u, len)
             rest == n - len
             left == Advance(in, len)
             text == MoreValue(Type, data, rest) \o RowEnd(rest)
  <2>1. /\ len \in 0..n /\ len \in 0..Len(u) /\ data = SubSeq(m, 1, len)
    BY <1>1, <1>8, MoreData
  <2>2. IF MoreRefused(Type, data)
          THEN ReturnError /\ UNCHANGED <<state, cur_col, json, exhausted>>
          ELSE IF rest > 0 THEN FieldContinues(text, left) ELSE FieldEnds(text, left)
    BY <1>8, Zenon DEF ReadMore
  <2>3. legal => Layout(left, wire)
    <3> SUFFICES ASSUME legal PROVE Layout(left, wire)
      OBVIOUS
    <3>1. Layout(in, wire) /\ in[1].kind = "mem"
      BY <1>5, <1>8 DEF InMemory
    <3> HIDE DEF len
    <3> QED
      BY <1>2, <1>8, <2>1, <3>1, LayoutAdvance
  <2>4. CASE MoreRefused(Type, data)
    <3>1. ReturnError /\ UNCHANGED exhausted
      BY <2>2, <2>4
    <3>2. ASSUME ValidResult(res)
          PROVE  FALSE
      <4>1. ValidField(col, f)
        BY <1>2, <3>2, FieldIsValid
      <4>2. Type = col.type
        BY <1>3 DEF Type
      <4>3. m = Drop(f.data, Len(f.data) - n)
        BY DEF Missing
      <4> HIDE DEF len, f, col, m
      <4>4. ~MoreRefused(col.type, SubSeq(Drop(f.data, Len(f.data) - n), 1, len))
        BY <1>3, <2>1, <4>1, MoreNotRefused
      <4> QED
        BY <2>1, <2>4, <4>2, <4>3, <4>4
    <3> QED
      BY <1>1, <3>1, <3>2, LegalError
  <2>5. CASE ~MoreRefused(Type, data)
    <3>1. FieldContinues(text, left) \/ FieldEnds(text, left)
      BY <2>2, <2>5
    <3> HIDE DEF text, left
    <3> QED
      BY <1>1, <2>3, <3>1, FieldGoesOn
  <2> QED
    BY <2>4, <2>5, SMTT(30)
<1> QED
  BY <1>6, <1>7, <1>8 DEF ProcessMoreFieldData

-----------------------------------------------------------------------------
(* The actions around the handlers.                                        *)

\* An action that leaves the layout as it is or takes the chain away, and fails
\* only when memory does.
LEMMA LegalAround ==
  ASSUME LegalInv, UNCHANGED <<res, wire, legal>>, in' \in {in, << >>}, exhausted => exhausted',
         legal /\ ValidResult(res) /\ ~exhausted' => ~failed' /\ pc' # "error"
  PROVE  LegalInv'
<1>1. legal => Layout(in', wire)
  BY LayoutEmpty DEF LegalInv
<1>2. legal' => Layout(in', wire')
  BY <1>1
<1>3. LegalNeverFails'
  BY DEF LegalNeverFails, ValidResult
<1> QED
  BY <1>2, <1>3 DEF LegalInv

\* The header filter fails for memory only.
LEMMA HeaderFilterLegal ==
  ASSUME LegalInv, HeaderFilter
  PROVE  LegalInv'
<1>1. /\ UNCHANGED <<res, wire, legal, in>> /\ pc' = "event"
      /\ UNCHANGED <<exhausted, failed>> \/ exhausted' = TRUE
  BY DEF HeaderFilter, PassHeader, PostponeHeader, HeaderFilterFails, upstreamVars
<1> QED
  BY <1>1, LegalAround DEF LegalInv, LegalNeverFails

\* The body filter keeps the layout legal, and fails for memory only.
LEMMA BodyFilterLegal ==
  ASSUME ConvInv, HeaderInv, LegalInv, BodyFilter
  PROVE  LegalInv'
<1>1. CASE PassThrough \/ Discard \/ OutputBufs
  <2>1. /\ UNCHANGED <<res, wire, legal, exhausted, failed>> /\ in' \in {in, << >>}
        /\ pc' \in {pc, "event"}
    BY <1>1 DEF PassThrough, Discard, OutputBufs, upstreamVars
  <2> QED
    BY <2>1, LegalAround DEF LegalInv, LegalNeverFails
<1>2. CASE Dispatch
  <2>1. /\ UNCHANGED <<res, wire, legal, in, exhausted, failed>> /\ pc' = Handler
        /\ state # "done"
    BY <1>2 DEF Dispatch, upstreamVars
  <2>2. pc' # "error"
    <3>1. state \in States
      BY DEF ConvInv, ParserType
    <3> QED
      BY <2>1, <3>1 DEF Handler, States
  <2> QED
    BY <2>1, <2>2, LegalAround DEF LegalInv, LegalNeverFails
<1>3. CASE ProcessStep
  <2>1. UNCHANGED <<response, upstreamVars, body, raw, failed>>
    BY <1>3 DEF ProcessStep
  <2> QED
    BY <1>3, <2>1, HeaderLegal, ColLegal, OutputLegal, RowLegal, FieldLegal, MoreLegal
    DEF ProcessStep, Process
<1>4. CASE HandleError
  <2>1. /\ UNCHANGED <<res, wire, legal, in, exhausted>> /\ pc = "error" /\ pc' = "event"
    BY <1>4 DEF HandleError, upstreamVars
  <2> QED
    BY <2>1, LegalAround DEF LegalInv, LegalNeverFails
<1> QED
  BY <1>1, <1>2, <1>3, <1>4 DEF BodyFilter

\* What upstream puts on the chain is in its place as long as legal says so.
LEMMA UpstreamLegal ==
  ASSUME ConvInv, LegalInv, Upstream
  PROVE  LegalInv'
<1>1. in \in Seq(Bufs) /\ wire \in Wire /\ Len(in) \in Nat /\ DOMAIN in = 1..Len(in)
  BY LenProperties DEF ConvInv, DataType
<1>2. LegalNeverFails' /\ UNCHANGED <<exhausted, failed, pc, res>> /\ (legal' => legal)
  <2>1. UNCHANGED <<exhausted, failed, pc, res>> /\ (legal' => legal)
    BY DEF Upstream, AddMem, AddSpecial, AddFile
  <2> QED
    BY <2>1 DEF LegalInv, LegalNeverFails, ValidResult
<1>3. ASSUME NEW b \in Bufs, in' = Append(in, b), wire' \in Wire, wire = b.units \o wire',
             legal, BufInPlace(Append(in, b), wire', Len(in) + 1)
      PROVE  Layout(in', wire')
  <2>1. Layout(in, b.units \o wire')
    BY <1>3 DEF LegalInv
  <2> DEFINE w == wire'
  <2>2. w \in Wire /\ Layout(in, b.units \o w) /\ BufInPlace(Append(in, b), w, Len(in) + 1)
    BY <1>3, <2>1
  <2> HIDE DEF w
  <2>3. Layout(Append(in, b), w)
    BY <1>1, <2>2, LayoutAppend
  <2> QED
    BY <1>3, <2>3 DEF w
<1>4. ASSUME NEW b \in Bufs
      PROVE  LET c == Append(in, b)
             IN /\ c[Len(in) + 1] = b /\ Chunks(Drop(c, Len(in) + 1)) = << >>
                /\ \A i \in 1..Len(in) : c[i] = in[i]
  <2> DEFINE c == Append(in, b)
             n == Len(in) + 1
  <2>1. c \in Seq(Bufs) /\ Len(c) = n /\ c[n] = b /\ \A i \in 1..Len(in) : c[i] = in[i]
    BY <1>1, AppendProperties
  <2>2. n \in Nat /\ n \in 0..n
    BY <1>1
  <2> HIDE DEF c, n
  <2>3. Drop(c, n) \in Seq(Bufs) /\ Len(Drop(c, n)) = n - n
    BY <2>1, <2>2, DropType
  <2>4. Drop(c, n) = << >>
    BY <2>2, <2>3, EmptySeq
  <2>5. Chunks(Drop(c, n)) = << >>
    BY <2>4, ChunksEmpty
  <2> QED
    BY <2>1, <2>5 DEF c, n
<1>5. ASSUME NEW n \in 1..Len(wire), AddMem(n), legal'
      PROVE  Layout(in', wire')
  <2> DEFINE sent == SubSeq(wire, 1, n)
             rest == SubSeq(wire, n + 1, Len(wire))
             b == [kind |-> "mem", units |-> sent]
             c == Append(in, b)
  <2>1. in' = c /\ wire' = rest /\ legal /\ LegalCut(sent, rest)
    BY <1>5 DEF AddMem
  <2>2. sent \in Wire /\ rest \in Wire /\ wire = sent \o rest /\ Len(sent) = n /\ n # 0
    <3>1. wire \in Seq(WireUnits) /\ n \in 0..Len(wire) /\ n # 0
      BY <1>1, LenProperties DEF Wire
    <3>2. sent \in Seq(WireUnits) /\ Len(sent) = n
      BY <3>1, TakeType
    <3>3. Drop(wire, n) \in Seq(WireUnits) /\ wire = sent \o Drop(wire, n)
      BY <3>1, DropType, TakeAndDrop
    <3>4. rest = Drop(wire, n)
      BY DEF Drop
    <3> QED
      BY <3>1, <3>2, <3>3, <3>4 DEF Wire
  <2>3. sent # << >>
    BY <2>2, EmptySeq
  <2>4. b \in Bufs /\ b.units = sent /\ b.kind = "mem"
    BY <2>2 DEF Bufs
  <2>5. << >> \o rest = rest
    BY <2>2, WireEmpty
  <2> HIDE DEF b, sent, rest
  <2>6. c[Len(in) + 1] = b /\ Chunks(Drop(c, Len(in) + 1)) \o rest = rest
    BY <1>4, <2>4, <2>5
  <2>7. BufInPlace(c, rest, Len(in) + 1)
    BY <2>1, <2>3, <2>4, <2>6 DEF BufInPlace
  <2> QED
    BY <1>3, <2>1, <2>2, <2>4, <2>7
<1>6. ASSUME AddSpecial, legal'
      PROVE  Layout(in', wire')
  <2> DEFINE b == [kind |-> "special", units |-> << >>]
             c == Append(in, b)
  <2>1. /\ in' = c /\ wire' = wire /\ legal
        /\ wire # << >> => wire[1].kind # "char" /\ \A i \in DOMAIN in : in[i].kind = "mem"
    BY <1>6 DEF AddSpecial
  <2>2. b \in Bufs /\ b.units = << >> /\ b.kind = "special"
    BY WireEmpty DEF Bufs
  <2>3. << >> \o wire = wire
    BY <1>1, WireEmpty
  <2> HIDE DEF b
  <2>4. /\ c[Len(in) + 1] = b /\ Chunks(Drop(c, Len(in) + 1)) \o wire = wire
        /\ \A i \in 1..Len(in) : c[i] = in[i]
    BY <1>4, <2>2, <2>3
  <2>5. (Len(in) + 1) - 1 = Len(in)
    BY <1>1
  <2>6. wire # << >> => \A j \in 1..((Len(in) + 1) - 1) : c[j].kind = "mem"
    BY <1>1, <2>1, <2>4, <2>5
  <2>7. BufInPlace(c, wire, Len(in) + 1)
    BY <2>1, <2>2, <2>4, <2>6 DEF BufInPlace
  <2> QED
    BY <1>1, <1>3, <2>1, <2>2, <2>3, <2>7
<1>7. AddFile => ~legal'
  BY DEF AddFile
<1>8. legal' => Layout(in', wire')
  BY <1>5, <1>6, <1>7 DEF Upstream
<1> QED
  BY <1>2, <1>8 DEF LegalInv

\* That a legal layout is taken is inductive, given the other two invariants.
LEMMA NextLegal ==
  HeaderInv /\ ConvInv /\ LegalInv /\ [Next]_vars => LegalInv'
<1> SUFFICES ASSUME HeaderInv, ConvInv, LegalInv, [Next]_vars PROVE LegalInv'
  OBVIOUS
<1>1. CASE UNCHANGED vars
  <2>1. UNCHANGED <<in, pc, exhausted, failed, res, wire, legal>>
    BY <1>1 DEF vars, upstreamVars
  <2> QED
    BY <2>1, LegalAround DEF LegalInv, LegalNeverFails
<1> QED
  BY <1>1, HeaderFilterLegal, UpstreamLegal, BodyFilterLegal DEF Next

\* A valid result set of any size, cut in any way that the filter accepts, never
\* makes the body filter fail, unless memory runs out or a filter below fails:
\* the return NGX_ERROR branches of the process_* functions are not reached.
THEOREM LegalIsConverted == Spec => []LegalNeverFails
<1>1. Spec => [](HeaderInv /\ ConvInv)
  BY HeaderProtocol, Conversion, PTL
<1>2. Init => LegalInv
  <2> SUFFICES ASSUME Init PROVE LegalInv
    OBVIOUS
  <2>1. in = << >> /\ ~failed /\ pc # "error"
    BY DEF Init
  <2> QED
    BY <2>1, LayoutEmpty DEF LegalInv, LegalNeverFails
<1>3. HeaderInv /\ ConvInv /\ LegalInv /\ [Next]_vars => LegalInv'
  BY NextLegal
<1>4. LegalInv => LegalNeverFails
  BY DEF LegalInv
<1> QED
  BY <1>1, <1>2, <1>3, <1>4, PTL DEF Spec
=============================================================================
