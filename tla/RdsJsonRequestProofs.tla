------------------------ MODULE RdsJsonRequestProofs ------------------------
(***************************************************************************)
(* Theorems about RdsJsonRequest, the module from end to end, for every    *)
(* result set, layout, configuration, buffer size and speed of the client: *)
(* a client that has read everything has the whole JSON text, and every    *)
(* step is one that RdsJsonPromise allows.                                 *)
(*                                                                         *)
(* The two components keep their invariants: every step is a step of       *)
(* RdsJsonFilter, or an output_* call that fails (OutputFails), and every  *)
(* step is one of RdsJsonBuf (Out).  JointInv ties the one to the other.   *)
(***************************************************************************)
EXTENDS RdsJsonRequest, RdsJsonFilterProofs, TLAPS

\* What is proved about output.c.
Out == INSTANCE RdsJsonBufProofs WITH
         pc <- buf_pc, done <- ended, nbytes <- Len(json),
         MaxLen <- LongestText, MaxBytes <- LongestText

LEMMA Parameters == Out!BufSizeAssumption /\ Out!BoundsAssumption
BY RequestAssumption DEF Out!BufSizeAssumption, Out!BoundsAssumption

Active == Functions \cup Outputs
Writing == {"get_buf", "request_mem", "submit_mem"}
Sending == {"send", "next_body_filter", "update_chains"}

\* Where the call of the body filter and the call of output.c stand.
Places ==
  /\ pc \in Active \cup {"header_filter", "event", "output_bufs", "error"}
  /\ buf_pc \in {"event", "handler"} \cup Writing \cup Sending
  /\ dead \in BOOLEAN /\ ended \in BOOLEAN
  /\ dead => buf_pc = "event"
  /\ buf_pc \in {"handler"} \cup Writing => pc \in Active \cup {"output_bufs"}
  /\ buf_pc \in Sending => pc = "event"
  /\ (buf_pc = "event" /\ ~dead) => pc \in {"header_filter", "event"}
  /\ pc = "header_filter" => buf_pc = "event" /\ ~dead /\ ~failed /\ ~ended

\* An error reaches the client after a header, and ends the request.
Failures ==
  /\ pc = "error" => dead /\ headers # << >>
  /\ buf_pc # "event" => ~failed
  /\ (failed /\ ~dead) => json = << >>
  /\ buf_pc \in Writing => json # << >>

\* The stream of output.c ends when the conversion does, with the whole text.
EndAgrees ==
  /\ ended => state = "done" /\ pc \notin Active /\ json = text
  /\ state = "done" => ended \/ dead

JointInv == text = Render(res, conf) /\ Places /\ Failures /\ EndAgrees

RequestInv == HeaderInv /\ ConvInv /\ JointInv

-----------------------------------------------------------------------------
(* Steps of the handlers.                                                  *)

\* A function that runs is not past the end, and the last one writes
\* something.
LEMMA EmitGrows ==
  ASSUME NEW tokens \in Text, tokens # << >>, json \in Text, json' = json \o tokens
  PROVE  json' # json
<1>1. Len(json \o tokens) = Len(json) + Len(tokens) /\ Len(json) \in Nat /\ Len(tokens) \in Nat
  BY ConcatProperties, LenProperties DEF Text
<1>2. Len(tokens) # 0
  BY EmptySeq DEF Text
<1> QED
  BY <1>1, <1>2

\* What a handler does to the call.
HandlerEffect ==
  /\ pc' \in Active \cup {"output_bufs", "error"}
  /\ pc' = "error" => json' = json /\ headers' # << >>
  /\ state' = "done" /\ pc' # "error" => pc' = "output_bufs" /\ json' # json

\* A function that writes some text, or fails to.
LEMMA EmitEffect ==
  ASSUME NEW tokens, NEW next \in Active \cup {"output_bufs"}, NEW rest,
         Emit(tokens, next, rest), headers' # << >>,
         state' = "done" => next = "output_bufs" /\ tokens \in Text \ {<< >>} /\ json \in Text
  PROVE  HandlerEffect
<1>1. CASE json' = json \o tokens /\ pc' = next
  <2>1. state' = "done" => json' # json
    BY <1>1, EmitGrows
  <2>2. pc' # "error"
    BY <1>1 DEF Active, Functions, Outputs
  <2> QED
    BY <1>1, <2>1, <2>2 DEF HandlerEffect
<1>2. CASE ReturnError /\ UNCHANGED json
  BY <1>2 DEF HandlerEffect, ReturnError
<1> QED
  BY <1>1, <1>2, EmitCases

LEMMA HeaderEffect ==
  ASSUME HeaderInv, ConvInv, ProcessHeader,
         UNCHANGED <<response, upstreamVars, body, raw, failed>>
  PROVE  HandlerEffect
<1>1. /\ pc = "process_header" /\ pc \in Functions /\ state = "expect_header"
      /\ res \in ResultSets /\ conf \in Locations /\ json \in Text
  <2>1. pc = "process_header" /\ pc \in Functions
    BY DEF ProcessHeader, Functions
  <2> QED
    BY <2>1, Running DEF Place, Placed
<1>2. headers = << >> /\ ~header_sent
  BY <1>1 DEF HeaderInv, HeaderInStep, LeftAlone
<1>3. Append(<< >>, 200) # << >> /\ Append(<< >>, 500) # << >>
  OBVIOUS
<1>4. CASE ReturnOk
  BY <1>1, <1>4 DEF ReturnOk, HandlerEffect, parserVars
<1>5. CASE SendInvalid
  BY <1>1, <1>2, <1>3, <1>5 DEF SendInvalid, ReturnError, HandlerEffect, parserVars
<1>6. CASE /\ ~NoData(in) /\ HeaderParses(Units(in))
           /\ Len(Units(in)[1].value.cols) = 0 /\ EmptyResult(Units(in)[1].value.header)
  <2> DEFINE text_ == HeaderObject(Units(in)[1].value.header)
  <2>1. text_ \in Text /\ text_ # << >>
    <3>1. Units(in)[1].value = res
      BY <1>1, <1>6, HeaderIsRead
    <3>2. res.cols = << >>
      <4>1. Len(res.cols) = 0
        BY <1>6, <3>1
      <4>2. res.cols \in Seq(Columns)
        BY <1>1, ResultSetType
      <4> QED
        BY <4>1, <4>2, EmptySeq
    <3>3. text_ = HeaderText(res.header, conf)
      BY <3>1, HeaderObjectText
    <3> QED
      BY <1>1, <3>2, <3>3, HeaderRendered
  <2>2. headers' # << >> /\ Emit(text_, "output_bufs", << >>)
    BY <1>2, <1>3, <1>6 DEF EmptyResult, SendHeader
  <2> HIDE DEF text_
  <2> QED
    BY <1>1, <2>1, <2>2, EmitEffect
<1>7. ASSUME NEW n, NEW rest, ExpectColumns(n, rest)
      PROVE  HandlerEffect
  BY <1>2, <1>3, <1>7
  DEF ExpectColumns, SendHeader, ReturnError, HandlerEffect, Active, Functions
<1> QED
  BY <1>4, <1>5, <1>6, <1>7 DEF ProcessHeader

\* The functions after process_header run with the header sent, before the end.
LEMMA LaterRuns ==
  ASSUME HeaderInv, ConvInv, pc \in Later
  PROVE  headers = <<200>> /\ headers # << >> /\ state # "done" /\ json \in Text
         /\ res \in ResultSets /\ conf \in Locations
<1>1. pc \in Functions \cup Outputs /\ ~Skipped
  BY DEF Later, HeaderInv, LeftAlone, Functions, Outputs
<1>2. headers = <<200>>
  BY <1>1 DEF HeaderInv, HeaderInStep, Later
<1> QED
  BY <1>1, <1>2, Running

LEMMA ColEffect ==
  ASSUME HeaderInv, ConvInv, ProcessCol
  PROVE  HandlerEffect
<1>1. pc \in Later
  BY DEF ProcessCol, Later, Functions
<1>2. headers # << >> /\ state # "done"
  BY <1>1, LaterRuns
<1> QED
  BY <1>2
  DEF ProcessCol, ReturnOk, ReturnError, HandlerEffect, parserVars, responseVars, Active,
      Functions, Outputs

LEMMA OutputsEffect ==
  ASSUME HeaderInv, ConvInv, OutputProps \/ OutputList \/ OutputCols
  PROVE  HandlerEffect
<1>1. pc \in Later
  BY DEF OutputProps, OutputList, OutputCols, Later, Outputs
<1>2. headers # << >> /\ state # "done"
  BY <1>1, LaterRuns
<1>3. headers' # << >> /\ state' # "done"
  BY <1>2 DEF OutputProps, OutputList, OutputCols, parserVars, responseVars
<1>4. {"output_list", "output_cols", "process_row"} \subseteq Active \cup {"output_bufs"}
  BY DEF Active, Functions, Outputs
<1>5. ASSUME NEW tokens, NEW next \in Active \cup {"output_bufs"}, NEW rest,
             Emit(tokens, next, rest)
      PROVE  HandlerEffect
  BY <1>3, <1>5, EmitEffect
<1> QED
  BY <1>4, <1>5 DEF OutputProps, OutputList, OutputCols

LEMMA RowEffect ==
  ASSUME HeaderInv, ConvInv, ProcessRow
  PROVE  HandlerEffect
<1>1. pc \in Later
  BY DEF ProcessRow, Later, Functions
<1>2. headers # << >> /\ state # "done" /\ json \in Text /\ conf \in Locations
  BY <1>1, LaterRuns
<1>3. headers' # << >>
  BY <1>2 DEF ProcessRow, ReturnOk, responseVars
<1>4. CASE EndOfRows(Units(in)) /\ Emit(Closing, "output_bufs", << >>)
  <2>1. Closing = Closes(conf)
    BY Zenon DEF Closing, Closes
  <2>2. Closing \in Text \ {<< >>}
    <3>1. Closing # << >>
      BY DEF Closing
    <3> QED
      BY <1>2, <2>1, <3>1, BracketsType
  <2> QED
    BY <1>2, <1>3, <1>4, <2>2, EmitEffect
<1>5. CASE ~(EndOfRows(Units(in)) /\ Emit(Closing, "output_bufs", << >>))
  BY <1>2, <1>3, <1>5
  DEF ProcessRow, EndOfRows, NextRow, ReturnOk, ReturnError, HandlerEffect, parserVars,
      Active, Functions
<1> QED
  BY <1>4, <1>5

\* The parts of a field.
LEMMA PartEffect ==
  ASSUME NEW tokens, NEW rest, FieldEnds(tokens, rest) \/ FieldContinues(tokens, rest),
         headers' # << >>
  PROVE  HandlerEffect
<1>1. /\ state' # "done"
      /\ \E next \in {"process_row", "process_field", "process_more_field_data"} :
           Emit(tokens, next, rest)
  BY DEF FieldEnds, FieldContinues
<1>2. {"process_row", "process_field", "process_more_field_data"} \subseteq Active
  BY DEF Active, Functions
<1> QED
  BY <1>1, <1>2, EmitEffect

LEMMA FieldEffect ==
  ASSUME HeaderInv, ConvInv, ProcessField
  PROVE  HandlerEffect
<1>1. pc \in Later
  BY DEF ProcessField, Later, Functions
<1>2. headers # << >> /\ state # "done"
  BY <1>1, LaterRuns
<1>3. headers' # << >>
  BY <1>2 DEF ProcessField, ReturnOk, responseVars
<1>4. CASE ReturnOk
  BY <1>2, <1>4 DEF ReturnOk, HandlerEffect, parserVars
<1>5. CASE ReturnError /\ UNCHANGED <<state, json>>
  BY <1>2, <1>3, <1>5 DEF ReturnError, HandlerEffect
<1>6. ASSUME NEW units, NEW total, NEW is_null, ReadField(units, total, is_null)
      PROVE  HandlerEffect
  BY <1>3, <1>5, <1>6, PartEffect DEF ReadField
<1> QED
  BY <1>4, <1>5, <1>6 DEF ProcessField, parserVars

LEMMA MoreEffect ==
  ASSUME HeaderInv, ConvInv, ProcessMoreFieldData
  PROVE  HandlerEffect
<1>1. pc \in Later
  BY DEF ProcessMoreFieldData, Later, Functions
<1>2. headers # << >> /\ state # "done"
  BY <1>1, LaterRuns
<1>3. headers' # << >>
  BY <1>2 DEF ProcessMoreFieldData, ReturnOk, responseVars
<1>4. CASE ReturnOk
  BY <1>2, <1>4 DEF ReturnOk, HandlerEffect, parserVars
<1>5. CASE ReturnError /\ UNCHANGED <<state, json>>
  BY <1>2, <1>3, <1>5 DEF ReturnError, HandlerEffect
<1>6. ASSUME NEW units, ReadMore(units)
      PROVE  HandlerEffect
  BY <1>3, <1>5, <1>6, PartEffect DEF ReadMore
<1> QED
  BY <1>4, <1>5, <1>6 DEF ProcessMoreFieldData, parserVars

LEMMA HandlerStep ==
  ASSUME HeaderInv, ConvInv, ProcessStep
  PROVE  /\ pc \in Active /\ state # "done" /\ ~failed /\ json \o RestOfText = Render(res, conf)
         /\ HandlerEffect /\ Grows
         /\ UNCHANGED <<requestVars, response, upstreamVars, body, raw, failed>>
<1>1. pc \in Active
  BY DEF ProcessStep, Process, ProcessHeader, ProcessCol, ProcessRow, OutputProps, OutputList,
         OutputCols, ProcessField, ProcessMoreFieldData, Active, Functions, Outputs
<1>2. state # "done" /\ ~failed /\ json \o RestOfText = Render(res, conf)
  BY <1>1, Running DEF Active, Live
<1>3. HandlerEffect
  BY HeaderEffect, ColEffect, RowEffect, OutputsEffect, FieldEffect, MoreEffect
  DEF ProcessStep, Process
<1>4. UNCHANGED requestVars
  BY DEF ProcessStep, Process, ProcessHeader, ProcessCol, ProcessRow, OutputProps, OutputList,
         OutputCols, ProcessField, ProcessMoreFieldData, ReturnOk, SendInvalid, EmptyResult,
         ExpectColumns
<1> QED
  BY <1>1, <1>2, <1>3, <1>4, ProcessConverts DEF ProcessStep

-----------------------------------------------------------------------------
(* An output_* call that fails.                                            *)

OutputFails ==
  /\ pc \in Active \cup {"output_bufs"} /\ ~failed
  /\ ReturnError
  /\ exhausted' = TRUE
  /\ UNCHANGED <<requestVars, parserVars, responseVars, json, response, upstreamVars,
                 body, raw, failed>>

LEMMA OutputFailsKeeps ==
  ASSUME HeaderInv, ConvInv, OutputFails
  PROVE  HeaderInv' /\ ConvInv'
<1>1. /\ pc' = "error" /\ in' = << >> /\ exhausted' = TRUE /\ ~failed
      /\ pc \in Functions \cup Outputs \cup {"output_bufs"}
      /\ UNCHANGED <<conf, head, state, cols, col_count, cur_col, row, field_data_rest,
                     header_sent, attached, headers, header_only, error_end, json,
                     response, res, wire, legal, body, raw, failed>>
  BY DEF OutputFails, ReturnError, requestVars, parserVars, responseVars, upstreamVars, Active
<1>2. ~Skipped /\ UNCHANGED Skipped
  BY <1>1 DEF HeaderInv, LeftAlone, Skipped, Functions, Outputs
<1>3. HeaderInv'
  BY <1>1, <1>2
  DEF HeaderInv, LeftAlone, HeaderInStep, ErrorInStep, Answered, Functions, Outputs
<1>4. ControlType' /\ ParserType'
  BY <1>1 DEF ConvInv, ControlType, ParserType
<1>5. DataType'
  BY <1>1, EmptySeq DEF ConvInv, DataType
<1>6. ~Live' /\ ~Reading' /\ Fresh'
  BY <1>1 DEF Live, Reading, Fresh
<1>7. TextInv'
  BY <1>1 DEF ConvInv, TextInv
<1> QED
  BY <1>3, <1>4, <1>5, <1>6, <1>7 DEF ConvInv

\* A step of the filter, or a failure.
LEMMA FilterStepKeeps ==
  HeaderInv /\ ConvInv /\ ([Next]_vars \/ OutputFails) => HeaderInv' /\ ConvInv'
<1>1. HeaderInv /\ [Next]_vars => HeaderInv'
  BY NextKeepsHeader
<1> QED
  BY <1>1, NextConverts, OutputFailsKeeps

-----------------------------------------------------------------------------
(* What the actions of output.c do to what JointInv is about.              *)

\* Inside of an output_* call.
LEMMA WriteEffect ==
  ASSUME Buf!Write, dead = FALSE
  PROVE  /\ buf_pc \in Writing
         /\ \/ dead' = TRUE /\ buf_pc' = "event"
            \/ dead' = FALSE /\ buf_pc' \in Writing \cup {"handler"}
         /\ UNCHANGED <<ended, held, delivered, eof>>
BY DEF Buf!Write, Buf!GetBuf, Buf!KeepBuf, Buf!ReuseBuf, Buf!CreateBuf, Buf!GetBufReturn,
       Buf!GetBufFails, Buf!Fail, Buf!SubmitDirect, Buf!Postpone, Buf!PostponeFails,
       Buf!CopyPostponed, Buf!SaveOutBuf, Buf!handlerVars, Buf!clientVars, Writing

\* output_bufs.
LEMMA OutputBufsEffect ==
  ASSUME Buf!OutputBufs, dead = FALSE
  PROVE  /\ buf_pc = "handler"
         /\ \/ dead' = TRUE /\ buf_pc' = "event"
            \/ dead' = FALSE /\ buf_pc' = "send"
         /\ UNCHANGED <<ended, held, delivered, eof>>
BY DEF Buf!OutputBufs, Buf!SaveOutBuf, Buf!clientVars

LEMMA SendEffect ==
  ASSUME OutputBufsRuns, dead = FALSE
  PROVE  /\ buf_pc \in Sending
         /\ \/ dead' = TRUE /\ buf_pc' = "event"
            \/ dead' = FALSE /\ buf_pc' \in Sending \cup {"event"}
         /\ UNCHANGED <<ended, delivered, eof, filterVars>>
BY DEF OutputBufsRuns, Buf!Return, Buf!NextBodyFilter, Buf!NextBodyFilterReturns,
       Buf!NextBodyFilterFails, Buf!Fail, Buf!Recycle, Buf!UpdateChainsReturns,
       Buf!handlerVars, Buf!clientVars, Sending

LEMMA DrainEffect ==
  ASSUME ClientReads
  PROVE  /\ ~dead /\ held # << >>
         /\ delivered' = delivered \o mem[Head(held)].data
         /\ UNCHANGED <<buf_pc, dead, ended, filterVars>>
BY DEF ClientReads, Buf!Drain, Buf!handlerVars

LEMMA FilterKept ==
  ASSUME UNCHANGED filterVars
  PROVE  /\ UNCHANGED vars /\ RestOfText' = RestOfText
         /\ UNCHANGED <<conf, head, pc, in, state, cols, col_count, cur_col, row, field_data_rest,
                        header_sent, attached, headers, header_only, error_end, json, exhausted,
                        response, res, wire, legal, body, raw, failed>>
BY DEF filterVars, vars, requestVars, parserVars, responseVars, upstreamVars, RestOfText

-----------------------------------------------------------------------------
(* The steps of a request.                                                 *)

\* Steps of the filter that leave output.c alone.
LEMMA BufsKept ==
  ASSUME UNCHANGED bufVars
  PROVE  UNCHANGED <<buf_pc, main, dead, ended, piece, out_buf, avail_out, out, busy_bufs,
                     free_bufs, postponed, cached, seen_stream_end, mem, held, delivered, eof>>
BY DEF bufVars

\* Every step is one of the filter, or a failure in an output_* call.
LEMMA RequestActs ==
  ASSUME RequestInv, RequestNext
  PROVE  [Next]_vars \/ OutputFails
<1>1. CASE Step(HeaderFilterRuns) \/ Step(UpstreamRuns) \/ Step(ChainPassed) \/ Step(HandlerCalled)
  BY <1>1 DEF Step, HeaderFilterRuns, UpstreamRuns, ChainPassed, HandlerCalled, Next, BodyFilter
<1>2. CASE HandlerParses \/ HandlerOutputs \/ HandlerReturnsError
  BY <1>2 DEF HandlerParses, HandlerOutputs, HandlerReturnsError, Next, BodyFilter
<1>3. CASE OutputRuns
  <2>1. dead = FALSE
    BY <1>3
    DEF OutputRuns, RequestInv, JointInv, Places, Buf!Write, Buf!GetBuf, Buf!GetBufFails,
        Buf!SubmitDirect, Buf!Postpone, Buf!PostponeFails, Buf!CopyPostponed
  <2>2. buf_pc \in Writing
    BY <1>3, <2>1, WriteEffect DEF OutputRuns
  <2>3. pc \in Active \cup {"output_bufs"} /\ ~failed
    BY <2>2 DEF RequestInv, JointInv, Places, Failures, Writing
  <2> QED
    BY <1>3, <2>3 DEF OutputRuns, OutputReturns, OutputFails, filterVars
<1>4. CASE OutputBufsCalled \/ ErrorHandled
  BY <1>4 DEF OutputBufsCalled, ErrorHandled, Next, BodyFilter
<1>5. CASE OutputBufsRuns \/ ClientReads
  BY <1>5 DEF OutputBufsRuns, ClientReads, filterVars
<1> QED
  BY <1>1, <1>2, <1>3, <1>4, <1>5 DEF RequestNext, CallRuns, Step

\* The header filter.
LEMMA HeaderFilterJoint ==
  ASSUME RequestInv, HeaderFilterRuns, UNCHANGED text
  PROVE  JointInv'
<1>1. /\ pc = "header_filter" /\ pc' = "event"
      /\ UNCHANGED <<conf, state, json, res, dead, ended, buf_pc>>
  BY BufsKept
  DEF HeaderFilterRuns, HeaderFilter, PassHeader, PostponeHeader, HeaderFilterFails,
      requestVars, parserVars, upstreamVars
<1>2. json = << >>
  BY <1>1 DEF RequestInv, HeaderInv, LeftAlone, HeaderInStep, ConvInv, Fresh
<1> QED
  BY <1>1, <1>2
  DEF RequestInv, JointInv, Places, Failures, EndAgrees, Active, Functions, Outputs, Writing, Sending

\* Upstream, and the chains that the filter does not convert.
LEMMA ChainJoint ==
  ASSUME RequestInv, UpstreamRuns \/ ChainPassed, UNCHANGED text
  PROVE  JointInv'
<1>1. UNCHANGED <<conf, pc, state, headers, json, res, failed, dead, ended, buf_pc>>
  BY BufsKept
  DEF UpstreamRuns, Upstream, AddMem, AddSpecial, AddFile, ChainPassed, PassThrough, Discard,
      requestVars, parserVars, responseVars, upstreamVars
<1> QED
  BY <1>1 DEF RequestInv, JointInv, Places, Failures, EndAgrees

\* The body filter calls a handler.
LEMMA CalledJoint ==
  ASSUME RequestInv, HandlerCalled, UNCHANGED text
  PROVE  JointInv'
<1>1. /\ pc = "event" /\ ~failed /\ state # "done" /\ pc' = Handler
      /\ UNCHANGED <<conf, state, headers, json, res, failed>>
  BY DEF HandlerCalled, Dispatch, requestVars, parserVars, responseVars, upstreamVars
<1>2. ~dead /\ ~ended /\ buf_pc' = "handler" /\ UNCHANGED <<dead, ended>>
  BY DEF HandlerCalled, Buf!Enter, Buf!handlerVars
<1>3. pc' \in Functions
  BY <1>1, DispatchKeeps, DispatchConverts
  DEF RequestInv, HandlerCalled, Handler, Functions, HeaderInv, States
<1>4. pc' \in Active /\ pc' \notin {"header_filter", "event", "error"}
  BY <1>3 DEF Active, Functions
<1> QED
  BY <1>1, <1>2, <1>4
  DEF RequestInv, JointInv, Places, Failures, EndAgrees, Active, Functions, Outputs, Writing, Sending

\* A handler parses.
LEMMA ParsesJoint ==
  ASSUME RequestInv, HandlerParses, UNCHANGED text
  PROVE  JointInv'
<1>1. buf_pc = "handler" /\ ProcessStep /\ json' = json /\ pc' # "error"
      /\ UNCHANGED <<dead, ended, buf_pc>>
  BY BufsKept DEF HandlerParses
<1>2. /\ pc \in Active /\ state # "done" /\ ~failed /\ HandlerEffect
      /\ UNCHANGED <<conf, res, failed>>
  BY <1>1, HandlerStep DEF RequestInv, requestVars, upstreamVars
<1>3. state' # "done" /\ pc' \in Active \cup {"output_bufs"}
  BY <1>1, <1>2 DEF HandlerEffect
<1>4. pc' \notin {"header_filter", "event"}
  BY <1>3 DEF Active, Functions, Outputs
<1> QED
  BY <1>1, <1>2, <1>3, <1>4
  DEF RequestInv, JointInv, Places, Failures, EndAgrees, Writing, Sending

\* A handler calls an output_* function, at the end with the last of the text.
LEMMA OutputsJoint ==
  ASSUME RequestInv, HandlerOutputs, UNCHANGED text, ConvInv'
  PROVE  JointInv'
<1>1. buf_pc = "handler" /\ ProcessStep /\ json' # json
      /\ Buf!Output(Len(json') - Len(json), EndsText)
  BY DEF HandlerOutputs
<1>2. /\ pc \in Active /\ state # "done" /\ ~failed /\ HandlerEffect
      /\ UNCHANGED <<conf, res, failed>>
  BY <1>1, HandlerStep DEF RequestInv, requestVars, upstreamVars
<1>3. buf_pc' = "get_buf" /\ ended' = EndsText /\ UNCHANGED dead
  BY <1>1 DEF Buf!Output
<1>4. pc' \in Active \cup {"output_bufs"} /\ pc' \notin {"error", "header_filter", "event"}
  BY <1>1, <1>2 DEF HandlerEffect, Active, Functions, Outputs
<1>5. json' # << >>
  <2>1. json \in Text /\ json' \in Text /\ IsPrefix(json, json')
    BY <1>1, HandlerStep DEF RequestInv, ConvInv, DataType, Grows
  <2>2. Len(json) \in Nat /\ Len(json') \in Nat /\ Len(json) <= Len(json')
    BY <2>1, LenProperties DEF IsPrefix, Text
  <2> QED
    BY <1>1, <2>1, <2>2, EmptySeq DEF Text
<1>6. ASSUME state' = "done"
      PROVE  json' = text' /\ pc' = "output_bufs"
  <2>1. json' \o RestOfText' = Render(res, conf)'
    BY <1>2, <1>4 DEF ConvInv, TextInv
  <2>2. RestOfText' = << >>
    BY <1>6 DEF RestOfText, TextFrom
  <2>3. json' \in Text
    BY DEF ConvInv, DataType
  <2>4. json' \o << >> = json'
    BY <2>3, TextEmpty
  <2>5. text = Render(res, conf) /\ Render(res, conf)' = Render(res, conf)
    BY <1>2 DEF RequestInv, JointInv
  <2> QED
    BY <1>2, <1>4, <1>6, <2>1, <2>2, <2>4, <2>5 DEF HandlerEffect
<1>7. "output_bufs" \notin Active
  BY DEF Active, Functions, Outputs
<1>8. text' = Render(res, conf)' /\ dead' = FALSE /\ ended' \in BOOLEAN
  BY <1>1, <1>2, <1>3 DEF RequestInv, JointInv, Places, EndsText
<1>9. Places'
  BY <1>3, <1>4, <1>8 DEF Places, Writing, Sending
<1>10. Failures' /\ EndAgrees'
  BY <1>2, <1>3, <1>4, <1>5, <1>6, <1>7, <1>8 DEF Failures, EndAgrees, EndsText
<1> QED
  BY <1>8, <1>9, <1>10 DEF JointInv

\* A handler refuses what it reads, or has no memory.
LEMMA ErrorJoint ==
  ASSUME RequestInv, HandlerReturnsError, UNCHANGED text
  PROVE  JointInv'
<1>1. ProcessStep /\ pc' = "error" /\ ~ended
      /\ dead' = TRUE /\ buf_pc' = "event" /\ UNCHANGED ended
  BY DEF HandlerReturnsError, Buf!HandlerFails, Buf!Fail, Buf!handlerVars
<1>2. ~failed /\ HandlerEffect /\ UNCHANGED <<conf, res, failed>>
  BY <1>1, HandlerStep DEF RequestInv, requestVars, upstreamVars
<1> QED
  BY <1>1, <1>2
  DEF RequestInv, JointInv, Places, Failures, EndAgrees, HandlerEffect, Writing, Sending

\* An output_* function runs.
LEMMA OutputRunsJoint ==
  ASSUME RequestInv, OutputRuns, UNCHANGED text
  PROVE  JointInv'
<1>1. dead = FALSE
  BY DEF OutputRuns, RequestInv, JointInv, Places, Buf!Write, Buf!GetBuf, Buf!GetBufFails,
     Buf!SubmitDirect, Buf!Postpone, Buf!PostponeFails, Buf!CopyPostponed
<1>2. /\ buf_pc \in Writing /\ UNCHANGED ended
      /\ \/ dead' = TRUE /\ buf_pc' = "event"
         \/ dead' = FALSE /\ buf_pc' \in Writing \cup {"handler"}
  BY <1>1, WriteEffect DEF OutputRuns
<1>3. /\ pc \in Active \cup {"output_bufs"} /\ ~failed /\ json # << >>
  BY <1>2 DEF RequestInv, JointInv, Places, Failures, Writing
<1>4. headers # << >>
  BY <1>3 DEF RequestInv, HeaderInv, LeftAlone, HeaderInStep
<1>5. /\ UNCHANGED <<conf, res, state, headers, json, failed>>
      /\ IF dead' THEN pc' = "error" ELSE pc' = pc
  BY FilterKept
  DEF OutputRuns, OutputReturns, ReturnError, requestVars, parserVars, responseVars, upstreamVars
<1>6. "error" \notin Active /\ "header_filter" \notin Active \cup {"output_bufs"}
  BY DEF Active, Functions, Outputs
<1> QED
  BY <1>1, <1>2, <1>3, <1>4, <1>5, <1>6
  DEF RequestInv, JointInv, Places, Failures, EndAgrees, Writing, Sending

\* output_bufs begins.
LEMMA OutputBufsJoint ==
  ASSUME RequestInv, OutputBufsCalled, UNCHANGED text
  PROVE  JointInv'
<1>1. pc = "output_bufs" /\ pc' = "event" /\ UNCHANGED <<conf, res, state, headers, json, failed>>
  BY DEF OutputBufsCalled, OutputBufs, requestVars, parserVars, responseVars, upstreamVars
<1>2. dead = FALSE
  BY DEF OutputBufsCalled, Buf!OutputBufs, RequestInv, JointInv, Places
<1>3. /\ buf_pc = "handler" /\ UNCHANGED ended
      /\ \/ dead' = TRUE /\ buf_pc' = "event"
         \/ dead' = FALSE /\ buf_pc' = "send"
  BY <1>2, OutputBufsEffect DEF OutputBufsCalled
<1>4. "event" \notin Active
  BY DEF Active, Functions, Outputs
<1> QED
  BY <1>1, <1>2, <1>3, <1>4
  DEF RequestInv, JointInv, Places, Failures, EndAgrees, Writing, Sending

\* output_bufs runs.
LEMMA SendJoint ==
  ASSUME RequestInv, OutputBufsRuns, UNCHANGED text
  PROVE  JointInv'
<1>1. dead = FALSE
  BY DEF OutputBufsRuns, Buf!Return, Buf!NextBodyFilter, Buf!NextBodyFilterReturns,
     Buf!NextBodyFilterFails, Buf!Recycle, Buf!UpdateChainsReturns, RequestInv, JointInv, Places
<1>2. /\ buf_pc \in Sending /\ UNCHANGED <<ended, filterVars>>
      /\ \/ dead' = TRUE /\ buf_pc' = "event"
         \/ dead' = FALSE /\ buf_pc' \in Sending \cup {"event"}
  BY <1>1, SendEffect
<1>3. UNCHANGED <<conf, res, pc, state, headers, json, failed>>
  BY <1>2, FilterKept
<1> QED
  BY <1>1, <1>2, <1>3 DEF RequestInv, JointInv, Places, Failures, EndAgrees, Writing, Sending

\* The client reads.
LEMMA ReadsJoint ==
  ASSUME RequestInv, ClientReads, UNCHANGED text
  PROVE  JointInv'
<1>1. UNCHANGED <<buf_pc, dead, ended, conf, res, pc, state, headers, json, failed>>
  BY DrainEffect, FilterKept
<1> QED
  BY <1>1 DEF RequestInv, JointInv, Places, Failures, EndAgrees

\* The body filter handles an error.
LEMMA HandledJoint ==
  ASSUME RequestInv, ErrorHandled, UNCHANGED text
  PROVE  JointInv'
<1>1. /\ pc = "error" /\ pc' = "event" /\ state' = "done" /\ failed' = TRUE
      /\ UNCHANGED <<conf, res, json, buf_pc, dead, ended>>
  BY BufsKept DEF ErrorHandled, HandleError, requestVars, upstreamVars
<1>2. "event" \notin Active
  BY DEF Active, Functions, Outputs
<1> QED
  BY <1>1, <1>2 DEF RequestInv, JointInv, Places, Failures, EndAgrees, Writing, Sending

LEMMA JointStep ==
  ASSUME RequestInv, RequestNext, ConvInv'
  PROVE  JointInv'
BY HeaderFilterJoint, ChainJoint, CalledJoint, ParsesJoint, OutputsJoint, ErrorJoint,
   OutputRunsJoint, OutputBufsJoint, SendJoint, ReadsJoint, HandledJoint
DEF RequestNext, CallRuns, Step

LEMMA InitJoint == RequestInit => RequestInv
<1> SUFFICES ASSUME RequestInit PROVE RequestInv
  OBVIOUS
<1>1. HeaderInv
  BY DEF RequestInit, Init, HeaderInv, LeftAlone, HeaderInStep, ErrorInStep, States, Functions,
         Outputs
<1>2. ConvInv
  BY InitConverts DEF RequestInit
<1>3. JointInv
  BY DEF RequestInit, Init, Buf!Init, JointInv, Places, Failures, EndAgrees, Writing, Sending
<1> QED
  BY <1>1, <1>2, <1>3 DEF RequestInv

\* The invariants of the filter, and what ties it to output.c.
LEMMA RequestStep == RequestInv /\ [RequestNext]_allVars => RequestInv'
<1> SUFFICES ASSUME RequestInv, [RequestNext]_allVars PROVE RequestInv'
  OBVIOUS
<1>1. CASE RequestNext
  <2>1. HeaderInv' /\ ConvInv'
    BY <1>1, RequestActs, FilterStepKeeps DEF RequestInv
  <2> QED
    BY <1>1, <2>1, JointStep DEF RequestInv
<1>2. CASE UNCHANGED allVars
  <2>1. UNCHANGED <<filterVars, bufVars, text>>
    BY <1>2 DEF allVars
  <2>2. HeaderInv' /\ ConvInv'
    BY <2>1, FilterKept, FilterStepKeeps DEF RequestInv
  <2>3. JointInv'
    BY <2>1, FilterKept, BufsKept DEF RequestInv, JointInv, Places, Failures, EndAgrees
  <2> QED
    BY <2>2, <2>3 DEF RequestInv
<1> QED
  BY <1>1, <1>2

LEMMA RequestInvariant == RequestSpec => []RequestInv
BY InitJoint, RequestStep, PTL DEF RequestSpec

-----------------------------------------------------------------------------
(* Every step is a step of output.c.                                       *)

LEMMA BufInit == RequestInit => Out!Init
<1>1. Len(<< >>) = 0
  BY EmptySeq
<1> QED
  BY <1>1 DEF RequestInit, Init, Buf!Init, Out!Init, Buf!NoPiece, Out!NoPiece

\* An output_* function is called with a piece of some length.
LEMMA OutputCalled ==
  ASSUME RequestInv, HandlerOutputs
  PROVE  \E n \in 0..LongestText, last \in BOOLEAN : Out!Output(n, last)
<1> DEFINE n == Len(json') - Len(json)
<1>1. Buf!Output(n, EndsText) /\ ProcessStep
  BY DEF HandlerOutputs
<1>2. json \in Text /\ json' \in Text /\ IsPrefix(json, json')
  BY <1>1, HandlerStep, ProcessConverts DEF RequestInv, ConvInv, DataType, Grows
<1>3. Len(json) \in Nat /\ Len(json') \in Nat /\ Len(json) <= Len(json')
  BY <1>2, LenProperties DEF IsPrefix, Text
<1>4. Len(json) + n <= LongestText
  BY <1>1 DEF Buf!Output
<1>5. n \in 0..LongestText
  BY <1>3, <1>4, RequestAssumption
<1>6. EndsText \in BOOLEAN
  BY DEF EndsText
<1>7. Out!Output(n, EndsText)
  <2> HIDE DEF n
  <2> QED
    BY <1>1
    DEF Buf!Output, Out!Output, Buf!MarksLast, Out!MarksLast, Buf!EndsStream, Out!EndsStream,
        Buf!Bytes, Out!Bytes, Buf!chainVars, Out!chainVars, Buf!writerVars, Out!writerVars,
        Buf!clientVars, Out!clientVars
<1> QED
  BY <1>5, <1>6, <1>7

LEMMA WriteIsOut == Buf!Write => Out!Write
<1>1. Buf!GetBuf \/ Buf!GetBufFails => Out!GetBuf \/ Out!GetBufFails
  BY DEF Buf!GetBuf, Buf!KeepBuf, Buf!ReuseBuf, Buf!CreateBuf, Buf!GetBufReturn, Buf!GetBufFails,
         Buf!Fail, Buf!handlerVars, Buf!chainVars, Buf!writerVars, Buf!clientVars,
         Out!GetBuf, Out!KeepBuf, Out!ReuseBuf, Out!CreateBuf, Out!GetBufReturn, Out!GetBufFails,
         Out!Fail, Out!handlerVars, Out!chainVars, Out!writerVars, Out!clientVars
<1>2. Buf!SubmitDirect => Out!SubmitDirect
  BY DEF Buf!SubmitDirect, Buf!FitsInBuf, Buf!Filled, Buf!Full, Buf!SaveOutBuf,
         Buf!handlerVars, Buf!clientVars,
         Out!SubmitDirect, Out!FitsInBuf, Out!Filled, Out!Full, Out!SaveOutBuf,
         Out!handlerVars, Out!clientVars
<1>3. Buf!Postpone \/ Buf!PostponeFails => Out!Postpone \/ Out!PostponeFails
  BY DEF Buf!Postpone, Buf!PostponeFails, Buf!FitsInBuf, Buf!CacheSize, Buf!Fail,
         Buf!handlerVars, Buf!chainVars, Buf!writerVars, Buf!clientVars,
         Out!Postpone, Out!PostponeFails, Out!FitsInBuf, Out!CacheSize, Out!Fail,
         Out!handlerVars, Out!chainVars, Out!writerVars, Out!clientVars
<1>4. Buf!CopyPostponed => Out!CopyPostponed
  BY DEF Buf!CopyPostponed, Buf!CopyLen, Buf!PostponedRest, Buf!Full, Buf!SaveOutBuf,
         Buf!Filled, Buf!CopiedFlag, Buf!handlerVars, Buf!clientVars,
         Out!CopyPostponed, Out!CopyLen, Out!PostponedRest, Out!Full, Out!SaveOutBuf,
         Out!Filled, Out!CopiedFlag, Out!handlerVars, Out!clientVars
<1> QED
  BY <1>1, <1>2, <1>3, <1>4 DEF Buf!Write, Out!Write

LEMMA SendIsOut == Buf!OutputBufs \/ OutputBufsRuns => Out!Send
<1>1. Buf!OutputBufs => Out!OutputBufs
  BY DEF Buf!OutputBufs, Buf!PassesPartial, Buf!SaveOutBuf, Buf!clientVars,
         Out!OutputBufs, Out!PassesPartial, Out!SaveOutBuf, Out!clientVars
<1>2. Buf!Return => Out!Return
  BY DEF Buf!Return, Out!Return, Buf!handlerVars, Out!handlerVars, Buf!chainVars, Out!chainVars,
         Buf!writerVars, Out!writerVars, Buf!clientVars, Out!clientVars
<1>3. Buf!NextBodyFilter => Out!NextBodyFilter
  BY DEF Buf!NextBodyFilter, Out!NextBodyFilter, Buf!handlerVars, Out!handlerVars,
         Buf!chainVars, Out!chainVars, Buf!writerVars, Out!writerVars
<1>4. Buf!NextBodyFilterReturns => Out!NextBodyFilterReturns
  BY DEF Buf!NextBodyFilterReturns, Out!NextBodyFilterReturns, Buf!handlerVars, Out!handlerVars,
         Buf!writerVars, Out!writerVars, Buf!clientVars, Out!clientVars
<1>5. Buf!NextBodyFilterFails => Out!NextBodyFilterFails
  BY DEF Buf!NextBodyFilterFails, Out!NextBodyFilterFails, Buf!Fail, Out!Fail,
         Buf!handlerVars, Out!handlerVars, Buf!chainVars, Out!chainVars,
         Buf!writerVars, Out!writerVars, Buf!clientVars, Out!clientVars
<1>6. Buf!Recycle => Out!Recycle
  BY DEF Buf!Recycle, Out!Recycle, Buf!Consumed, Out!Consumed, Buf!ToSet, Out!ToSet,
         Buf!handlerVars, Out!handlerVars, Buf!writerVars, Out!writerVars,
         Buf!clientVars, Out!clientVars
<1>7. Buf!UpdateChainsReturns => Out!UpdateChainsReturns
  BY DEF Buf!UpdateChainsReturns, Out!UpdateChainsReturns, Buf!Consumed, Out!Consumed,
         Buf!ToSet, Out!ToSet, Buf!handlerVars, Out!handlerVars, Buf!chainVars, Out!chainVars,
         Buf!writerVars, Out!writerVars, Buf!clientVars, Out!clientVars
<1> QED
  BY <1>1, <1>2, <1>3, <1>4, <1>5, <1>6, <1>7 DEF OutputBufsRuns, Out!Send

LEMMA EndsIsOut ==
  /\ Buf!Enter => Out!Enter
  /\ Buf!HandlerFails => Out!HandlerFails
  /\ Buf!Drain => Out!Drain
<1>1. Buf!Enter => Out!Enter
  BY DEF Buf!Enter, Out!Enter, Buf!handlerVars, Out!handlerVars, Buf!chainVars, Out!chainVars,
         Buf!writerVars, Out!writerVars, Buf!clientVars, Out!clientVars
<1>2. Buf!HandlerFails => Out!HandlerFails
  BY DEF Buf!HandlerFails, Out!HandlerFails, Buf!Fail, Out!Fail,
         Buf!handlerVars, Out!handlerVars, Buf!chainVars, Out!chainVars,
         Buf!writerVars, Out!writerVars, Buf!clientVars, Out!clientVars
<1>3. Buf!Drain => Out!Drain
  BY DEF Buf!Drain, Out!Drain, Buf!handlerVars, Out!handlerVars, Buf!chainVars, Out!chainVars,
         Buf!writerVars, Out!writerVars
<1> QED
  BY <1>1, <1>2, <1>3

\* The text stays what it is when only the filter, or nothing, steps.
LEMMA NothingOut ==
  ASSUME UNCHANGED <<bufVars, json>>
  PROVE  UNCHANGED Out!vars
BY BufsKept DEF Out!vars, Out!handlerVars, Out!chainVars, Out!writerVars, Out!clientVars

LEMMA BufStep == RequestInv /\ [RequestNext]_allVars => [Out!Next]_(Out!vars)
<1> SUFFICES ASSUME RequestInv, [RequestNext]_allVars PROVE [Out!Next]_(Out!vars)
  OBVIOUS
<1>1. CASE HeaderFilterRuns \/ UpstreamRuns \/ ChainPassed \/ HandlerParses \/ ErrorHandled
  <2>1. UNCHANGED <<bufVars, json>>
    BY <1>1
    DEF HeaderFilterRuns, HeaderFilter, PassHeader, PostponeHeader, HeaderFilterFails,
        UpstreamRuns, Upstream, AddMem, AddSpecial, AddFile, ChainPassed, PassThrough, Discard,
        HandlerParses, ErrorHandled, HandleError
  <2> QED
    BY <2>1, NothingOut
<1>2. CASE HandlerCalled \/ HandlerReturnsError \/ ClientReads
  BY <1>2, EndsIsOut DEF HandlerCalled, HandlerReturnsError, ClientReads, Out!Next
<1>3. CASE HandlerOutputs
  BY <1>3, OutputCalled DEF Out!Next
<1>4. CASE OutputRuns
  BY <1>4, WriteIsOut DEF OutputRuns, Out!Next
<1>5. CASE OutputBufsCalled \/ OutputBufsRuns
  BY <1>5, SendIsOut DEF OutputBufsCalled, Out!Next
<1>6. CASE UNCHANGED allVars
  BY <1>6, NothingOut, FilterKept DEF allVars
<1> QED
  BY <1>1, <1>2, <1>3, <1>4, <1>5, <1>6 DEF RequestNext, CallRuns, Step

\* Under the handlers, the client and the failures of a request output.c runs as
\* RdsJsonBuf lets it, so that what is proved of RdsJsonBuf holds there.
THEOREM RequestRunsBuf == RequestSpec => Out!Spec
BY BufInit, BufStep, RequestInvariant, PTL DEF RequestSpec, Out!Spec

\* What the client sees of output.c.
LEMMA ClientInvariant == RequestSpec => []Out!ClientSide
<1>1. Out!Spec => []Out!ClientSide
  BY Parameters, Out!ClientSideHolds
<1> QED
  BY <1>1, RequestRunsBuf, PTL

-----------------------------------------------------------------------------
(* What the client has received.                                           *)

LEMMA TakeTwice ==
  ASSUME NEW s \in Text, NEW m \in 0..Len(s), NEW k \in 0..m
  PROVE  /\ SubSeq(s, 1, m) \in Text /\ Len(SubSeq(s, 1, m)) = m
         /\ SubSeq(s, 1, k) \in Text /\ Len(SubSeq(s, 1, k)) = k
         /\ SubSeq(SubSeq(s, 1, m), 1, k) = SubSeq(s, 1, k)
<1>1. s \in Seq(Tokens) /\ Len(s) \in Nat /\ m \in Nat /\ k \in Nat /\ k \in 0..Len(s)
  BY LenProperties DEF Text
<1> DEFINE a == SubSeq(s, 1, m)
           b == SubSeq(s, 1, k)
<1>2. /\ a \in Seq(Tokens) /\ Len(a) = m /\ \A i \in 1..m : a[i] = s[i]
      /\ b \in Seq(Tokens) /\ Len(b) = k /\ \A i \in 1..k : b[i] = s[i]
  BY <1>1, TakeType
<1> HIDE DEF a, b
<1> DEFINE c == SubSeq(a, 1, k)
<1>3. c \in Seq(Tokens) /\ Len(c) = k /\ \A i \in 1..k : c[i] = a[i]
  <2>1. k \in 0..Len(a)
    BY <1>2
  <2> QED
    BY <1>2, <2>1, TakeType
<1> HIDE DEF c
<1>4. \A i \in 1..Len(c) : c[i] = b[i]
  BY <1>1, <1>2, <1>3
<1>5. c = b
  BY <1>2, <1>3, <1>4, SeqEqual
<1> QED
  BY <1>2, <1>5 DEF a, b, c, Text

\* A prefix begins with the same tokens.
LEMMA PrefixTake ==
  ASSUME NEW s \in Text, NEW t \in Text, IsPrefix(s, t), NEW k \in 0..Len(s)
  PROVE  SubSeq(t, 1, k) = SubSeq(s, 1, k)
<1>1. /\ Len(s) \in Nat /\ Len(t) \in Nat /\ Len(s) \in 0..Len(s) /\ Len(s) \in 0..Len(t)
      /\ SubSeq(s, 1, Len(s)) = SubSeq(t, 1, Len(s))
  BY LenProperties DEF IsPrefix, Text
<1>2. SubSeq(SubSeq(s, 1, Len(s)), 1, k) = SubSeq(s, 1, k)
  BY <1>1, TakeTwice
<1>3. SubSeq(SubSeq(t, 1, Len(s)), 1, k) = SubSeq(t, 1, k)
  BY <1>1, TakeTwice
<1> QED
  BY <1>1, <1>2, <1>3, Zenon

\* The first tokens of a text are a prefix of more of them.
LEMMA TakePrefix ==
  ASSUME NEW s \in Text, NEW m \in 0..Len(s), NEW k \in 0..m
  PROVE  Promise!IsPrefix(SubSeq(s, 1, k), SubSeq(s, 1, m))
<1> DEFINE a == SubSeq(s, 1, k)
           b == SubSeq(s, 1, m)
<1>1. a \in Text /\ Len(a) = k /\ b \in Text /\ Len(b) = m /\ SubSeq(b, 1, k) = a
  BY TakeTwice
<1>2. k <= m
  BY LenProperties DEF Text
<1> HIDE DEF a, b
<1>3. SubSeq(a, 1, Len(a)) = a
  BY <1>1, SubSeqFull DEF Text
<1>4. Len(a) <= Len(b) /\ SubSeq(a, 1, Len(a)) = SubSeq(b, 1, Len(a))
  BY <1>1, <1>2, <1>3
<1>5. Promise!IsPrefix(a, b)
  BY <1>4 DEF Promise!IsPrefix
<1> QED
  BY <1>5 DEF a, b

\* Token i of the text is byte i of output.c.
LEMMA TokensOf ==
  ASSUME NEW j \in Text, NEW d \in Seq(Nat), Len(d) \in 0..Len(j), d = Out!Bytes(0, Len(d))
  PROVE  [i \in DOMAIN d |-> j[d[i]]] = SubSeq(j, 1, Len(d))
<1> DEFINE k == Len(d)
           x == SubSeq(j, 1, k)
           y == [i \in DOMAIN d |-> j[d[i]]]
<1>1. j \in Seq(Tokens) /\ Len(j) \in Nat /\ k \in Nat /\ k <= Len(j) /\ DOMAIN d = 1..k
  BY LenProperties DEF Text
<1>2. x \in Seq(Tokens) /\ Len(x) = k /\ \A i \in 1..k : x[i] = j[i]
  BY <1>1, TakeType
<1>3. \A i \in 1..k : d[i] = i
  <2>1. \A i \in 1..k : Out!Bytes(0, k)[i] = 0 + i
    BY DEF Out!Bytes
  <2> QED
    BY <1>1, <2>1
<1>4. y = [i \in 1..k |-> j[i]]
  BY <1>1, <1>3
<1>5. x = [i \in 1..k |-> x[i]]
  BY <1>2, LenProperties
<1> HIDE DEF x, y, k
<1>6. x = y
  BY <1>2, <1>4, <1>5
<1> QED
  BY <1>6 DEF x, y, k

LEMMA ReceivedIs ==
  ASSUME RequestInv, Out!ClientSide
  PROVE  /\ json \in Text /\ Len(delivered) \in 0..Len(json)
         /\ Received = SubSeq(json, 1, Len(delivered))
<1>1. json \in Text
  BY DEF RequestInv, ConvInv, DataType
<1>2. /\ delivered \in Seq(Nat) /\ Len(delivered) \in 0..Len(json)
      /\ delivered = Out!Bytes(0, Len(delivered))
  BY DEF Out!ClientSide
<1> QED
  BY <1>1, <1>2, TokensOf DEF Received

\* The same, after a step.
LEMMA ReceivedNext ==
  ASSUME RequestInv', Out!ClientSide'
  PROVE  /\ json' \in Text /\ Len(delivered') \in 0..Len(json')
         /\ Received' = SubSeq(json', 1, Len(delivered'))
<1>1. json' \in Text
  BY DEF RequestInv, ConvInv, DataType
<1>2. /\ delivered' \in Seq(Nat) /\ Len(delivered') \in 0..Len(json')
      /\ delivered' = Out!Bytes(0, Len(delivered'))
  BY DEF Out!ClientSide, Out!Bytes
<1> QED
  BY <1>1, <1>2, TokensOf DEF Received

\* When the conversion has ended and the client has read what was passed on, it
\* has the whole JSON text: nothing stays in the filter, whatever the layout of
\* the result set and the size of the buffers are.
THEOREM TextIsDelivered == RequestSpec => []DeliveredWhole
<1>1. RequestInv /\ Out!ClientSide => DeliveredWhole
  <2> SUFFICES ASSUME RequestInv, Out!ClientSide, Idle, state = "done", ~failed, held = << >>
               PROVE  Received = text
    BY DEF DeliveredWhole
  <2>1. ended /\ json = text
    BY DEF Idle, RequestInv, JointInv, EndAgrees
  <2>2. Len(delivered) = Len(json)
    BY <2>1 DEF Idle, Out!ClientSide
  <2>3. SubSeq(json, 1, Len(json)) = json
    BY ReceivedIs, SubSeqFull DEF Text
  <2> QED
    BY <2>1, <2>2, <2>3, ReceivedIs
<1> QED
  BY <1>1, RequestInvariant, ClientInvariant, PTL

-----------------------------------------------------------------------------
(* Every step is one that the promise to the client allows.                *)

\* The client has what it had.
LEMMA ReceivedKept ==
  ASSUME RequestInv, RequestInv', Out!ClientSide, Out!ClientSide', delivered' = delivered,
         Grows \/ json' = json
  PROVE  Received' = Received
<1>1. CASE json' = json
  BY <1>1 DEF Received
<1>2. CASE Grows
  <2>1. json \in Text /\ json' \in Text /\ Len(delivered) \in 0..Len(json)
    BY ReceivedIs, ReceivedNext
  <2>2. SubSeq(json', 1, Len(delivered)) = SubSeq(json, 1, Len(delivered))
    BY <1>2, <2>1, PrefixTake DEF Grows
  <2> QED
    BY <2>2, ReceivedIs, ReceivedNext
<1> QED
  BY <1>1, <1>2

\* A step that the client does not see, or that it sees as an abort.
LEMMA Unseen ==
  ASSUME UNCHANGED <<text, headers, eof, Received>>, error_end' <=> error_end,
         dead \/ failed => dead' \/ failed'
  PROVE  [Promise!PromiseNext]_(Promise!promiseVars)
<1>1. CASE dead' \/ failed' <=> dead \/ failed
  BY <1>1 DEF Promise!promiseVars
<1>2. CASE ~(dead \/ failed) /\ (dead' \/ failed')
  BY <1>2 DEF Promise!PromiseNext, Promise!Abort
<1> QED
  BY <1>1, <1>2

\* A response header is sent.
LEMMA Answers ==
  ASSUME RequestInv', UNCHANGED <<text, Received>>, headers = << >>, headers' # << >>,
         ~dead, ~failed, eof' = FALSE
  PROVE  Promise!PromiseNext
<1>1. headers' = <<200>> \/ headers' = <<500>>
  BY DEF RequestInv, HeaderInv
<1>2. headers' = <<200>> => ~error_end'
  <2>1. <<200>> # <<500>>
    OBVIOUS
  <2> QED
    BY <2>1 DEF RequestInv, HeaderInv, LeftAlone, HeaderInStep
<1> QED
  BY <1>1, <1>2 DEF Promise!PromiseNext, Promise!Answer

\* Before a header was sent nothing is at an end.
LEMMA NoHeaderYet ==
  ASSUME RequestInv, Out!ClientSide, headers = << >>
  PROVE  ~error_end /\ (pc \in Active \cup {"header_filter"} => eof = FALSE)
<1>1. ~error_end
  BY DEF RequestInv, HeaderInv, LeftAlone, HeaderInStep
<1>2. pc \in Active \cup {"header_filter"} => ~ended
  BY DEF RequestInv, JointInv, Places, EndAgrees
<1> QED
  BY <1>1, <1>2 DEF Out!ClientSide

LEMMA HeaderFilterPromise ==
  ASSUME RequestInv, RequestInv', Out!ClientSide, Out!ClientSide', HeaderFilterRuns,
         UNCHANGED text
  PROVE  [Promise!PromiseNext]_(Promise!promiseVars)
<1>1. /\ pc = "header_filter"
      /\ UNCHANGED <<json, error_end, dead, delivered, eof>>
  BY BufsKept
  DEF HeaderFilterRuns, HeaderFilter, PassHeader, PostponeHeader, HeaderFilterFails, responseVars
<1>2. headers = << >> /\ ~dead /\ ~failed
  BY <1>1 DEF RequestInv, HeaderInv, LeftAlone, HeaderInStep, JointInv, Places, ConvInv, Fresh
<1>3. eof = FALSE /\ Received' = Received
  BY <1>1, <1>2, NoHeaderYet, ReceivedKept
<1>4. CASE headers' # << >>
  BY <1>1, <1>2, <1>3, <1>4, Answers
<1>5. CASE headers' = << >>
  BY <1>1, <1>2, <1>3, <1>5, Unseen
<1> QED
  BY <1>4, <1>5

\* Only process_header sends a header.
LEMMA HandlerSends ==
  ASSUME HeaderInv, ProcessStep, headers # << >>
  PROVE  UNCHANGED <<headers, error_end>>
<1>1. pc # "process_header"
  BY DEF ProcessStep, HeaderInv, LeftAlone, HeaderInStep
<1> QED
  BY <1>1
  DEF ProcessStep, Process, ProcessHeader, ProcessCol, ProcessRow, OutputProps, OutputList,
      OutputCols, ProcessField, ProcessMoreFieldData, ReturnOk, responseVars

LEMMA HandlerPromise ==
  ASSUME RequestInv, RequestInv', Out!ClientSide, Out!ClientSide', buf_pc = "handler",
         ProcessStep, UNCHANGED <<text, delivered, eof>>
  PROVE  [Promise!PromiseNext]_(Promise!promiseVars)
<1>1. pc \in Active /\ ~dead /\ ~failed /\ Received' = Received
  <2>1. pc \in Active /\ Grows
    BY HandlerStep DEF RequestInv
  <2> QED
    BY <2>1, ReceivedKept DEF RequestInv, JointInv, Places, Failures
<1>2. CASE headers # << >>
  BY <1>1, <1>2, HandlerSends, Unseen DEF RequestInv
<1>3. CASE headers = << >> /\ headers' = << >>
  <2>1. ~error_end /\ ~error_end'
    BY <1>3 DEF RequestInv, HeaderInv, LeftAlone, HeaderInStep
  <2> QED
    BY <1>1, <1>3, <2>1, Unseen
<1>4. CASE headers = << >> /\ headers' # << >>
  BY <1>1, <1>4, NoHeaderYet, Answers
<1> QED
  BY <1>2, <1>3, <1>4

\* The client gets the next tokens of the text.
LEMMA ReadsPromise ==
  ASSUME RequestInv, RequestInv', Out!ClientSide, Out!ClientSide', ClientReads, UNCHANGED text
  PROVE  Promise!PromiseNext
<1>1. /\ ~dead /\ held # << >> /\ delivered' = delivered \o mem[Head(held)].data
      /\ UNCHANGED <<buf_pc, dead, ended, filterVars>>
  BY DrainEffect
<1>2. UNCHANGED <<conf, pc, state, headers, error_end, json, res, failed>>
  BY <1>1, FilterKept
<1> DEFINE k == Len(delivered)
           n == Len(delivered')
           data == mem[Head(held)].data
<1>3. k \in Nat /\ n \in Nat /\ k < n /\ n \in 0..Len(json) /\ k \in 0..n
  <2>1. delivered \in Seq(Nat) /\ data \in Seq(Nat) /\ data # << >>
    BY <1>1 DEF Out!ClientSide
  <2>2. Len(delivered \o data) = Len(delivered) + Len(data) /\ Len(delivered) \in Nat
        /\ Len(data) \in Nat /\ Len(data) # 0
    BY <2>1, ConcatProperties, LenProperties, EmptySeq
  <2>3. Len(delivered') \in 0..Len(json)
    BY <1>2, ReceivedNext
  <2>4. Len(json) \in Nat
    BY ReceivedIs, LenProperties DEF Text
  <2> QED
    BY <1>1, <2>2, <2>3, <2>4
<1>4. json \in Text /\ text \in Text /\ IsPrefix(json, text) /\ Received = SubSeq(json, 1, k)
      /\ Received' = SubSeq(json, 1, n)
  <2>1. Received = SubSeq(json, 1, k) /\ Received' = SubSeq(json, 1, n)
    BY <1>2, ReceivedIs, ReceivedNext
  <2>2. json \in Text /\ text \in Text /\ IsPrefix(json, text)
    BY RenderType DEF RequestInv, JointInv, ConvInv, DataType, TextInv
  <2> QED
    BY <2>1, <2>2
<1>5. json # << >>
  <2>1. Len(<< >>) = 0
    BY EmptySeq
  <2> QED
    BY <1>3, <2>1
<1>6. headers = <<200>> /\ ~error_end /\ ~failed
  <2>1. ~Skipped
    BY <1>5 DEF RequestInv, HeaderInv, LeftAlone
  <2>2. headers = <<200>>
    BY <1>5, <2>1 DEF RequestInv, HeaderInv, HeaderInStep
  <2>3. <<200>> # <<500>>
    OBVIOUS
  <2> QED
    BY <1>1, <1>5, <2>1, <2>2, <2>3 DEF RequestInv, HeaderInv, HeaderInStep, JointInv, Failures
<1>7. ~eof
  BY <1>3 DEF Out!ClientSide
<1>8. Promise!IsPrefix(Received, Received')
  <2>1. Promise!IsPrefix(SubSeq(json, 1, k), SubSeq(json, 1, n))
    BY <1>3, <1>4, TakePrefix
  <2> QED
    BY <1>4, <2>1
<1>9. Promise!IsPrefix(Received', text)
  <2>1. Len(json) \in Nat /\ Len(text) \in Nat /\ Len(json) <= Len(text)
    BY <1>4, LenProperties DEF IsPrefix, Text
  <2>2. SubSeq(text, 1, n) = SubSeq(json, 1, n) /\ SubSeq(text, 1, Len(text)) = text
    BY <1>3, <1>4, PrefixTake, SubSeqFull DEF Text
  <2>3. Len(text) \in 0..Len(text) /\ n \in 0..Len(text)
    BY <1>3, <2>1
  <2>4. Promise!IsPrefix(SubSeq(text, 1, n), SubSeq(text, 1, Len(text)))
    BY <1>4, <2>3, TakePrefix
  <2> QED
    BY <1>4, <2>2, <2>4
<1>10. ASSUME eof'
       PROVE  Received' = text
  <2>1. ended /\ n = Len(json)
    BY <1>1, <1>2, <1>10 DEF Out!ClientSide
  <2>2. json = text
    BY <2>1 DEF RequestInv, JointInv, EndAgrees
  <2>3. SubSeq(json, 1, Len(json)) = json
    BY <1>4, SubSeqFull DEF Text
  <2> QED
    BY <1>4, <2>1, <2>2, <2>3
<1> QED
  BY <1>1, <1>2, <1>6, <1>7, <1>8, <1>9, <1>10 DEF Promise!PromiseNext, Promise!Deliver

\* The client sees nothing of the other steps.
LEMMA QuietPromise ==
  ASSUME RequestInv, RequestInv', Out!ClientSide, Out!ClientSide',
         UNCHANGED <<text, delivered, eof, headers, error_end, json, failed>>,
         dead => dead'
  PROVE  [Promise!PromiseNext]_(Promise!promiseVars)
<1>1. Received' = Received
  BY ReceivedKept
<1> QED
  BY <1>1, Unseen

LEMMA PromiseStep ==
  ASSUME RequestInv, RequestInv', Out!ClientSide, Out!ClientSide', [RequestNext]_allVars
  PROVE  [Promise!PromiseNext]_(Promise!promiseVars)
<1>1. dead \in BOOLEAN /\ (buf_pc # "event" => dead = FALSE)
  BY DEF RequestInv, JointInv, Places
<1>2. CASE Step(HeaderFilterRuns)
  BY <1>2, HeaderFilterPromise DEF Step
<1>3. CASE Step(UpstreamRuns) \/ Step(ChainPassed)
  <2>1. UNCHANGED <<text, delivered, eof, headers, error_end, json, failed, dead>>
    BY <1>3, BufsKept
    DEF Step, UpstreamRuns, Upstream, AddMem, AddSpecial, AddFile, ChainPassed, PassThrough,
        Discard, responseVars
  <2> QED
    BY <2>1, QuietPromise
<1>4. CASE Step(HandlerCalled)
  <2>1. UNCHANGED <<text, delivered, eof, headers, error_end, json, failed, dead>>
    BY <1>4 DEF Step, HandlerCalled, Dispatch, Buf!Enter, Buf!clientVars, responseVars
  <2> QED
    BY <2>1, QuietPromise
<1>5. CASE (HandlerParses \/ HandlerOutputs \/ HandlerReturnsError) /\ UNCHANGED text
  <2>1. buf_pc = "handler" /\ ProcessStep /\ UNCHANGED <<text, delivered, eof>>
    BY <1>5, BufsKept
    DEF HandlerParses, HandlerOutputs, HandlerReturnsError, Buf!Output, Buf!HandlerFails,
        Buf!clientVars
  <2> QED
    BY <2>1, HandlerPromise
<1>6. CASE OutputRuns /\ UNCHANGED text
  <2>1. dead = FALSE
    BY <1>1, <1>6
    DEF OutputRuns, Buf!Write, Buf!GetBuf, Buf!GetBufFails, Buf!SubmitDirect, Buf!Postpone,
        Buf!PostponeFails, Buf!CopyPostponed
  <2>2. UNCHANGED <<text, delivered, eof>>
    BY <1>6, <2>1, WriteEffect DEF OutputRuns
  <2>3. UNCHANGED <<headers, error_end, json, failed>>
    BY <1>6, FilterKept DEF OutputRuns, OutputReturns, responseVars
  <2> QED
    BY <2>1, <2>2, <2>3, QuietPromise
<1>7. CASE OutputBufsCalled /\ UNCHANGED text
  <2>1. dead = FALSE
    BY <1>1, <1>7 DEF OutputBufsCalled, Buf!OutputBufs
  <2>2. UNCHANGED <<text, delivered, eof>>
    BY <1>7, <2>1, OutputBufsEffect DEF OutputBufsCalled
  <2>3. UNCHANGED <<headers, error_end, json, failed>>
    BY <1>7 DEF OutputBufsCalled, OutputBufs, responseVars
  <2> QED
    BY <2>1, <2>2, <2>3, QuietPromise
<1>8. CASE OutputBufsRuns /\ UNCHANGED text
  <2>1. dead = FALSE
    BY <1>1, <1>8
    DEF OutputBufsRuns, Buf!Return, Buf!NextBodyFilter, Buf!NextBodyFilterReturns,
        Buf!NextBodyFilterFails, Buf!Recycle, Buf!UpdateChainsReturns
  <2>2. UNCHANGED <<text, delivered, eof, filterVars>>
    BY <1>8, <2>1, SendEffect
  <2>3. UNCHANGED <<headers, error_end, json, failed>>
    BY <2>2, FilterKept
  <2> QED
    BY <2>1, <2>2, <2>3, QuietPromise
<1>9. CASE ClientReads /\ UNCHANGED text
  BY <1>9, ReadsPromise
<1>10. CASE ErrorHandled /\ UNCHANGED text
  <2>1. pc = "error" /\ UNCHANGED <<text, delivered, eof, dead, json>>
    BY <1>10, BufsKept DEF ErrorHandled, HandleError
  <2>2. dead /\ header_sent
    BY <2>1 DEF RequestInv, JointInv, Failures, HeaderInv, LeftAlone, HeaderInStep
  <2>3. UNCHANGED <<headers, error_end>>
    BY <1>10, <2>2 DEF ErrorHandled, HandleError, HeaderPending
  <2>4. Received' = Received
    BY <2>1, ReceivedKept
  <2> QED
    BY <2>1, <2>2, <2>3, <2>4, Unseen
<1>11. CASE UNCHANGED allVars
  <2>1. UNCHANGED <<text, delivered, eof, dead>> /\ UNCHANGED filterVars
    BY <1>11, BufsKept DEF allVars
  <2>2. UNCHANGED <<headers, error_end, json, failed>>
    BY <2>1, FilterKept
  <2> QED
    BY <2>1, <2>2, QuietPromise
<1> QED
  BY <1>2, <1>3, <1>4, <1>5, <1>6, <1>7, <1>8, <1>9, <1>10, <1>11 DEF RequestNext, CallRuns, Step

\* However upstream cuts the result set, however large the buffers are, however
\* slow the client is and whatever fails: the client gets one header, then a
\* growing prefix of the JSON text, and is told that the response is complete
\* only when it has the whole text.
THEOREM PromiseIsKept == RequestSpec => KeepsPromise
<1>1. RequestInit => Promise!PromiseInit
  <2> SUFFICES ASSUME RequestInit PROVE Promise!PromiseInit
    OBVIOUS
  <2>1. /\ headers = << >> /\ delivered = << >> /\ eof = FALSE /\ error_end = FALSE
        /\ dead = FALSE /\ failed = FALSE
    BY DEF RequestInit, Init, Buf!Init
  <2>2. Received = << >>
    <3>1. DOMAIN << >> = {}
      OBVIOUS
    <3> QED
      BY <2>1, <3>1 DEF Received
  <2> QED
    BY <2>1, <2>2 DEF Promise!PromiseInit
<1>2. RequestInv /\ RequestInv' /\ Out!ClientSide /\ Out!ClientSide' /\ [RequestNext]_allVars
        => [Promise!PromiseNext]_(Promise!promiseVars)
  BY PromiseStep
<1> QED
  BY <1>1, <1>2, RequestInvariant, ClientInvariant, PTL
  DEF RequestSpec, KeepsPromise, Promise!PromiseSpec
=============================================================================
