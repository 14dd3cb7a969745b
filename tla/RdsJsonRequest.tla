--------------------------- MODULE RdsJsonRequest ---------------------------
(***************************************************************************)
(* One request, end to end: the filters and handlers of RdsJsonFilter on   *)
(* top of the output buffers of RdsJsonBuf, the upstream in front of them  *)
(* and the client behind them.                                             *)
(*                                                                         *)
(* The handlers run on while output_* calls return to them; such a call is *)
(* a run of the buffer manager (buf_pc), and its failure is theirs.  Byte  *)
(* i of the buffer manager is token i of the JSON text.                    *)
(***************************************************************************)
EXTENDS RdsJsonFilter

CONSTANTS
  BufSize,      \* rds_json_buffer_size
  LongestText   \* bound: no JSON text is longer (RdsJsonBuf's MaxLen, MaxBytes)

\* See RdsJsonBuf.
ASSUME RequestAssumption == BufSize \in Nat \ {0} /\ LongestText \in Nat \ {0}

VARIABLES
  buf_pc, main, dead, ended, piece, out_buf, avail_out, out, busy_bufs,
  free_bufs, postponed, cached, seen_stream_end, mem, held, delivered, eof,
  text  \* history: the JSON text of the result set

Buf == INSTANCE RdsJsonBuf WITH
         pc <- buf_pc, done <- ended, nbytes <- Len(json),
         MaxLen <- LongestText, MaxBytes <- LongestText

filterVars == vars
bufVars == <<buf_pc, main, dead, ended, piece, out_buf, avail_out, out, busy_bufs,
             free_bufs, postponed, cached, seen_stream_end, mem, held, delivered, eof>>
allVars == <<filterVars, bufVars, text>>

RequestInit == Init /\ Buf!Init /\ text = Render(res, conf)

\* No call of the body filter is running, and the request goes on.
Idle == buf_pc = "event" /\ ~dead

\* Calls and steps that do not reach the buffers.
HeaderFilterRuns == HeaderFilter /\ UNCHANGED bufVars
UpstreamRuns == Idle /\ Upstream /\ UNCHANGED bufVars
ChainPassed == Idle /\ (PassThrough \/ Discard) /\ UNCHANGED bufVars

\* The body filter calls the handler of ctx->state.
HandlerCalled == Idle /\ Dispatch /\ Buf!Enter

\* A handler parses, and calls the next one.
HandlerParses ==
  /\ buf_pc = "handler"
  /\ ProcessStep
  /\ json' = json /\ pc' # "error"
  /\ UNCHANGED bufVars

\* Mutant: the stream ends with a row, before the list is closed.
EndsTextMutant == state' \in {"done", "expect_row"}

\* The pieces that are emitted in state_done end the response.
EndsText == state' = "done"

\* A handler calls an output_* function.
HandlerOutputs ==
  /\ buf_pc = "handler"
  /\ ProcessStep
  /\ json' # json
  /\ Buf!Output(Len(json') - Len(json), EndsText)

\* A handler returns NGX_ERROR.
HandlerReturnsError ==
  /\ buf_pc = "handler"
  /\ ProcessStep
  /\ pc' = "error"
  /\ Buf!HandlerFails

\* The handlers return at once when an output_* call has failed.
OutputReturns ==
  IF dead'
    THEN /\ ReturnError
         /\ exhausted' = TRUE
         /\ UNCHANGED <<requestVars, parserVars, responseVars, json, response,
                        upstreamVars, body, raw, failed>>
    ELSE UNCHANGED filterVars

\* request_mem, get_buf and submit_mem inside of an output_* call.
OutputRuns ==
  /\ UNCHANGED json
  /\ Buf!Write
  /\ OutputReturns

\* The body filter calls output_bufs after a handler that returned NGX_OK.
OutputBufsCalled == OutputBufs /\ Buf!OutputBufs

\* output_bufs passes its bufs on; the bufs it has passed on are written.
OutputBufsRuns ==
  /\ UNCHANGED filterVars
  /\ \/ Buf!Return \/ Buf!NextBodyFilter
     \/ Buf!NextBodyFilterReturns \/ Buf!NextBodyFilterFails
     \/ Buf!Recycle \/ Buf!UpdateChainsReturns

ClientReads == UNCHANGED filterVars /\ Buf!Drain

ErrorHandled == HandleError /\ UNCHANGED bufVars

CallRuns ==
  \/ HandlerParses \/ HandlerOutputs \/ HandlerReturnsError
  \/ OutputRuns \/ OutputBufsCalled \/ OutputBufsRuns \/ ErrorHandled

Step(A) == A /\ UNCHANGED text

RequestNext ==
  \/ Step(HeaderFilterRuns) \/ Step(UpstreamRuns)
  \/ Step(ChainPassed) \/ Step(HandlerCalled)
  \/ Step(CallRuns) \/ Step(ClientReads)

RequestSpec == RequestInit /\ [][RequestNext]_allVars

\* The fairness of the two components: a call that has begun runs on, nginx
\* calls the filters with what upstream has put on the chain, upstream sends
\* the data it has, and the client reads.
FairRequestSpec ==
  /\ RequestSpec
  /\ WF_allVars(Step(HeaderFilterRuns))
  /\ WF_allVars(Step(ChainPassed \/ HandlerCalled))
  /\ WF_allVars(Step(CallRuns))
  /\ WF_allVars(Step(ClientReads))
  /\ SF_allVars(Step(UpstreamRuns /\ wire' # wire))

-----------------------------------------------------------------------------
(* Properties.                                                             *)

\* What the client has received.
Received == [i \in DOMAIN delivered |-> json[delivered[i]]]

Promise == INSTANCE RdsJsonPromise WITH
             status <- headers, got <- Received,
             complete <- (eof \/ error_end), aborted <- (dead \/ failed)

\* However upstream cuts the result set, however slow the client is and
\* whatever fails on the way: the client gets a header, then a prefix of the
\* JSON text, and is told that the response is complete only when it is.
KeepsPromise == Promise!PromiseSpec

\* When the conversion has ended and the client has read what was passed on,
\* it has the whole text: nothing stays in the filter (output.c:69, the flush
\* at the end of the stream, against processor.c:285-316).
DeliveredWhole ==
  (Idle /\ state = "done" /\ ~failed /\ held = << >>) => Received = text

\* A result set that upstream sends whole in a legal layout reaches a client
\* that keeps reading.
LegalDelivered ==
  (~Skipped /\ ~head /\ ValidResult(res))
    ~> (Received = text \/ ~legal \/ exhausted \/ dead)
=============================================================================
