--------------------------- MODULE RdsJsonFilter ---------------------------
(***************************************************************************)
(* The header filter and the body filter                                   *)
(* (ngx_http_rds_json_filter_module.c) around the state machine of         *)
(* RdsJsonProcessor, and the upstream that feeds them.                     *)
(*                                                                         *)
(* Upstream cuts a result set into bufs wherever it likes, mixes special   *)
(* bufs in, puts a few of them on a chain, and calls the body filter.  The *)
(* history variable legal says whether the cuts made so far are among      *)
(* those the filter accepts.                                               *)
(***************************************************************************)
EXTENDS RdsJsonProcessor

CONSTANTS
  Results,   \* the result sets that upstream may send
  Responses, \* what the header filter tests: records [status_ok, enabled, is_rds]
  Formats,   \* the locations' configurations, the values of conf
  MaxChain   \* bound: bufs on one chain

ASSUME ResultsAssumption == Results \subseteq ResultSets
ASSUME FormatsAssumption == Formats \subseteq Locations
ASSUME MaxChainAssumption == MaxChain \in Nat \ {0}

VARIABLES
  response,  \* the response that reaches the header filter
  res,       \* the result set that upstream sends
  wire,      \* its units that upstream has not sent yet
  legal,     \* every cut so far is one the filter accepts
  body,      \* tokens passed to the next body filter
  raw,       \* upstream bufs were passed to it unconverted
  failed     \* the body filter has returned NGX_ERROR

upstreamVars == <<res, wire, legal>>
vars == <<requestVars, pc, in, parserVars, responseVars, json, exhausted,
          response, upstreamVars, body, raw, failed>>

Init ==
  /\ conf \in Formats
  /\ head \in BOOLEAN
  /\ response \in Responses
  /\ res \in Results
  /\ wire = Encode(res)
  /\ legal = TRUE
  /\ pc = "header_filter"
  /\ in = << >>
  /\ state = "expect_header"
  /\ cols = << >>
  /\ col_count = 0 /\ cur_col = 0 /\ row = 0 /\ field_data_rest = 0
  /\ header_sent = FALSE
  /\ attached = FALSE
  /\ headers = << >>
  /\ header_only = FALSE
  /\ json = << >>
  /\ body = << >>
  /\ raw = FALSE
  /\ error_end = FALSE
  /\ exhausted = FALSE
  /\ failed = FALSE

-----------------------------------------------------------------------------
(* The header filter.                                                      *)

Skipped == ~(response.status_ok /\ response.enabled /\ response.is_rds)

\* Not a response to convert: its header goes on as it is.
PassHeader ==
  /\ pc = "header_filter"
  /\ Skipped
  /\ headers' = Append(headers, IF response.status_ok THEN 200 ELSE 500)
  /\ header_only' = head
  /\ pc' = "event"
  /\ UNCHANGED <<requestVars, in, parserVars, header_sent, attached, error_end, json,
                 exhausted, response, upstreamVars, body, raw, failed>>

\* A ctx is attached, and the sending of the header is left to the body filter.
PostponeHeader ==
  /\ pc = "header_filter"
  /\ ~Skipped
  /\ attached' = TRUE
  /\ pc' = "event"
  /\ UNCHANGED <<requestVars, in, parserVars, header_sent, headers, header_only, error_end,
                 json, exhausted, response, upstreamVars, body, raw, failed>>

\* No memory for the ctx.
HeaderFilterFails ==
  /\ pc = "header_filter"
  /\ ~Skipped
  /\ exhausted' = TRUE
  /\ failed' = TRUE
  /\ pc' = "event"
  /\ UNCHANGED <<requestVars, in, parserVars, responseVars, json, response, upstreamVars,
                 body, raw>>

-----------------------------------------------------------------------------
(* Upstream.                                                               *)

\* The parsers take a header, a column or a field size from one buf only; a
\* field size must come with the first octet of its field; and the end of
\* the result set must be the end of its buf.
LegalCut(sent, rest) ==
  \/ rest = << >>
  \/ /\ rest[1].kind \notin {"header_rest", "col_rest", "size_rest"}
     /\ ~(sent[Len(sent)].kind = "size_rest" /\ rest[1].kind = "char")

CanAddBuf == pc = "event" /\ ~failed /\ Len(in) < MaxChain

\* A buf with the next n units.
AddMem(n) ==
  /\ CanAddBuf
  /\ LET sent == SubSeq(wire, 1, n)
         rest == SubSeq(wire, n + 1, Len(wire))
     IN /\ in' = Append(in, [kind |-> "mem", units |-> sent])
        /\ wire' = rest
        /\ legal' = (legal /\ LegalCut(sent, rest))
  /\ UNCHANGED <<requestVars, pc, parserVars, responseVars, json, exhausted, response, res,
                 body, raw, failed>>

\* A flush or last_buf mark: not inside a field, and not two on one chain.
AddSpecial ==
  /\ CanAddBuf
  /\ in' = Append(in, [kind |-> "special", units |-> << >>])
  /\ legal' = (legal /\ \/ wire = << >>
                        \/ /\ wire[1].kind # "char"
                           /\ \A i \in DOMAIN in : in[i].kind = "mem")
  /\ UNCHANGED <<requestVars, pc, parserVars, responseVars, json, exhausted, response, res,
                 wire, body, raw, failed>>

\* A buf whose data are on disk.
AddFile ==
  /\ CanAddBuf
  /\ wire # << >>
  /\ in' = Append(in, [kind |-> "file", units |-> <<wire[1]>>])
  /\ wire' = Tail(wire)
  /\ legal' = FALSE
  /\ UNCHANGED <<requestVars, pc, parserVars, responseVars, json, exhausted, response, res,
                 body, raw, failed>>

-----------------------------------------------------------------------------
(* The body filter.                                                        *)

\* The filter has nothing to convert: the chain goes to the next body filter.
PassThrough ==
  /\ pc = "event"
  /\ ~failed
  /\ in # << >>
  /\ header_only \/ ~attached
  /\ raw' = TRUE
  /\ in' = << >>
  /\ UNCHANGED <<requestVars, pc, parserVars, responseVars, json, exhausted, response,
                 upstreamVars, body, failed>>

Handler ==
  CASE state = "expect_header" -> "process_header"
    [] state = "expect_col"    -> "process_col"
    [] state = "expect_row"    -> "process_row"
    [] state = "expect_field"  -> "process_field"
    [] state = "expect_more_field_data" -> "process_more_field_data"

Dispatch ==
  /\ pc = "event"
  /\ ~failed
  /\ in # << >>
  /\ ~header_only /\ attached
  /\ state # "done"
  /\ pc' = Handler
  /\ UNCHANGED <<requestVars, in, parserVars, responseVars, json, exhausted, response,
                 upstreamVars, body, raw, failed>>

\* Mutant: what still comes is passed on.
DiscardMutant ==
  /\ pc = "event"
  /\ ~failed
  /\ in # << >>
  /\ ~header_only /\ attached
  /\ state = "done"
  /\ in' = << >>
  /\ raw' = TRUE
  /\ UNCHANGED <<requestVars, pc, parserVars, responseVars, json, exhausted, response,
                 upstreamVars, body, failed>>

\* state_done: what still comes is consumed and dropped (discard_bufs).
Discard ==
  /\ pc = "event"
  /\ ~failed
  /\ in # << >>
  /\ ~header_only /\ attached
  /\ state = "done"
  /\ in' = << >>
  /\ UNCHANGED <<requestVars, pc, parserVars, responseVars, json, exhausted, response,
                 upstreamVars, body, raw, failed>>

ProcessStep ==
  /\ Process
  /\ UNCHANGED <<response, upstreamVars, body, raw, failed>>

\* The handler returned NGX_OK: the text goes to the next body filter (the
\* buffers in between are in RdsJsonBuf).
OutputBufs ==
  /\ pc = "output_bufs"
  /\ body' = json
  /\ pc' = "event"
  /\ UNCHANGED <<requestVars, in, parserVars, responseVars, json, exhausted, response,
                 upstreamVars, raw, failed>>

\* Mutant: a 500 header is sent whether or not a header was.
HeaderPendingMutant == TRUE

\* The postponed header has not been sent.
HeaderPending == ~header_sent

\* The body filter returns NGX_ERROR after a handler did.  Had no header been
\* sent it would send a 500 one first, and LAST, which this filter itself
\* drops in state_done unless it passes everything through.
HandleError ==
  /\ pc = "error"
  /\ state' = "done"
  /\ failed' = TRUE
  /\ header_sent' = TRUE
  /\ IF HeaderPending
       THEN /\ headers' = Append(headers, 500)
            /\ header_only' = head
            /\ error_end' = (head \/ ~attached)
       ELSE UNCHANGED <<headers, header_only, error_end>>
  /\ pc' = "event"
  /\ UNCHANGED <<requestVars, in, cols, col_count, cur_col, row, field_data_rest, attached,
                 json, exhausted, response, upstreamVars, body, raw>>

-----------------------------------------------------------------------------
HeaderFilter == PassHeader \/ PostponeHeader \/ HeaderFilterFails

Upstream ==
  \/ \E n \in 1..Len(wire) : AddMem(n)
  \/ AddSpecial
  \/ AddFile

BodyFilter == PassThrough \/ Dispatch \/ Discard \/ ProcessStep \/ OutputBufs \/ HandleError

Next == HeaderFilter \/ Upstream \/ BodyFilter

Spec == Init /\ [][Next]_vars

\* A call that has begun runs on and does not wait for an allocation to fail;
\* the filter is called with what upstream has put on the chain; and upstream
\* does not send special bufs for ever instead of the data it has (hence
\* strong fairness).
FairSpec ==
  /\ Spec
  /\ WF_vars(HeaderFilter)
  /\ WF_vars(BodyFilter /\ UNCHANGED exhausted)
  /\ SF_vars(\E n \in 1..Len(wire) : AddMem(n))

-----------------------------------------------------------------------------
(* Properties.                                                             *)

Functions == {"process_header", "process_col", "process_row", "process_field",
              "process_more_field_data"}

Outputs == {"output_props", "output_list", "output_cols"}

\* The request context, the chain and the response are well-formed; ctx->cols
\* is only ever indexed within its size.
TypeOK ==
  /\ pc \in Functions \cup Outputs \cup {"header_filter", "event", "output_bufs", "error"}
  /\ state \in States
  /\ \A i \in DOMAIN in : in[i].kind \in {"mem", "special", "file"}
  /\ col_count \in Nat /\ cur_col \in 0..col_count /\ row \in Nat
  /\ Len(cols) <= col_count
  /\ state \in {"expect_col", "expect_field", "expect_more_field_data"} =>
       cur_col < col_count
  /\ field_data_rest \in Nat
  /\ header_sent \in BOOLEAN /\ attached \in BOOLEAN /\ header_only \in BOOLEAN
  /\ \A i \in DOMAIN headers : headers[i] \in {200, 500}
  /\ Len(body) <= Len(json)
  /\ legal \in BOOLEAN /\ raw \in BOOLEAN /\ failed \in BOOLEAN /\ exhausted \in BOOLEAN

\* However upstream cuts the result set, whatever has been put on the wire
\* and whatever has failed: the text emitted so far is the beginning of the
\* JSON text of the whole result set.
JsonIsPrefix == IsPrefix(json, Render(res, conf))

\* A conversion that ends without an error has emitted the whole JSON text.
DoneIsComplete ==
  (state = "done" /\ ~failed /\ pc = "event") => body = Render(res, conf)

\* A result set in a legal layout is converted, unless the system runs out
\* of memory.
LegalNeverFails == (legal /\ ValidResult(res) /\ ~exhausted) => ~failed /\ pc # "error"

\* The kind of unit each state waits for.
Awaits(s) ==
  CASE s = "expect_header" -> {"header"}
    [] s = "expect_col"    -> {"col"}
    [] s = "expect_row"    -> {"flag"}
    [] s = "expect_field"  -> {"size"}
    [] s = "expect_more_field_data" -> {"char"}
    [] s = "done"          -> {"junk"}

\* The units that are still to be read by the handlers.
Unread == FlattenSeq([i \in DOMAIN in |-> in[i].units]) \o wire

Converting == attached /\ ~header_only /\ ~failed /\ pc \notin {"error", "header_filter"}

\* Between any two steps of the handlers the state machine stands where the
\* wire does: the next unread unit is the one that ctx->state expects, the
\* function that runs next is the one of that state, and field_data_rest
\* counts the octets that are missing of the field.
InStep ==
  Converting /\ state # "done" =>
    /\ pc \in Functions => pc = Handler
    /\ Unread # << >> => Unread[1].kind \in Awaits(state)
    /\ state = "expect_more_field_data" <=> field_data_rest > 0
    /\ field_data_rest > 0 =>
         /\ Len(Unread) >= field_data_rest
         /\ \A i \in 1..field_data_rest : Unread[i].kind = "char"

\* The client gets exactly one response header, before any byte of a body;
\* a 500 header has no JSON body after it.
OneHeaderFirst ==
  /\ Len(headers) <= 1
  /\ (body # << >> \/ raw \/ error_end) => Len(headers) = 1
  /\ headers = <<500>> => body = << >>

\* ctx->header_sent is what keeps the header from being sent twice: it tells
\* whether the postponed header was sent, and the handlers after
\* process_header rely on it.
HeaderSentExact ==
  ~Skipped => /\ header_sent <=> headers # << >>
              /\ state \notin {"expect_header", "done"} => header_sent

\* A request whose RDS header is refused is answered, with a 500 header and
\* the end of the response, not left hanging.
RefusedIsAnswered ==
  (failed /\ ~Skipped /\ headers # <<200>> /\ ~exhausted) =>
    headers = <<500>> /\ error_end

\* A client that was promised JSON never gets RDS bytes (GET requests: see
\* the README for HEAD).
NeverMixed == (raw /\ ~head) => Skipped

\* The inductive invariant behind the four properties above.  A response that
\* is not converted is left alone;
LeftAlone ==
  Skipped =>
    /\ pc \in {"header_filter", "event"}
    /\ ~attached /\ json = << >> /\ body = << >> /\ ~error_end
    /\ pc = "header_filter" => headers = << >> /\ ~raw
    /\ pc = "event" => headers # << >>

\* the state of a conversion, and the function that runs, tell which header
\* was sent;
HeaderInStep ==
  ~Skipped =>
    /\ header_sent <=> headers # << >>
    /\ (state = "expect_header" /\ pc # "error") => headers = << >>
    /\ state \notin {"expect_header", "done"} => headers = <<200>>
    /\ pc = "process_header" => state = "expect_header"
    /\ pc \in (Functions \ {"process_header"}) \cup Outputs => headers = <<200>>
    /\ (json # << >> \/ body # << >>) => headers = <<200>>
    /\ error_end => headers = <<500>>

\* raw data pass by only when the header said that there is no body; and a
\* request that fails without a 200 header was answered or is out of memory.
Answered == headers = <<200>> \/ exhausted \/ (headers = <<500>> /\ error_end)

ErrorInStep ==
  ~Skipped =>
    /\ (pc \notin {"header_filter", "error"} /\ ~failed) => attached
    /\ header_only => head /\ headers # << >>
    /\ raw => header_only
    /\ (pc = "error" \/ failed) => Answered

HeaderInv ==
  /\ state \in States /\ headers \in {<< >>, <<200>>, <<500>>}
  /\ LeftAlone /\ HeaderInStep /\ ErrorInStep

\* No call of the body filter loops for ever.
CallReturns == pc \in Functions \cup Outputs ~> pc = "event"

\* A result set that upstream sends whole in a legal layout is converted to
\* its end.
LegalCompletes ==
  (~Skipped /\ ~head /\ ValidResult(res))
    ~> (\/ body = Render(res, conf)
        \/ ~legal \/ exhausted)
=============================================================================
