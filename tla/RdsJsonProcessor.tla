-------------------------- MODULE RdsJsonProcessor --------------------------
(***************************************************************************)
(* The state machine of ngx_http_rds_json_processor.c with the parsers of  *)
(* ngx_http_rds_utils.h and the text that the output_* functions of        *)
(* ngx_http_rds_json_output.c emit.                                        *)
(*                                                                         *)
(* The process_* functions call each other in tail position with what is   *)
(* left of the chain.  Each is an action here; pc names the one that is    *)
(* called next, and the variable in is its argument.  The process_* loops  *)
(* go round by calling themselves.  RdsJsonFilter starts and ends a call.  *)
(***************************************************************************)
EXTENDS RdsJsonWire

VARIABLES
  conf,             \* the location's configuration
  pc,               \* the function that runs next
  in,               \* its chain: bufs [kind, units]
  state,            \* ctx->state
  cols,             \* ctx->cols, the columns parsed so far
  col_count,        \* ctx->col_count
  cur_col,          \* ctx->cur_col
  row,              \* ctx->row
  field_data_rest,  \* ctx->field_data_rest
  header_sent,      \* ctx->header_sent
  attached,         \* the request has a ctx of this module
  headers,          \* statuses of the response headers sent to the next filter
  head,             \* a HEAD request
  header_only,      \* r->header_only, set by the last header filter
  json,             \* tokens given to the output buffers
  error_end,        \* an LAST special buf ended an error response
  exhausted         \* an allocation or a downstream filter failed

parserVars   == <<state, cols, col_count, cur_col, row, field_data_rest>>
responseVars == <<header_sent, attached, headers, header_only, error_end>>
requestVars  == <<conf, head>>

States == {"expect_header", "expect_col", "expect_row", "expect_field",
           "expect_more_field_data", "done"}

-----------------------------------------------------------------------------
(* Chains.                                                                 *)

\* Only bufs of kind "mem" satisfy ngx_buf_in_memory; a "special" one is a
\* flush or last_buf mark without data, a "file" one has data on disk only.
InMemory(b) == b.kind = "mem"

\* Nothing to read: the chain ends, maybe after one special buf.
NoData(chain) == chain = << >> \/ (Len(chain) = 1 /\ chain[1].kind = "special")

\* The head of the chain can be neither read nor skipped.
Unreadable(chain) == chain # << >> /\ chain[1].kind = "file"

\* Mutant: no special buf is skipped.
SkipMutant(chain) == chain

\* The chain after the one special buf that a handler skips.
Skip(chain) == IF chain[1].kind = "special" THEN Tail(chain) ELSE chain

\* The unread units of the buf that a handler reads: none in memory when they
\* are on disk.
Units(chain) ==
  IF InMemory(Skip(chain)[1]) THEN Skip(chain)[1].units ELSE << >>

\* Mutant: the rest of a buf is lost with what was read of it.
AdvanceDropsMutant(chain, n) == Tail(chain)

\* Mutant: a buf that was read to its end stays the head of the chain.
AdvanceStaysMutant(chain, n) ==
  [chain EXCEPT ![1].units = SubSeq(@, n + 1, Len(@))]

\* The chain when n more units of its head were read: in->next when that
\* leaves b->pos == b->last.
Advance(chain, n) ==
  IF n >= Len(chain[1].units) THEN Tail(chain)
  ELSE [chain EXCEPT ![1].units = SubSeq(@, n + 1, Len(@))]

\* The values of the first n units.
Values(units, n) == [i \in 1..n |-> units[i].value]

-----------------------------------------------------------------------------
(* Ways out of a process_* function.                                       *)

\* return NGX_OK: the body filter goes on with output_bufs.
ReturnOk ==
  /\ NoData(in)
  /\ in' = << >>
  /\ pc' = "output_bufs"
  /\ UNCHANGED <<parserVars, responseVars, requestVars, json, exhausted>>

ReturnError ==
  /\ pc' = "error"
  /\ in' = << >>

\* An output_* function appends its text, or cannot get the memory for it;
\* then the function next is called with the chain rest.
Emit(tokens, next, rest) ==
  \/ /\ json' = json \o tokens
     /\ pc' = next
     /\ in' = rest
     /\ UNCHANGED exhausted
  \/ /\ exhausted' = TRUE
     /\ ReturnError
     /\ UNCHANGED json

-----------------------------------------------------------------------------
(* process_header                                                          *)

\* ngx_http_rds_parse_header: the whole header is in one buf, and right.
HeaderParses(units) ==
  /\ Len(units) >= 2
  /\ units[1].value.valid

\* Mutant: header_sent is not set with the sending.
SendHeaderMutant ==
  /\ headers' = Append(headers, 200)
  /\ header_only' = head
  /\ UNCHANGED <<header_sent, attached, error_end>>

\* The postponed response header goes down the chain, unless it was sent; the
\* last header filter sets r->header_only for a HEAD request.
SendHeader ==
  IF header_sent THEN UNCHANGED responseVars
  ELSE /\ header_sent' = TRUE
       /\ headers' = Append(headers, 200)
       /\ header_only' = head
       /\ UNCHANGED <<attached, error_end>>

\* Mutant: the error is left to the body filter, as in the other handlers.
SendInvalidMutant ==
  /\ ReturnError
  /\ UNCHANGED <<responseVars, parserVars, requestVars, json>>

\* Label "invalid": if no header was sent, a 500 response header, which takes
\* the ctx off the request on its way through this module's own header
\* filter, and LAST.
SendInvalid ==
  /\ IF header_sent THEN UNCHANGED responseVars
     ELSE /\ header_sent' = TRUE
          /\ attached' = FALSE
          /\ headers' = Append(headers, 500)
          /\ header_only' = head
          /\ error_end' = TRUE
  /\ ReturnError
  /\ UNCHANGED <<parserVars, requestVars, json>>

\* What output_header and output_props put in front: conf->success and the
\* values of the user properties, each with the comma that follows it.
Success(ok) ==
  IF conf.success THEN <<"success", ":", IF ok THEN "true" ELSE "false", ",">>
                  ELSE << >>

UserProps ==
  FlattenSeq([i \in DOMAIN conf.user_props |->
                <<conf.user_props[i].key, ":">>
                  \o Quoted(conf.user_props[i].value) \o <<",">>])

Number(key, n) == IF n = "0" THEN << >> ELSE <<",", key, ":", n>>

\* The JSON object for an RDS header without columns.
HeaderObject(header) ==
  <<"{">>
    \o Success(header.std_errcode = "0")
    \o UserProps
    \o <<"errcode", ":", header.std_errcode>>
    \o (IF header.errstr = << >> THEN << >>
        ELSE <<",", "errstr", ":">> \o Quoted(header.errstr))
    \o Number("insert_id", header.insert_id)
    \o Number("affected_rows", header.affected_rows)
    \o <<"}">>

\* No columns: the header is the whole response (output_header).
EmptyResult(header) ==
  /\ state' = "done"
  /\ SendHeader
  /\ Emit(HeaderObject(header), "output_bufs", << >>)
  /\ UNCHANGED <<cols, col_count, cur_col, row, field_data_rest, requestVars>>

ExpectColumns(n, rest) ==
  /\ state' = "expect_col"
  /\ cur_col' = 0
  /\ col_count' = n
  /\ cols' = << >>
  /\ SendHeader
  /\ \/ pc' = "process_col" /\ in' = rest /\ UNCHANGED exhausted
     \/ exhausted' = TRUE /\ ReturnError  \* next_header_filter fails
  /\ UNCHANGED <<row, field_data_rest, requestVars, json>>

ProcessHeader ==
  /\ pc = "process_header"
  /\ \/ ReturnOk
     \/ /\ Unreadable(in) \/ (~NoData(in) /\ ~HeaderParses(Units(in)))
        /\ SendInvalid
        /\ UNCHANGED exhausted
     \/ /\ ~NoData(in) /\ ~Unreadable(in) /\ HeaderParses(Units(in))
        /\ LET n    == Len(Units(in)[1].value.cols)
           IN \/ n = 0 /\ Len(Units(in)) = 2 /\ EmptyResult(Units(in)[1].value.header)
              \/ n = 0 /\ Len(Units(in)) > 2 /\ SendInvalid /\ UNCHANGED exhausted
              \/ n > 0 /\ ExpectColumns(n, Advance(Skip(in), 2))
              \/ n > 0 /\ SendInvalid /\ exhausted' = TRUE  \* no memory for cols

-----------------------------------------------------------------------------
(* process_col                                                             *)

\* ngx_http_rds_parse_col: the column is in one buf and has a name.
ColParses(units) ==
  /\ Len(units) >= 2
  /\ units[1].value.name # << >>

ProcessCol ==
  /\ pc = "process_col"
  /\ \/ ReturnOk
     \/ /\ Unreadable(in) \/ (~NoData(in) /\ ~ColParses(Units(in)))
        /\ ReturnError
        /\ UNCHANGED <<parserVars, responseVars, requestVars, json, exhausted>>
     \/ /\ ~NoData(in) /\ ~Unreadable(in) /\ ColParses(Units(in))
        /\ cols' = Append(cols, Units(in)[1].value)
        /\ cur_col' = cur_col + 1
        /\ IF cur_col' >= col_count
             THEN /\ state' = "expect_row"
                  /\ row' = 0
                  /\ pc' = IF conf.root THEN "output_props" ELSE "output_list"
             ELSE /\ pc' = "process_col"
                  /\ UNCHANGED <<state, row>>
        /\ in' = Advance(Skip(in), 2)
        /\ UNCHANGED <<col_count, field_data_rest, responseVars, requestVars, json,
                       exhausted>>

\* The beginning of the response, emitted from inside process_col: the outer
\* object up to its root property,
OutputProps ==
  /\ pc = "output_props"
  /\ Emit(<<"{">> \o Success(TRUE) \o UserProps \o <<"root", ":">>, "output_list", in)
  /\ UNCHANGED <<parserVars, responseVars, requestVars>>

\* the opening of the list of rows,
OutputList ==
  /\ pc = "output_list"
  /\ Emit(<<"[">>,
          IF conf.format = "compact" THEN "output_cols" ELSE "process_row", in)
  /\ UNCHANGED <<parserVars, responseVars, requestVars>>

\* and in the compact format the array of the column names.
ColNames ==
  <<"[">>
    \o FlattenSeq([i \in DOMAIN cols |->
         Quoted(cols[i].name) \o IF i # col_count THEN <<",">> ELSE << >>])
    \o <<"]">>

OutputCols ==
  /\ pc = "output_cols"
  /\ Emit(ColNames, "process_row", in)
  /\ UNCHANGED <<parserVars, responseVars, requestVars>>

-----------------------------------------------------------------------------
(* process_row                                                             *)

\* Mutant: the outer object is not closed.
ClosingMutant == <<"]">>

\* What ends the response.
Closing == IF conf.root THEN <<"]", "}">> ELSE <<"]">>

\* The terminator ends the list; the rest of the chain is not looked at.
EndOfRows(units) ==
  /\ state' = "done"
  /\ IF Len(units) = 1
       THEN Emit(Closing, "output_bufs", << >>)
       ELSE ReturnError /\ UNCHANGED <<json, exhausted>>
  /\ UNCHANGED <<cols, col_count, cur_col, row, field_data_rest>>

\* Mutant: cur_col keeps its value of the end of the last row.
FirstColMutant == cur_col

\* A row begins with its first column.
FirstCol == 0

NextRow ==
  /\ row' = row + 1
  /\ cur_col' = FirstCol
  /\ state' = "expect_field"
  /\ pc' = "process_field"
  /\ in' = Advance(Skip(in), 1)
  /\ UNCHANGED <<cols, col_count, field_data_rest, json, exhausted>>

ProcessRow ==
  /\ pc = "process_row"
  /\ \/ ReturnOk
     \/ /\ Unreadable(in) \/ (~NoData(in) /\ Units(in) = << >>)
        /\ ReturnError
        /\ UNCHANGED <<parserVars, responseVars, requestVars, json, exhausted>>
     \/ /\ ~NoData(in) /\ ~Unreadable(in) /\ Units(in) # << >>
        /\ IF Units(in)[1].value = 0 THEN EndOfRows(Units(in)) ELSE NextRow
        /\ UNCHANGED <<responseVars, requestVars>>

-----------------------------------------------------------------------------
(* output_field and output_more_field_data                                 *)

\* Mutant: rows are taken to be counted from 0.
FirstRowMutant == row = 0

\* Rows are counted from 1.
FirstRow == row = 1

\* What comes before the value.
Lead ==
  IF conf.format = "normal"
    THEN (IF cur_col = 0 THEN IF FirstRow THEN <<"{">> ELSE <<",", "{">>
                         ELSE <<",">>)
           \o Quoted(cols[cur_col + 1].name) \o <<":">>
    ELSE IF cur_col = 0 THEN <<",", "[">> ELSE <<",">>

\* What comes after it, once all its data have come.
RowEnd(rest) ==
  IF rest = 0 /\ cur_col = col_count - 1
    THEN IF conf.format = "normal" THEN <<"}">> ELSE <<"]">>
    ELSE << >>

ClosingQuote(rest) == IF rest = 0 THEN <<"quote">> ELSE << >>

\* The value, of which data has come and rest octets have not.
FieldValue(type, data, rest, is_null) ==
  IF is_null THEN <<"null">>
  ELSE IF data = << >> THEN <<"quote", "quote">>
  ELSE CASE type \in {"int", "float"} -> data
         [] type = "bool" -> IF data[1] \in FalseChars THEN <<"false">> ELSE <<"true">>
         [] type = "str"  -> <<"quote">> \o Escape(data) \o ClosingQuote(rest)

\* What output_field refuses.
FieldRefused(type, data, rest) ==
  \/ data = << >> /\ rest > 0
  \/ /\ data # << >> /\ type = "int"
     /\ \E i \in DOMAIN data : data[i] \notin Digits /\ ~(i = 1 /\ data[i] = "-")
  \/ /\ data # << >> /\ type = "bool"
     /\ \/ data[1] \notin TrueChars \cup FalseChars
        \/ Len(data) # 1 \/ rest > 0

MoreValue(type, data, rest) ==
  CASE type \in {"int", "float"} -> data
    [] type = "bool" -> << >>
    [] type = "str"  -> Escape(data) \o ClosingQuote(rest)

MoreRefused(type, data) ==
  type = "int" /\ \E i \in DOMAIN data : data[i] \notin Digits

-----------------------------------------------------------------------------
(* process_field and process_more_field_data                               *)

Type == cols[cur_col + 1].type

\* The end of a field is the end of the row when it is in the last column;
\* the next function is called as both handlers do.
FieldEnds(tokens, rest) ==
  /\ cur_col' = cur_col + 1
  /\ IF cur_col' >= col_count
       THEN state' = "expect_row"   /\ Emit(tokens, "process_row", rest)
       ELSE state' = "expect_field" /\ Emit(tokens, "process_field", rest)

FieldContinues(tokens, rest) ==
  /\ state' = "expect_more_field_data"
  /\ Emit(tokens, "process_more_field_data", rest)
  /\ UNCHANGED cur_col

\* How many of the total octets of the field are in the buf with its size.
FieldLen(total, units) == IF Len(units) - 2 >= total THEN total ELSE Len(units) - 2

ReadField(units, total, is_null) ==
  LET len  == FieldLen(total, units)
      data == Values(SubSeq(units, 3, Len(units)), len)
      rest == total - len
      left == Advance(Skip(in), 2 + len)
      text == Lead \o FieldValue(Type, data, rest, is_null) \o RowEnd(rest)
  IN /\ field_data_rest' = rest
     /\ IF FieldRefused(Type, data, rest)
          THEN ReturnError /\ UNCHANGED <<state, cur_col, json, exhausted>>
          ELSE IF len < total THEN FieldContinues(text, left)
                              ELSE FieldEnds(text, left)

ProcessField ==
  /\ pc = "process_field"
  /\ \/ ReturnOk
     \/ /\ Unreadable(in) \/ (~NoData(in) /\ Len(Units(in)) < 2)
        /\ ReturnError
        /\ UNCHANGED <<parserVars, responseVars, requestVars, json, exhausted>>
     \/ /\ ~NoData(in) /\ ~Unreadable(in) /\ Len(Units(in)) >= 2
        /\ LET size == Units(in)[1].value
           IN IF size = NullSize THEN ReadField(Units(in), 0, TRUE)
                                 ELSE ReadField(Units(in), size, FALSE)
        /\ UNCHANGED <<cols, col_count, row, responseVars, requestVars>>

\* Unlike the other handlers this one does not skip special bufs.
ReadMore(units) ==
  LET len  == IF Len(units) >= field_data_rest THEN field_data_rest ELSE Len(units)
      data == Values(units, len)
      rest == field_data_rest - len
      left == Advance(in, len)
      text == MoreValue(Type, data, rest) \o RowEnd(rest)
  IN /\ field_data_rest' = rest
     /\ IF MoreRefused(Type, data)
          THEN ReturnError /\ UNCHANGED <<state, cur_col, json, exhausted>>
          ELSE IF rest > 0 THEN FieldContinues(text, left) ELSE FieldEnds(text, left)

ProcessMoreFieldData ==
  /\ pc = "process_more_field_data"
  /\ \/ in = << >> /\ ReturnOk
     \/ /\ in # << >> /\ ~InMemory(in[1])
        /\ ReturnError
        /\ UNCHANGED <<parserVars, responseVars, requestVars, json, exhausted>>
     \/ /\ in # << >> /\ InMemory(in[1])
        /\ ReadMore(in[1].units)
        /\ UNCHANGED <<cols, col_count, row, responseVars, requestVars>>

Process ==
  \/ ProcessHeader \/ ProcessCol \/ ProcessRow
  \/ OutputProps \/ OutputList \/ OutputCols
  \/ ProcessField \/ ProcessMoreFieldData
=============================================================================
