---------------------------- MODULE RdsJsonSizes ----------------------------
(***************************************************************************)
(* Every output function computes the size of its text first, gets memory  *)
(* for that many bytes, and writes the text with separate code: the size   *)
(* and the text must agree for all lengths, or the text is thrown away     *)
(* with an error (output.c 288, 386, 772, 915, handler.c 173, the setters  *)
(* of the keys) or, in output_cols, which has no test, leaves its memory.  *)
(*                                                                         *)
(* A text is its length, and the bytes that escaping adds; what the output *)
(* functions leave in the request context for the next one is in the       *)
(* variables type, cur_col and field_data_rest.  The text itself is in     *)
(* RdsJsonProcessor, the escaping in RdsJsonEscape.                        *)
(***************************************************************************)
EXTENDS Integers, Sequences

CONSTANTS
  Texts,     \* texts [len, esc]: keys, names, values and parts of values
  Numbers,   \* values of insert_id and affected_rows
  ErrCodes,  \* values of std_errcode
  Props,     \* user properties, as totals: [count, keys, len, esc]
  Counts     \* numbers of columns, and of octets that are still to come

\* The powers of ten.
Power[i \in 0..20] == IF i = 0 THEN 1 ELSE 10 * Power[i - 1]

\* How many digits "%uD" and "%uL" print.
Decimal(n) == CHOOSE d \in 1..20 : n < Power[d] /\ (d = 1 \/ Power[d - 1] <= n)

\* ngx_get_num_size
NumSize[n \in Nat] == IF n \div 10 = 0 THEN 1 ELSE 1 + NumSize[n \div 10]

\* An empty text needs no escape.  The numbers are of the type uint64_t,
\* where 2^64 \div 10^18 is 18 (TLC has no such numbers), and the error codes
\* of the type uint16_t, where 2^16 \div 10^4 is 6.
ASSUME TextsAssumption ==
  /\ Texts \subseteq [len : Nat, esc : Nat]
  /\ \A s \in Texts : s.len = 0 => s.esc = 0
  /\ Props \subseteq [count : Nat, keys : Nat, len : Nat, esc : Nat]
ASSUME NumbersAssumption ==
  /\ Numbers \subseteq Nat
  /\ \A n \in Numbers : (n \div Power[9]) \div Power[9] <= 18
  /\ ErrCodes \subseteq Nat
  /\ \A n \in ErrCodes : n \div Power[4] <= 6
ASSUME CountsAssumption == Counts \subseteq Nat

VARIABLES
  call,            \* the function that ran last
  size,            \* the size it computed
  written,         \* how much it wrote
  format,          \* conf->format
  col_count,       \* ctx->col_count
  cur_col,         \* ctx->cur_col
  type,            \* of that column: "int" (or float), "bool" or "str"
  field_data_rest  \* ctx->field_data_rest

ctxVars == <<format, col_count, cur_col, type, field_data_rest>>
vars == <<call, size, written, ctxVars>>

Init ==
  /\ call = "none" /\ size = 0 /\ written = 0
  /\ format \in {"normal", "compact"}
  /\ col_count \in Counts \ {0}
  /\ cur_col = 0
  /\ type = "str"
  /\ field_data_rest = 0

-----------------------------------------------------------------------------
(* Parts of the texts.                                                     *)

\* The text is copied, or written by escape_json_str when that counted any.
Copy(s) == IF s.esc = 0 THEN s.len ELSE s.len + s.esc

\* ngx_snprintf with its limit
Printed(n, limit) == IF Decimal(n) <= limit THEN Decimal(n) ELSE limit

\* A text of the configuration between its quotes, or none.
KeyLen(s) == IF s.len = 0 THEN 0 ELSE s.len + s.esc + 2

\* The user properties: their number, their keys and their values.
PropsSize(p) == p.count * 4 + p.keys + p.len + p.esc

PropsWritten(p) == p.keys + p.count * 2 + Copy(p) + p.count * 2

\* A call computes the size, gets the memory and writes.
Emits(function, computed, wrote) ==
  /\ call' = function
  /\ size' = computed
  /\ written' = wrote

-----------------------------------------------------------------------------
(* The header and the opening of the response.                             *)

BoolLen(ok) == IF ok THEN 4 ELSE 5

HeaderSize(success, errcode_key, errstr_key, props, h) ==
  1 + KeyLen(errcode_key) + 1 + NumSize[h.std_errcode] + 1
    + (IF success.len # 0 THEN KeyLen(success) + 2 + BoolLen(h.std_errcode = 0) ELSE 0)
    + PropsSize(props)
    + (IF h.errstr.len # 0
         THEN 1 + KeyLen(errstr_key) + 1 + 1 + h.errstr.len + h.errstr.esc + 1 ELSE 0)
    + (IF h.insert_id # 0 THEN 13 + NumSize[h.insert_id] ELSE 0)
    + (IF h.affected_rows # 0 THEN 17 + NumSize[h.affected_rows] ELSE 0)

HeaderWritten(success, errcode_key, errstr_key, props, h) ==
  1 + (IF success.len = 0 THEN 0
       ELSE KeyLen(success) + (IF h.std_errcode = 0 THEN 6 ELSE 7))
    + PropsWritten(props)
    + KeyLen(errcode_key) + 1 + Printed(h.std_errcode, 5)
    + (IF h.errstr.len = 0 THEN 0
       ELSE 1 + KeyLen(errstr_key) + 2 + Copy(h.errstr) + 1)
    + (IF h.insert_id = 0 THEN 0 ELSE 13 + Printed(h.insert_id, 20))
    + (IF h.affected_rows = 0 THEN 0 ELSE 17 + Printed(h.affected_rows, 20))
    + 1

OutputHeader(success, key, props, h) ==
  /\ call = "none"
  /\ Emits("output_header", HeaderSize(success, key, key, props, h),
                            HeaderWritten(success, key, key, props, h))
  /\ UNCHANGED ctxVars

OutputProps(success, root, props) ==
  /\ call = "none"
  /\ Emits("output_props",
           2 + KeyLen(root) + (IF success.len # 0 THEN 6 + KeyLen(success) ELSE 0)
             + PropsSize(props),
           1 + (IF success.len = 0 THEN 0 ELSE KeyLen(success) + 6)
             + PropsWritten(props) + KeyLen(root) + 1)
  /\ UNCHANGED ctxVars

\* The column names as one total; without a comma after the last one.
ColsSize(names) == 2 + names.len + names.esc + 2 * col_count + (col_count - 1)

ColsWritten(names) == 1 + 2 * col_count + names.len + names.esc + (col_count - 1) + 1

OutputCols(names) ==
  /\ call \in {"none", "output_props"}
  /\ Emits("output_cols", ColsSize(names), ColsWritten(names))
  /\ UNCHANGED ctxVars

-----------------------------------------------------------------------------
(* Fields.                                                                 *)

\* The first part of a field: text is what has come of it, truth what it says
\* in a column of Booleans.
ValueSize(is_null, text, truth, rest) ==
  IF is_null THEN 4
  ELSE IF text.len = 0 THEN 2
  ELSE CASE type' = "int"  -> text.len
         [] type' = "bool" -> BoolLen(truth)
         [] type' = "str"  -> 1 + text.len + text.esc + (IF rest = 0 THEN 1 ELSE 0)

ValueWritten(is_null, text, truth, rest) ==
  IF is_null THEN 4
  ELSE IF text.len = 0 THEN 2
  ELSE CASE type' = "int"  -> text.len
         [] type' = "bool" -> IF truth THEN 4 ELSE 5
         [] type' = "str"  -> 1 + Copy(text) + (IF rest = 0 THEN 1 ELSE 0)

\* ",", "{" and the name; or "," and "[".
LeadSize(first_row, name) ==
  IF format = "normal"
    THEN (IF cur_col' = 0 /\ ~first_row THEN 3 ELSE 2) + name.len + name.esc + 2
    ELSE IF cur_col' = 0 THEN 2 ELSE 1

LeadWritten(first_row, name) ==
  IF format = "normal"
    THEN (IF cur_col' = 0 THEN IF first_row THEN 1 ELSE 2 ELSE 1) + 1 + Copy(name) + 2
    ELSE IF cur_col' = 0 THEN 2 ELSE 1

\* Mutant: the row is closed with the first part of its last field.
RowEndMutant(rest) == IF cur_col' = col_count - 1 THEN 1 ELSE 0

\* "}" or "]" after the last column, once its data have come.
RowEnd(rest) == IF rest = 0 /\ cur_col' = col_count - 1 THEN 1 ELSE 0

\* The sizes count the end of the row by the same test, in code of its own.
RowEndSize(rest) == IF rest = 0 /\ cur_col' = col_count - 1 THEN 1 ELSE 0

\* What output_field takes: NULL and the empty string have no more to come,
\* and a Boolean is one character.
FieldTaken(is_null, text, rest) ==
  /\ (is_null \/ text.len = 0) => rest = 0
  /\ (~is_null /\ text.len # 0 /\ type' = "bool") => text.len = 1 /\ rest = 0

OutputField(col, of_type, first_row, name, is_null, text, truth, rest) ==
  /\ call \notin {"output_header", "ret_handler", "set_key"}
  /\ field_data_rest = 0
  /\ col < col_count
  /\ cur_col' = col
  /\ type' = of_type
  /\ FieldTaken(is_null, text, rest)
  /\ field_data_rest' = rest
  /\ Emits("output_field",
           LeadSize(first_row, name) + ValueSize(is_null, text, truth, rest) + RowEndSize(rest),
           LeadWritten(first_row, name) + ValueWritten(is_null, text, truth, rest) + RowEnd(rest))
  /\ UNCHANGED <<format, col_count>>

\* Mutant: a terminating octet is taken to be counted.
RestMutant(len) == field_data_rest - len - 1

Rest(len) == field_data_rest - len

\* A part of the field that follows.
OutputMoreFieldData(text) ==
  /\ field_data_rest > 0
  /\ text.len \in 1..field_data_rest
  /\ field_data_rest' = Rest(text.len)
  /\ UNCHANGED <<format, col_count, cur_col, type>>
  /\ LET rest == field_data_rest'
     IN Emits("output_more_field_data",
              (CASE type = "int"  -> text.len
                 [] type = "bool" -> 0
                 [] type = "str"  -> text.len + text.esc + (IF rest = 0 THEN 1 ELSE 0))
                + RowEndSize(rest),
              (CASE type = "int"  -> text.len
                 [] type = "bool" -> 0
                 [] type = "str"  -> Copy(text) + (IF rest = 0 THEN 1 ELSE 0))
                + RowEnd(rest))

-----------------------------------------------------------------------------
(* Outside of the filter: the content handler and the setters, which share *)
(* nothing with a request that is converted.                               *)

\* rds_json_ret: errcode is a text of digits, all zero or not.
RetHandler(success, key, props, errcode, zero, errstr) ==
  /\ call = "none"
  /\ Emits("ret_handler",
           1 + KeyLen(key) + 1 + errcode.len + 1
             + (IF errstr.len # 0
                  THEN 1 + KeyLen(key) + 1 + 1 + errstr.len + errstr.esc + 1 ELSE 0)
             + (IF success.len # 0 THEN KeyLen(success) + 2 + BoolLen(zero) ELSE 0)
             + PropsSize(props),
           1 + KeyLen(key) + 1 + errcode.len
             + (IF errstr.len = 0 THEN 0 ELSE 1 + KeyLen(key) + 2 + Copy(errstr) + 1)
             + (IF success.len = 0 THEN 0
                ELSE 1 + KeyLen(success) + (IF zero THEN 5 ELSE 6))
             + PropsWritten(props) + 1)
  /\ UNCHANGED ctxVars

\* The setters of the keys (rds_json_root and the four others).
SetKey(s) ==
  /\ call = "none"
  /\ s.len # 0
  /\ Emits("set_key", s.len + s.esc + 2, 1 + Copy(s) + 1)
  /\ UNCHANGED ctxVars

-----------------------------------------------------------------------------
Headers ==
  [std_errcode : ErrCodes, errstr : Texts, insert_id : Numbers, affected_rows : Numbers]

Next ==
  \/ \E success, key \in Texts, props \in Props :
       \/ \E h \in Headers : OutputHeader(success, key, props, h)
       \/ OutputProps(success, key, props)
       \/ \E errcode, errstr \in Texts, zero \in BOOLEAN :
            RetHandler(success, key, props, errcode, zero, errstr)
  \/ \E text \in Texts :
       \/ OutputCols(text)
       \/ OutputMoreFieldData(text)
       \/ SetKey(text)
       \/ \E col \in Counts, of_type \in {"int", "bool", "str"}, first_row \in BOOLEAN,
             name \in Texts, is_null, truth \in BOOLEAN, rest \in Counts :
            OutputField(col, of_type, first_row, name, is_null, text, truth, rest)

Spec == Init /\ [][Next]_vars

-----------------------------------------------------------------------------
(* Properties.                                                             *)

\* What the functions leave for the next one is in its range.
TypeOK ==
  /\ size \in Nat /\ written \in Nat
  /\ col_count \in Nat /\ cur_col \in 0..col_count - 1
  /\ format \in {"normal", "compact"}
  /\ type \in {"int", "bool", "str"}
  /\ field_data_rest \in Nat

\* Every function writes as much as it has computed, whatever the lengths,
\* the numbers, the format and the way a value is cut into parts: the error
\* exits "buffer error" are never taken, and output_cols, which has none, and
\* the memcpy of the others stay in their memory.
FitsExactly == size = written
=============================================================================
