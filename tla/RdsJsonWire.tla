---------------------------- MODULE RdsJsonWire ----------------------------
(***************************************************************************)
(* The two languages the filter translates between.                        *)
(*                                                                         *)
(* RDS (resty_dbd_stream): a result set on the wire is a sequence of units *)
(*   header header_rest                         the RDS header             *)
(*   { col col_rest }                           one pair for each column   *)
(*   { flag { size size_rest { char } } }       rows of fields             *)
(*   flag                                       the row list terminator    *)
(* A unit stands for one or more bytes; the "..._rest" units are there     *)
(* because upstream may cut the bytes of a header, of a column or of a     *)
(* field size in two, which the parsers of ngx_http_rds_utils.h reject.    *)
(*                                                                         *)
(* JSON: a sequence of tokens.  Render is the reference: the JSON text of  *)
(* a whole result set, written without regard to how it arrives.           *)
(***************************************************************************)
EXTENDS Integers, Sequences, SequencesExt

\* What the RDS header says besides endianness, version and result type, with
\* the numbers in decimal; a column; a field, data being its characters.
Headers == [std_errcode : STRING, errstr : Seq(STRING), insert_id : STRING,
            affected_rows : STRING]
Columns == [name : Seq(STRING), type : {"int", "float", "bool", "str"}]
Fields  == [null : BOOLEAN, data : Seq(STRING)]

\* A result set.  valid says that endianness, version and result type of its
\* header are right, junk is the number of units that upstream sends after its
\* end.  Without columns there are no rows.
ResultSets ==
  {r \in [valid : BOOLEAN, header : Headers, cols : Seq(Columns),
          rows : Seq(Seq(Fields)), junk : Nat] :
     /\ \A i \in DOMAIN r.rows : Len(r.rows[i]) = Len(r.cols)
     /\ r.cols = << >> => r.rows = << >>}

\* What a location may configure.
Locations == [format : {"normal", "compact"}, root : BOOLEAN, success : BOOLEAN,
              user_props : Seq([key : STRING, value : Seq(STRING)])]

\* (uint32_t) -1 as a field size.
NullSize == -1

Unit(kind, value) == [kind |-> kind, value |-> value]

Constantly(kind, n) == [i \in 1..n |-> Unit(kind, 0)]

EncodeColumn(col) == <<Unit("col", col), Unit("col_rest", 0)>>

EncodeField(f) ==
  IF f.null
    THEN <<Unit("size", NullSize), Unit("size_rest", 0)>>
    ELSE <<Unit("size", Len(f.data)), Unit("size_rest", 0)>>
           \o [i \in DOMAIN f.data |-> Unit("char", f.data[i])]

EncodeRow(row) ==
  <<Unit("flag", 1)>> \o FlattenSeq([i \in DOMAIN row |-> EncodeField(row[i])])

\* What upstream sends for a result set.
Encode(res) ==
  <<Unit("header", res), Unit("header_rest", 0)>>
    \o FlattenSeq([i \in DOMAIN res.cols |-> EncodeColumn(res.cols[i])])
    \o FlattenSeq([i \in DOMAIN res.rows |-> EncodeRow(res.rows[i])])
    \o (IF res.cols = << >> THEN << >> ELSE <<Unit("flag", 0)>>)
    \o Constantly("junk", res.junk)

-----------------------------------------------------------------------------
(* Characters and their JSON form (ngx_http_rds_json_escape_json_str).     *)

Digits     == {"0", "1"}
TrueChars  == {"1", "t"}
FalseChars == {"0", "f"}
\* Stands for the characters that escape_json_str writes with a backslash.
Special    == {"newline"}

EscapeChar(ch) == IF ch \in Special THEN <<"\\", ch>> ELSE <<ch>>

Escape(chars) == FlattenSeq([i \in DOMAIN chars |-> EscapeChar(chars[i])])

Quoted(chars) == <<"quote">> \o Escape(chars) \o <<"quote">>

-----------------------------------------------------------------------------
(* The reference: the JSON text of a result set.                           *)

\* The elements of a sequence of token sequences, separated by commas.
Commas(seqs) ==
  FlattenSeq([i \in DOMAIN seqs |->
                IF i = 1 THEN seqs[i] ELSE <<",">> \o seqs[i]])

RenderField(col, f) ==
  CASE f.null                          -> <<"null">>
    [] ~f.null /\ f.data = << >>       -> <<"quote", "quote">>
    [] ~f.null /\ f.data # << >>       ->
         CASE col.type \in {"int", "float"} -> f.data
           [] col.type = "bool" ->
                IF f.data[1] \in TrueChars THEN <<"true">> ELSE <<"false">>
           [] col.type = "str"  -> Quoted(f.data)

RenderObject(cols, row) ==
  <<"{">>
    \o Commas([i \in DOMAIN cols |->
                 Quoted(cols[i].name) \o <<":">> \o RenderField(cols[i], row[i])])
    \o <<"}">>

RenderArray(cols, row) ==
  <<"[">> \o Commas([i \in DOMAIN cols |-> RenderField(cols[i], row[i])]) \o <<"]">>

RenderNames(cols) ==
  <<"[">> \o Commas([i \in DOMAIN cols |-> Quoted(cols[i].name)]) \o <<"]">>

\* The array of rows: objects in the normal format; in the compact format
\* arrays, after an array of the column names.
RenderRows(res, format) ==
  LET items == IF format = "normal"
                 THEN [i \in DOMAIN res.rows |-> RenderObject(res.cols, res.rows[i])]
                 ELSE <<RenderNames(res.cols)>>
                        \o [i \in DOMAIN res.rows |-> RenderArray(res.cols, res.rows[i])]
  IN <<"[">> \o Commas(items) \o <<"]">>

Member(key, value) == <<key, ":">> \o value

Object(members) == <<"{">> \o Commas(members) \o <<"}">>

\* A member that the object has under a condition.
Optional(condition, member) == IF condition THEN <<member>> ELSE << >>

\* The members that rds_json_success_property and rds_json_user_property add
\* to an outer object.
AddedMembers(success, conf) ==
  Optional(conf.success, Member("success", <<IF success THEN "true" ELSE "false">>))
    \o [i \in DOMAIN conf.user_props |->
          Member(conf.user_props[i].key, Quoted(conf.user_props[i].value))]

\* The members of the object for a result without columns (README
\* "rds_json_errcode_key", "rds_json_errstr_key"; t/sanity.t).
HeaderMembers(header) ==
  <<Member("errcode", <<header.std_errcode>>)>>
    \o Optional(header.errstr # << >>, Member("errstr", Quoted(header.errstr)))
    \o Optional(header.insert_id # "0", Member("insert_id", <<header.insert_id>>))
    \o Optional(header.affected_rows # "0",
                Member("affected_rows", <<header.affected_rows>>))

\* conf.root: the rows are the value of a property of an outer object.
Render(res, conf) ==
  IF res.cols = << >>
    THEN Object(AddedMembers(res.header.std_errcode = "0", conf) \o HeaderMembers(res.header))
  ELSE IF conf.root
    THEN Object(AddedMembers(TRUE, conf) \o <<Member("root", RenderRows(res, conf.format))>>)
  ELSE RenderRows(res, conf.format)

\* A field that the filter accepts for its column, in whatever buf layout.
ValidField(col, f) ==
  \/ f.null
  \/ f.data = << >>
  \/ /\ col.type = "int"
     /\ \A i \in DOMAIN f.data : f.data[i] \in Digits \/ (i = 1 /\ f.data[i] = "-")
  \/ /\ col.type = "bool"
     /\ Len(f.data) = 1 /\ f.data[1] \in TrueChars \cup FalseChars
  \/ col.type \in {"float", "str"}

\* A result set that a driver is supposed to send.
ValidResult(res) ==
  /\ res.valid /\ res.junk = 0
  /\ \A i \in DOMAIN res.cols : res.cols[i].name # << >>
  /\ \A i \in DOMAIN res.rows, j \in DOMAIN res.cols :
       ValidField(res.cols[j], res.rows[i][j])
=============================================================================
