-------------------------- MODULE MCRdsJsonFilter --------------------------
(***************************************************************************)
(* Small result sets for RdsJsonFilter: every column type, NULL and empty  *)
(* fields, a character that needs an escape, no rows, no columns, and the  *)
(* malformed ones.                                                         *)
(***************************************************************************)
EXTENDS RdsJsonFilter

Col(name, type) == [name |-> name, type |-> type]
Text(data) == [null |-> FALSE, data |-> data]
Null == [null |-> TRUE, data |-> << >>]

Silent == [std_errcode |-> "0", errstr |-> << >>, insert_id |-> "0", affected_rows |-> "0"]

ResultSet(cols_, rows_) ==
  [valid |-> TRUE, header |-> Silent, cols |-> cols_, rows |-> rows_, junk |-> 0]

IntCol  == Col(<<"i">>, "int")
BoolCol == Col(<<"b">>, "bool")
StrCol  == Col(<<"s", "newline">>, "str")

TwoRows ==
  ResultSet(<<IntCol, StrCol>>,
            << <<Text(<<"-", "1">>), Text(<<"newline", "a">>)>>,
               <<Text(<<"0">>), Null>> >>)
EmptyFields == ResultSet(<<StrCol>>, << <<Text(<< >>)>>, <<Text(<<"a">>)>> >>)
Booleans    == ResultSet(<<BoolCol, IntCol>>, << <<Text(<<"t">>), Text(<<"1", "0">>)>> >>)
NoRows      == ResultSet(<<StrCol, BoolCol>>, << >>)
NoColumns   == ResultSet(<< >>, << >>)
Inserted    == [NoColumns EXCEPT !.header.insert_id = "7", !.header.affected_rows = "1"]
SqlError    == [NoColumns EXCEPT !.header.std_errcode = "3",
                                 !.header.errstr = <<"a", "newline">>]
BadHeader   == [NoRows EXCEPT !.valid = FALSE]
BadInt      == ResultSet(<<IntCol>>, << <<Text(<<"1", "-">>)>> >>)
BadBool     == ResultSet(<<BoolCol>>, << <<Text(<<"t", "1">>)>> >>)
Nameless    == ResultSet(<<Col(<< >>, "int")>>, << >>)
Trailing    == [NoRows EXCEPT !.junk = 1]
TrailingHeader == [NoColumns EXCEPT !.junk = 1]

ValidResults == {TwoRows, EmptyFields, Booleans, NoRows, NoColumns, Inserted, SqlError}
AllResults   == ValidResults \cup {BadHeader, BadInt, BadBool, Nameless, Trailing, TrailingHeader}

\* The three tests of the header filter, one failing at a time.
Converted == [status_ok |-> TRUE, enabled |-> TRUE, is_rds |-> TRUE]
AllResponses ==
  {Converted, [Converted EXCEPT !.status_ok = FALSE],
   [Converted EXCEPT !.enabled = FALSE], [Converted EXCEPT !.is_rds = FALSE]}

Plain == [format |-> "normal", root |-> FALSE, success |-> FALSE, user_props |-> << >>]
Rooted == [Plain EXCEPT !.root = TRUE]
Added == [Rooted EXCEPT !.success = TRUE,
                        !.user_props = << [key |-> "p", value |-> <<"newline">>],
                                          [key |-> "q", value |-> << >>] >>]
\* The root property is set to "" although there are properties to add.
Rootless == [Added EXCEPT !.root = FALSE]

Compact(c) == [c EXCEPT !.format = "compact"]

AllFormats == {Plain, Added, Rootless, Compact(Plain), Compact(Rooted)}
=============================================================================
