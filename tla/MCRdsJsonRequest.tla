-------------------------- MODULE MCRdsJsonRequest --------------------------
(***************************************************************************)
(* Result sets and configurations for RdsJsonRequest: pieces that straddle *)
(* several bufs of a few tokens, a result without columns, a field cut     *)
(* into parts, and result sets that fail before and after output began.    *)
(***************************************************************************)
EXTENDS RdsJsonRequest

Silent == [std_errcode |-> "0", errstr |-> << >>, insert_id |-> "0", affected_rows |-> "1"]

Str == [name |-> <<"s">>, type |-> "str"]
Num == [name |-> <<"i">>, type |-> "int"]

Text(data) == [null |-> FALSE, data |-> data]

ResultSet(cols_, rows_) ==
  [valid |-> TRUE, header |-> Silent, cols |-> cols_, rows |-> rows_, junk |-> 0]

OneField == ResultSet(<<Str>>, << <<Text(<<"a", "newline", "b">>)>> >>)
TwoRows  == ResultSet(<<Num>>, << <<Text(<<"1">>)>>, <<Text(<< >>)>> >>)
Updated  == ResultSet(<< >>, << >>)
BadInt   == ResultSet(<<Num>>, << <<Text(<<"1">>)>>, <<Text(<<"-", "-">>)>> >>)
BadHeader == [Updated EXCEPT !.valid = FALSE]

GoodResults == {OneField, TwoRows, Updated}
MCResults == GoodResults \cup {BadInt, BadHeader}

MCResponses == {[status_ok |-> TRUE, enabled |-> TRUE, is_rds |-> TRUE]}

Plain  == [format |-> "normal", root |-> FALSE, success |-> FALSE, user_props |-> << >>]
Rooted == [Plain EXCEPT !.root = TRUE, !.format = "compact"]

Added  == [Rooted EXCEPT !.format = "normal", !.success = TRUE,
                         !.user_props = <<[key |-> "p", value |-> <<"newline">>]>>]

MCFormats == {Plain, Rooted, Added}
=============================================================================
