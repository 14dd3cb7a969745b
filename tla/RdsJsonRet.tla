----------------------------- MODULE RdsJsonRet -----------------------------
(***************************************************************************)
(* The content handler of rds_json_ret (ngx_http_rds_json_handler.c) on    *)
(* top of a configuration that was parsed and merged by RdsJsonConf.       *)
(*                                                                         *)
(* nginx finds a location for the request and takes its clcf->handler; an  *)
(* if block whose condition holds then puts its own configuration in force *)
(* and its own handler, if it has one.  The handler builds one JSON object *)
(* in a buf of the size it has computed before, sends the header and       *)
(* passes the buf on.                                                      *)
(***************************************************************************)
EXTENDS RdsJsonConf, SequencesExt

CONSTANT
  Variable  \* the member of Texts that is an nginx variable

VARIABLES
  request,   \* the request: [main, value], value that of the variable
  location,  \* the location found for it
  block,     \* the block whose configuration is in force (r->loc_conf)
  content,   \* the block that r->content_handler is from
  served,    \* what the handler did
  header,    \* the response header: [status, content_type], << >> before
  body       \* the bufs passed on: [text, last_buf]

retVars == <<request, location, block, content, served, header, body>>
vars == <<confVars, retVars>>

NoBlock == "none"

Init ==
  /\ ConfInit
  /\ request = [main |-> TRUE, value |-> Empty]
  /\ location = NoBlock /\ block = NoBlock /\ content = NoBlock
  /\ served = "no"
  /\ header = << >>
  /\ body = << >>

-----------------------------------------------------------------------------
(* nginx: which handler runs under which configuration.                    *)

\* A request or a subrequest arrives.
FindLocation(b) ==
  /\ phase = "live"
  /\ location = NoBlock
  /\ Kind[b] = "location"
  /\ request' \in [main : BOOLEAN, value : Texts \ {Variable}]
  /\ location' = b
  /\ block' = b
  /\ content' = IF b \in handler THEN b ELSE NoBlock
  /\ UNCHANGED <<confVars, served, header, body>>

\* The rewrite phase runs an if block of the location.
EnterIf(b) ==
  /\ location # NoBlock /\ served = "no"
  /\ block = location
  /\ Kind[b] = "if" /\ Parent(b) = location
  /\ block' = b
  /\ content' = IF b \in handler THEN b ELSE content
  /\ UNCHANGED <<confVars, request, location, served, header, body>>

-----------------------------------------------------------------------------
(* The handler.                                                            *)

\* ngx_http_complex_value
Value(text) == IF text = Variable THEN request.value ELSE text

\* Mutant: the first digit is looked at only.
IsZeroMutant(code) == code[1] = 0

\* ngx_atoi(code) == 0; an overflow is an error and not zero either.
IsZero(code) == \A i \in DOMAIN code : code[i] = 0

QuotedText(text) == IF text = Empty THEN <<"quote", "quote">> ELSE JsonText(text)

Props(props) ==
  FlattenSeq([i \in DOMAIN props |->
                <<",">> \o props[i].key \o <<":">> \o QuotedText(Value(props[i].value))])

\* The object that is copied into the buf.
RetObject(c) ==
  LET errstr == Value(c.errstr[1])
  IN <<"{">> \o c.errcode_key \o <<":">> \o c.errcode
       \o (IF errstr = Empty THEN << >>
           ELSE <<",">> \o c.errstr_key \o <<":">> \o QuotedText(errstr))
       \o (IF c.success = << >> THEN << >>
           ELSE <<",">> \o c.success
                  \o <<":", IF IsZero(c.errcode) THEN "true" ELSE "false">>)
       \o Props(c.user_props)
       \o <<"}">>

\* conf->errstr is NULL when the handler runs under the configuration of an
\* if block without a rds_json_ret of its own: ngx_http_complex_value reads
\* through it.
Runs == content # NoBlock /\ served = "no" /\ conf[block].errstr # Unset

RetHandlerFaults ==
  /\ content # NoBlock /\ served = "no"
  /\ conf[block].errstr = Unset
  /\ served' = "fault"
  /\ UNCHANGED <<confVars, request, location, block, content, header, body>>

\* A complex value cannot be evaluated, or an allocation fails.
RetHandlerFails ==
  /\ Runs
  /\ served' = "error"
  /\ UNCHANGED <<confVars, request, location, block, content, header, body>>

ResponseHeader(c) == [status |-> 200, content_type |-> c.content_type]

\* ngx_http_send_header fails: the body is not sent.
SendHeaderFails ==
  /\ Runs
  /\ header' = <<ResponseHeader(conf[block])>>
  /\ served' = "error"
  /\ UNCHANGED <<confVars, request, location, block, content, body>>

\* The header and then the buf go out (handler.c does not look at
\* r->header_only: a HEAD request is treated like any other).
RetHandler ==
  /\ Runs
  /\ header' = <<ResponseHeader(conf[block])>>
  /\ body' = <<[text |-> RetObject(conf[block]), last_buf |-> request.main]>>
  /\ served' = "done"
  /\ UNCHANGED <<confVars, request, location, block, content>>

-----------------------------------------------------------------------------
Serve ==
  \/ \E b \in Blocks : FindLocation(b) \/ EnterIf(b)
  \/ RetHandler \/ RetHandlerFails \/ SendHeaderFails \/ RetHandlerFaults

Next == (ConfNext /\ UNCHANGED retVars) \/ Serve

Spec == Init /\ [][Next]_vars

-----------------------------------------------------------------------------
(* Properties.                                                             *)

\* The properties one after the other.
Listed(props) ==
  LET text[n \in 0..Len(props)] ==
        IF n = 0 THEN << >>
        ELSE text[n - 1]
               \o (<<",">> \o props[n].key \o <<":">>
                     \o (IF Value(props[n].value) = Empty THEN <<"quote", "quote">>
                         ELSE JsonText(Value(props[n].value))))
  IN text[Len(props)]

\* The directives in force in a block make this object.
Ordered(b) ==
  LET ret == given[b]["ret"][Len(given[b]["ret"])]
      key(d) == Effective(b, d, Defaults[d])
  IN <<"{">> \o key("errcode_key") \o <<":">> \o ret.code
       \o (IF Value(ret.text) = Empty THEN << >>
           ELSE <<",">> \o key("errstr_key") \o <<":">> \o JsonText(Value(ret.text)))
       \o (IF key("success") = << >> THEN << >>
           ELSE <<",">> \o key("success") \o <<":">>
                  \o <<IF ToSet(ret.code) = {0} THEN "true" ELSE "false">>)
       \o Listed(key("user_props"))
       \o <<"}">>

\* What the client gets is the object that the directives of the
\* configuration file ask for, those of the block with the rds_json_ret that
\* counts and those inherited from the blocks around it (README
\* "rds_json_ret", "rds_json_success_property"; t/ret.t), in one buf after a
\* 200 header; only that of a main request ends the response.
EmitsItsDirectives ==
  body # << >> =>
    /\ given[block]["ret"] # << >>
    /\ body = <<[text |-> Ordered(block), last_buf |-> request.main]>>
    /\ Len(header) = 1 /\ header[1].status = 200
    /\ header[1].content_type = Effective(block, "content_type", Defaults.content_type)

\* README.md:235: rds_json_ret "enables a content handler that simply emits
\* an response body like this": whenever its handler is chosen for a request
\* it has an errcode and an errstr to emit.
RetHasArguments ==
  (content # NoBlock /\ served = "no") =>
    conf[block].errcode # Unset /\ conf[block].errstr # Unset
=============================================================================
