---------------------------- MODULE RdsJsonConf ----------------------------
(***************************************************************************)
(* The configuration of ngx_http_rds_json_filter_module.c: the directive   *)
(* setters, which write into the configuration of the block they stand in, *)
(* and ngx_http_rds_json_merge_loc_conf, which nginx calls for every block *)
(* but the http one after the whole file was parsed, outer blocks first.   *)
(*                                                                         *)
(* The history variable given holds the arguments of the directives as     *)
(* they stand in the file; the properties compare the merged               *)
(* configuration with them.                                                *)
(***************************************************************************)
EXTENDS Integers, Sequences, FiniteSets

CONSTANTS
  Blocks,        \* the blocks of the configuration file
  Http,          \* the outermost one
  Enclosing,     \* the blocks around a block, with itself
  Kind,          \* of a block: "http", "server", "location" or "if"
  Texts,         \* arguments of the directives that take a key or a text
  Codes,         \* first arguments of rds_json_ret: sequences over 0..9 and Letter
  MaxDirectives  \* bound: directives in the file

\* The blocks around a block form a chain from the http block down.
ASSUME TreeAssumption ==
  /\ Http \in Blocks
  /\ Enclosing \in [Blocks -> SUBSET Blocks]
  /\ Enclosing[Http] = {Http}
  /\ \A b \in Blocks : {b, Http} \subseteq Enclosing[b]
  /\ \A a, b \in Blocks : a \in Enclosing[b] /\ b \in Enclosing[a] => a = b
  /\ \A b \in Blocks \ {Http} :
       \E p \in Blocks \ {b} : Enclosing[p] = Enclosing[b] \ {b}

\* The http block is no location.
ASSUME KindAssumption == Kind[Http] \notin {"location", "if"}

ASSUME CodesAssumption == Codes \subseteq Seq(0..10)

VARIABLES
  phase,             \* of nginx reading its configuration
  conf,              \* the configuration of every block (ngx_http_rds_json_loc_conf_t)
  handler,           \* blocks whose clcf->handler is ngx_http_rds_json_ret_handler
  requires_filters,  \* rmcf->requires_filters
  merged,            \* blocks whose configuration was merged
  given              \* the directives in the file, by block and name

confVars == <<phase, conf, handler, requires_filters, merged, given>>

Directives == {"enabled", "format", "content_type", "root", "success", "user_props",
               "errcode_key", "errstr_key", "buf_size", "ret"}

\* A value is a sequence: a text in JSON notation, or a single parameter;
\* the empty one is NULL, NGX_CONF_UNSET or a string of length 0.
Unset == << >>

Empty  == ""
Letter == 10  \* in a code, any character that is no digit

\* A text between quotes (what escape_json_str does to it is in RdsJsonEscape).
JsonText(v) == <<"quote", v, "quote">>

\* ngx_http_rds_json_create_loc_conf
NewConf ==
  [enabled |-> Unset, format |-> Unset, content_type |-> Unset, root |-> Unset,
   success |-> Unset, user_props |-> Unset, errcode_key |-> Unset,
   errstr_key |-> Unset, buf_size |-> Unset, errcode |-> Unset, errstr |-> Unset]

\* Nothing was parsed: ngx_http_rds_json_create_main_conf clears requires_filters.
ConfInit ==
  /\ phase = "parsing"
  /\ conf = [b \in Blocks |-> NewConf]
  /\ handler = {}
  /\ requires_filters = FALSE
  /\ merged = {}
  /\ given = [b \in Blocks |-> [d \in Directives |-> << >>]]

\* The next directive of the file stands in block b.
CanGive(b) ==
  /\ phase = "parsing"
  /\ Cardinality({x \in Blocks \X Directives \X (1..MaxDirectives) :
                    x[3] \in DOMAIN given[x[1]][x[2]]}) < MaxDirectives

Give(b, directive, args) ==
  given' = [given EXCEPT ![b][directive] = Append(@, args)]

\* A setter returns NGX_CONF_ERROR or a message: nginx drops the whole
\* configuration.
Reject ==
  /\ phase' = "rejected"
  /\ UNCHANGED <<conf, handler, requires_filters, merged, given>>

-----------------------------------------------------------------------------
(* The setters.                                                            *)

\* ngx_conf_set_flag_slot and its kin: a parameter given once in its block.
SetSlot(b, slot, value) ==
  IF conf[b][slot] # Unset THEN Reject
  ELSE /\ conf' = [conf EXCEPT ![b][slot] = <<value>>]
       /\ Give(b, slot, <<value>>)
       /\ UNCHANGED <<phase, handler, merged>>

\* Mutant: rds_json is a plain flag slot.
RequiresMutant == requires_filters

\* "rds_json off" asks for the filters as well.
Requires == TRUE

\* rds_json on | off
RdsJson(b, on) ==
  /\ CanGive(b)
  /\ SetSlot(b, "enabled", on)
  /\ requires_filters' = Requires

\* rds_json_format normal | compact
Format(b, format) ==
  /\ CanGive(b)
  /\ SetSlot(b, "format", format)
  /\ UNCHANGED requires_filters

\* rds_json_content_type, which may be empty
ContentType(b, type) ==
  /\ CanGive(b)
  /\ SetSlot(b, "content_type", type)
  /\ UNCHANGED requires_filters

\* rds_json_buffer_size
BufferSize(b, size) ==
  /\ CanGive(b)
  /\ SetSlot(b, "buf_size", size)
  /\ UNCHANGED requires_filters

\* rds_json_root, _success_property, _errcode_key and _errstr_key share the
\* text of their setters.
SetKey(b, key, text) ==
  /\ CanGive(b)
  /\ IF conf[b][key] # Unset \/ text = Empty THEN Reject
     ELSE /\ conf' = [conf EXCEPT ![b][key] = JsonText(text)]
          /\ Give(b, key, JsonText(text))
          /\ UNCHANGED <<phase, handler, requires_filters, merged>>

Root(b, text)            == SetKey(b, "root", text)
SuccessProperty(b, text) == SetKey(b, "success", text)
ErrcodeKey(b, text)      == SetKey(b, "errcode_key", text)
ErrstrKey(b, text)       == SetKey(b, "errstr_key", text)

\* rds_json_user_property: any number of them in one block; the value is
\* compiled and evaluated for each request.
UserProperty(b, key, value) ==
  /\ CanGive(b)
  /\ IF key = Empty \/ value = Empty THEN Reject
     ELSE LET prop == [key |-> JsonText(key), value |-> value]
          IN /\ conf' = [conf EXCEPT ![b].user_props = Append(@, prop)]
             /\ Give(b, "user_props", prop)
             /\ UNCHANGED <<phase, handler, requires_filters, merged>>

\* rds_json_ret, in locations and in if blocks: no test for a duplicate, the
\* last one counts.
Ret(b, code, text) ==
  /\ CanGive(b)
  /\ Kind[b] \in {"location", "if"}
  /\ IF code = << >> \/ Letter \in {code[i] : i \in DOMAIN code} THEN Reject
     ELSE /\ conf' = [conf EXCEPT ![b].errcode = code, ![b].errstr = <<text>>]
          /\ handler' = handler \cup {b}
          /\ Give(b, "ret", [code |-> code, text |-> text])
          /\ UNCHANGED <<phase, requires_filters, merged>>

\* An allocation of a setter fails, or a complex value does not compile.
SetterFails == phase = "parsing" /\ Reject

-----------------------------------------------------------------------------
(* Merging.                                                                *)

Parent(b) == CHOOSE p \in Blocks \ {b} : Enclosing[p] = Enclosing[b] \ {b}

EndOfFile ==
  /\ phase = "parsing"
  /\ phase' = "merging"
  /\ UNCHANGED <<conf, handler, requires_filters, merged, given>>

\* Mutant: the default is forgotten.
InheritMutant(value, prev, default) == IF value # Unset THEN value ELSE prev

\* ngx_conf_merge_value and its kin
Inherit(value, prev, default) ==
  IF value # Unset THEN value ELSE IF prev # Unset THEN prev ELSE default

\* Mutant: the default root is decided before the properties are inherited.
DefaultRootMutant(child, prev) ==
  LET root == Inherit(child.root, prev.root, << >>)
  IN IF root = << >> /\ (child.success # << >> \/ child.user_props # << >>)
       THEN JsonText("data") ELSE root

\* The root key: "data" when there is none but other properties.
DefaultRoot(child, prev) ==
  LET root == Inherit(child.root, prev.root, << >>)
  IN IF /\ root = << >>
        /\ \/ Inherit(child.success, prev.success, << >>) # << >>
           \/ Inherit(child.user_props, prev.user_props, << >>) # << >>
       THEN JsonText("data") ELSE root

\* ngx_http_rds_json_merge_loc_conf; errcode and errstr are not merged.
MergeLocConf(child, prev) ==
  [enabled      |-> Inherit(child.enabled, prev.enabled, <<FALSE>>),
   format       |-> Inherit(child.format, prev.format, <<"normal">>),
   content_type |-> Inherit(child.content_type, prev.content_type, <<"application/json">>),
   root         |-> DefaultRoot(child, prev),
   success      |-> Inherit(child.success, prev.success, << >>),
   user_props   |-> Inherit(child.user_props, prev.user_props, << >>),
   errcode_key  |-> Inherit(child.errcode_key, prev.errcode_key, JsonText("errcode")),
   errstr_key   |-> Inherit(child.errstr_key, prev.errstr_key, JsonText("errstr")),
   buf_size     |-> Inherit(child.buf_size, prev.buf_size, <<"ngx_pagesize">>),
   errcode      |-> child.errcode,
   errstr       |-> child.errstr]

\* nginx merges a block after the one around it; the http block's own
\* configuration stays as it was parsed.
Merge(b) ==
  /\ phase = "merging"
  /\ b \in Blocks \ ({Http} \cup merged)
  /\ Parent(b) \in {Http} \cup merged
  /\ conf' = [conf EXCEPT ![b] = MergeLocConf(@, conf[Parent(b)])]
  /\ merged' = merged \cup {b}
  /\ UNCHANGED <<phase, handler, requires_filters, given>>

\* The new configuration is taken into use.
GoLive ==
  /\ phase = "merging"
  /\ merged = Blocks \ {Http}
  /\ phase' = "live"
  /\ UNCHANGED <<conf, handler, requires_filters, merged, given>>

-----------------------------------------------------------------------------
Directive(b) ==
  \/ \E on \in BOOLEAN : RdsJson(b, on)
  \/ \E format \in {"normal", "compact"} : Format(b, format)
  \/ \E type \in {"text/json", Empty} : ContentType(b, type)
  \/ BufferSize(b, "512")
  \/ \E text \in Texts :
       \/ Root(b, text) \/ SuccessProperty(b, text)
       \/ ErrcodeKey(b, text) \/ ErrstrKey(b, text)
       \/ \E value \in Texts : UserProperty(b, text, value)
       \/ \E code \in Codes : Ret(b, code, text)

ConfNext ==
  \/ \E b \in Blocks : Directive(b) \/ Merge(b)
  \/ SetterFails
  \/ EndOfFile
  \/ GoLive

ConfSpec == ConfInit /\ [][ConfNext]_confVars

-----------------------------------------------------------------------------
(* Properties.                                                             *)

TextValues == {Unset} \cup {JsonText(v) : v \in Texts \cup {"data", "errcode", "errstr"}}

\* Every field of every block's configuration has a value of its kind, and
\* no slot with a default is left unset in a merged one.
TypeOK ==
  /\ phase \in {"parsing", "merging", "live", "rejected"}
  /\ \A b \in Blocks :
       /\ conf[b].enabled \in {Unset, <<TRUE>>, <<FALSE>>}
       /\ \A key \in {"root", "success", "errcode_key", "errstr_key"} :
            conf[b][key] \in TextValues
       /\ conf[b].user_props \in Seq([key : TextValues \ {Unset}, value : Texts])
  /\ handler \subseteq Blocks
  /\ requires_filters \in BOOLEAN
  /\ merged \subseteq Blocks \ {Http}
  /\ \A b \in merged :
       \A slot \in {"enabled", "format", "content_type", "errcode_key", "errstr_key", "buf_size"} :
         conf[b][slot] # Unset

\* The blocks around b in which the directive stands, and the innermost one.
Givers(b, directive) == {a \in Enclosing[b] : given[a][directive] # << >>}

Innermost(blocks) == CHOOSE a \in blocks : blocks \subseteq Enclosing[a]

Given(b, directive) ==
  IF directive = "user_props" THEN given[b][directive] ELSE given[b][directive][1]

\* The value that a block takes from the innermost directive around it.
Effective(b, directive, default) ==
  IF Givers(b, directive) = {} THEN default
  ELSE Given(Innermost(Givers(b, directive)), directive)

\* The root key around b, or "data" as soon as a success or user property is.
EffectiveRoot(b) ==
  Effective(b, "root",
            IF Givers(b, "success") \cup Givers(b, "user_props") = {}
              THEN << >> ELSE JsonText("data"))

Defaults ==
  [enabled |-> <<FALSE>>, format |-> <<"normal">>, content_type |-> <<"application/json">>,
   success |-> << >>, user_props |-> << >>, errcode_key |-> JsonText("errcode"),
   errstr_key |-> JsonText("errstr"), buf_size |-> <<"ngx_pagesize">>]

\* In whatever block and order the directives stand, and however deep the
\* blocks are nested: a merged block has the value of the innermost directive
\* around it or the default that the README gives, and the root key defaults
\* to "data" exactly when a success or user property is in force there
\* (README "rds_json_root"; t/property.t).
MergedIsInherited ==
  \A b \in merged :
    /\ \A d \in DOMAIN Defaults : conf[b][d] = Effective(b, d, Defaults[d])
    /\ conf[b].root = EffectiveRoot(b)

\* A block in which the filter is on is only there in a configuration that
\* asks for the filters, which filter_init would not register otherwise.
EnabledIsRequired == \A b \in Blocks : conf[b].enabled = <<TRUE>> => requires_filters
=============================================================================
