-------------------------- MODULE RdsJsonConfProofs --------------------------
(***************************************************************************)
(* Theorems about RdsJsonConf and RdsJsonRet, for every tree of blocks and *)
(* every file: no block has the filter on unless the file asked for the    *)
(* filters, in each merged block the innermost directive counts, and       *)
(* rds_json_ret sends the object that the directives ask for.              *)
(*                                                                         *)
(* Of RdsJsonWireProofs only the laws of FlattenSeq are used.              *)
(***************************************************************************)
EXTENDS RdsJsonRet, RdsJsonWireProofs, TLAPS

Slots == {"enabled", "format", "content_type", "root", "success", "user_props",
          "errcode_key", "errstr_key", "buf_size", "errcode", "errstr"}

\* Every block has its configuration, merged or not, with all its slots.
ConfShape ==
  /\ DOMAIN conf = Blocks
  /\ \A b \in Blocks : DOMAIN conf[b] = Slots

\* "on" comes from rds_json in some block or, when merging, from a block
\* around it; requires_filters is never taken back.
RequiredInv == ConfShape /\ merged \subseteq Blocks /\ EnabledIsRequired

\* A step of a setter that leaves the slot "enabled" of every block alone.
LEMMA OtherSlot ==
  ASSUME RequiredInv, NEW b \in Blocks, NEW slot \in Slots \ {"enabled"}, NEW value,
         conf' = [conf EXCEPT ![b][slot] = value], UNCHANGED <<requires_filters, merged>>
  PROVE  RequiredInv'
<1>1. /\ DOMAIN conf' = Blocks
      /\ \A a \in Blocks : DOMAIN conf'[a] = Slots
  BY DEF RequiredInv, ConfShape
<1>2. \A a \in Blocks : conf'[a]["enabled"] = conf[a]["enabled"]
  BY DEF RequiredInv, ConfShape
<1>3. QED
  BY <1>1, <1>2 DEF RequiredInv, ConfShape, EnabledIsRequired

\* A step that leaves all of it alone.
LEMMA SameConf ==
  ASSUME RequiredInv, UNCHANGED <<conf, requires_filters, merged>>
  PROVE  RequiredInv'
  BY DEF RequiredInv, ConfShape, EnabledIsRequired

LEMMA InitRequired == ConfInit => RequiredInv
<1> SUFFICES ASSUME ConfInit PROVE RequiredInv
  OBVIOUS
<1>1. /\ DOMAIN conf = Blocks
      /\ \A b \in Blocks : conf[b] = NewConf
  BY DEF ConfInit
<1>2. DOMAIN NewConf = Slots /\ NewConf.enabled = << >>
  BY DEF NewConf, Slots, Unset
<1>3. << >> # <<TRUE>>
  OBVIOUS
<1>4. QED
  BY <1>1, <1>2, <1>3 DEF ConfInit, RequiredInv, ConfShape, EnabledIsRequired

LEMMA SetSlotRequired ==
  ASSUME RequiredInv, NEW b \in Blocks, NEW slot \in Slots \ {"enabled"}, NEW value,
         SetSlot(b, slot, value), requires_filters' = requires_filters
  PROVE  RequiredInv'
<1>1. CASE conf[b][slot] # Unset
  BY <1>1, SameConf DEF SetSlot, Reject
<1>2. CASE ~(conf[b][slot] # Unset)
  <2>1. conf' = [conf EXCEPT ![b][slot] = <<value>>] /\ merged' = merged
    BY <1>2 DEF SetSlot
  <2>2. QED
    BY <2>1, OtherSlot
<1>3. QED
  BY <1>1, <1>2

LEMMA SetKeyRequired ==
  ASSUME RequiredInv, NEW b \in Blocks, NEW key \in Slots \ {"enabled"}, NEW text,
         SetKey(b, key, text)
  PROVE  RequiredInv'
<1>1. CASE conf[b][key] # Unset \/ text = Empty
  BY <1>1, SameConf DEF SetKey, Reject
<1>2. CASE ~(conf[b][key] # Unset \/ text = Empty)
  <2>1. conf' = [conf EXCEPT ![b][key] = JsonText(text)] /\ UNCHANGED <<requires_filters, merged>>
    BY <1>2 DEF SetKey
  <2>2. QED
    BY <2>1, OtherSlot
<1>3. QED
  BY <1>1, <1>2

LEMMA DirectiveRequired ==
  ASSUME RequiredInv, NEW b \in Blocks, Directive(b)
  PROVE  RequiredInv'
<1>0. {"format", "content_type", "root", "success", "user_props", "errcode_key",
       "errstr_key", "buf_size"} \subseteq Slots \ {"enabled"}
  BY DEF Slots
<1>1. ASSUME NEW on \in BOOLEAN, RdsJson(b, on) PROVE RequiredInv'
  <2>1. requires_filters' /\ merged' = merged
    BY <1>1 DEF RdsJson, Requires, SetSlot, Reject
  <2>2. DOMAIN conf' = Blocks /\ \A a \in Blocks : DOMAIN conf'[a] = Slots
    BY <1>1 DEF RdsJson, SetSlot, Reject, RequiredInv, ConfShape
  <2>3. QED
    BY <2>1, <2>2 DEF RequiredInv, ConfShape, EnabledIsRequired
<1>2. ASSUME NEW format, Format(b, format) PROVE RequiredInv'
  BY <1>0, <1>2, SetSlotRequired DEF Format
<1>3. ASSUME NEW type, ContentType(b, type) PROVE RequiredInv'
  BY <1>0, <1>3, SetSlotRequired DEF ContentType
<1>4. CASE BufferSize(b, "512")
  BY <1>0, <1>4, SetSlotRequired DEF BufferSize
<1>5. ASSUME NEW text, Root(b, text) \/ SuccessProperty(b, text)
                       \/ ErrcodeKey(b, text) \/ ErrstrKey(b, text)
      PROVE  RequiredInv'
  BY <1>0, <1>5, SetKeyRequired DEF Root, SuccessProperty, ErrcodeKey, ErrstrKey
<1>6. ASSUME NEW key, NEW value, UserProperty(b, key, value) PROVE RequiredInv'
  <2>1. CASE key = Empty \/ value = Empty
    BY <1>6, <2>1, SameConf DEF UserProperty, Reject
  <2>2. CASE ~(key = Empty \/ value = Empty)
    <3>1. /\ conf' = [conf EXCEPT ![b].user_props =
                        Append(@, [key |-> JsonText(key), value |-> value])]
          /\ UNCHANGED <<requires_filters, merged>>
      BY <1>6, <2>2 DEF UserProperty
    <3>2. /\ DOMAIN conf' = Blocks /\ \A a \in Blocks : DOMAIN conf'[a] = Slots
          /\ \A a \in Blocks : conf'[a].enabled = conf[a].enabled
      BY <3>1 DEF RequiredInv, ConfShape
    <3>3. QED
      BY <3>1, <3>2 DEF RequiredInv, ConfShape, EnabledIsRequired
  <2>3. QED
    BY <2>1, <2>2
<1>7. ASSUME NEW code, NEW text, Ret(b, code, text) PROVE RequiredInv'
  <2>1. CASE code = << >> \/ Letter \in {code[i] : i \in DOMAIN code}
    BY <1>7, <2>1, SameConf DEF Ret, Reject
  <2>2. CASE ~(code = << >> \/ Letter \in {code[i] : i \in DOMAIN code})
    <3>1. /\ conf' = [conf EXCEPT ![b].errcode = code, ![b].errstr = <<text>>]
          /\ UNCHANGED <<requires_filters, merged>>
      BY <1>7, <2>2 DEF Ret
    <3>2. /\ DOMAIN conf' = Blocks /\ \A a \in Blocks : DOMAIN conf'[a] = Slots
          /\ \A a \in Blocks : conf'[a].enabled = conf[a].enabled
      BY <3>1 DEF RequiredInv, ConfShape
    <3>3. QED
      BY <3>1, <3>2 DEF RequiredInv, ConfShape, EnabledIsRequired
  <2>3. QED
    BY <2>1, <2>2
<1>8. QED
  BY <1>1, <1>2, <1>3, <1>4, <1>5, <1>6, <1>7 DEF Directive

LEMMA MergeRequired ==
  ASSUME RequiredInv, NEW b \in Blocks, Merge(b)
  PROVE  RequiredInv'
<1> DEFINE p == Parent(b)
           new == MergeLocConf(conf[b], conf[p])
<1>1. p \in {Http} \cup merged /\ conf' = [conf EXCEPT ![b] = new]
      /\ requires_filters' = requires_filters /\ merged' = merged \cup {b}
  BY DEF Merge
<1>2. p \in Blocks
  BY <1>1, TreeAssumption DEF RequiredInv
<1>3. DOMAIN new = Slots /\ new.enabled = Inherit(conf[b].enabled, conf[p].enabled, <<FALSE>>)
  BY DEF MergeLocConf, Slots
<1> HIDE DEF new
<1>4. <<FALSE>> # <<TRUE>>
  OBVIOUS
<1>5. new.enabled = <<TRUE>> => requires_filters
  BY <1>2, <1>3, <1>4 DEF Inherit, RequiredInv, EnabledIsRequired
<1>6. QED
  BY <1>1, <1>3, <1>5 DEF RequiredInv, ConfShape, EnabledIsRequired

\* Whatever the file says and however blocks are nested: a block in which
\* rds_json is on, by itself or by inheritance, is only there when
\* requires_filters was set, so that filter_init registers the filters.
THEOREM OnIsRequired == ConfSpec => []EnabledIsRequired
<1>1. RequiredInv /\ [ConfNext]_confVars => RequiredInv'
  <2> SUFFICES ASSUME RequiredInv, [ConfNext]_confVars PROVE RequiredInv'
    OBVIOUS
  <2>1. ASSUME NEW b \in Blocks, Directive(b) PROVE RequiredInv'
    BY <2>1, DirectiveRequired
  <2>2. ASSUME NEW b \in Blocks, Merge(b) PROVE RequiredInv'
    BY <2>2, MergeRequired
  <2>3. CASE SetterFails \/ EndOfFile \/ GoLive \/ UNCHANGED confVars
    BY <2>3, SameConf DEF SetterFails, Reject, EndOfFile, GoLive, confVars
  <2>4. QED
    BY <2>1, <2>2, <2>3 DEF ConfNext
<1>2. RequiredInv => EnabledIsRequired
  BY DEF RequiredInv
<1>3. QED
  BY <1>1, <1>2, InitRequired, PTL DEF ConfSpec

-----------------------------------------------------------------------------
(* What a merged block has inherited.                                      *)

Inherited == DOMAIN Defaults \cup {"root"}

\* The value that a block has of its own, before it is merged.
Own(b, d) == IF given[b][d] = << >> THEN Unset ELSE Given(b, d)

\* The blocks around a block in which a directive stands form a chain that
\* ends in one of them.
HasInnermost(b) ==
  \A d \in Inherited :
    Givers(b, d) # {} => \E a \in Givers(b, d) : Givers(b, d) \subseteq Enclosing[a]

\* What a block passes on to the blocks in it: the http block is not merged,
\* so that its slots without a directive stay unset.
PassesOn(b, d) ==
  IF b \in merged
    THEN conf[b][d] = IF d = "root" THEN EffectiveRoot(b) ELSE Effective(b, d, Defaults[d])
    ELSE conf[b][d] = Effective(b, d, Unset)

UserProps == [key : TextValues \ {Unset}, value : Texts]

GivenShape ==
  /\ DOMAIN given = Blocks
  /\ \A b \in Blocks : given[b]["user_props"] \in Seq(UserProps)
  /\ \A b \in Blocks : DOMAIN given[b] = Directives
  /\ \A b \in Blocks : \A d \in Inherited : given[b][d] # << >> => Given(b, d) # Unset

\* Before a block is merged its configuration is its own; afterwards it is
\* that of the innermost directives, of which there is one for each name.
MergeInv ==
  /\ ConfShape
  /\ GivenShape
  /\ merged \subseteq Blocks \ {Http}
  /\ phase = "parsing" => merged = {}
  /\ \A b \in Blocks \ merged : \A d \in Inherited : conf[b][d] = Own(b, d)
  /\ \A b \in merged \cup {Http} : HasInnermost(b)
  /\ \A b \in merged : \A d \in Inherited : PassesOn(b, d)

LEMMA InheritedNames ==
  /\ Inherited = {"enabled", "format", "content_type", "root", "success", "user_props",
                  "errcode_key", "errstr_key", "buf_size"}
  /\ Inherited \subseteq Directives /\ Inherited \subseteq Slots
  BY DEF Inherited, Defaults, Directives, Slots
\* A block with a directive of its own is the innermost one.
LEMMA OwnIsInnermost ==
  ASSUME NEW b \in Blocks, NEW S \in SUBSET Enclosing[b], b \in S
  PROVE  Innermost(S) = b
<1>1. S \subseteq Blocks
  BY TreeAssumption
<1>2. Innermost(S) \in S /\ S \subseteq Enclosing[Innermost(S)]
  BY DEF Innermost
<1>3. QED
  BY <1>1, <1>2, TreeAssumption

LEMMA InnermostGives ==
  ASSUME GivenShape, NEW b \in Blocks, HasInnermost(b), NEW d \in Inherited, Givers(b, d) # {},
         NEW default
  PROVE  /\ Effective(b, d, default) = Given(Innermost(Givers(b, d)), d)
         /\ Effective(b, d, default) # Unset
<1>1. Innermost(Givers(b, d)) \in Givers(b, d)
  BY DEF HasInnermost, Innermost
<1>2. Givers(b, d) \subseteq Blocks /\ \A a \in Givers(b, d) : given[a][d] # << >>
  BY TreeAssumption DEF Givers
<1>3. QED
  BY <1>1, <1>2 DEF Effective, GivenShape

LEMMA ParentOf ==
  ASSUME NEW b \in Blocks \ {Http}
  PROVE  Parent(b) \in Blocks \ {b} /\ Enclosing[Parent(b)] = Enclosing[b] \ {b}
  BY TreeAssumption DEF Parent

\* The block around a block about to be merged: what it passes on, and that
\* the chain of a directive grows by the block at most.
LEMMA Around ==
  ASSUME MergeInv, NEW b \in Blocks \ ({Http} \cup merged), Parent(b) \in {Http} \cup merged,
         NEW d \in Inherited
  PROVE  /\ Parent(b) \in Blocks
         /\ GivenShape /\ HasInnermost(Parent(b)) /\ HasInnermost(b) /\ PassesOn(Parent(b), d)
         /\ conf[b][d] = Own(b, d)
         /\ given[b][d] # << >> => Givers(b, d) # {} /\ Innermost(Givers(b, d)) = b
         /\ given[b][d] = << >> => Givers(b, d) = Givers(Parent(b), d)
         /\ Givers(Parent(b), d) \subseteq Givers(b, d)
<1> DEFINE p == Parent(b)
<1>1. p \in Blocks /\ Enclosing[p] = Enclosing[b] \ {b}
  BY ParentOf
<1> HIDE DEF p
<1>2. GivenShape /\ HasInnermost(p) /\ conf[b][d] = Own(b, d)
  BY DEF MergeInv, p
<1>3. PassesOn(p, d)
  <2>1. CASE p \in merged
    BY <2>1 DEF MergeInv
  <2>2. CASE p = Http /\ p \notin merged
    <3>1. Givers(p, d) \subseteq {p} /\ (Givers(p, d) # {} <=> given[p][d] # << >>)
      BY <2>2, TreeAssumption DEF Givers
    <3>2. Givers(p, d) # {} => Innermost(Givers(p, d)) = p
      BY <3>1, <1>1, OwnIsInnermost, TreeAssumption
    <3>3. QED
      BY <1>1, <2>2, <3>1, <3>2 DEF MergeInv, PassesOn, Own, Effective
  <2>3. QED
    BY <2>1, <2>2 DEF p
<1>4. ASSUME NEW e
      PROVE  /\ Givers(p, e) \subseteq Givers(b, e) /\ Givers(b, e) \subseteq Enclosing[b]
             /\ given[b][e] # << >> => b \in Givers(b, e)
             /\ given[b][e] = << >> => Givers(b, e) = Givers(p, e)
  BY <1>1, TreeAssumption DEF Givers
<1>5. HasInnermost(b)
  <2>1. ASSUME NEW e \in Inherited, Givers(b, e) # {}
        PROVE  \E a \in Givers(b, e) : Givers(b, e) \subseteq Enclosing[a]
    <3>1. CASE given[b][e] # << >>
      BY <1>4, <3>1
    <3>2. CASE given[b][e] = << >>
      BY <1>2, <1>4, <2>1, <3>2 DEF HasInnermost
    <3>3. QED
      BY <3>1, <3>2
  <2>2. QED
    BY <2>1 DEF HasInnermost
<1>6. given[b][d] # << >> => Givers(b, d) # {} /\ Innermost(Givers(b, d)) = b
  BY <1>4, OwnIsInnermost
<1>7. QED
  BY <1>1, <1>2, <1>3, <1>4, <1>5, <1>6 DEF p

\* A slot that is merged without more ado.
LEMMA MergedSlot ==
  ASSUME MergeInv, NEW b \in Blocks \ ({Http} \cup merged), Parent(b) \in {Http} \cup merged,
         NEW d \in DOMAIN Defaults
  PROVE  Inherit(conf[b][d], conf[Parent(b)][d], Defaults[d]) = Effective(b, d, Defaults[d])
<1> DEFINE p == Parent(b)
<1>1. d \in Inherited /\ d # "root"
  BY DEF Inherited, Defaults
<1>2. /\ p \in Blocks /\ GivenShape /\ HasInnermost(p) /\ PassesOn(p, d) /\ conf[b][d] = Own(b, d)
      /\ given[b][d] # << >> => Givers(b, d) # {} /\ Innermost(Givers(b, d)) = b
      /\ given[b][d] = << >> => Givers(b, d) = Givers(p, d)
  BY <1>1, Around
<1> SUFFICES Inherit(conf[b][d], conf[p][d], Defaults[d]) = Effective(b, d, Defaults[d])
  OBVIOUS
<1> HIDE DEF p
<1>3. CASE given[b][d] # << >>
  BY <1>1, <1>2, <1>3 DEF Effective, Own, Inherit, GivenShape
<1>4. CASE given[b][d] = << >>
  <2>1. Effective(b, d, Defaults[d]) = Effective(p, d, Defaults[d])
    BY <1>2, <1>4 DEF Effective
  <2>2. CASE Givers(p, d) = {}
    BY <1>1, <1>2, <1>4, <2>1, <2>2 DEF Effective, Own, Inherit, PassesOn
  <2>3. CASE Givers(p, d) # {}
    <3>1. /\ Effective(p, d, Unset) = Effective(p, d, Defaults[d])
          /\ Effective(p, d, Unset) # Unset
      BY <1>1, <1>2, <2>3, InnermostGives
    <3>2. QED
      BY <1>1, <1>2, <1>4, <2>1, <3>1 DEF Own, Inherit, PassesOn
  <2>4. QED
    BY <2>2, <2>3
<1>5. QED
  BY <1>3, <1>4

\* The root key, with its default that depends on other slots.
LEMMA MergedRoot ==
  ASSUME MergeInv, NEW b \in Blocks \ ({Http} \cup merged), Parent(b) \in {Http} \cup merged
  PROVE  DefaultRoot(conf[b], conf[Parent(b)]) = EffectiveRoot(b)
<1> DEFINE p == Parent(b)
           data == JsonText("data")
<1>1. {"root", "success", "user_props"} \subseteq Inherited /\ data # << >>
  BY DEF Inherited, Defaults, JsonText
<1>2. /\ p \in Blocks /\ GivenShape /\ HasInnermost(p) /\ HasInnermost(b)
      /\ \A d \in Inherited :
           /\ PassesOn(p, d) /\ conf[b][d] = Own(b, d) /\ Givers(p, d) \subseteq Givers(b, d)
           /\ given[b][d] # << >> => Givers(b, d) # {} /\ Innermost(Givers(b, d)) = b
           /\ given[b][d] = << >> => Givers(b, d) = Givers(p, d)
  BY <1>1, Around
<1>3. ASSUME NEW d \in {"success", "user_props"}
      PROVE  Inherit(conf[b][d], conf[p][d], << >>) # << >> <=> Givers(b, d) # {}
  <2>1. d \in DOMAIN Defaults /\ Defaults[d] = << >> /\ d \in Inherited
    BY DEF Defaults, Inherited
  <2>2. Inherit(conf[b][d], conf[p][d], << >>) = Effective(b, d, << >>)
    BY <2>1, MergedSlot
  <2>3. Givers(b, d) # {} => Effective(b, d, << >>) # << >>
    BY <1>2, <2>1, InnermostGives DEF Unset
  <2>4. QED
    BY <2>2, <2>3 DEF Effective
<1>4. (Inherit(conf[b].success, conf[p].success, << >>) # << >>
        \/ Inherit(conf[b].user_props, conf[p].user_props, << >>) # << >>)
        <=> Givers(b, "success") \cup Givers(b, "user_props") # {}
  <2>1. /\ Inherit(conf[b]["success"], conf[p]["success"], << >>) # << >> <=> Givers(b, "success") # {}
        /\ Inherit(conf[b]["user_props"], conf[p]["user_props"], << >>) # << >>
             <=> Givers(b, "user_props") # {}
    BY <1>3
  <2>2. QED
    BY <2>1
<1> SUFFICES DefaultRoot(conf[b], conf[p]) = EffectiveRoot(b)
  OBVIOUS
<1> DEFINE default(a) == IF Givers(a, "success") \cup Givers(a, "user_props") = {} THEN << >> ELSE data
           root == Inherit(conf[b].root, conf[p].root, << >>)
<1> HIDE DEF p, data
<1>5. /\ DefaultRoot(conf[b], conf[p]) = IF root = << >> THEN default(b) ELSE root
      /\ EffectiveRoot(b) = Effective(b, "root", default(b))
      /\ EffectiveRoot(p) = Effective(p, "root", default(p))
  BY <1>4 DEF DefaultRoot, EffectiveRoot, data
<1>6. default(p) # << >> => default(p) = default(b)
  BY <1>1, <1>2
<1> HIDE DEF default
<1>7. CASE given[b]["root"] # << >>
  <2>1. root = Given(b, "root") /\ Given(b, "root") # << >>
    BY <1>1, <1>2, <1>7 DEF Own, Inherit, GivenShape, Unset
  <2>2. QED
    BY <1>1, <1>2, <1>5, <1>7, <2>1 DEF Effective
<1>8. CASE given[b]["root"] = << >> /\ Givers(p, "root") # {}
  <2>1. /\ \A v : Effective(p, "root", v) = Given(Innermost(Givers(p, "root")), "root")
        /\ Given(Innermost(Givers(p, "root")), "root") # << >>
    BY <1>1, <1>2, <1>8, InnermostGives DEF Unset
  <2>2. root = Given(Innermost(Givers(p, "root")), "root")
    BY <1>1, <1>2, <1>5, <1>8, <2>1 DEF PassesOn, Own, Inherit, Unset
  <2>3. QED
    BY <1>1, <1>2, <1>5, <1>8, <2>1, <2>2 DEF Effective
<1>9. CASE given[b]["root"] = << >> /\ Givers(p, "root") = {}
  <2>1. root = IF p \in merged THEN default(p) ELSE << >>
    BY <1>1, <1>2, <1>5, <1>9 DEF PassesOn, Own, Inherit, Unset, Effective
  <2>2. QED
    BY <1>1, <1>2, <1>5, <1>6, <1>9, <2>1 DEF Effective
<1>10. QED
  BY <1>7, <1>8, <1>9
\* While the file is parsed there is nothing but the blocks' own values.
OwnOnly ==
  /\ merged = {} /\ ConfShape /\ GivenShape
  /\ \A b \in Blocks : \A d \in Inherited : conf[b][d] = Own(b, d)

LEMMA WhileParsing == OwnOnly => MergeInv
<1>1. Http \in Blocks /\ \A d : Givers(Http, d) \subseteq {Http} /\ Http \in Enclosing[Http]
  BY TreeAssumption DEF Givers
<1>2. HasInnermost(Http)
  BY <1>1, TreeAssumption DEF HasInnermost
<1>3. QED
  BY <1>2 DEF MergeInv, OwnOnly

LEMMA WhileParsingNext == OwnOnly' => MergeInv'
  BY WhileParsing, PTL

LEMMA InitMerge == ConfInit => MergeInv
<1> SUFFICES ASSUME ConfInit PROVE MergeInv
  OBVIOUS
<1>1. merged = {} /\ ConfShape
  BY InitRequired DEF ConfInit, RequiredInv
<1>2. GivenShape /\ \A b \in Blocks : \A d \in Inherited : conf[b][d] = Unset /\ given[b][d] = << >>
  BY InheritedNames DEF ConfInit, NewConf, GivenShape
<1>3. QED
  BY <1>1, <1>2, WhileParsing DEF Own, OwnOnly

\* A directive gives a slot its value in one block.
LEMMA GivenOnce ==
  ASSUME MergeInv, phase = "parsing", NEW b \in Blocks, NEW d \in Inherited \ {"user_props"},
         NEW value, value # Unset, conf[b][d] = Unset,
         conf' = [conf EXCEPT ![b][d] = value], Give(b, d, value), merged' = merged
  PROVE  MergeInv'
<1>1. merged = {} /\ ConfShape /\ GivenShape /\ d \in Slots /\ d \in Directives
  BY InheritedNames DEF MergeInv
<1>2. conf[b][d] = Own(b, d) /\ given[b][d] = << >>
  BY <1>1 DEF MergeInv, Own, GivenShape
<1>3. given' = [given EXCEPT ![b][d] = <<value>>]
  BY <1>2 DEF Give
<1>4. ConfShape' /\ DOMAIN given' = Blocks /\ \A a \in Blocks : DOMAIN given'[a] = Directives
  BY <1>1, <1>3 DEF ConfShape, GivenShape
<1>5. conf'[b][d] = value /\ given'[b][d] = <<value>> /\ <<value>> # << >> /\ <<value>>[1] = value
  BY <1>1, <1>3 DEF ConfShape, GivenShape
<1>6. \A a \in Blocks, e \in Inherited :
        a # b \/ e # d => conf'[a][e] = conf[a][e] /\ given'[a][e] = given[a][e]
  BY <1>1, <1>3 DEF ConfShape, GivenShape
<1>7. \A a \in Blocks, e \in Inherited :
        (given'[a][e] # << >> => Given(a, e)' # Unset) /\ conf'[a][e] = Own(a, e)'
  <2>1. Given(b, d)' = value /\ Own(b, d)' = value
    BY <1>5 DEF Given, Own
  <2>2. ASSUME NEW a \in Blocks, NEW e \in Inherited, a # b \/ e # d
        PROVE  /\ Given(a, e)' = Given(a, e) /\ Own(a, e)' = Own(a, e)
               /\ given[a][e] # << >> => Given(a, e) # Unset
               /\ conf[a][e] = Own(a, e)
    BY <1>1, <1>6, <2>2 DEF Given, Own, MergeInv, GivenShape
  <2>3. QED
    BY <1>5, <1>6, <2>1, <2>2
<1>8. GivenShape'
  <2>1. "user_props" \in Inherited /\ \A a \in Blocks : given'[a]["user_props"] = given[a]["user_props"]
    BY <1>6, InheritedNames
  <2>2. QED
    BY <1>1, <1>4, <1>7, <2>1 DEF GivenShape
<1>9. merged' = {}
  BY <1>1
<1>10. QED
  BY <1>4, <1>7, <1>8, <1>9, WhileParsingNext DEF OwnOnly

\* A step that leaves all of it alone, the file being parsed or not.
LEMMA SameMerge ==
  ASSUME MergeInv, UNCHANGED <<conf, given, merged>>, phase' = "parsing" => phase = "parsing"
  PROVE  MergeInv'
<1>1. ConfShape' /\ GivenShape'
  BY DEF MergeInv, ConfShape, GivenShape, Given
<1>2. \A b, d : Givers(b, d)' = Givers(b, d) /\ Given(b, d)' = Given(b, d) /\ Own(b, d)' = Own(b, d)
  BY DEF Givers, Given, Own
<1>3. \A b, d, v : Effective(b, d, v)' = Effective(b, d, v)
  BY <1>2 DEF Effective
<1>4. \A b : EffectiveRoot(b)' = EffectiveRoot(b)
  BY <1>2, <1>3 DEF EffectiveRoot
<1>5. \A b, d : PassesOn(b, d) => PassesOn(b, d)'
  BY <1>3, <1>4 DEF PassesOn
<1>6. \A b : HasInnermost(b) => HasInnermost(b)'
  BY <1>2 DEF HasInnermost
<1>7. QED
  BY <1>1, <1>2, <1>5, <1>6 DEF MergeInv

LEMMA SetSlotMerge ==
  ASSUME MergeInv, phase = "parsing", NEW b \in Blocks, NEW d \in Inherited \ {"user_props"},
         NEW value, SetSlot(b, d, value)
  PROVE  MergeInv'
<1>1. CASE conf[b][d] # Unset
  BY <1>1, SameMerge DEF SetSlot, Reject
<1>2. CASE conf[b][d] = Unset
  <2>1. /\ conf' = [conf EXCEPT ![b][d] = <<value>>] /\ Give(b, d, <<value>>)
        /\ merged' = merged /\ <<value>> # Unset
    BY <1>2 DEF SetSlot, Unset
  <2>2. QED
    BY <1>2, <2>1, GivenOnce
<1>3. QED
  BY <1>1, <1>2

LEMMA SetKeyMerge ==
  ASSUME MergeInv, NEW b \in Blocks, NEW key \in Inherited \ {"user_props"}, NEW text,
         SetKey(b, key, text)
  PROVE  MergeInv'
<1>0. phase = "parsing"
  BY DEF SetKey, CanGive
<1>1. CASE conf[b][key] # Unset \/ text = Empty
  BY <1>0, <1>1, SameMerge DEF SetKey, Reject
<1>2. CASE ~(conf[b][key] # Unset \/ text = Empty)
  <2>1. /\ conf' = [conf EXCEPT ![b][key] = JsonText(text)] /\ Give(b, key, JsonText(text))
        /\ merged' = merged /\ JsonText(text) # Unset
    BY <1>2 DEF SetKey, Unset, JsonText
  <2>2. QED
    BY <1>0, <1>2, <2>1, GivenOnce
<1>3. QED
  BY <1>1, <1>2
LEMMA UserPropertyMerge ==
  ASSUME MergeInv, NEW b \in Blocks, NEW key \in Texts, NEW value \in Texts,
         UserProperty(b, key, value)
  PROVE  MergeInv'
<1>0. phase = "parsing"
  BY DEF UserProperty, CanGive
<1>1. CASE key = Empty \/ value = Empty
  BY <1>0, <1>1, SameMerge DEF UserProperty, Reject
<1>2. CASE ~(key = Empty \/ value = Empty)
  <2> DEFINE prop == [key |-> JsonText(key), value |-> value]
             props == given[b]["user_props"]
  <2>1. /\ conf' = [conf EXCEPT ![b]["user_props"] = Append(@, prop)]
        /\ given' = [given EXCEPT ![b]["user_props"] = Append(@, prop)]
        /\ merged' = merged
    BY <1>2 DEF UserProperty, Give
  <2>2. /\ merged = {} /\ ConfShape /\ GivenShape
        /\ "user_props" \in Slots /\ "user_props" \in Directives /\ "user_props" \in Inherited
    BY <1>0, InheritedNames DEF MergeInv
  <2>3. props \in Seq(UserProps) /\ conf[b]["user_props"] = props
    BY <2>2 DEF MergeInv, GivenShape, Own, Given, Unset
  <2>4. JsonText(key) \in TextValues \ {Unset}
    BY DEF TextValues, JsonText, Unset
  <2>5. prop \in UserProps
    BY <2>4 DEF UserProps
  <2> HIDE DEF prop
  <2>6. Append(props, prop) \in Seq(UserProps) /\ Append(props, prop) # << >>
    BY <2>3, <2>5
  <2>7. ConfShape' /\ DOMAIN given' = Blocks /\ \A a \in Blocks : DOMAIN given'[a] = Directives
    BY <2>1, <2>2 DEF ConfShape, GivenShape
  <2>8. conf'[b]["user_props"] = Append(props, prop) /\ given'[b]["user_props"] = Append(props, prop)
    BY <2>1, <2>2, <2>3 DEF ConfShape, GivenShape
  <2>9. \A a \in Blocks, e \in Inherited : a # b \/ e # "user_props" =>
          /\ conf'[a][e] = conf[a][e] /\ given'[a][e] = given[a][e]
    BY <2>1, <2>2 DEF ConfShape, GivenShape
  <2>10. \A a \in Blocks, e \in Inherited :
           /\ given'[a][e] # << >> => Given(a, e)' # Unset
           /\ conf'[a][e] = Own(a, e)'
    <3>1. Given(b, "user_props")' = Append(props, prop) /\ Own(b, "user_props")' = Append(props, prop)
      BY <2>6, <2>8 DEF Given, Own
    <3>2. ASSUME NEW a \in Blocks, NEW e \in Inherited, a # b \/ e # "user_props"
          PROVE  /\ Given(a, e)' = Given(a, e) /\ Own(a, e)' = Own(a, e)
                 /\ given[a][e] # << >> => Given(a, e) # Unset
                 /\ conf[a][e] = Own(a, e)
      BY <2>2, <2>9, <3>2 DEF Given, Own, MergeInv, GivenShape
    <3>3. QED
      BY <2>6, <2>8, <2>9, <3>1, <3>2 DEF Unset
  <2>11. \A a \in Blocks : given'[a]["user_props"] \in Seq(UserProps)
    BY <2>2, <2>6, <2>8, <2>9 DEF GivenShape
  <2>12. QED
    BY <2>1, <2>2, <2>7, <2>10, <2>11, WhileParsingNext DEF OwnOnly, GivenShape
<1>3. QED
  BY <1>1, <1>2

LEMMA RetMerge ==
  ASSUME MergeInv, NEW b \in Blocks, NEW code, NEW text, Ret(b, code, text)
  PROVE  MergeInv'
<1>0. phase = "parsing"
  BY DEF Ret, CanGive
<1>1. CASE code = << >> \/ Letter \in {code[i] : i \in DOMAIN code}
  BY <1>0, <1>1, SameMerge DEF Ret, Reject
<1>2. CASE ~(code = << >> \/ Letter \in {code[i] : i \in DOMAIN code})
  <2>1. /\ conf' = [conf EXCEPT ![b].errcode = code, ![b].errstr = <<text>>]
        /\ given' = [given EXCEPT ![b]["ret"] = Append(@, [code |-> code, text |-> text])]
        /\ merged' = merged
    BY <1>2 DEF Ret, Give
  <2>2. /\ merged = {} /\ ConfShape /\ GivenShape
        /\ "ret" \notin Inherited /\ "errcode" \notin Inherited /\ "errstr" \notin Inherited
        /\ "user_props" \in Inherited /\ Inherited \subseteq Slots
    BY <1>0, InheritedNames DEF MergeInv
  <2>3. ConfShape' /\ DOMAIN given' = Blocks /\ \A a \in Blocks : DOMAIN given'[a] = Directives
    BY <2>1, <2>2 DEF ConfShape, GivenShape
  <2>4. \A a \in Blocks, e \in Inherited : conf'[a][e] = conf[a][e] /\ given'[a][e] = given[a][e]
    <3>1. \A a \in Blocks, e \in Inherited : conf'[a][e] = conf[a][e]
      <4>1. conf'[b] = [conf[b] EXCEPT !.errcode = code, !.errstr = <<text>>]
        BY <2>1, <2>2 DEF ConfShape
      <4>2. \A e \in Slots : e # "errcode" /\ e # "errstr" => conf'[b][e] = conf[b][e]
        BY <2>2, <4>1 DEF ConfShape
      <4>3. \A a \in Blocks : a # b => conf'[a] = conf[a]
        BY <2>1, <2>2 DEF ConfShape
      <4>4. QED
        BY <2>2, <4>2, <4>3
    <3>2. \A a \in Blocks, e \in Inherited : given'[a][e] = given[a][e]
      BY <2>1, <2>2 DEF GivenShape
    <3>3. QED
      BY <3>1, <3>2
  <2>5. \A a \in Blocks, e \in Inherited : Given(a, e)' = Given(a, e) /\ Own(a, e)' = Own(a, e)
    BY <2>4 DEF Given, Own
  <2>6. GivenShape'
    BY <2>2, <2>3, <2>4, <2>5 DEF GivenShape
  <2>7. \A a \in Blocks, e \in Inherited : conf'[a][e] = Own(a, e)'
    BY <2>2, <2>4, <2>5 DEF MergeInv
  <2>8. QED
    BY <2>1, <2>2, <2>3, <2>6, <2>7, WhileParsingNext DEF OwnOnly
<1>3. QED
  BY <1>1, <1>2

LEMMA DirectiveMerge ==
  ASSUME MergeInv, NEW b \in Blocks, Directive(b)
  PROVE  MergeInv'
<1>0. {"enabled", "format", "content_type", "root", "success", "errcode_key",
       "errstr_key", "buf_size"} \subseteq Inherited \ {"user_props"}
  BY InheritedNames
<1>1. ASSUME NEW v, \/ RdsJson(b, v) \/ Format(b, v) \/ ContentType(b, v) \/ BufferSize(b, v)
      PROVE  MergeInv'
  BY <1>0, <1>1, SetSlotMerge DEF RdsJson, Format, ContentType, BufferSize, CanGive
<1>2. ASSUME NEW text, Root(b, text) \/ SuccessProperty(b, text)
                       \/ ErrcodeKey(b, text) \/ ErrstrKey(b, text)
      PROVE  MergeInv'
  BY <1>0, <1>2, SetKeyMerge DEF Root, SuccessProperty, ErrcodeKey, ErrstrKey
<1>3. ASSUME NEW text \in Texts, NEW value \in Texts, UserProperty(b, text, value)
      PROVE  MergeInv'
  BY <1>3, UserPropertyMerge
<1>4. ASSUME NEW code, NEW text, Ret(b, code, text) PROVE MergeInv'
  BY <1>4, RetMerge
<1>5. QED
  BY <1>1, <1>2, <1>3, <1>4 DEF Directive

\* Slots other than the root are merged with ngx_conf_merge_value and its kin.
LEMMA MergesSlot ==
  ASSUME NEW child, NEW prev, NEW d \in DOMAIN Defaults
  PROVE  MergeLocConf(child, prev)[d] = Inherit(child[d], prev[d], Defaults[d])
<1> DEFINE new == MergeLocConf(child, prev)
<1>1. d \in {"enabled", "format", "content_type", "success", "user_props",
             "errcode_key", "errstr_key", "buf_size"}
  BY DEF Defaults
<1>2. /\ new["enabled"] = Inherit(child["enabled"], prev["enabled"], Defaults["enabled"])
      /\ new["format"] = Inherit(child["format"], prev["format"], Defaults["format"])
      /\ new["content_type"] = Inherit(child["content_type"], prev["content_type"], Defaults["content_type"])
      /\ new["success"] = Inherit(child["success"], prev["success"], Defaults["success"])
      /\ new["user_props"] = Inherit(child["user_props"], prev["user_props"], Defaults["user_props"])
      /\ new["errcode_key"] = Inherit(child["errcode_key"], prev["errcode_key"], Defaults["errcode_key"])
      /\ new["errstr_key"] = Inherit(child["errstr_key"], prev["errstr_key"], Defaults["errstr_key"])
      /\ new["buf_size"] = Inherit(child["buf_size"], prev["buf_size"], Defaults["buf_size"])
  BY DEF MergeLocConf, Defaults
<1> HIDE DEF new
<1>3. new[d] = Inherit(child[d], prev[d], Defaults[d])
  BY <1>1, <1>2
<1>4. QED
  BY <1>3 DEF new

LEMMA MergeMerge ==
  ASSUME MergeInv, NEW b \in Blocks, Merge(b)
  PROVE  MergeInv'
<1> DEFINE p == Parent(b)
           new == MergeLocConf(conf[b], conf[p])
<1>1. /\ phase' = "merging" /\ b \in Blocks \ ({Http} \cup merged) /\ p \in {Http} \cup merged
      /\ conf' = [conf EXCEPT ![b] = new] /\ merged' = merged \cup {b} /\ given' = given
  BY DEF Merge
<1>2. DOMAIN new = Slots
  BY DEF MergeLocConf, Slots
<1>3. new["root"] = EffectiveRoot(b)
  BY <1>1, MergedRoot DEF MergeLocConf
<1>4. ASSUME NEW d \in DOMAIN Defaults PROVE new[d] = Effective(b, d, Defaults[d])
  <2>1. Inherit(conf[b][d], conf[p][d], Defaults[d]) = Effective(b, d, Defaults[d])
    BY <1>1, MergedSlot
  <2>2. new[d] = Inherit(conf[b][d], conf[p][d], Defaults[d])
    BY MergesSlot
  <2>3. QED
    BY <2>1, <2>2
<1>5. HasInnermost(b)
  BY <1>1, InheritedNames, Around
<1> HIDE DEF new, p
<1>6. ConfShape' /\ GivenShape'
  BY <1>1, <1>2 DEF MergeInv, ConfShape, GivenShape, Given
<1>7. \A a, d : Givers(a, d)' = Givers(a, d) /\ Own(a, d)' = Own(a, d) /\ Given(a, d)' = Given(a, d)
  BY <1>1 DEF Givers, Own, Given
<1>8. \A a, d, v : Effective(a, d, v)' = Effective(a, d, v)
  BY <1>7 DEF Effective
<1>9. \A a : EffectiveRoot(a)' = EffectiveRoot(a)
  BY <1>7, <1>8 DEF EffectiveRoot
<1>10. \A a : HasInnermost(a) => HasInnermost(a)'
  BY <1>7 DEF HasInnermost
<1>11. conf'[b] = new /\ \A a \in Blocks \ {b} : conf'[a] = conf[a]
  BY <1>1 DEF MergeInv, ConfShape
<1>12. \A d \in Inherited : PassesOn(b, d)'
  BY <1>1, <1>3, <1>4, <1>8, <1>9, <1>11 DEF PassesOn, Inherited
<1>13. \A a \in merged : \A d \in Inherited : PassesOn(a, d)'
  BY <1>1, <1>8, <1>9, <1>11 DEF PassesOn, MergeInv
<1>14. \A a \in Blocks \ merged' : \A d \in Inherited : conf'[a][d] = Own(a, d)'
  BY <1>1, <1>7, <1>11 DEF MergeInv
<1>15. QED
  BY <1>1, <1>5, <1>6, <1>10, <1>12, <1>13, <1>14 DEF MergeInv

LEMMA NextMerge == MergeInv /\ [ConfNext]_confVars => MergeInv'
<1> SUFFICES ASSUME MergeInv, [ConfNext]_confVars PROVE MergeInv'
  OBVIOUS
<1>1. ASSUME NEW b \in Blocks, Directive(b) PROVE MergeInv'
  BY <1>1, DirectiveMerge
<1>2. ASSUME NEW b \in Blocks, Merge(b) PROVE MergeInv'
  BY <1>2, MergeMerge
<1>3. CASE SetterFails \/ EndOfFile \/ GoLive \/ UNCHANGED confVars
  BY <1>3, SameMerge DEF SetterFails, Reject, EndOfFile, GoLive, confVars
<1>4. QED
  BY <1>1, <1>2, <1>3 DEF ConfNext

\* Whatever the file says and however its blocks are nested: a block that
\* ngx_http_rds_json_merge_loc_conf has merged has the value of the innermost
\* directive around it, and the root key its conditional default.
THEOREM InnermostDirectiveCounts == ConfSpec => []MergedIsInherited
<1>1. MergeInv => MergedIsInherited
  <2>1. \A d \in DOMAIN Defaults : d \in Inherited /\ d # "root"
    BY DEF Inherited, Defaults
  <2>2. "root" \in Inherited
    BY DEF Inherited
  <2>3. QED
    BY <2>1, <2>2 DEF MergeInv, MergedIsInherited, PassesOn
<1>2. QED
  BY <1>1, InitMerge, NextMerge, PTL DEF ConfSpec
-----------------------------------------------------------------------------
(* Types.                                                                  *)

Keys == {"root", "success", "errcode_key", "errstr_key"}

WithDefault == {"enabled", "format", "content_type", "errcode_key", "errstr_key", "buf_size"}

BlockTyped(c) ==
  /\ c.enabled \in {Unset, <<TRUE>>, <<FALSE>>}
  /\ \A key \in Keys : c[key] \in TextValues
  /\ c.user_props \in Seq(UserProps)

ConfTyped ==
  /\ phase \in {"parsing", "merging", "live", "rejected"}
  /\ \A b \in Blocks : BlockTyped(conf[b])
  /\ handler \subseteq Blocks
  /\ requires_filters \in BOOLEAN
  /\ merged \subseteq Blocks \ {Http}
  /\ \A b \in merged : \A slot \in WithDefault : conf[b][slot] # Unset

TypeInv == ConfShape /\ ConfTyped /\ (phase = "parsing" => merged = {})

LEMMA TypedIsTypeOK == ConfTyped => TypeOK
  BY DEF ConfTyped, BlockTyped, TypeOK, Keys, WithDefault, UserProps

LEMMA JsonTexts ==
  /\ \A v \in Texts \cup {"data", "errcode", "errstr"} : JsonText(v) \in TextValues \ {Unset}
  /\ Unset \in TextValues
  BY DEF TextValues, JsonText, Unset

LEMMA InitTypes == ConfInit => TypeInv
<1> SUFFICES ASSUME ConfInit PROVE TypeInv
  OBVIOUS
<1>1. ConfShape
  BY InitRequired DEF ConfInit, RequiredInv
<1>2. BlockTyped(NewConf)
  BY JsonTexts DEF BlockTyped, NewConf, Keys, Unset
<1>3. \A b \in Blocks : conf[b] = NewConf
  BY DEF ConfInit
<1>4. \A b \in Blocks : BlockTyped(conf[b])
  BY <1>2, <1>3
<1>5. QED
  BY <1>1, <1>4 DEF ConfInit, TypeInv, ConfTyped

\* A step that leaves the configurations alone.
LEMMA SameTypes ==
  ASSUME TypeInv, UNCHANGED <<conf, handler, requires_filters, merged>>,
         phase' \in {phase, "merging", "live", "rejected"}
  PROVE  TypeInv'
  BY DEF TypeInv, ConfTyped, ConfShape

\* A setter that is done with one block while the file is parsed.
LEMMA GivenTypes ==
  ASSUME TypeInv, phase = "parsing", phase' = phase, merged' = merged, NEW b \in Blocks,
         DOMAIN conf' = Blocks, \A a \in Blocks \ {b} : conf'[a] = conf[a],
         DOMAIN conf'[b] = Slots, BlockTyped(conf'[b]),
         handler' \subseteq Blocks, requires_filters' \in BOOLEAN
  PROVE  TypeInv'
<1>1. ConfShape' /\ merged' = {}
  BY DEF TypeInv, ConfShape
<1>2. \A a \in Blocks : BlockTyped(conf'[a])
  BY DEF TypeInv, ConfTyped
<1>3. QED
  BY <1>1, <1>2 DEF TypeInv, ConfTyped

LEMMA SetSlotTypes ==
  ASSUME TypeInv, phase = "parsing", NEW b \in Blocks, NEW value,
         NEW slot \in {"enabled", "format", "content_type", "buf_size"},
         SetSlot(b, slot, value), slot = "enabled" => value \in BOOLEAN,
         requires_filters' \in BOOLEAN,
         conf[b][slot] # Unset => requires_filters' = requires_filters
  PROVE  TypeInv'
<1>1. CASE conf[b][slot] # Unset
  BY <1>1, SameTypes DEF SetSlot, Reject
<1>2. CASE conf[b][slot] = Unset
  <2>1. /\ conf' = [conf EXCEPT ![b][slot] = <<value>>]
        /\ phase' = phase /\ handler' = handler /\ merged' = merged
    BY <1>2 DEF SetSlot
  <2>2. DOMAIN conf = Blocks /\ DOMAIN conf[b] = Slots /\ BlockTyped(conf[b]) /\ slot \in Slots
    BY DEF TypeInv, ConfShape, ConfTyped, Slots
  <2>3. /\ DOMAIN conf' = Blocks /\ DOMAIN conf'[b] = Slots
        /\ \A a \in Blocks \ {b} : conf'[a] = conf[a]
        /\ \A d \in Slots : conf'[b][d] = IF d = slot THEN <<value>> ELSE conf[b][d]
    BY <2>1, <2>2
  <2>4. Keys \subseteq Slots \ {slot} /\ "user_props" \in Slots \ {slot} /\ "enabled" \in Slots
    BY DEF Keys, Slots
  <2>5. /\ \A key \in Keys : conf'[b][key] = conf[b][key]
        /\ conf'[b]["user_props"] = conf[b]["user_props"]
        /\ conf'[b]["enabled"] \in {conf[b]["enabled"], <<TRUE>>, <<FALSE>>}
    BY <2>3, <2>4
  <2>6. BlockTyped(conf'[b])
    BY <2>2, <2>5 DEF BlockTyped
  <2>7. QED
    BY <2>1, <2>3, <2>6, GivenTypes DEF TypeInv, ConfTyped
<1>3. QED
  BY <1>1, <1>2

LEMMA SetKeyTypes ==
  ASSUME TypeInv, NEW b \in Blocks, NEW key \in Keys, NEW text \in Texts, SetKey(b, key, text)
  PROVE  TypeInv'
<1>0. phase = "parsing"
  BY DEF SetKey, CanGive
<1>1. CASE conf[b][key] # Unset \/ text = Empty
  BY <1>0, <1>1, SameTypes DEF SetKey, Reject
<1>2. CASE ~(conf[b][key] # Unset \/ text = Empty)
  <2>1. /\ conf' = [conf EXCEPT ![b][key] = JsonText(text)]
        /\ UNCHANGED <<phase, handler, requires_filters, merged>>
    BY <1>2 DEF SetKey
  <2>2. /\ DOMAIN conf = Blocks /\ DOMAIN conf[b] = Slots /\ BlockTyped(conf[b])
        /\ Keys \subseteq Slots \ {"user_props", "enabled"}
    BY DEF TypeInv, ConfShape, ConfTyped, Slots, Keys
  <2>3. /\ DOMAIN conf' = Blocks /\ DOMAIN conf'[b] = Slots
        /\ \A a \in Blocks \ {b} : conf'[a] = conf[a]
        /\ \A d \in Slots : conf'[b][d] = IF d = key THEN JsonText(text) ELSE conf[b][d]
    BY <2>1, <2>2
  <2>4. /\ \A d \in Keys : conf'[b][d] \in {conf[b][d], JsonText(text)}
        /\ conf'[b]["user_props"] = conf[b]["user_props"]
        /\ conf'[b]["enabled"] = conf[b]["enabled"]
    BY <2>2, <2>3 DEF Slots
  <2>5. BlockTyped(conf'[b])
    BY <2>2, <2>4, JsonTexts DEF BlockTyped
  <2>6. QED
    BY <1>0, <2>1, <2>3, <2>5, GivenTypes DEF TypeInv, ConfTyped
<1>3. QED
  BY <1>1, <1>2

LEMMA UserPropertyTypes ==
  ASSUME TypeInv, NEW b \in Blocks, NEW key \in Texts, NEW value \in Texts,
         UserProperty(b, key, value)
  PROVE  TypeInv'
<1>0. phase = "parsing"
  BY DEF UserProperty, CanGive
<1>1. CASE key = Empty \/ value = Empty
  BY <1>0, <1>1, SameTypes DEF UserProperty, Reject
<1>2. CASE ~(key = Empty \/ value = Empty)
  <2> DEFINE prop == [key |-> JsonText(key), value |-> value]
  <2>1. /\ conf' = [conf EXCEPT ![b]["user_props"] = Append(@, prop)]
        /\ UNCHANGED <<phase, handler, requires_filters, merged>>
    BY <1>2 DEF UserProperty
  <2>2. prop \in UserProps
    BY JsonTexts DEF UserProps
  <2> HIDE DEF prop
  <2>3. /\ DOMAIN conf = Blocks /\ DOMAIN conf[b] = Slots /\ BlockTyped(conf[b])
        /\ Keys \cup {"enabled"} \subseteq Slots \ {"user_props"} /\ "user_props" \in Slots
    BY DEF TypeInv, ConfShape, ConfTyped, Slots, Keys
  <2>4. /\ DOMAIN conf' = Blocks /\ DOMAIN conf'[b] = Slots
        /\ \A a \in Blocks \ {b} : conf'[a] = conf[a]
        /\ \A d \in Slots : conf'[b][d] = IF d = "user_props" THEN Append(conf[b][d], prop)
                                                             ELSE conf[b][d]
    BY <2>1, <2>3
  <2>5. /\ conf'[b]["user_props"] \in Seq(UserProps)
        /\ \A d \in Keys \cup {"enabled"} : conf'[b][d] = conf[b][d]
    BY <2>2, <2>3, <2>4 DEF BlockTyped
  <2>6. BlockTyped(conf'[b])
    BY <2>3, <2>5 DEF BlockTyped
  <2>7. QED
    BY <1>0, <2>1, <2>4, <2>6, GivenTypes DEF TypeInv, ConfTyped
<1>3. QED
  BY <1>1, <1>2

LEMMA RetTypes ==
  ASSUME TypeInv, NEW b \in Blocks, NEW code, NEW text, Ret(b, code, text)
  PROVE  TypeInv'
<1>0. phase = "parsing"
  BY DEF Ret, CanGive
<1>1. CASE code = << >> \/ Letter \in {code[i] : i \in DOMAIN code}
  BY <1>0, <1>1, SameTypes DEF Ret, Reject
<1>2. CASE ~(code = << >> \/ Letter \in {code[i] : i \in DOMAIN code})
  <2>1. /\ conf' = [conf EXCEPT ![b].errcode = code, ![b].errstr = <<text>>]
        /\ handler' = handler \cup {b} /\ UNCHANGED <<phase, requires_filters, merged>>
    BY <1>2 DEF Ret
  <2>2. /\ DOMAIN conf = Blocks /\ DOMAIN conf[b] = Slots /\ BlockTyped(conf[b])
        /\ Keys \cup {"enabled", "user_props"} \subseteq Slots \ {"errcode", "errstr"}
    BY DEF TypeInv, ConfShape, ConfTyped, Slots, Keys
  <2>3. /\ DOMAIN conf' = Blocks /\ \A a \in Blocks \ {b} : conf'[a] = conf[a]
        /\ conf'[b] = [conf[b] EXCEPT !.errcode = code, !.errstr = <<text>>]
    BY <2>1, <2>2
  <2>4. DOMAIN conf'[b] = Slots /\ \A d \in Keys \cup {"enabled", "user_props"} : conf'[b][d] = conf[b][d]
    BY <2>2, <2>3
  <2>5. BlockTyped(conf'[b])
    BY <2>2, <2>4 DEF BlockTyped
  <2>6. QED
    BY <1>0, <2>1, <2>3, <2>4, <2>5, GivenTypes DEF TypeInv, ConfTyped
<1>3. QED
  BY <1>1, <1>2

LEMMA DirectiveTypes ==
  ASSUME TypeInv, NEW b \in Blocks, Directive(b)
  PROVE  TypeInv'
<1>1. ASSUME NEW on \in BOOLEAN, RdsJson(b, on) PROVE TypeInv'
  <2>1. conf[b]["enabled"] # Unset => requires_filters' = requires_filters
    BY <1>1 DEF RdsJson, SetSlot, Reject
  <2>2. QED
    BY <1>1, <2>1, SetSlotTypes DEF RdsJson, CanGive, Requires
<1>2. ASSUME NEW v, Format(b, v) \/ ContentType(b, v) \/ BufferSize(b, v) PROVE TypeInv'
  BY <1>2, SetSlotTypes DEF Format, ContentType, BufferSize, CanGive, TypeInv, ConfTyped
<1>3. ASSUME NEW text \in Texts, Root(b, text) \/ SuccessProperty(b, text)
                                  \/ ErrcodeKey(b, text) \/ ErrstrKey(b, text)
      PROVE  TypeInv'
  BY <1>3, SetKeyTypes DEF Root, SuccessProperty, ErrcodeKey, ErrstrKey, Keys
<1>4. ASSUME NEW text \in Texts, NEW value \in Texts, UserProperty(b, text, value)
      PROVE  TypeInv'
  BY <1>4, UserPropertyTypes
<1>5. ASSUME NEW code, NEW text, Ret(b, code, text) PROVE TypeInv'
  BY <1>5, RetTypes
<1>6. QED
  BY <1>1, <1>2, <1>3, <1>4, <1>5 DEF Directive

LEMMA MergeTypes ==
  ASSUME TypeInv, NEW b \in Blocks, Merge(b)
  PROVE  TypeInv'
<1> DEFINE p == Parent(b)
           new == MergeLocConf(conf[b], conf[p])
<1>1. /\ phase' = phase /\ phase = "merging" /\ b \in Blocks \ {Http} /\ p \in {Http} \cup merged
      /\ conf' = [conf EXCEPT ![b] = new] /\ merged' = merged \cup {b}
      /\ UNCHANGED <<handler, requires_filters>>
  BY DEF Merge
<1>2. p \in Blocks /\ BlockTyped(conf[b]) /\ BlockTyped(conf[p])
  BY <1>1, TreeAssumption DEF TypeInv, ConfTyped
<1>3. DOMAIN new = Slots
  BY DEF MergeLocConf, Slots
<1>4. new["root"] \in TextValues
  BY <1>2, JsonTexts DEF MergeLocConf, DefaultRoot, Inherit, BlockTyped, Keys, Unset
<1>5. \A d \in DOMAIN Defaults : new[d] = Inherit(conf[b][d], conf[p][d], Defaults[d])
  BY MergesSlot
<1> HIDE DEF new, p
<1>6. /\ new["enabled"] \in {Unset, <<TRUE>>, <<FALSE>>}
      /\ new["user_props"] \in Seq(UserProps)
  <2>1. /\ "enabled" \in DOMAIN Defaults /\ Defaults["enabled"] = <<FALSE>>
        /\ "user_props" \in DOMAIN Defaults /\ Defaults["user_props"] = << >>
    BY DEF Defaults
  <2>2. /\ new["enabled"] = Inherit(conf[b]["enabled"], conf[p]["enabled"], <<FALSE>>)
        /\ new["user_props"] = Inherit(conf[b]["user_props"], conf[p]["user_props"], << >>)
    BY <1>5, <2>1
  <2>3. << >> \in Seq(UserProps)
    OBVIOUS
  <2>4. new["enabled"] \in {Unset, <<TRUE>>, <<FALSE>>}
    BY <1>2, <2>2 DEF Inherit, BlockTyped
  <2>5. new["user_props"] \in Seq(UserProps)
    BY <1>2, <2>2, <2>3 DEF Inherit, BlockTyped
  <2>6. QED
    BY <2>4, <2>5
<1>7. \A key \in {"success", "errcode_key", "errstr_key"} : new[key] \in TextValues
  <2>1. \A key \in {"success", "errcode_key", "errstr_key"} :
          key \in DOMAIN Defaults /\ Defaults[key] \in TextValues
    BY JsonTexts DEF Defaults, Unset
  <2>2. QED
    BY <1>2, <1>5, <2>1 DEF Inherit, BlockTyped, Keys
<1>8. \A slot \in WithDefault : new[slot] # Unset
  <2>1. \A slot \in WithDefault : slot \in DOMAIN Defaults /\ Defaults[slot] # Unset
    BY DEF WithDefault, Defaults, JsonText, Unset
  <2>2. QED
    BY <1>5, <2>1 DEF Inherit
<1>9. BlockTyped(new)
  BY <1>4, <1>6, <1>7 DEF BlockTyped, Keys
<1>10. conf'[b] = new /\ \A a \in Blocks \ {b} : conf'[a] = conf[a]
  BY <1>1 DEF TypeInv, ConfShape
<1>11. ConfShape'
  BY <1>1, <1>3, <1>10 DEF TypeInv, ConfShape
<1>12. \A a \in Blocks : BlockTyped(conf'[a])
  BY <1>9, <1>10 DEF TypeInv, ConfTyped
<1>13. \A a \in merged' : \A slot \in WithDefault : conf'[a][slot] # Unset
  BY <1>1, <1>8, <1>10 DEF TypeInv, ConfTyped
<1>14. QED
  BY <1>1, <1>11, <1>12, <1>13 DEF TypeInv, ConfTyped

LEMMA NextTypes == TypeInv /\ [ConfNext]_confVars => TypeInv'
<1> SUFFICES ASSUME TypeInv, [ConfNext]_confVars PROVE TypeInv'
  OBVIOUS
<1>1. ASSUME NEW b \in Blocks, Directive(b) PROVE TypeInv'
  BY <1>1, DirectiveTypes
<1>2. ASSUME NEW b \in Blocks, Merge(b) PROVE TypeInv'
  BY <1>2, MergeTypes
<1>3. CASE SetterFails \/ EndOfFile \/ GoLive \/ UNCHANGED confVars
  BY <1>3, SameTypes DEF SetterFails, Reject, EndOfFile, GoLive, confVars
<1>4. QED
  BY <1>1, <1>2, <1>3 DEF ConfNext

\* Every slot of every block's configuration always holds a value of its
\* kind, and a slot with a default is set once the block was merged.
THEOREM ConfTypeCorrect == ConfSpec => []TypeOK
<1>1. TypeInv => TypeOK
  BY TypedIsTypeOK DEF TypeInv
<1>2. QED
  BY <1>1, InitTypes, NextTypes, PTL DEF ConfSpec

-----------------------------------------------------------------------------
(* The object of rds_json_ret.                                             *)

Arguments == [code : Codes \ {<< >>}, text : Texts]

\* The handler's slots have the arguments of the last rds_json_ret of the
\* block: a block does not inherit them.
LastCounts(rets, errcode, errstr) ==
  /\ rets \in Seq(Arguments)
  /\ rets = << >> <=> errstr = Unset
  /\ rets # << >> => errcode = rets[Len(rets)].code /\ errstr = <<rets[Len(rets)].text>>

RetInv ==
  /\ ConfShape /\ DOMAIN given = Blocks /\ \A b \in Blocks : DOMAIN given[b] = Directives
  /\ \A b \in Blocks : LastCounts(given[b]["ret"], conf[b]["errcode"], conf[b]["errstr"])

\* A request is served under a configuration that is complete, and once.
ServedInv ==
  /\ phase = "live" => merged = Blocks \ {Http}
  /\ location # NoBlock => phase = "live" /\ block \in Blocks /\ Kind[block] \in {"location", "if"}
  /\ content # NoBlock \/ served # "no" => location # NoBlock
  /\ body # << >> =>
       /\ served # "no"
       /\ conf[block].errstr # Unset
       /\ body = <<[text |-> RetObject(conf[block]), last_buf |-> request.main]>>
       /\ header = <<ResponseHeader(conf[block])>>

RequestServedInv == MergeInv /\ TypeInv /\ RetInv /\ ServedInv

LEMMA InitRet == ConfInit => RetInv
<1> SUFFICES ASSUME ConfInit PROVE RetInv
  OBVIOUS
<1>1. ConfShape
  BY InitRequired DEF RequiredInv
<1>2. \A b \in Blocks : conf[b]["errstr"] = Unset
  BY DEF ConfInit, NewConf
<1>3. /\ DOMAIN given = Blocks
      /\ \A b \in Blocks : DOMAIN given[b] = Directives /\ given[b]["ret"] = << >>
  BY DEF ConfInit, Directives
<1>4. << >> \in Seq(Arguments)
  OBVIOUS
<1>5. QED
  BY <1>1, <1>2, <1>3, <1>4 DEF RetInv, LastCounts

\* A step that gives other directives, or merges their slots.
LEMMA OtherThanRet ==
  ASSUME RetInv, ConfShape', DOMAIN given' = Blocks,
         \A b \in Blocks :
           /\ DOMAIN given'[b] = Directives
           /\ given'[b]["ret"] = given[b]["ret"]
           /\ conf'[b]["errcode"] = conf[b]["errcode"]
           /\ conf'[b]["errstr"] = conf[b]["errstr"]
  PROVE  RetInv'
  BY DEF RetInv

LEMMA SlotRet ==
  ASSUME RetInv, NEW b \in Blocks, NEW slot \in Slots \ {"errcode", "errstr"}, NEW value, NEW arg,
         slot # "ret", conf' = [conf EXCEPT ![b][slot] = value], Give(b, slot, arg)
  PROVE  RetInv'
<1>1. ConfShape'
  BY DEF RetInv, ConfShape
<1>2. /\ DOMAIN given' = Blocks
      /\ \A a \in Blocks : DOMAIN given'[a] = Directives /\ given'[a]["ret"] = given[a]["ret"]
  BY DEF RetInv, Give
<1>3. \A a \in Blocks : /\ conf'[a]["errcode"] = conf[a]["errcode"]
                       /\ conf'[a]["errstr"] = conf[a]["errstr"]
  BY DEF RetInv, ConfShape
<1>4. QED
  BY <1>1, <1>2, <1>3, OtherThanRet

LEMMA SameRet == RetInv /\ UNCHANGED <<conf, given>> => RetInv'
  BY DEF RetInv, ConfShape

LEMMA SetterRet ==
  ASSUME RetInv, NEW b \in Blocks, NEW slot \in Slots \ {"errcode", "errstr"}, NEW value,
         SetSlot(b, slot, value) \/ SetKey(b, slot, value)
  PROVE  RetInv'
<1>1. slot # "ret"
  BY DEF Slots
<1>2. CASE Reject
  BY <1>2, SameRet DEF Reject
<1>3. CASE ~Reject
  <2>1. PICK v : conf' = [conf EXCEPT ![b][slot] = v] /\ Give(b, slot, v)
    BY <1>3 DEF SetSlot, SetKey
  <2>2. QED
    BY <1>1, <2>1, SlotRet
<1>4. QED
  BY <1>2, <1>3

LEMMA ReturnRet ==
  ASSUME RetInv, NEW b \in Blocks, NEW code \in Codes, NEW text \in Texts, Ret(b, code, text)
  PROVE  RetInv'
<1> DEFINE arg == [code |-> code, text |-> text]
           ret == given[b]["ret"]
<1>1. CASE code = << >> \/ Letter \in {code[i] : i \in DOMAIN code}
  BY <1>1, SameRet DEF Ret, Reject
<1>2. CASE ~(code = << >> \/ Letter \in {code[i] : i \in DOMAIN code})
  <2>1. /\ conf' = [conf EXCEPT ![b].errcode = code, ![b].errstr = <<text>>]
        /\ given' = [given EXCEPT ![b]["ret"] = Append(ret, arg)]
    BY <1>2 DEF Ret, Give
  <2>2. /\ DOMAIN conf = Blocks /\ \A a \in Blocks : DOMAIN conf[a] = Slots
        /\ DOMAIN given = Blocks /\ \A a \in Blocks : DOMAIN given[a] = Directives
        /\ ret \in Seq(Arguments) /\ arg \in Arguments
        /\ "errcode" \in Slots /\ "errstr" \in Slots /\ "ret" \in Directives
    BY <1>2 DEF RetInv, LastCounts, ConfShape, Arguments, Slots, Directives
  <2>3. conf'[b] = [conf[b] EXCEPT !.errcode = code, !.errstr = <<text>>]
    BY <2>1, <2>2
  <2>4. DOMAIN conf'[b] = Slots /\ conf'[b]["errcode"] = code /\ conf'[b]["errstr"] = <<text>>
    BY <2>2, <2>3
  <2>5. DOMAIN conf' = Blocks /\ \A a \in Blocks \ {b} : conf'[a] = conf[a]
    BY <2>1, <2>2
  <2>6. /\ DOMAIN given' = Blocks /\ \A a \in Blocks \ {b} : given'[a] = given[a]
        /\ DOMAIN given'[b] = Directives /\ given'[b]["ret"] = Append(ret, arg)
    BY <2>1, <2>2
  <2> HIDE DEF ret
  <2>7. /\ Append(ret, arg) \in Seq(Arguments) /\ Append(ret, arg) # << >>
        /\ Append(ret, arg)[Len(Append(ret, arg))] = arg
    <3> HIDE DEF arg
    <3>1. QED
      BY <2>2, AppendProperties
  <2>8. <<text>> # Unset
    BY DEF Unset
  <2>9. ConfShape'
    BY <2>2, <2>4, <2>5 DEF ConfShape
  <2>10. \A a \in Blocks \ {b} :
           /\ DOMAIN given'[a] = Directives
           /\ LastCounts(given'[a]["ret"], conf'[a]["errcode"], conf'[a]["errstr"])
    BY <2>2, <2>5, <2>6 DEF RetInv
  <2>11. LastCounts(Append(ret, arg), code, <<text>>)
    <3>1. arg.code = code /\ arg.text = text
      OBVIOUS
    <3> HIDE DEF arg
    <3>2. QED
      BY <2>7, <2>8, <3>1 DEF LastCounts
  <2>12. LastCounts(given'[b]["ret"], conf'[b]["errcode"], conf'[b]["errstr"])
    BY <2>4, <2>6, <2>11
  <2>13. QED
    BY <2>6, <2>9, <2>10, <2>12 DEF RetInv
<1>3. QED
  BY <1>1, <1>2

LEMMA MergesRet ==
  ASSUME RetInv, NEW b \in Blocks, Merge(b)
  PROVE  RetInv'
<1> DEFINE new == MergeLocConf(conf[b], conf[Parent(b)])
<1>1. conf' = [conf EXCEPT ![b] = new] /\ given' = given
  BY DEF Merge
<1>2. DOMAIN new = Slots /\ new["errcode"] = conf[b]["errcode"] /\ new["errstr"] = conf[b]["errstr"]
  BY DEF MergeLocConf, Slots
<1> HIDE DEF new
<1>3. /\ DOMAIN conf' = Blocks /\ conf'[b] = new
      /\ \A a \in Blocks \ {b} : conf'[a] = conf[a]
  BY <1>1 DEF RetInv, ConfShape
<1>4. ConfShape'
  BY <1>2, <1>3 DEF RetInv, ConfShape
<1>5. QED
  BY <1>1, <1>2, <1>3, <1>4, OtherThanRet DEF RetInv

LEMMA NextRet == RetInv /\ [ConfNext]_confVars => RetInv'
<1> SUFFICES ASSUME RetInv, [ConfNext]_confVars PROVE RetInv'
  OBVIOUS
<1>0. {"enabled", "format", "content_type", "root", "success", "user_props", "errcode_key",
       "errstr_key", "buf_size"} \subseteq Slots \ {"errcode", "errstr"}
  BY DEF Slots
<1>1. ASSUME NEW b \in Blocks, NEW v,
             \/ RdsJson(b, v) \/ Format(b, v) \/ ContentType(b, v) \/ BufferSize(b, v)
             \/ Root(b, v) \/ SuccessProperty(b, v) \/ ErrcodeKey(b, v) \/ ErrstrKey(b, v)
      PROVE  RetInv'
  BY <1>0, <1>1, SetterRet
     DEF RdsJson, Format, ContentType, BufferSize, Root, SuccessProperty, ErrcodeKey, ErrstrKey
<1>2. ASSUME NEW b \in Blocks, NEW key, NEW value, UserProperty(b, key, value) PROVE RetInv'
  <2>1. CASE Reject
    BY <2>1, SameRet DEF Reject
  <2>2. CASE ~Reject
    <3>1. PICK v, arg : conf' = [conf EXCEPT ![b]["user_props"] = v] /\ Give(b, "user_props", arg)
      BY <1>2, <2>2 DEF UserProperty
    <3>2. QED
      BY <1>0, <3>1, SlotRet
  <2>3. QED
    BY <2>1, <2>2
<1>3. ASSUME NEW b \in Blocks, NEW code \in Codes, NEW text \in Texts, Ret(b, code, text) PROVE RetInv'
  BY <1>3, ReturnRet
<1>4. ASSUME NEW b \in Blocks, Merge(b) PROVE RetInv'
  BY <1>4, MergesRet
<1>5. CASE SetterFails \/ EndOfFile \/ GoLive \/ UNCHANGED confVars
  BY <1>5, SameRet DEF SetterFails, Reject, EndOfFile, GoLive, confVars
<1>6. ASSUME NEW b \in Blocks, Directive(b) PROVE RetInv'
  BY <1>1, <1>2, <1>3, <1>6 DEF Directive
<1>7. QED
  BY <1>4, <1>5, <1>6 DEF ConfNext

-----------------------------------------------------------------------------
(* The text of the object.                                                 *)

\* What the handler writes for a property.
Written(prop) == <<",">> \o prop.key \o <<":">> \o QuotedText(Value(prop.value))

LEMMA ShortTexts ==
  ASSUME NEW S, NEW a \in S, NEW b \in S, NEW c \in S
  PROVE  <<a>> \in Seq(S) /\ <<a, b>> \in Seq(S) /\ <<a, b, c>> \in Seq(S)
  OBVIOUS

\* FlattenSeq and the recursion of Listed make the same text.
LEMMA PropertiesAreListed ==
  ASSUME NEW props \in Seq(UserProps)
  PROVE  Listed(props) = Props(props)
<1> DEFINE S == Texts \cup {"data", "errcode", "errstr", "quote", ",", ":", request.value}
           N == Len(props)
           s == [i \in 1..N |-> Written(props[i])]
<1>1. N \in Nat /\ DOMAIN props = 1..N /\ \A i \in 1..N : props[i] \in UserProps
  BY LenProperties, ElementOfSeq
<1>2. ASSUME NEW i \in 1..N PROVE Written(props[i]) \in Seq(S)
  <2>1. props[i].key \in TextValues \ {Unset} /\ props[i].value \in Texts
    BY <1>1 DEF UserProps
  <2>2. PICK v \in Texts \cup {"data", "errcode", "errstr"} : props[i].key = JsonText(v)
    BY <2>1 DEF TextValues
  <2>4. v \in S /\ Value(props[i].value) \in S /\ "quote" \in S /\ "," \in S /\ ":" \in S
    BY <2>1 DEF Value
  <2> HIDE DEF S
  <2>3. props[i].key \in Seq(S)
    BY <2>2, <2>4, ShortTexts DEF JsonText
  <2>5. QuotedText(Value(props[i].value)) \in Seq(S)
    BY <2>4, ShortTexts DEF QuotedText, JsonText
  <2>6. <<",">> \in Seq(S) /\ <<":">> \in Seq(S)
    BY <2>4, ShortTexts
  <2>7. QED
    BY <2>3, <2>5, <2>6, ConcatProperties DEF Written
<1> HIDE DEF S
<1>3. s \in Seq(Seq(S)) /\ Len(s) = N /\ \A i \in 1..N : s[i] = Written(props[i])
  BY <1>1, <1>2
<1>4. Props(props) = FlattenSeq(s)
  BY <1>1 DEF Props, Written
<1>5. PICK g : Accumulates(g, s, N, S)
  BY <1>3, AccumulationExists
<1>6. FlattenSeq(s) = g[N]
  BY <1>3, <1>5, FlattenIsAccumulation
<1> HIDE DEF s
<1> DEFINE Recursion(f) == [n \in 0..N |-> IF n = 0 THEN << >> ELSE f[n - 1] \o Written(props[n])]
           text == CHOOSE f : f = Recursion(f)
<1>7. Listed(props) = text[N]
  BY Zenon DEF Listed, Written, QuotedText
<1>8. g = Recursion(g)
  <2>1. \A n \in 0..N : g[n] = IF n = 0 THEN << >> ELSE g[n - 1] \o Written(props[n])
    <3>1. \A n \in 0..N : n # 0 => n \in 1..N
      BY <1>1
    <3>2. QED
      BY <1>3, <1>5, <3>1 DEF Accumulates
  <2>2. DOMAIN g = 0..N /\ g = [n \in DOMAIN g |-> g[n]]
    BY <1>5 DEF Accumulates
  <2>3. QED
    BY <2>1, <2>2
<1>9. text = Recursion(text)
  <2> HIDE DEF Recursion
  <2>1. \E f : f = Recursion(f)
    BY <1>8
  <2>2. QED
    BY <2>1, Zenon
<1> HIDE DEF text
<1>10. \A n \in 0..N :
         /\ text[n] = IF n = 0 THEN << >> ELSE text[n - 1] \o Written(props[n])
         /\ g[n] = IF n = 0 THEN << >> ELSE g[n - 1] \o Written(props[n])
  BY <1>8, <1>9
<1> HIDE DEF Recursion
<1>11. text[N] = g[N]
  <2> DEFINE T == {n \in 0..N : text[n] # g[n]}
  <2>1. SUFFICES ASSUME T # {} PROVE FALSE
    BY <1>1
  <2>2. PICK n \in T : \A m \in T : n <= m
    <3>1. T \subseteq Nat
      BY <1>1
    <3>2. QED
      BY <2>1, <3>1, LeastNumber
  <2>3. n \in 0..N /\ n # 0 /\ text[n] # g[n]
    BY <1>1, <1>10, <2>2
  <2>4. n - 1 \in 0..N /\ ~(n <= n - 1)
    BY <1>1, <2>3
  <2>5. text[n - 1] = g[n - 1]
    BY <2>2, <2>4
  <2>6. QED
    BY <1>10, <2>3, <2>5
<1>12. QED
  BY <1>4, <1>6, <1>7, <1>11

LEMMA NotEmpty ==
  ASSUME NEW S, NEW s \in Seq(S), s # << >>
  PROVE  DOMAIN s # {} /\ s[Len(s)] \in S
<1>1. Len(s) \in Nat \ {0} /\ DOMAIN s = 1..Len(s)
  BY LenProperties, EmptySeq
<1>2. QED
  BY <1>1, ElementOfSeq

LEMMA Regroup ==
  ASSUME NEW S, NEW text \in Seq(S), NEW a \in S, NEW b \in S
  PROVE  text \o <<a, b>> = (text \o <<a>>) \o <<b>>
<1>1. <<a>> \in Seq(S) /\ <<b>> \in Seq(S)
  BY ShortTexts
<1>2. <<a>> \o <<b>> = <<a, b>>
  <2> DEFINE t == <<a>> \o <<b>>
  <2>1. t \in Seq(S) /\ <<a, b>> \in Seq(S)
    BY <1>1, ShortTexts, ConcatProperties
  <2>2. Len(t) = 2 /\ t[1] = a /\ t[2] = b
    OBVIOUS
  <2> HIDE DEF t
  <2>3. Len(<<a, b>>) = 2 /\ \A i \in 1..2 : t[i] = <<a, b>>[i]
    BY <2>2
  <2>4. t = <<a, b>>
    BY <2>1, <2>2, <2>3, SeqEqual
  <2>5. QED
    BY <2>4 DEF t
<1>3. (text \o <<a>>) \o <<b>> = text \o (<<a>> \o <<b>>)
  BY <1>1, ConcatAssociative
<1>4. QED
  BY <1>2, <1>3

\* The handler reads its configuration, Ordered the file: in a merged block
\* with a rds_json_ret of its own they come to the same object.
LEMMA ObjectIsOrdered ==
  ASSUME MergeInv, TypeInv, RetInv, NEW b \in merged, conf[b].errstr # Unset
  PROVE  RetObject(conf[b]) = Ordered(b) /\ given[b]["ret"] # << >>
<1> DEFINE rets == given[b]["ret"]
           ret == rets[Len(rets)]
           key(d) == Effective(b, d, Defaults[d])
           c == conf[b]
<1>1. b \in Blocks /\ BlockTyped(c)
  BY DEF MergeInv, TypeInv, ConfTyped
<1>2. rets # << >> /\ rets \in Seq(Arguments) /\ c.errcode = ret.code /\ c.errstr = <<ret.text>>
  BY <1>1 DEF RetInv, LastCounts
<1>3. ret \in Arguments
  BY <1>2, NotEmpty
<1>4. /\ c.errcode_key = key("errcode_key") /\ c.errstr_key = key("errstr_key")
      /\ c.success = key("success") /\ c.user_props = key("user_props")
  <2>1. ASSUME NEW d \in DOMAIN Defaults PROVE c[d] = key(d)
    <3>1. d \in Inherited /\ d # "root"
      BY DEF Inherited, Defaults
    <3>2. QED
      BY <3>1 DEF MergeInv, PassesOn
  <2>2. {"errcode_key", "errstr_key", "success", "user_props"} \subseteq DOMAIN Defaults
    BY DEF Defaults
  <2> HIDE DEF key, c
  <2>3. QED
    BY <2>1, <2>2
<1>5. Value(c.errstr[1]) = Value(ret.text)
  BY <1>2
<1>6. IsZero(c.errcode) <=> ToSet(ret.code) = {0}
  <2>1. ret.code \in Seq(0..10) /\ ret.code # << >>
    BY <1>3, CodesAssumption DEF Arguments
  <2>2. DOMAIN ret.code # {}
    BY <2>1, NotEmpty
  <2> HIDE DEF ret, c
  <2>3. QED
    BY <1>2, <2>2 DEF IsZero, ToSet
<1>7. Listed(c.user_props) = Props(c.user_props)
  BY <1>1, PropertiesAreListed DEF BlockTyped
<1>8. \A word \in {"true", "false"} :
        <<",">> \o c.success \o <<":", word>> = <<",">> \o c.success \o <<":">> \o <<word>>
  <2>1. PICK S : c.success \in Seq(S) /\ "," \in S /\ ":" \in S /\ "true" \in S /\ "false" \in S
    <3>1. CASE c.success = << >>
      <4> DEFINE T == {",", ":", "true", "false"}
      <4>1. c.success \in Seq(T) /\ "," \in T /\ ":" \in T /\ "true" \in T /\ "false" \in T
        BY <3>1
      <4> HIDE DEF T
      <4>2. QED
        BY <4>1
    <3>2. CASE c.success # << >>
      <4>1. PICK v : c.success = <<"quote", v, "quote">>
        BY <1>1, <3>2 DEF BlockTyped, Keys, TextValues, Unset, JsonText
      <4> DEFINE T == {"quote", v, ",", ":", "true", "false"}
      <4>2. /\ "quote" \in T /\ v \in T
            /\ "," \in T /\ ":" \in T /\ "true" \in T /\ "false" \in T
        OBVIOUS
      <4> HIDE DEF T
      <4>3. <<"quote", v, "quote">> \in Seq(T)
        BY <4>2, ShortTexts
      <4>4. QED
        BY <4>1, <4>2, <4>3
    <3>3. QED
      BY <3>1, <3>2
  <2> DEFINE text == <<",">> \o c.success
  <2>2. text \in Seq(S)
    <3>1. <<",">> \in Seq(S)
      BY <2>1, ShortTexts
    <3>2. QED
      BY <2>1, <3>1, ConcatProperties
  <2> HIDE DEF text
  <2>3. ASSUME NEW word \in {"true", "false"} PROVE text \o <<":", word>> = (text \o <<":">>) \o <<word>>
    <3>1. word \in S
      BY <2>1
    <3>2. \A t \in Seq(S) : \A x, y \in S : t \o <<x, y>> = (t \o <<x>>) \o <<y>>
      BY Regroup
    <3>3. \A x \in S : text \o <<x, word>> = (text \o <<x>>) \o <<word>>
      BY <2>2, <3>1, <3>2
    <3>4. QED
      BY <2>1, <3>3
  <2>4. QED
    BY <2>3 DEF text
<1> DEFINE errstr(text) == IF Value(text) = Empty THEN << >>
                           ELSE <<",">> \o c.errstr_key \o <<":">> \o JsonText(Value(text))
           zero == IF IsZero(c.errcode) THEN "true" ELSE "false"
           success == IF c.success = << >> THEN << >>
                      ELSE <<",">> \o c.success \o <<":", zero>>
           object == <<"{">> \o c.errcode_key \o <<":">> \o c.errcode
                       \o errstr(ret.text) \o success \o Props(c.user_props) \o <<"}">>
<1>9. RetObject(c) = object
  <2>1. Value(c.errstr[1]) # Empty => QuotedText(Value(c.errstr[1])) = JsonText(Value(ret.text))
    BY <1>5 DEF QuotedText
  <2> HIDE DEF c, ret
  <2>2. QED
    BY <1>5, <2>1 DEF RetObject
<1>10. Ordered(b) = object
  <2>1. success = IF key("success") = << >> THEN << >>
                  ELSE <<",">> \o key("success") \o <<":">>
                         \o <<IF ToSet(ret.code) = {0} THEN "true" ELSE "false">>
    <3>1. success = IF c.success = << >> THEN << >>
                    ELSE <<",">> \o c.success \o <<":">> \o <<zero>>
      <4>1. zero \in {"true", "false"}
        OBVIOUS
      <4> HIDE DEF zero, c
      <4>2. QED
        BY <1>8, <4>1
    <3> HIDE DEF c, ret, key, success
    <3>2. QED
      BY <1>4, <1>6, <3>1
  <2>2. Ordered(b) =
          <<"{">> \o key("errcode_key") \o <<":">> \o ret.code
            \o (IF Value(ret.text) = Empty THEN << >>
                ELSE <<",">> \o key("errstr_key") \o <<":">> \o JsonText(Value(ret.text)))
            \o (IF key("success") = << >> THEN << >>
                ELSE <<",">> \o key("success") \o <<":">>
                       \o <<IF ToSet(ret.code) = {0} THEN "true" ELSE "false">>)
            \o Listed(key("user_props"))
            \o <<"}">>
    BY Zenon DEF Ordered
  <2> HIDE DEF success, c, ret, key
  <2>3. QED
    BY <1>2, <1>4, <1>7, <2>1, <2>2
<1> HIDE DEF object, c
<1>11. QED
  BY <1>2, <1>9, <1>10 DEF c

-----------------------------------------------------------------------------
(* Requests.                                                               *)

\* While the configuration is read no request is served.
LEMMA ConfServed ==
  ASSUME RequestServedInv, ConfNext, UNCHANGED retVars
  PROVE  ServedInv'
<1>1. phase # "live"
  <2>1. ASSUME NEW b \in Blocks, Directive(b) PROVE CanGive(b)
    BY <2>1 DEF Directive, RdsJson, Format, ContentType, BufferSize, Root, SuccessProperty,
           ErrcodeKey, ErrstrKey, SetKey, UserProperty, Ret
  <2>2. QED
    BY <2>1 DEF ConfNext, CanGive, Merge, SetterFails, EndOfFile, GoLive
<1>2. location = NoBlock /\ content = NoBlock /\ served = "no" /\ body = << >>
  BY <1>1 DEF RequestServedInv, ServedInv
<1>3. phase' = "live" => merged' = Blocks \ {Http}
  <2>1. CASE GoLive
    BY <2>1 DEF GoLive
  <2>2. CASE ~GoLive
    <3> DEFINE Stays == phase' \in {phase, "rejected"}
    <3>1. ASSUME NEW b, NEW slot, NEW value, SetSlot(b, slot, value) \/ SetKey(b, slot, value)
          PROVE  Stays
      BY <3>1 DEF SetSlot, SetKey, Reject
    <3>2. ASSUME NEW b, NEW x, NEW y, UserProperty(b, x, y) \/ Ret(b, x, y)
          PROVE  Stays
      BY <3>2 DEF UserProperty, Ret, Reject
    <3> HIDE DEF Stays
    <3>3. ASSUME NEW b \in Blocks, Directive(b) PROVE Stays
      <4>1. PICK v, w, slot : \/ SetSlot(b, slot, v) \/ SetKey(b, slot, v)
                             \/ UserProperty(b, v, w) \/ Ret(b, v, w)
        BY <3>3, Zenon DEF Directive, RdsJson, Format, ContentType, BufferSize, Root,
               SuccessProperty, ErrcodeKey, ErrstrKey
      <4>2. QED
        BY <3>1, <3>2, <4>1, Zenon
    <3>4. phase' \in {phase, "rejected", "merging"}
      BY <2>2, <3>3 DEF Stays, ConfNext, Merge, SetterFails, Reject, EndOfFile
    <3>5. QED
      BY <1>1, <3>4
  <2>3. QED
    BY <2>1, <2>2
<1>4. QED
  BY <1>2, <1>3 DEF ServedInv, retVars

\* RetObject reads the request and a configuration.
LEMMA ObjectKept ==
  ASSUME UNCHANGED <<conf, block, request>>
  PROVE  RetObject(conf[block])' = RetObject(conf[block])
<1>1. \A text : Value(text)' = Value(text) /\ QuotedText(Value(text))' = QuotedText(Value(text))
  BY DEF Value, QuotedText
<1>2. \A props : Props(props)' = Props(props)
  <2>1. ASSUME NEW props
        PROVE  [i \in DOMAIN props |-> <<",">> \o props[i].key \o <<":">> \o QuotedText(Value(props[i].value))]'
               = [i \in DOMAIN props |-> <<",">> \o props[i].key \o <<":">> \o QuotedText(Value(props[i].value))]
    BY <1>1
  <2>2. QED
    BY <2>1, Zenon DEF Props
<1>3. QED
  BY <1>1, <1>2, Zenon DEF RetObject

LEMMA ServeKeeps ==
  ASSUME RequestServedInv, Serve
  PROVE  ServedInv'
<1>1. ServedInv /\ phase \in {"parsing", "merging", "live", "rejected"}
  BY DEF RequestServedInv, TypeInv, ConfTyped
<1>2. ASSUME NEW b \in Blocks, FindLocation(b) PROVE ServedInv'
  BY <1>1, <1>2 DEF ServedInv, FindLocation, confVars
<1>3. ASSUME NEW b \in Blocks, EnterIf(b) PROVE ServedInv'
  BY <1>1, <1>3 DEF ServedInv, EnterIf, confVars
<1>4. CASE RetHandlerFaults \/ RetHandlerFails \/ SendHeaderFails
  BY <1>1, <1>4 DEF ServedInv, RetHandlerFaults, RetHandlerFails, SendHeaderFails, Runs, confVars
<1>5. CASE RetHandler
  <2>1. /\ conf[block].errstr # Unset /\ content # NoBlock
        /\ body' = <<[text |-> RetObject(conf[block]), last_buf |-> request.main]>>
        /\ header' = <<ResponseHeader(conf[block])>> /\ served' = "done"
        /\ UNCHANGED <<conf, phase, merged, request, location, block, content>>
    BY <1>5 DEF RetHandler, Runs, confVars
  <2>2. RetObject(conf[block])' = RetObject(conf[block])
    BY <2>1, ObjectKept
  <2>3. ResponseHeader(conf[block])' = ResponseHeader(conf[block])
    BY <2>1 DEF ResponseHeader
  <2>4. QED
    BY <1>1, <2>1, <2>2, <2>3 DEF ServedInv
<1>6. QED
  BY <1>2, <1>3, <1>4, <1>5 DEF Serve

LEMMA NextServed == RequestServedInv /\ [Next]_vars => RequestServedInv'
<1> SUFFICES ASSUME RequestServedInv, [Next]_vars PROVE RequestServedInv'
  OBVIOUS
<1>1. [ConfNext]_confVars
  BY DEF Next, Serve, FindLocation, EnterIf, RetHandler, RetHandlerFaults, RetHandlerFails,
         SendHeaderFails, vars
<1>2. MergeInv' /\ TypeInv' /\ RetInv'
  BY <1>1, NextMerge, NextTypes, NextRet DEF RequestServedInv
<1>3. ServedInv'
  <2>1. CASE UNCHANGED vars
    <3>1. RetObject(conf[block])' = RetObject(conf[block])
      BY <2>1, ObjectKept DEF vars, confVars, retVars
    <3>2. QED
      BY <2>1, <3>1 DEF RequestServedInv, ServedInv, ResponseHeader, vars, confVars, retVars
  <2>2. QED
    BY <2>1, ConfServed, ServeKeeps DEF Next
<1>4. QED
  BY <1>2, <1>3 DEF RequestServedInv

LEMMA InitServed == Init => RequestServedInv
  BY InitMerge, InitTypes, InitRet DEF Init, ConfInit, RequestServedInv, ServedInv

\* A response to rds_json_ret, in whatever block the directive stands and
\* whatever the blocks around it say: the handler sends the object that the
\* directives of the file ask for, under the configuration that is in force
\* when it runs.
THEOREM DirectivesAreEmitted == Spec => []EmitsItsDirectives
<1>1. RequestServedInv => EmitsItsDirectives
  <2> SUFFICES ASSUME RequestServedInv, body # << >> PROVE EmitsItsDirectives
    BY DEF EmitsItsDirectives
  <2>1. /\ MergeInv /\ TypeInv /\ RetInv
        /\ block \in merged /\ conf[block].errstr # Unset
        /\ body = <<[text |-> RetObject(conf[block]), last_buf |-> request.main]>>
        /\ header = <<ResponseHeader(conf[block])>>
    BY KindAssumption DEF RequestServedInv, ServedInv
  <2>2. RetObject(conf[block]) = Ordered(block) /\ given[block]["ret"] # << >>
    BY <2>1, ObjectIsOrdered
  <2>3. conf[block].content_type = Effective(block, "content_type", Defaults.content_type)
    <3>1. "content_type" \in Inherited
      BY InheritedNames
    <3>2. PassesOn(block, "content_type")
      BY <2>1, <3>1 DEF MergeInv
    <3>3. QED
      BY <2>1, <3>2 DEF PassesOn
  <2>4. /\ Len(header) = 1 /\ header[1].status = 200
        /\ header[1].content_type = conf[block].content_type
    BY <2>1 DEF ResponseHeader
  <2>5. QED
    BY <2>1, <2>2, <2>3, <2>4 DEF EmitsItsDirectives
<1>2. QED
  BY <1>1, InitServed, NextServed, PTL DEF Spec
=============================================================================
