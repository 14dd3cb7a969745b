------------------------- MODULE RdsJsonInitProofs -------------------------
(***************************************************************************)
(* For every number of http blocks and of loads: the filters are linked    *)
(* once, and into the list of every configuration that needs them, and not *)
(* into that of a single block that does not.                              *)
(***************************************************************************)
EXTENDS RdsJsonInit, SequenceTheorems, TLAPS

\* What IInv says beside the types.
Control ==
  /\ NoLoop /\ UsedIsRegistered /\ ServedAfterLoad
  /\ BlockSeen /\ NeedIsKnown /\ ListIntact /\ ListBegun

\* nginx's own steps keep the invariant, those that begin a load ...
LEMMA LoadKeeps ==
  ASSUME IInv, NEW b \in Seq(BOOLEAN), Load(b)
  PROVE  IInv'
<1>1. TypeOK'
  <2>1. uses' \in BOOLEAN
    BY Zenon DEF Load
  <2>2. loads' \in 0..MaxLoads
    BY BoundsAssumption DEF Load, IInv, TypeOK
  <2> QED
    BY <2>1, <2>2 DEF Load, listVars, IInv, TypeOK, Filters
<1>2. Control'
  BY DEF Load, listVars, IInv, Control, TypeOK, NoLoop, UsedIsRegistered,
         ServedAfterLoad, BlockSeen, NeedIsKnown, ListIntact, ListBegun
<1> QED
  BY <1>1, <1>2 DEF IInv, Control

LEMMA ReadHttpBlockKeeps ==
  ASSUME IInv, ReadHttpBlock
  PROVE  IInv'
<1>1. file' \in Seq(BOOLEAN) /\ requires_filters' \in BOOLEAN
  <2>1. file \in Seq(BOOLEAN) /\ file # << >>
    BY DEF ReadHttpBlock, IInv, TypeOK
  <2>2. Head(file) \in BOOLEAN /\ Tail(file) \in Seq(BOOLEAN)
    BY <2>1, HeadTailProperties
  <2> QED
    BY <2>2 DEF ReadHttpBlock
<1>2. TypeOK'
  BY <1>1 DEF ReadHttpBlock, IInv, TypeOK, Filters, NoCycle
<1>3. NeedIsKnown'
  BY DEF ReadHttpBlock, IInv, TypeOK, NeedIsKnown
<1>4. NoLoop' /\ UsedIsRegistered' /\ ServedAfterLoad' /\ BlockSeen'
        /\ ListIntact' /\ ListBegun'
  BY DEF ReadHttpBlock, IInv, NoLoop, UsedIsRegistered, ServedAfterLoad, BlockSeen,
         ListIntact, ListBegun
<1> QED
  BY <1>2, <1>3, <1>4 DEF IInv

\* ... and those that end it, or replace a worker.
LEMMA LoadFailsKeeps ==
  ASSUME IInv, LoadFails
  PROVE  IInv'
<1>1. TypeOK'
  BY DEF LoadFails, loadVars, listVars, IInv, TypeOK, Filters, NoCycle
<1>2. Control'
  BY DEF LoadFails, loadVars, listVars, IInv, Control, TypeOK, NoLoop, UsedIsRegistered,
         ServedAfterLoad, BlockSeen, NeedIsKnown, ListIntact, ListBegun
<1> QED
  BY <1>1, <1>2 DEF IInv, Control

LEMMA LoadSucceedsKeeps ==
  ASSUME IInv, LoadSucceeds
  PROVE  IInv'
<1>1. TypeOK'
  BY DEF LoadSucceeds, loadVars, listVars, IInv, TypeOK, Filters, NoCycle
<1>2. Control'
  BY DEF LoadSucceeds, loadVars, listVars, IInv, Control, TypeOK, NoLoop,
         UsedIsRegistered, ServedAfterLoad, BlockSeen, NeedIsKnown, ListIntact, ListBegun
<1> QED
  BY <1>1, <1>2 DEF IInv, Control

LEMMA RespawnKeeps ==
  ASSUME IInv, Respawn
  PROVE  IInv'
<1>1. TypeOK'
  BY DEF Respawn, loadVars, listVars, IInv, TypeOK, Filters, NoCycle
<1>2. Control'
  BY DEF Respawn, loadVars, listVars, IInv, Control, TypeOK, NoLoop, UsedIsRegistered,
         ServedAfterLoad, BlockSeen, NeedIsKnown, ListIntact, ListBegun
<1> QED
  BY <1>1, <1>2 DEF IInv, Control

\* filter_init: ReadHttpBlock has begun the list anew, so linking is safe,
\* and a block that needs the filters is seen by one of its two tests.
LEMMA FilterInitKeeps ==
  ASSUME IInv, FilterInit
  PROVE  IInv'
<1>1. uses => Registers
  BY DEF IInv, TypeOK, BlockSeen, NeedIsKnown, Registers, SeveralBlocks, FilterInit
<1>2. top = "chain"
  BY DEF IInv, ListBegun, FilterInit
<1>3. /\ top' \in Filters /\ next' \in Filters \cup {"null"}
      /\ top' = "rds_json" => next' # "null"
      /\ next' # "rds_json"
      /\ Registers => top' = "rds_json"
  BY <1>2 DEF FilterInit, Link, IInv, TypeOK, NoLoop, Filters
<1>4. TypeOK'
  BY <1>3, BoundsAssumption DEF FilterInit, IInv, TypeOK, Filters, NoCycle
<1>5. blocks' > 0
  BY DEF FilterInit, IInv, TypeOK
<1>6. Control'
  BY <1>1, <1>3, <1>5
     DEF FilterInit, IInv, Control, NoLoop, UsedIsRegistered, ServedAfterLoad,
         BlockSeen, NeedIsKnown, ListIntact, ListBegun
<1> QED
  BY <1>4, <1>6 DEF IInv, Control

\* Every step keeps the invariant.
LEMMA StepKeeps ==
  ASSUME IInv, [Next]_vars
  PROVE  IInv'
<1>1. ASSUME NEW n \in 0..MaxBlocks, NEW b \in [1..n -> BOOLEAN], Load(b)
      PROVE  IInv'
  <2>1. b \in Seq(BOOLEAN)
    BY BoundsAssumption
  <2> QED
    BY <1>1, <2>1, LoadKeeps
<1>2. CASE UNCHANGED vars
  <2>1. TypeOK'
    BY <1>2 DEF vars, loadVars, listVars, IInv, TypeOK, Filters, NoCycle
  <2>2. Control'
    BY <1>2 DEF vars, loadVars, listVars, IInv, Control, NoLoop, UsedIsRegistered,
                ServedAfterLoad, BlockSeen, NeedIsKnown, ListIntact, ListBegun
  <2> QED
    BY <2>1, <2>2 DEF IInv, Control
<1> QED
  BY <1>1, <1>2, ReadHttpBlockKeeps, LoadFailsKeeps, LoadSucceedsKeeps, RespawnKeeps,
     FilterInitKeeps
     DEF Next

\* The invariant holds throughout.
THEOREM Invariance == Spec => []IInv
<1>1. Init => IInv
  <2> SUFFICES ASSUME Init PROVE IInv
    OBVIOUS
  <2>1. TypeOK
    <3>1. /\ live \in [uses : BOOLEAN, blocks : Nat]
          /\ worker \in [top : Filters, next : Filters \cup {"null"}]
      BY DEF Init, Filters
    <3>2. loads \in 0..MaxLoads /\ ngx_cycle \in 0..MaxLoads /\ prev_cycle \in 0..NoCycle
      BY BoundsAssumption DEF Init, NoCycle
    <3>3. requires_filters \in BOOLEAN /\ uses \in BOOLEAN /\ stale \in BOOLEAN
      BY Zenon DEF Init
    <3>4. file \in Seq(BOOLEAN)
      BY EmptySeq DEF Init
    <3> QED
      BY <3>1, <3>2, <3>3, <3>4 DEF Init, TypeOK, Filters
  <2>2. Control
    BY DEF Init, Control, NoLoop, UsedIsRegistered, ServedAfterLoad, BlockSeen,
           NeedIsKnown, ListIntact, ListBegun
  <2> QED
    BY <2>1, <2>2 DEF IInv, Control
<1>2. IInv /\ [Next]_vars => IInv'
  BY StepKeeps
<1> QED
  BY <1>1, <1>2, PTL DEF Spec

\* Every variable has its type, and the list never leads to a NULL pointer
\* (filter_init, filter_module.c 395-404).
THEOREM TypeCorrect == Spec => []TypeOK
BY Invariance, PTL DEF IInv

\* The filters are never their own successors, whatever was loaded before
\* (filter_module.c 398-402).
THEOREM LinkedOnce == Spec => []NoLoop
BY Invariance, PTL DEF IInv

\* After filter_init of the block, a configuration of which any block read so
\* far needs the filters has them in its list.
THEOREM NeededIsRegistered == Spec => []UsedIsRegistered
BY Invariance, PTL DEF IInv

\* As long as no later load failed half-way, the workers of a configuration
\* with rds_json run the filters.
THEOREM LoadedIsServed == Spec => []ServedAfterLoad
BY Invariance, PTL DEF IInv

-----------------------------------------------------------------------------
(* A configuration that does not need the filters.                         *)

LEMMA StepKeepsSkip ==
  ASSUME IInv, SkipInv, [Next]_vars
  PROVE  SkipInv'
<1>0. /\ loads \in Nat /\ ngx_cycle \in Nat /\ prev_cycle \in Nat /\ blocks \in Nat
      /\ loads <= MaxLoads /\ ngx_cycle <= MaxLoads /\ MaxLoads \in Nat
      /\ NoCycle = MaxLoads + 1 /\ NoCycle' = NoCycle
  BY BoundsAssumption DEF IInv, TypeOK, NoCycle
<1>1. ASSUME NEW n \in 0..MaxBlocks, NEW b \in [1..n -> BOOLEAN], Load(b)
      PROVE  SkipInv'
  BY <1>0, <1>1 DEF Load, listVars, SkipInv
<1>2. CASE ReadHttpBlock
  <2>1. /\ loads' = loads /\ ngx_cycle' = ngx_cycle /\ prev_cycle' = prev_cycle
        /\ blocks' = blocks /\ stale' = stale /\ phase = "loading" /\ phase' = "block"
    BY <1>2 DEF ReadHttpBlock
  <2>2. ~uses' => ~requires_filters'
    <3>1. requires_filters' = Head(file) /\ uses' = (uses \/ Head(file))
      BY <1>2 DEF ReadHttpBlock
    <3>2. QED
      BY <3>1, Zenon
  <2>3. QED
    BY <1>0, <2>1, <2>2 DEF SkipInv
<1>3. CASE LoadFails
  <2>1. ~stale' => (~stale /\ ~(blocks > 0) /\ phase # "block")
    BY <1>3, Zenon DEF LoadFails
  <2>2. /\ loads' = loads /\ ngx_cycle' = ngx_cycle /\ prev_cycle' = prev_cycle
        /\ phase \in {"loading", "block"} /\ phase' \in {"idle", "exited"}
    BY <1>3 DEF LoadFails, loadVars, listVars
  <2>3. QED
    BY <1>0, <2>1, <2>2 DEF SkipInv
<1>4. CASE LoadSucceeds
  BY <1>0, <1>4 DEF LoadSucceeds, loadVars, listVars, SkipInv
<1>5. CASE Respawn
  BY <1>0, <1>5 DEF Respawn, loadVars, listVars, SkipInv
<1>6. CASE FilterInit
  <2>1. (blocks = 0 /\ ~stale /\ ~uses) => ~Registers
    BY <1>6 DEF FilterInit, SkipInv, Registers, SeveralBlocks
  <2>2. top = "chain"
    BY <1>6 DEF FilterInit, IInv, ListBegun
  <2>3. (blocks' = 1 /\ ~stale' /\ ~uses') => top' = "chain"
    BY <1>0, <1>6, <2>1, <2>2 DEF FilterInit
  <2>4. /\ loads' = loads /\ ngx_cycle' = ngx_cycle /\ prev_cycle' = ngx_cycle
        /\ blocks' = blocks + 1 /\ phase = "block" /\ phase' = "loading"
    BY <1>6 DEF FilterInit
  <2>5. QED
    BY <1>0, <2>3, <2>4 DEF SkipInv
<1>7. CASE UNCHANGED vars
  BY <1>0, <1>7 DEF vars, loadVars, listVars, SkipInv
<1>8. QED
  BY <1>1, <1>2, <1>3, <1>4, <1>5, <1>6, <1>7 DEF Next

\* A load of a single block without rds_json leaves the list without the
\* filters, unless a load before it failed half-way: its block is not taken
\* for a second one (filter_module.c 386-396).
THEOREM UnusedIsNotLinked == Spec => UnusedIsSkipped
<1>1. Init => SkipInv
  BY BoundsAssumption DEF Init, SkipInv, NoCycle
<1>2. IInv /\ SkipInv /\ [Next]_vars => SkipInv'
  BY StepKeepsSkip
<1>3. SkipInv => ((LoadSucceeds /\ ~stale /\ blocks = 1 /\ ~uses) => top = "chain")
  BY DEF SkipInv, LoadSucceeds
<1>4. QED
  BY <1>1, <1>2, <1>3, Invariance, PTL DEF Spec, UnusedIsSkipped
=============================================================================
