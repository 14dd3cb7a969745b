---------------------------- MODULE RdsJsonInit ----------------------------
(***************************************************************************)
(* The registration of the filters (ngx_http_rds_json_filter_init) over    *)
(* the life of an nginx master process: configurations are loaded, with    *)
(* one http block or, in the versions of nginx that allow it, with more;   *)
(* loads fail; workers are forked and forked again.                        *)
(*                                                                         *)
(* The filter chain is a list linked by global variables, which nginx      *)
(* builds anew for every http block.  Here "chain" stands for the filters  *)
(* that registered before this module did.  The header and the body        *)
(* filter are registered together, so one list stands for both.            *)
(***************************************************************************)
EXTENDS Naturals, Sequences

CONSTANTS
  MaxBlocks,  \* bound: http blocks in a configuration
  MaxLoads    \* bound: loads tried

ASSUME BoundsAssumption == MaxBlocks \in Nat \ {0} /\ MaxLoads \in Nat \ {0}

VARIABLES
  file,              \* http blocks still to be read: whether rds_json stands in them
  requires_filters,  \* rmcf->requires_filters of the block that is read
  phase,             \* of the master: "idle", "loading", "block" or "exited"
  uses,              \* rds_json stands in a block of the file that is read
  blocks,            \* blocks of the file whose filter_init has run
  loads,             \* loads so far; the number of the load names its cycle
  ngx_cycle,         \* the cycle in use, 0 for the one nginx starts with
  prev_cycle,        \* ngx_http_rds_json_prev_cycle, a cycle or NoCycle
  top,               \* ngx_http_top_header_filter: "chain" or "rds_json"
  next,              \* ngx_http_rds_json_next_header_filter: the same or "null"
  live,              \* what the cycle in use was read from: [uses, blocks]
  stale,             \* a load failed after it began the list anew, since the last that did not
  worker             \* the latest worker: the list it was forked with

loadVars == <<file, requires_filters, uses, blocks, loads>>
listVars == <<prev_cycle, top, next>>
vars == <<phase, loadVars, listVars, ngx_cycle, live, stale, worker>>

NoCycle == MaxLoads + 1

Init ==
  /\ phase = "idle"
  /\ file = << >> /\ uses = FALSE /\ blocks = 0 /\ loads = 0
  /\ requires_filters = FALSE
  /\ ngx_cycle = 0
  /\ prev_cycle = NoCycle
  /\ top = "chain"
  /\ next = "null"
  /\ live = [uses |-> FALSE, blocks |-> 0]
  /\ stale = FALSE
  /\ worker = [top |-> "chain", next |-> "null"]

-----------------------------------------------------------------------------
(* nginx: ngx_init_cycle in the master process.                            *)

\* The first load, or a reload.
Load(blocks_) ==
  /\ phase = "idle"
  /\ loads < MaxLoads
  /\ loads' = loads + 1
  /\ file' = blocks_
  /\ uses' = FALSE
  /\ blocks' = 0
  /\ phase' = "loading"
  /\ UNCHANGED <<requires_filters, listVars, ngx_cycle, live, stale, worker>>

\* A new main configuration (create_main_conf), the directives of the block,
\* and the postconfiguration of the modules that come first, which begin the
\* list anew.
ReadHttpBlock ==
  /\ phase = "loading"
  /\ file # << >>
  /\ requires_filters' = Head(file)
  /\ uses' = (uses \/ Head(file))
  /\ file' = Tail(file)
  /\ top' = "chain"
  /\ phase' = "block"
  /\ UNCHANGED <<blocks, loads, prev_cycle, next, ngx_cycle, live, stale, worker>>

\* The configuration is wrong, or a file or socket cannot be opened: the old
\* cycle stays in use, or nginx does not start.
LoadFails ==
  /\ phase \in {"loading", "block"}
  /\ phase' = IF ngx_cycle = 0 THEN "exited" ELSE "idle"
  /\ stale' = (stale \/ blocks > 0 \/ phase = "block")
  /\ UNCHANGED <<loadVars, listVars, ngx_cycle, live, worker>>

\* ngx_cycle is set, and the master forks workers.
LoadSucceeds ==
  /\ phase = "loading"
  /\ file = << >>
  /\ ngx_cycle' = loads
  /\ live' = [uses |-> uses, blocks |-> blocks]
  /\ stale' = FALSE
  /\ worker' = [top |-> top, next |-> next]
  /\ phase' = "idle"
  /\ UNCHANGED <<loadVars, listVars>>

\* The master replaces a worker that died.
Respawn ==
  /\ phase = "idle"
  /\ ngx_cycle # 0
  /\ worker' = [top |-> top, next |-> next]
  /\ UNCHANGED <<phase, loadVars, listVars, ngx_cycle, live, stale>>

-----------------------------------------------------------------------------
(* ngx_http_rds_json_filter_init                                           *)

\* Mutant: the test for several blocks is forgotten.
SeveralBlocksMutant == FALSE

\* While a configuration is read ngx_cycle is still the old cycle: seeing it
\* twice is taken for a second http block.
SeveralBlocks == prev_cycle = ngx_cycle

\* Mutant: the filters are always registered.
RegistersMutant == TRUE

\* An earlier block may need the filters, but its list is gone.
Registers == SeveralBlocks \/ requires_filters

\* Mutant: the rest of the list is not remembered.
LinkForgetsMutant == top' = "rds_json" /\ UNCHANGED next

\* Mutant: the head is taken over before the rest of the list is remembered.
LinkMutant == top' = "rds_json" /\ next' = top'

\* The filter becomes the head of the list.
Link == next' = top /\ top' = "rds_json"

FilterInit ==
  /\ phase = "block"
  /\ prev_cycle' = ngx_cycle
  /\ IF Registers THEN Link ELSE UNCHANGED <<top, next>>
  /\ blocks' = blocks + 1
  /\ phase' = "loading"
  /\ UNCHANGED <<file, requires_filters, uses, loads, ngx_cycle, live, stale, worker>>

-----------------------------------------------------------------------------
Next ==
  \/ \E n \in 0..MaxBlocks : \E b \in [1..n -> BOOLEAN] : Load(b)
  \/ ReadHttpBlock \/ LoadFails \/ LoadSucceeds \/ Respawn
  \/ FilterInit

Spec == Init /\ [][Next]_vars

-----------------------------------------------------------------------------
(* Properties.                                                             *)

Filters == {"chain", "rds_json"}

\* Every variable has a value of its kind, and a filter in the list does not
\* call through a NULL pointer.
TypeOK ==
  /\ phase \in {"idle", "loading", "block", "exited"}
  /\ file \in Seq(BOOLEAN)
  /\ requires_filters \in BOOLEAN /\ uses \in BOOLEAN /\ stale \in BOOLEAN
  /\ blocks \in Nat /\ loads \in 0..MaxLoads
  /\ ngx_cycle \in 0..MaxLoads
  /\ prev_cycle \in 0..NoCycle
  /\ top \in Filters
  /\ next \in Filters \cup {"null"}
  /\ top = "rds_json" => next # "null"
  /\ live \in [uses : BOOLEAN, blocks : Nat]
  /\ worker \in [top : Filters, next : Filters \cup {"null"}]

\* The filter is linked once and does not call itself, whatever was loaded
\* before.
NoLoop == next # "rds_json"

\* What was read so far is served by the list that was built: when rds_json
\* stands in any block that was read, the list contains the filters, however
\* many blocks and loads, failed or not, came before.
UsedIsRegistered ==
  (phase = "loading" /\ uses) => top = "rds_json"

\* A worker forked for a configuration right after it was loaded converts,
\* if rds_json stands in one of its blocks.
ServedAfterLoad == (~stale /\ live.uses) => worker.top = "rds_json"

\* The inductive invariant behind UsedIsRegistered and ServedAfterLoad:
\* prev_cycle remembers that a block of this load was seen; a block that
\* needs the filters leads to the test in filter_init; and the list of the
\* cycle in use is intact until the next load begins it anew.
BlockSeen ==
  (phase \in {"loading", "block"} /\ blocks > 0) => prev_cycle = ngx_cycle

NeedIsKnown ==
  /\ (phase = "loading" /\ uses) => blocks > 0
  /\ (phase = "block" /\ uses) => requires_filters \/ blocks > 0

ListIntact ==
  (live.uses /\ ~stale /\ (phase = "idle" \/ (phase = "loading" /\ blocks = 0)))
    => top = "rds_json"

\* filter_init finds the list that was just begun.
ListBegun == phase = "block" => top = "chain"

IInv ==
  /\ TypeOK /\ NoLoop /\ UsedIsRegistered /\ ServedAfterLoad
  /\ BlockSeen /\ NeedIsKnown /\ ListIntact /\ ListBegun

\* A configuration of one block without rds_json does not pay for the
\* filters (t/unused.t), unless a load before it failed half-way.
UnusedIsSkipped ==
  [][(LoadSucceeds /\ ~stale /\ blocks = 1 /\ ~uses) => top = "chain"]_vars

\* What UnusedIsSkipped needs.  A cycle is in use no earlier than its load, so
\* unless a load failed half-way prev_cycle is an older cycle until the first
\* block of the next load, which is then no second one.
SkipInv ==
  /\ ngx_cycle <= loads
  /\ phase \in {"loading", "block"} => ngx_cycle < loads
  /\ prev_cycle = NoCycle \/ prev_cycle <= ngx_cycle
  /\ (~stale /\ (phase = "idle" \/ (phase \in {"loading", "block"} /\ blocks = 0)))
       => prev_cycle # ngx_cycle
  /\ (phase = "block" /\ ~uses) => ~requires_filters
  /\ (phase = "loading" /\ ~stale /\ blocks = 1 /\ ~uses) => top = "chain"

\* README.md "rds_json": "Enables or disables the output filter of this
\* module", in every worker that serves the configuration.
EveryWorkerConverts == live.uses => worker.top = "rds_json"
=============================================================================
