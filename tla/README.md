# A TLA+ model of rds-json-nginx-module

`rds-json-nginx-module` is an nginx output filter.  Upstream modules
(ngx_drizzle, ngx_postgres) send SQL result sets in the binary RDS format
(`resty_dbd_stream`); the filter turns them into JSON on the fly, buf by buf,
without ever holding a whole result set.  This directory models the filter in
TLA+, model-checks it with TLC and proves part of it with TLAPS.

Paths below are relative to the repository; `output.c` stands for
`src/ngx_http_rds_json_output.c`, and so on.

## The system

| component | state | operations | talks to |
|---|---|---|---|
| header filter (`filter_module.c` 186-277) | attaches `ctx` to the request, leaves the header unsent | `header_filter` | next header filter |
| body filter (`filter_module.c` 280-374) | `ctx->state`, `ctx->header_sent` | dispatch on the state, discard, error path | processor, output, `ngx_http_send_special` |
| RDS processor (`processor.c`) | `state`, `cols`, `col_count`, `cur_col`, `row`, `field_data_rest`, `header_sent` | `process_header/col/row/field/more_field_data`, calling each other with the rest of the chain | parsers, output functions |
| RDS parsers (`ngx_http_rds_utils.h`) | `b->pos` of the buf read | `parse_header`, `parse_col` | - |
| JSON text (`output.c` 33-57, 118-923) | none of its own | `output_literal/header/props/cols/field/more_field_data`: compute a size, request memory, write, submit | buffer manager, escape |
| buffer manager (`output.c` 60-115, 926-1104) | `out_buf`, `avail_out`, chains `out`, `busy_bufs`, `free_bufs`, `postponed`, `cached`, `seen_stream_end` | `request_mem`, `get_buf`, `get_postponed`, `submit_mem`, `output_bufs` | next body filter, `ngx_chain_update_chains` |
| JSON escape (`util.c` 17-120) | - | two loops: count, write | - |
| `rds_json_ret` handler (`handler.c`) | - | builds one JSON object, sends header and body | configuration, next filters |
| configuration (`filter_module.c` 410-861) | `loc_conf` tree, `main_conf->requires_filters` | directive setters, `merge_loc_conf` | - |
| filter registration (`filter_module.c` 376-407) | static `prev_cycle`, filter chain heads | `filter_init` | nginx configuration cycle |

What is hard here is not concurrency of threads (an nginx worker has one) but

* a state machine that is suspended and resumed at every boundary of upstream's
  bufs, wherever these fall;
* bufs that are owned in turn by this filter and by the filters after it, which
  hold on to them while the client is slow, and come back for reuse;
* pieces of output that straddle buffer boundaries;
* errors in the middle of a response whose header may or may not have gone out,
  sent from inside the body filter through the module's own filters;
* every allocation and every call of the next filter may fail;
* every text is sized by one piece of code and written by another;
* a configuration that is inherited from block to block, and a list of filters
  that lives longer than the configuration it was built for.

Correct means: the client gets exactly the JSON text of the result set,
whatever the layout of the bufs and the timing of the client; exactly one
header, first; the end of the response once, last; nothing of the RDS data
leaks; no buf is written to while somebody else holds it; every call returns.
A block of the configuration has what the directives around it say, and the
filters are there when a configuration needs them.
`PROJECT.json` lists the hazards line by line with the properties that guard
them.

## The modules

| module | models |
|---|---|
| `RdsJsonSink` | abstract: what the output side promises, a byte pipe that closes or aborts |
| `RdsJsonBuf` | the buffer manager, with the next filters as its environment |
| `RdsJsonWire` | RDS on the wire as a sequence of units; the reference JSON text `Render` |
| `RdsJsonProcessor` | `processor.c`, the parsers, the text of the output functions |
| `RdsJsonFilter` | header and body filter around the processor, with upstream as environment |
| `RdsJsonPromise` | abstract: what the whole module promises to a client |
| `RdsJsonRequest` | `RdsJsonFilter` on top of `RdsJsonBuf`: one request from end to end |
| `RdsJsonSizes` | the sizes that the output functions, the handler and the setters compute, against what they write |
| `RdsJsonEscape` | the two loops of `escape_json_str` |
| `RdsJsonConf` | directive setters, `create_loc_conf`, `merge_loc_conf` over nested blocks |
| `RdsJsonRet` | the `rds_json_ret` handler on top of `RdsJsonConf` |
| `RdsJsonInit` | `filter_init` over loads, http blocks and workers |
| `MC...` | instances for TLC |
| `RdsJsonWireProofs` | laws of the RDS format and of the JSON text, and of `FlattenSeq` |
| `RdsJsonConfProofs` | theorems about `RdsJsonConf` and `RdsJsonRet` |
| other `...Proofs` | theorems about the module of the same name, with their proofs |

### RdsJsonBuf

The variables carry the names of `ngx_http_rds_json_ctx_t`.  A buf is an index
into `mem`, the bufs created so far.  A JSON piece is its length, and the bytes
of the response are numbered 1, 2, 3, ..., so that a lost, doubled or misplaced
byte is visible.  `pc` says how far the running call is:

| action | code |
|---|---|
| `Output(n, last)` | an `output_*` function begins a piece of `n` bytes; `last` is its "last buf" argument |
| `GetBuf`, `GetBufFails` | `get_buf`: keep, reuse or create |
| `SubmitDirect` | the piece fits: written in place, `submit_mem` 1083-1104 |
| `Postpone`, `PostponeFails` | it does not: `get_postponed` |
| `CopyPostponed` | one turn of the loop of `submit_mem`, 1036-1078 |
| `OutputBufs`, `Return` | `output_bufs`, 69-93 |
| `NextBodyFilter` ... `NextBodyFilterFails` | `ngx_http_rds_json_next_body_filter(r, ctx->out)` and its return |
| `Recycle`, `UpdateChainsReturns` | `ngx_chain_update_chains` |
| `Drain` | the filters after this one write their oldest buf to the client, whenever they like |
| `Enter`, `HandlerFails` | the body filter is called; a handler returns `NGX_ERROR` |

A failed link allocation is the second disjunct of `SaveOutBuf`.  `dead` stands
for the request being finalized after an error; nothing calls the filter then.
Two abstractions: a buf is consumed by the client as a whole (a partly sent
buf is still busy, and `update_chains` looks at nothing else), and which piece
lengths occur is left open, so the model covers more than the handlers emit.

### RdsJsonProcessor and RdsJsonFilter

A result set is a record; `Encode` gives the units upstream sends for it
(`header`, `col`, `flag`, `size`, `char`, each of the first three parsed values
with a `..._rest` unit so that a cut inside it can be expressed).  Upstream
(`AddMem`, `AddSpecial`, `AddFile`) takes any number of units for the next buf,
builds a chain, and the body filter is called.  The history variable `legal`
records whether the cuts were among those the filter accepts: a header, column
or field size in one buf, the size with the first octet of the field, no
special buf inside a field and not two on one chain, nothing after the
terminator in its buf.  The `process_*` functions are tail calls in the code
and actions here; `pc` names the next one, `in` is its chain argument.  Their
text goes to `json`, and to `body` when the call ends with `output_bufs`.

Tokens stand for characters; characters for classes (`newline` is every
character that is escaped with one backslash).  `output_props`, `output_list`
(the "[" of `process_col`) and `output_cols` are three pieces of text emitted
from inside `process_col`, hence three values of `pc`.  Allocation failures and
failures of the next header filter are one disjunct of the operator they occur
in and set `exhausted`.

### RdsJsonRequest and RdsJsonPromise

The composition joins the two components at the calls between them: an
`output_*` call of a handler (`HandlerOutputs`) is `Buf!Output`, the steps of
`request_mem` and `submit_mem` run while the handler waits (`OutputRuns`), and a
failure there is the handler's failure at once (`OutputReturns`).  Byte `i` of
the buffer manager is token `i` of the JSON text, so what the client has is a
sequence of tokens.  `RdsJsonPromise` translates no code: it says that there is one
header, then a growing prefix of the text, that the end mark comes with the
whole text only, and that a request that fails is aborted.  The end mark is
`eof` of the buffer manager (a buf with `last_buf`) or the `LAST` of an error
response.

### RdsJsonSizes and RdsJsonEscape

Here a text is its length and the number of bytes that escaping adds, and each
output function is one action with `size`, what it asks `request_mem` for, and
`written`, what its second half writes.  `type`, `cur_col` and `field_data_rest`
carry over from call to call, because a value that arrives in parts is sized
part by part.  `RdsJsonEscape` runs the two loops of `escape_json_str` byte by
byte over real byte values.  It also has the reference for them, a reader of
JSON strings (`Read`) that takes one byte at a time and knows the escape
sequence it is in.

### RdsJsonConf, RdsJsonRet and RdsJsonInit

`given` records the directives of the file by block; the properties compare
what merging makes of them with it.  `MergeLocConf` has one line per
`ngx_conf_merge_*` line of the code.  `RdsJsonRet` adds the search for a
location and the entering of an if block, which changes the configuration in
force but keeps the content handler when the block has none of its own.

`RdsJsonInit` has the globals that outlive a configuration: `prev_cycle`, the
head of the filter list (`top`) and the filter's own `next`.  A cycle is named by
the number of its load; the code compares addresses, so it also takes a cycle
for the one before it if the allocator returns the same address, which at worst
registers filters that nobody needs.

## What is checked

Run `tlc -config X.cfg M` in this directory.

| run | module, cfg | states | shows |
|---|---|---|---|
| `buf_safety` | `MCRdsJsonBuf`, `BufSafety` | 55,318 | eight safety properties, `BufSize` 3, pieces of 0..7, up to 9 bytes |
| `buf_live` | `MCRdsJsonBuf`, `BufLive` | 7,522 | refinement of `RdsJsonSink` with its fairness, delivery; 2, 0..3, 5 |
| `buf_last_buf` | `MCRdsJsonBuf`, `BufLastBuf` | - | counterexample to `LastBufDelivered` |
| `filter_safety` | `MCRdsJsonFilter`, `FilterSafety` | 2,775,574 | nine safety properties, 11 result sets, formats with and without properties, chains of 3 |
| `filter_live` | `MCRdsJsonFilter`, `FilterLive` | 383,010 | termination of calls, completion; valid result sets, chains of 2 |
| `request` | `MCRdsJsonRequest`, `Request` | 446,588 | `RdsJsonRequest` implements `RdsJsonPromise`; delivery; bufs of 3 tokens, 5 result sets, 3 formats |
| `sizes` | `MCRdsJsonSizes`, `Sizes` | 2,139 | size and text of every output function |
| `escape` | `MCRdsJsonEscape`, `Escape` | 2,706 | every byte, every pair of classes, triples; the text can be read back |
| `conf_ret` | `MCRdsJsonRet`, `ConfRet` | 1,225,084 | inheritance, the object of `rds_json_ret`; three nested blocks, three directives |
| `ret_arguments` | `MCRdsJsonRet`, `RetArguments` | - | counterexample to `RetHasArguments` |
| `init_safety` | `RdsJsonInit`, `InitSafety` | 21,478 | registration; four loads of up to three http blocks |
| `init_respawn` | `RdsJsonInit`, `InitRespawn` | - | counterexample to `EveryWorkerConverts` |

Buffer manager:

* `BytesInOrder`: what the client has, followed by what is in flight, is the
  response so far.  One formula for loss, duplication, reordering and overwriting.
* `BufferOwnership`, `HeldBufsUntouched`: a buf is in one place; nobody writes
  to a buf in flight.
* `SpaceAccounted`: `avail_out` is the true room; the cached area is large enough.
* `NoEmptyBufSent`, `NothingRetained`: no zero-size buf goes out, nothing stays
  behind when the response is over.
* `EofIsLast`: `last_buf` arrives after the last byte and in main requests only.
* `ResponseCompletes`, `ImplementsSink`: delivery; the byte pipe.

Filter:

* `JsonIsPrefix`, `DoneIsComplete`: the text is always a prefix of, and at the
  end equal to, `Render` of the result set, whatever the layout.
* `InStep`: state machine and wire agree on what comes next, between any two
  steps.
* `LegalNeverFails`, `LegalCompletes`: the accepted layouts are accepted.
* `OneHeaderFirst`, `HeaderSentExact`, `RefusedIsAnswered`, `NeverMixed`: the
  header protocol and the error path.
* `CallReturns`: no handler loops for ever.

Whole request:

* `KeepsPromise`: the refinement of `RdsJsonPromise`.  It relates the parser, the
  header, the bufs in flight and the failures of all of them: a response that
  was cut off, by upstream, by an error in a later row or by a lost allocation,
  is never marked complete.
* `DeliveredWhole`: when the state machine is done and the client has read what
  was passed on, it has the whole text, although the last piece may straddle
  bufs.  `LegalDelivered` is the liveness side.

Texts:

* `FitsExactly`: size computed = size written, for every function that has the
  two, also for a value in parts and for numbers at the powers of ten.
* `FillsItsMemory`, `NeverOverruns`: the same for the loops of `escape_json_str`.
* `ReadsBack`: a reader of JSON strings gets the original text; no quote ends
  the string early and no control character is left in it.

Configuration and registration:

* `MergedIsInherited`: in every merged block the innermost directive counts, and
  the root key is `"data"` exactly if a success or user property is in force.
* `EnabledIsRequired`: no block has the filter on without asking for it.
* `EmitsItsDirectives`: the object that `rds_json_ret` sends.
* `UsedIsRegistered`, `ServedAfterLoad`, `NoLoop`, `UnusedIsSkipped`: the filters
  are on the list if a block needs them, once, and not for a single block that
  does not.

### Disagreements found

`LastBufDelivered` fails.  `processor.c` 302 and 308 emit the closing bracket
with `1 /* last buf*/`, but when the piece is copied through the postponed
area, `submit_mem` leaves its loop at line 1053 before it sets `last_buf` (line
1070 is reached only if the piece ends exactly where the buf does).  The same
goes for the header object, which is longer than a small `rds_json_buffer_size`.
The client side then has every byte but no `last_buf`, and the one upstream
sends is discarded in `state_done`.  With chunked encoding the terminating
chunk is missing.  `EofIsLast` and `DeliveredWhole`, the other halves, hold.

`RetHasArguments` fails.  `rds_json_ret` in a location and an if block in it
without one: nginx keeps the content handler of the location but puts the
configuration of the if block in force, and `merge_loc_conf` merges neither
`errcode` nor `errstr`.  The handler then calls `ngx_http_complex_value` with a NULL
`conf->errstr` (`handler.c` 31).

`EveryWorkerConverts` fails.  Reading a configuration begins the list of
filters anew.  If the new file has no `rds_json` and the load fails after its
http block was read (a port in use, say), the master goes on with the old
cycle, but its list has no filter any more; a worker that dies and is forked
again serves RDS as it is.  The live workers are not affected, which is
`ServedAfterLoad`.

### Bounds, and why they are enough

`RdsJsonBuf`: what matters of a piece is whether it ends before, at or after a
buf boundary, and how many boundaries it crosses.  With `BufSize` 3, pieces of
up to 7 start at every offset and cross zero, one or two boundaries with a rest
on either side; 9 bytes are three bufs, so that one is in flight, one is
recycled and one is written at a time, and bufs are reused.  `MCRdsJsonBuf`
asserts that the bounds reach that far.  The theorems remove the bounds for the
properties they state.

`RdsJsonRequest`: with bufs of 3 tokens and pieces of up to 20 every response but
the empty ones uses several bufs, pieces cross up to six boundaries, and bufs are
reused while others are in flight.  Chains hold one buf, with any number of units; longer chains
are `filter_safety`'s.  `LongestText` is larger than what occurs, and
`RdsJsonBuf!TypeOK` is not stated again.

`RdsJsonConf`: three blocks are two merges, so that a merged block is inherited from;
three directives are the most that one field of the configuration depends on
(root, success and user properties), plus none.  `RdsJsonInit`: three http
blocks in a file, four loads: one that succeeds, one that fails before and one
after `filter_init`, and one more.  `RdsJsonSizes` and `RdsJsonEscape` need no
bound for the proofs; the small instances have a text of every kind.

`RdsJsonFilter`: the result sets hold every column type, NULL, empty, escaped
and multi-character fields, two rows, no rows, no columns and each malformed
kind.  A chain of three allows a special buf before, between and after data.

### Fairness

`RdsJsonBuf!FairSpec`: weak fairness of a call that has begun (the worker does
not yield inside a body filter call) and of `Drain` (nginx writes what it was
given while the client reads; a client that never reads is a timeout, outside
the model).  There is none on the arrival of upstream data.
`RdsJsonFilter!FairSpec`: weak fairness of the header filter and of the body
filter's steps other than allocation failures (a loop does not end because
memory runs out), strong fairness of `AddMem`: upstream may interleave special bufs but does not send
them for ever instead of its data.  It is strong because `AddMem` is disabled
while the filter runs or the chain is full.
`RdsJsonRequest!FairRequestSpec` is the conjunction of both, with the filter's
calls, the run of a call, and the client as separate weak conditions; here a
failure is one of the ways a call may run on, and `LegalDelivered` excuses it.

## What is proved

`RdsJsonBufProofs`, for every `BufSize > 0`, `MaxLen > 0` and `MaxBytes`:

* `TypeCorrect`: `Spec => []TypeOK`.
* `BuffersOwned`: `Spec => []BufferOwnership`.
* `InFlightUntouched`: `Spec => HeldBufsUntouched`.
* `SpaceIsAccounted`: `Spec => []SpaceAccounted`.
* `NothingIsRetained`: `Spec => []NothingRetained`.
* `SentBufsHaveBytes`: `Spec => []NoEmptyBufSent`.
* `BytesAreInOrder`: `Spec => []BytesInOrder`.
* `EofComesLast`: `Spec => []EofIsLast`.
* `StepsImplementSink`: the initial states are the byte pipe's, and every step is
  one of `RdsJsonSink` or invisible to it, the safety part of `ImplementsSink`.

The only assumptions are `BufSizeAssumption` and `BoundsAssumption`; both are
evaluated by TLC in every run of `MCRdsJsonBuf`.

`TypeOK` is not inductive: `SubmitDirect` and `CopyPostponed` write through
`out_buf`, which needs a buf, hence `RoomGranted` (in `request_mem` and
`submit_mem` there is room, because `get_buf` ran).  `BufferOwnership` says
that the concatenation of four chains has no repetition.  The lemma
`OwnershipByChain` turns that into pairwise disjointness, `ChainsApart`, on
which each action touches only one or two parts; a full buf is linked exactly
when it stops being `Writable`.  For `HeldBufsUntouched` one needs in addition
that bufs held downstream are on `busy_bufs` or `out` (`HeldOnChains`): writes
go to `out_buf` with `avail_out > 0`, hence off those chains, and `Recycle`
touches only a buf nobody holds.  `SpaceAccounted` follows from the type
invariant, ownership (filling one buf leaves the free ones alone) and the
comparison in `get_postponed`.  TLC checks the same strengthening, `IInv`.

What is sent needs more.  `CallInv` says how far the running call has got:
postponed bytes exist in `submit_mem`'s loop only, and `seen_stream_end` is set
exactly while the call that ended the stream has not reached `output_bufs`.
`SentInv` adds that the buf which that call will pass on partly filled holds
something.  `OrderInv` is `BytesInOrder` itself, and inductive on top of these: the bufs
held downstream, those on `out` and the one being written form one chain
(`Chain`), which linking and passing on leave as it is (`WriteKeepsChain`,
`SendKeepsChain`), from whose front the client takes (`DrainTakesFirst`) and at
whose end bytes arrive (`FillFlight`); everything else, recycling above all,
touches bufs off the chain.  `FlagInv` says where a `last_buf` can be: nowhere
before the last piece was written, then only at the end of the chain.  A `Drain`
is a `Consume` because of `BytesInOrder` in the state after it and `NoEmptyBufSent`.

The byte order reasons about `FlattenSeq`, a recursive function, for chains of any
length.  The induction theorems of the library take an operator and are no help;
`RdsJsonWireProofs` proves what is needed (`FlattenType`, `FlattenConcat`) from
the well-foundedness of `<`: a set of numbers with a counterexample has a least element.

`RdsJsonFilterProofs` states everything that `filter_safety` checks, for all
result sets, layouts, configurations and lengths of chains.  Its assumptions are
`ResultsAssumption` and `FormatsAssumption`: a row has as many fields as there are
columns, there are no rows without columns, and a location has values of the
types of `ngx_http_rds_json_loc_conf_t`.  A result set need not be `valid`, may be
followed by `junk`, and may be cut anywhere.

* `FilterTypeCorrect`: `Spec => []TypeOK`.
* `HeaderComesFirst` (`OneHeaderFirst`), `HeaderSentTells` (`HeaderSentExact`),
  `RefusedGetsAnswer` (`RefusedIsAnswered`), `RawStaysApart` (`NeverMixed`).
* `JsonIsTheBeginning` (`JsonIsPrefix`) and `ConversionIsComplete` (`DoneIsComplete`):
  the text, for every result set and format.
* `StaysInStep` (`InStep`): state machine and wire, for every layout.
* `LegalIsConverted` (`LegalNeverFails`): the accepted layouts are accepted.

None of them is inductive.  `HeaderInv` says which header has
been sent for every state and for every function that can run (`HeaderInStep`), that a
request which reaches the error path without a 200 header was answered or is
out of memory (`ErrorInStep`), and that responses which are not converted stay
untouched (`LeftAlone`).

`ConvInv` gives every state of the machine a place in the result set (column,
row, field, character) and says two things of it: the units still unread,
on the chain and at upstream, are what `Encode` has from that place on, and
`json` followed by what `Render` has from that place on is `Render`.
`RdsJsonWireProofs` has the laws these two rest on: `Encode` and `Render` are
joins of sequences of sequences, and taking the first part off leaves the join of
the others (`HeaderAhead`, `ColumnAhead`, `SizeAhead`, ...).  Each `process_*`
function takes one part off the wire and one part off the text, or stops
before it has taken anything.  So the induction is along the run of the filter,
and none over data is needed.

`LegalInv` is about chains: while upstream keeps to the legal layouts, `Layout`
says of chain and wire together that a header, a column or a size is in one buf,
that a special buf stands between two values and behind no other one, and that
nothing follows the terminator in its buf.  With `ConvInv` no handler finds what
it refuses.

`RdsJsonRequestProofs` carries both over to a request from end to end, for every
result set, layout, configuration, `BufSize > 0`, speed of the client and failure:

* `TextIsDelivered` (`DeliveredWhole`): a client that has read what was passed on
  has the whole text when the conversion is done.
* `PromiseIsKept` (`KeepsPromise`): a request implements `RdsJsonPromise`, which is a safety
  property, so this refinement is proved in full.
* `RequestRunsBuf`: `RequestSpec` implements `RdsJsonBuf!Spec` (`Out`), with byte `i` the
  token `i` of `json`.

Every step is one of the filter's, or an `output_*` call that fails (`OutputFails`), so
`HeaderInv` and `ConvInv` hold; and every step is one of the buffer manager's or leaves it
alone.  Neither half knows of the other: a filter's step ends the stream of `output.c` only
if the conversion is complete, and a failure there ends the request only if the
filter gives up.  `JointInv` says this: which function of the filter may wait for which
one of `output.c` (`Places`), what has been sent before an error (`Failures`), and that the stream has
ended exactly when the state machine is done, with the text complete (`EndAgrees`).  TLC found no
state of `request` outside of it before the proof was begun.  Of `output.c` the promise
needs `ClientSide`, what the client has read and what it may conclude from the end
mark, which is `BytesInOrder`, `EofIsLast` and `NothingRetained` seen from outside.
Besides the assumptions of the filter there is `RequestAssumption`, `BufSize > 0` and
`LongestText > 0`; no step is bounded by `LongestText`.

`RdsJsonInitProofs`, for any number of loads and blocks: `TypeCorrect`,
`LinkedOnce` (`NoLoop`), `NeededIsRegistered` (`UsedIsRegistered`),
`LoadedIsServed` (`ServedAfterLoad`) and the action property `UnusedIsNotLinked`
(`UnusedIsSkipped`).  The inductive invariant adds that
`prev_cycle` is the cycle in use as soon as a block of this load was seen
(`BlockSeen`), what is known of the need at each point (`NeedIsKnown`), and
that the list survives until the next load begins it anew (`ListIntact`).  For
`UnusedIsSkipped`, `SkipInv` orders the cycles: `prev_cycle` is never younger than the
cycle in use, which is older than the load that is running, so the first block of a load
is not taken for a second one unless a load failed half-way in the same cycle.

`RdsJsonEscapeProofs`, for texts of any length: `TypeCorrect`, `PassesAgree`
(`FillsItsMemory`), `StaysInside` (`NeverOverruns`) and `TextReadsBack` (`ReadsBack`).  The
invariant `InStep` ties what the writing loop wrote for the first `pos` bytes to the
count after as many bytes, which the history variable `counts` keeps, and says that
counts never decrease.  For `TextReadsBack`, `WrittenReadsBack` says that the reader
gets the first `pos` bytes from what is written and waits for no more of an escape
sequence.  `ReadOn` is what lets it go on from there: reading `s \o t` is reading `t`
from where the reader is after `s` (by the least number principle, since an induction
theorem cannot be instantiated).  `ByteReadsBack` then takes each class of bytes
through the reader, six steps for a control character.

`RdsJsonSizesProofs`, for all lengths and numbers of columns: `TypeCorrect` and
`ExactFit` (`FitsExactly`).  `NumbersAssumption` only says that numbers have the width of
their C types, `uint64_t` and `uint16_t`.  That `ngx_get_num_size` then returns as many
digits as `%uL` and `%uD` print, and that the limits of `ngx_snprintf` do not cut them, is
`DigitsAreCounted` and `NumberFits`: `NumSizeOf` shows that the recursion over `n \div 10`
defines a function on all numbers, `SizeIsDigits` goes from one power of ten to the next.

`RdsJsonConfProofs`, for every tree of blocks and every file: `OnIsRequired`
(`EnabledIsRequired`), `ConfTypeCorrect` (`TypeOK`), `InnermostDirectiveCounts`
(`MergedIsInherited`) and `DirectivesAreEmitted` (`EmitsItsDirectives`).  `TreeAssumption` says
that the blocks around a block form a chain from the http block down, `KindAssumption`
that the http block is no location, and `CodesAssumption` what a code is.  The invariant
`MergeInv` says that a block has its own directives until it is merged and the
innermost ones from then on.  That a merged block has the value of the innermost
block around it that gives one is then a statement about one merge, whose parent has
been merged before.

`DirectivesAreEmitted` needs more: the handler's two slots have the arguments of the last
`rds_json_ret` of their own block (`RetInv`), because they are not inherited; and a
request is served under a merged configuration that no longer changes (`ServedInv`).  The
handler's text is a `FlattenSeq` over the user properties, the reference (`Listed`) a
recursion; that they agree for any number of properties is `PropertiesAreListed`,
from the laws in `RdsJsonWireProofs`.

Only model-checked: the liveness properties `ResponseCompletes`, `LegalCompletes`, `CallReturns`, `LegalDelivered` and
the fairness half of `ImplementsSink`, which this prover does not do.

## Not modelled, and why

* `rds_json_buffer_size 0`, which the directive accepts and with which
  `submit_mem` never ends: excluded by `BufSizeAssumption`.
* A call of the filter after `output_bufs` returned an error: nginx has
  finalized the request.
* HEAD requests after the first body call: `r->header_only` is set on the way
  (`filter_module.c` 289), and from then on upstream's bufs are passed as they
  are.  `NeverMixed` is therefore stated for other methods, and the handler of
  `rds_json_ret` passes its body on for every method.
* The special buf that ends a truncated upstream response is consumed without
  being passed on.  The model shows it (the state machine just waits, and the
  response is not marked complete), but what upstream does next is nginx's.
* The validity of the arguments of `rds_json_format`, `rds_json_buffer_size` and
  `rds_json`, and where a directive may stand, which nginx checks;
  `json_format_pretty`, which no directive gives.
* Integer widths: sizes are taken not to overflow `size_t`.
* Logging, debug macros, tests, build files.

## Plan

Every invariant and action property that a run checks has a theorem, except those of the
runs that expect a violation.  What is left is the liveness side, which stays with TLC.
