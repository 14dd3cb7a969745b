----------------------------- MODULE RdsJsonBuf -----------------------------
(***************************************************************************)
(* The output buffer manager of the RDS-JSON body filter                   *)
(* (ngx_http_rds_json_output.c): request_mem, get_buf, get_postponed,      *)
(* submit_mem and output_bufs, driven by the body filter, and the part of  *)
(* nginx it talks to: the next body filter, which may keep the bufs it was *)
(* given for as long as it likes, and ngx_chain_update_chains, which gives *)
(* the drained ones back.                                                  *)
(*                                                                         *)
(* A JSON piece is abstracted to its length: byte i of the response is the *)
(* number i, so that loss, duplication and reordering are visible.  The    *)
(* handlers that decide which pieces are emitted are in RdsJsonProcessor.  *)
(*                                                                         *)
(* nginx is single-threaded: a call of the body filter runs to its end,    *)
(* and only the next filter runs between two of its steps.  The variable   *)
(* pc says how far the running call has got; it is "event" between calls.  *)
(***************************************************************************)
EXTENDS Integers, Sequences, SequencesExt

CONSTANTS
  BufSize,   \* rds_json_buffer_size (conf->buf_size)
  MaxLen,    \* bound: the longest JSON piece one output_* call emits
  MaxBytes   \* bound: the longest response

\* submit_mem never terminates with buffers of size 0, which the directive
\* rds_json_buffer_size accepts: the filter is only usable with BufSize > 0.
ASSUME BufSizeAssumption == BufSize \in Nat \ {0}
ASSUME BoundsAssumption  == MaxLen \in Nat \ {0} /\ MaxBytes \in Nat

VARIABLES
  pc,               \* where the running body filter call stands
  main,             \* r == r->main: not a subrequest
  dead,             \* a call returned NGX_ERROR: nginx finalizes the request
  done,             \* the handlers emitted the last piece (state_done)
  nbytes,           \* number of bytes the handlers have emitted so far
  piece,            \* arguments of the running output_* call
  out_buf,          \* ctx->out_buf: a buf, 0 when there is none
  avail_out,        \* ctx->avail_out
  out,              \* ctx->out: bufs filled and not yet passed on
  busy_bufs,        \* ctx->busy_bufs
  free_bufs,        \* ctx->free_bufs
  postponed,        \* ctx->postponed: bytes between its pos and last
  cached,           \* capacity of ctx->cached
  seen_stream_end,  \* ctx->seen_stream_end
  mem,              \* the bufs created so far: their bytes and last_buf flag
  held,             \* bufs the next filters still hold, oldest first
  delivered,        \* bytes the next filters have written to the client
  eof               \* the client side has seen a buf with last_buf set

handlerVars == <<main, done, nbytes, piece, seen_stream_end>>
chainVars   == <<out, busy_bufs, free_bufs>>
writerVars  == <<out_buf, avail_out, postponed, cached>>
clientVars  == <<held, delivered, eof>>
vars == <<pc, dead, mem, handlerVars, chainVars, writerVars, clientVars>>

Buf == [data : Seq(Nat), last_buf : BOOLEAN]

\* The bufs created so far are named by their index in mem.
Bufs == 1..Len(mem)

NoPiece == [bytes |-> << >>, last_buf |-> FALSE]

Bytes(from, n) == [i \in 1..n |-> from + i]

Init ==
  /\ pc = "event"
  /\ main \in BOOLEAN
  /\ dead = FALSE
  /\ done = FALSE
  /\ nbytes = 0
  /\ piece = NoPiece
  /\ out_buf = 0
  /\ avail_out = 0
  /\ out = << >>
  /\ busy_bufs = << >>
  /\ free_bufs = << >>
  /\ postponed = << >>
  /\ cached = 0
  /\ seen_stream_end = FALSE
  /\ mem = << >>
  /\ held = << >>
  /\ delivered = << >>
  /\ eof = FALSE

\* An allocation or the next filter failed: NGX_ERROR travels up through the
\* body filter and the request is finalized.  Nothing calls the filter again.
Fail ==
  /\ dead' = TRUE
  /\ pc' = "event"

-----------------------------------------------------------------------------
(* The body filter is called and its handlers emit pieces.                 *)

\* nginx calls the body filter with upstream data.  In state_done the filter
\* discards the data and returns, which changes nothing here.
Enter ==
  /\ pc = "event"
  /\ ~dead
  /\ ~done
  /\ pc' = "handler"
  /\ UNCHANGED <<dead, mem, handlerVars, chainVars, writerVars, clientVars>>

\* Mutant: the test r != r->main is forgotten.
MarksLastMutant(last) == last

\* Only a piece of the main request may carry last_buf.
MarksLast(last) == last /\ main

\* Mutant: seen_stream_end is set after last_buf was cleared for a subrequest.
EndsStreamMutant(last) == last /\ main

\* The last piece sets seen_stream_end in main requests and in subrequests.
EndsStream(last) == last

\* A handler calls an output_* function for a piece of n bytes.  The piece
\* that ends the response ("]", "]}" or the header object) comes with
\* state_done and is not empty.
Output(n, last) ==
  /\ pc = "handler"
  /\ ~done
  /\ nbytes + n <= MaxBytes
  /\ last => n > 0
  /\ piece' = [bytes |-> Bytes(nbytes, n), last_buf |-> MarksLast(last)]
  /\ nbytes' = nbytes + n
  /\ done' = last
  /\ seen_stream_end' = EndsStream(last)
  /\ pc' = "get_buf"
  /\ UNCHANGED <<main, dead, mem, chainVars, writerVars, clientVars>>

\* A handler returns NGX_ERROR: the RDS data are malformed.  What it emitted
\* before is not passed on (output_bufs is not called).
HandlerFails ==
  /\ pc = "handler"
  /\ ~done
  /\ Fail
  /\ UNCHANGED <<mem, handlerVars, chainVars, writerVars, clientVars>>

-----------------------------------------------------------------------------
(* get_buf: a buf with room for at least one byte.                         *)

\* Where get_buf was called from: request_mem before a piece is written,
\* submit_mem while a postponed piece is being copied.
GetBufReturn == IF postponed = << >> THEN "request_mem" ELSE "submit_mem"

KeepBuf ==
  /\ avail_out > 0
  /\ UNCHANGED <<out_buf, avail_out, free_bufs, mem>>

ReuseBuf ==
  /\ avail_out = 0
  /\ free_bufs # << >>
  /\ out_buf' = Head(free_bufs)
  /\ free_bufs' = Tail(free_bufs)
  /\ avail_out' = BufSize
  /\ UNCHANGED mem

CreateBuf ==
  /\ avail_out = 0
  /\ free_bufs = << >>
  /\ mem' = Append(mem, [data |-> << >>, last_buf |-> FALSE])
  /\ out_buf' = Len(mem) + 1
  /\ avail_out' = BufSize
  /\ UNCHANGED free_bufs

GetBuf ==
  /\ pc = "get_buf"
  /\ KeepBuf \/ ReuseBuf \/ CreateBuf
  /\ pc' = GetBufReturn
  /\ UNCHANGED <<dead, handlerVars, out, busy_bufs, postponed, cached, clientVars>>

\* ngx_create_temp_buf returns NULL.
GetBufFails ==
  /\ pc = "get_buf"
  /\ avail_out = 0
  /\ free_bufs = << >>
  /\ Fail
  /\ UNCHANGED <<mem, handlerVars, chainVars, writerVars, clientVars>>

-----------------------------------------------------------------------------
(* request_mem and submit_mem: the piece goes straight into out_buf when   *)
(* it fits, else through the postponed area, one buf at a time.            *)

FitsInBuf(len) == len <= avail_out

\* The bytes appended to out_buf, whose last_buf becomes flag.
Filled(bytes, flag) ==
  [mem EXCEPT ![out_buf] = [data |-> @.data \o bytes, last_buf |-> flag]]

\* Mutant: off by one.
FullMutant(avail) == avail <= 1

\* A buf is linked to ctx->out when nothing fits in it any more.
Full(avail) == avail = 0

\* out_buf is full: it is appended to ctx->out, unless no link can be had.
SaveOutBuf ==
  \/ /\ out' = Append(out, out_buf)
     /\ dead' = FALSE
  \/ /\ dead' = TRUE
     /\ UNCHANGED out

\* The piece fits: it is written in place and submitted.
SubmitDirect ==
  /\ pc = "request_mem"
  /\ FitsInBuf(Len(piece.bytes))
  /\ mem' = Filled(piece.bytes, piece.last_buf)
  /\ avail_out' = avail_out - Len(piece.bytes)
  /\ IF Full(avail_out') THEN SaveOutBuf ELSE UNCHANGED <<out, dead>>
  /\ pc' = IF dead' THEN "event" ELSE "handler"
  /\ UNCHANGED <<handlerVars, busy_bufs, free_bufs, out_buf, postponed, cached, clientVars>>

\* Mutant: the cached area is used again without a look at its size.
CacheSizeMutant(len) == IF cached = 0 THEN len ELSE cached

\* The area of get_postponed is kept while it is large enough.
CacheSize(len) == IF cached < len THEN len ELSE cached

\* The piece does not fit.
Postpone ==
  /\ pc = "request_mem"
  /\ ~FitsInBuf(Len(piece.bytes))
  /\ postponed' = piece.bytes
  /\ cached' = CacheSize(Len(piece.bytes))
  /\ pc' = "submit_mem"
  /\ UNCHANGED <<dead, mem, handlerVars, chainVars, out_buf, avail_out, clientVars>>

\* ngx_palloc of the postponed area returns NULL.
PostponeFails ==
  /\ pc = "request_mem"
  /\ ~FitsInBuf(Len(piece.bytes))
  /\ cached < Len(piece.bytes)
  /\ Fail
  /\ UNCHANGED <<mem, handlerVars, chainVars, writerVars, clientVars>>

\* Mutant: the length is not cut to what the buf has room for.
CopyLenMutant == Len(postponed)

\* How many postponed bytes the current buf takes.
CopyLen == IF Len(postponed) > avail_out THEN avail_out ELSE Len(postponed)

\* Mutant: postponed.pos is reset although there is more to copy.
PostponedRestMutant == << >>

\* The postponed bytes that are left for the next turn.
PostponedRest == SubSeq(postponed, CopyLen + 1, Len(postponed))

\* The flag that submit_mem's copy loop leaves on out_buf: it is only set
\* when the copied piece ends exactly where the buf does.
CopiedFlag(rest, avail) ==
  IF avail = 0 /\ rest = << >> THEN piece.last_buf ELSE mem[out_buf].last_buf

\* One turn of submit_mem's loop over the postponed bytes.
CopyPostponed ==
  /\ pc = "submit_mem"
  /\ avail_out' = avail_out - CopyLen
  /\ postponed' = PostponedRest
  /\ IF Full(avail_out') THEN SaveOutBuf ELSE UNCHANGED <<out, dead>>
  /\ mem' = Filled(SubSeq(postponed, 1, CopyLen),
                   IF dead' THEN mem[out_buf].last_buf
                            ELSE CopiedFlag(postponed', avail_out'))
  /\ pc' = IF dead' THEN "event"
           ELSE IF postponed' = << >> THEN "handler" ELSE "get_buf"
  /\ UNCHANGED <<handlerVars, busy_bufs, free_bufs, out_buf, cached, clientVars>>

-----------------------------------------------------------------------------
(* output_bufs: what was filled goes to the next filter.                   *)

\* Mutant: seen_stream_end is not looked at, so every call flushes.
PassesPartialMutant == avail_out > 0

\* Mutant: what is left in out_buf at the end of the stream is forgotten.
ForgetsPartialMutant == FALSE

\* The partly filled buf is passed on at the end of the stream only.
PassesPartial == seen_stream_end /\ avail_out > 0

\* The handler has returned NGX_OK.  A partly filled buf is only passed on
\* when the stream has ended.
OutputBufs ==
  /\ pc = "handler"
  /\ seen_stream_end' = FALSE
  /\ IF PassesPartial
       THEN /\ SaveOutBuf
            /\ avail_out' = IF dead' THEN avail_out ELSE 0
       ELSE UNCHANGED <<out, dead, avail_out>>
  /\ pc' = IF dead' THEN "event" ELSE "send"
  /\ UNCHANGED <<mem, main, done, nbytes, piece, busy_bufs, free_bufs, out_buf, postponed, cached, clientVars>>

\* Nothing is left to send: the body filter returns NGX_OK.
Return ==
  /\ pc = "send"
  /\ out = << >>
  /\ pc' = "event"
  /\ UNCHANGED <<dead, mem, handlerVars, chainVars, writerVars, clientVars>>

\* ctx->out is given to the next body filter, which runs.
NextBodyFilter ==
  /\ pc = "send"
  /\ out # << >>
  /\ held' = held \o out
  /\ pc' = "next_body_filter"
  /\ UNCHANGED <<dead, mem, handlerVars, chainVars, writerVars, delivered, eof>>

\* The next filters write their oldest buf to the client, while they are
\* called or later, when the connection becomes writable (a call of the body
\* filter with in == NULL goes straight through to them).
Drain ==
  /\ pc \in {"event", "next_body_filter"}
  /\ ~dead
  /\ held # << >>
  /\ delivered' = delivered \o mem[Head(held)].data
  /\ eof' = (eof \/ mem[Head(held)].last_buf)
  /\ held' = Tail(held)
  /\ UNCHANGED <<pc, dead, mem, handlerVars, chainVars, writerVars>>

\* The next filter returns NGX_OK or NGX_AGAIN, and ngx_chain_update_chains
\* begins by moving ctx->out to the end of ctx->busy_bufs.
NextBodyFilterReturns ==
  /\ pc = "next_body_filter"
  /\ busy_bufs' = busy_bufs \o out
  /\ out' = << >>
  /\ pc' = "update_chains"
  /\ UNCHANGED <<dead, mem, handlerVars, free_bufs, writerVars, clientVars>>

\* The next filter returns NGX_ERROR.
NextBodyFilterFails ==
  /\ pc = "next_body_filter"
  /\ Fail
  /\ UNCHANGED <<mem, handlerVars, chainVars, writerVars, clientVars>>

\* Mutant: bufs are taken back without a look at their size.
ConsumedMutant(b) == TRUE

\* ngx_buf_size(buf) == 0: the next filters have consumed it.
Consumed(b) == b \notin ToSet(held)

\* ngx_chain_update_chains moves the oldest busy buf to the free list when
\* it was consumed; its pos and last go back to its start.
Recycle ==
  /\ pc = "update_chains"
  /\ busy_bufs # << >>
  /\ Consumed(Head(busy_bufs))
  /\ free_bufs' = <<Head(busy_bufs)>> \o free_bufs
  /\ busy_bufs' = Tail(busy_bufs)
  /\ mem' = [mem EXCEPT ![Head(busy_bufs)] = [data |-> << >>, last_buf |-> @.last_buf]]
  /\ UNCHANGED <<pc, dead, handlerVars, out, writerVars, clientVars>>

\* It stops at the first buf that was not.
UpdateChainsReturns ==
  /\ pc = "update_chains"
  /\ busy_bufs # << >> => ~Consumed(Head(busy_bufs))
  /\ pc' = "send"
  /\ UNCHANGED <<dead, mem, handlerVars, chainVars, writerVars, clientVars>>

-----------------------------------------------------------------------------
Write ==
  \/ GetBuf \/ GetBufFails
  \/ SubmitDirect \/ Postpone \/ PostponeFails \/ CopyPostponed

Send ==
  \/ OutputBufs \/ Return \/ NextBodyFilter
  \/ NextBodyFilterReturns \/ NextBodyFilterFails
  \/ Recycle \/ UpdateChainsReturns

Next ==
  \/ Enter
  \/ \E n \in 0..MaxLen, last \in BOOLEAN : Output(n, last)
  \/ HandlerFails
  \/ Write
  \/ Send
  \/ Drain

Spec == Init /\ [][Next]_vars

\* A body filter call that has begun runs to its end (one thread, no yield);
\* nginx keeps writing what it was given while the client reads.
FairSpec ==
  /\ Spec
  /\ WF_vars(Write \/ Send)
  /\ WF_vars(Drain)

-----------------------------------------------------------------------------
(* Properties.                                                             *)

Labels == {"event", "handler", "get_buf", "request_mem", "submit_mem",
           "send", "next_body_filter", "update_chains"}

\* Every variable of the request context (ngx_http_rds_json_ctx_t) and of
\* the client side has its type; bufs are named by their index in mem.
TypeOK ==
  /\ pc \in Labels
  /\ main \in BOOLEAN /\ dead \in BOOLEAN /\ done \in BOOLEAN
  /\ nbytes \in Nat
  /\ piece \in [bytes : Seq(Nat), last_buf : BOOLEAN]
  /\ mem \in Seq(Buf)
  /\ out_buf \in 0..Len(mem)
  /\ avail_out \in 0..BufSize
  /\ avail_out > 0 => out_buf # 0
  /\ out \in Seq(Bufs)
  /\ busy_bufs \in Seq(Bufs)
  /\ free_bufs \in Seq(Bufs)
  /\ held \in Seq(Bufs)
  /\ postponed \in Seq(Nat)
  /\ cached \in Nat
  /\ seen_stream_end \in BOOLEAN
  /\ delivered \in Seq(Nat)
  /\ eof \in BOOLEAN

\* request_mem and submit_mem only ever run with room in out_buf: get_buf has
\* run just before.  Without it a full buf could be linked a second time.
RoomGranted == pc \in {"request_mem", "submit_mem"} => avail_out > 0

\* The buf being written to, when it is not on a chain yet.
Writable == IF avail_out > 0 THEN <<out_buf>> ELSE << >>

AllChains == free_bufs \o busy_bufs \o out \o Writable

Distinct(s) == \A i, j \in DOMAIN s : s[i] = s[j] => i = j

\* A buf is in one place only: on one of the chains free, busy and out, or
\* being written to.  A buf linked twice would be sent twice, recycled
\* twice, and written to while it is sent (get_buf, output.c:968, against
\* submit_mem, 1064 and 1096, and output_bufs, 78).
BufferOwnership == Distinct(AllChains)

\* What the next filters hold is still on one of the filter's two chains.
HeldOnChains == ToSet(held) \subseteq ToSet(busy_bufs \o out)

\* avail_out is the room that is really left in out_buf and free bufs are
\* empty, so that a write through out_buf->last never runs past the end of a
\* buf; a postponed piece never runs past the cached area (output.c:986,
\* 1006, 1047 and 1085).
SpaceAccounted ==
  /\ avail_out > 0 => Len(mem[out_buf].data) + avail_out = BufSize
  /\ \A b \in ToSet(free_bufs) : mem[b].data = << >>
  /\ \A b \in DOMAIN mem : Len(mem[b].data) <= BufSize
  /\ Len(postponed) <= cached

\* No empty buf is linked to ctx->out: nginx reports "zero size buf" and
\* update_chains would take it back while the next filters still hold it.
NoEmptyBufSent == \A b \in ToSet(out \o held) : mem[b].data # << >>

\* The inductive invariant behind BufferOwnership and SpaceAccounted.
IInv == TypeOK /\ RoomGranted /\ BufferOwnership /\ HeldOnChains /\ SpaceAccounted

BytesOf(bufs) == FlattenSeq([i \in DOMAIN bufs |-> mem[bufs[i]].data])

\* The bufs that were filled and not yet handed to the next filters.
Unsent == IF pc = "next_body_filter" THEN << >> ELSE out

\* The piece requested but not yet written anywhere.
Unwritten == IF pc = "request_mem" \/ (pc = "get_buf" /\ postponed = << >>)
             THEN piece.bytes ELSE postponed

InFlight == BytesOf(held \o Unsent \o Writable) \o Unwritten

\* Whatever the piece lengths, the buffer size and the speed of the client:
\* the client has received a prefix of the response, and what is missing is
\* in flight, in order, with nothing lost, doubled or overwritten.
BytesInOrder == ~dead => delivered \o InFlight = Bytes(0, nbytes)

\* The end-of-response mark reaches the client after the last byte of the
\* response, and only in a main request; in particular a recycled buf never
\* carries the mark of an earlier use.
EofIsLast == eof => main /\ done /\ delivered = Bytes(0, nbytes)

\* Between two calls nothing is waiting in the filter but a partly filled
\* buf, and not even that once the response has ended.
NothingRetained ==
  (pc = "event" /\ ~dead) =>
    /\ out = << >> /\ postponed = << >>
    /\ done => avail_out = 0

\* A buf that the next filters hold before and after a step has the same
\* bytes and the same last_buf after it: nothing writes to bufs in flight.
HeldBufsUntouched ==
  [][\A b \in ToSet(held) \cap ToSet(held') : mem'[b] = mem[b]]_vars

\* Once the last piece was emitted the client receives the whole response,
\* unless the request is aborted.
ResponseCompletes == done ~> (dead \/ delivered = Bytes(0, nbytes))

\* The abstract byte pipe: bytes go in at Output and come out at Drain.
Sink == INSTANCE RdsJsonSink WITH
          sent <- nbytes, got <- delivered, closed <- done, aborted <- dead

\* output.c as a whole implements the byte pipe of RdsJsonSink.
ImplementsSink == Sink!SinkSpec

\* What processor.c:302 and 308 ask for with the argument "1 /* last buf*/":
\* when a main request's response was delivered, the client side has seen a
\* buf with last_buf, without which the response is never completed (the
\* last_buf of upstream is discarded in state_done).
LastBufDelivered ==
  (main /\ done /\ ~dead /\ pc = "event" /\ held = << >>) => eof
=============================================================================
