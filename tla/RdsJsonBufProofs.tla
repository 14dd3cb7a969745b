-------------------------- MODULE RdsJsonBufProofs --------------------------
(***************************************************************************)
(* Theorems about RdsJsonBuf for every buffer size, piece length, response *)
(* length and speed of the client: which buf is where, that nothing is     *)
(* retained, that no empty buf is sent, that the client receives the bytes *)
(* in order and the mark of the last buf comes last, and that every step   *)
(* is a step of RdsJsonSink.  The laws of FlattenSeq are in                *)
(* RdsJsonWireProofs.                                                      *)
(***************************************************************************)
EXTENDS RdsJsonBuf, RdsJsonWireProofs, SequenceTheorems, TLAPS

-----------------------------------------------------------------------------
(* Sequences as sets of bufs.                                              *)

LEMMA ToSetConcat ==
  ASSUME NEW S, NEW s \in Seq(S), NEW t \in Seq(S)
  PROVE  ToSet(s \o t) = ToSet(s) \cup ToSet(t)
<1>1. /\ s \o t \in Seq(S)
      /\ Len(s \o t) = Len(s) + Len(t)
      /\ \A i \in 1 .. Len(s) + Len(t) :
            (s \o t)[i] = IF i <= Len(s) THEN s[i] ELSE t[i - Len(s)]
  BY ConcatProperties
<1>2. /\ DOMAIN s = 1..Len(s) /\ DOMAIN t = 1..Len(t)
      /\ DOMAIN (s \o t) = 1..(Len(s) + Len(t))
      /\ Len(s) \in Nat /\ Len(t) \in Nat
  BY <1>1, LenProperties
<1>3. ASSUME NEW x \in ToSet(s \o t) PROVE x \in ToSet(s) \cup ToSet(t)
  <2>1. PICK i \in 1..(Len(s) + Len(t)) : x = (s \o t)[i]
    BY <1>2 DEF ToSet
  <2>2. CASE i <= Len(s)
    <3>1. x = s[i] /\ i \in DOMAIN s
      BY <1>1, <1>2, <2>1, <2>2
    <3>2. QED
      BY <3>1 DEF ToSet
  <2>3. CASE ~(i <= Len(s))
    <3>1. x = t[i - Len(s)] /\ i - Len(s) \in DOMAIN t
      BY <1>1, <1>2, <2>1, <2>3
    <3>2. QED
      BY <3>1 DEF ToSet
  <2>4. QED
    BY <2>2, <2>3
<1>4. ASSUME NEW x \in ToSet(s) PROVE x \in ToSet(s \o t)
  <2>1. PICK i \in 1..Len(s) : x = s[i]
    BY <1>2 DEF ToSet
  <2>2. x = (s \o t)[i] /\ i \in DOMAIN (s \o t)
    BY <1>1, <1>2, <2>1
  <2>3. QED
    BY <2>2 DEF ToSet
<1>5. ASSUME NEW x \in ToSet(t) PROVE x \in ToSet(s \o t)
  <2>1. PICK i \in 1..Len(t) : x = t[i]
    BY <1>2 DEF ToSet
  <2>2. x = (s \o t)[Len(s) + i] /\ Len(s) + i \in DOMAIN (s \o t)
    BY <1>1, <1>2, <2>1
  <2>3. QED
    BY <2>2 DEF ToSet
<1>6. QED
  BY <1>3, <1>4, <1>5

LEMMA DistinctConcat ==
  ASSUME NEW S, NEW s \in Seq(S), NEW t \in Seq(S)
  PROVE  Distinct(s \o t) <=>
           Distinct(s) /\ Distinct(t) /\ ToSet(s) \cap ToSet(t) = {}
<1> DEFINE st == s \o t
           n == Len(s)
           m == Len(t)
<1>1. /\ \A i \in 1..n : st[i] = s[i]
      /\ \A i \in 1..m : st[n + i] = t[i]
      /\ DOMAIN s = 1..n /\ DOMAIN t = 1..m /\ DOMAIN st = 1..(n + m)
      /\ n \in Nat /\ m \in Nat
  BY ConcatProperties, LenProperties
<1> HIDE DEF st, n, m
<1>2. ASSUME Distinct(st)
      PROVE  Distinct(s) /\ Distinct(t) /\ ToSet(s) \cap ToSet(t) = {}
  <2>1. Distinct(s)
    BY <1>1, <1>2 DEF Distinct
  <2>2. ASSUME NEW i \in 1..m, NEW j \in 1..m, t[i] = t[j] PROVE i = j
    <3>1. st[n + i] = st[n + j] /\ n + i \in DOMAIN st /\ n + j \in DOMAIN st
      BY <1>1, <2>2
    <3>2. n + i = n + j
      BY <3>1, <1>2 DEF Distinct
    <3>3. QED
      BY <3>2, <1>1
  <2>3. ASSUME NEW i \in 1..n, NEW j \in 1..m, s[i] = t[j] PROVE FALSE
    <3>1. st[i] = st[n + j] /\ i \in DOMAIN st /\ n + j \in DOMAIN st
      BY <1>1, <2>3
    <3>2. i = n + j
      BY <3>1, <1>2 DEF Distinct
    <3>3. QED
      BY <3>2, <1>1
  <2>4. QED
    BY <1>1, <2>1, <2>2, <2>3 DEF Distinct, ToSet
<1>3. ASSUME Distinct(s), Distinct(t), ToSet(s) \cap ToSet(t) = {}
      PROVE  Distinct(st)
  <2>1. SUFFICES ASSUME NEW i \in 1..(n + m), NEW j \in 1..(n + m), st[i] = st[j]
                 PROVE  i = j
    BY <1>1 DEF Distinct
  <2>2. ASSUME NEW k \in 1..(n + m), ~(k <= n)
        PROVE  st[k] = t[k - n] /\ k - n \in DOMAIN t
    <3>1. k - n \in 1..m /\ n + (k - n) = k
      BY <1>1, <2>2
    <3>2. QED
      BY <1>1, <3>1
  <2>3. CASE i <= n /\ j <= n
    BY <1>1, <1>3, <2>1, <2>3 DEF Distinct
  <2>4. CASE ~(i <= n) /\ ~(j <= n)
    <3>1. i - n = j - n
      BY <2>1, <2>2, <2>4, <1>3 DEF Distinct
    <3>2. QED
      BY <3>1, <1>1
  <2>5. ASSUME NEW k \in 1..(n + m), NEW l \in 1..(n + m),
               k <= n, ~(l <= n), st[k] = st[l]
        PROVE  FALSE
    <3>1. st[k] = s[k] /\ k \in DOMAIN s
      BY <1>1, <2>5
    <3>2. st[l] = t[l - n] /\ l - n \in DOMAIN t
      BY <2>2, <2>5
    <3>3. QED
      BY <3>1, <3>2, <2>5, <1>3 DEF ToSet
  <2>6. QED
    BY <1>1, <2>1, <2>3, <2>4, <2>5
<1>4. QED
  BY <1>2, <1>3 DEF st

LEMMA Singleton ==
  ASSUME NEW x
  PROVE  /\ <<x>> \in Seq({x})
         /\ ToSet(<<x>>) = {x}
         /\ Distinct(<<x>>)
  BY DEF ToSet, Distinct

LEMMA Empty ==
  /\ ToSet(<< >>) = {}
  /\ Distinct(<< >>)
  BY DEF ToSet, Distinct

LEMMA HeadAndTail ==
  ASSUME NEW S, NEW s \in Seq(S), s # << >>
  PROVE  /\ Head(s) \in S
         /\ Tail(s) \in Seq(S)
         /\ ToSet(s) = {Head(s)} \cup ToSet(Tail(s))
         /\ Distinct(s) <=> Distinct(Tail(s)) /\ Head(s) \notin ToSet(Tail(s))
<1>1. Head(s) \in S /\ Tail(s) \in Seq(S)
  BY HeadTailProperties
<1>2. s = <<Head(s)>> \o Tail(s)
  OBVIOUS
<1>3. <<Head(s)>> \in Seq(S)
  BY <1>1
<1>4. ToSet(s) = ToSet(<<Head(s)>>) \cup ToSet(Tail(s))
  BY <1>1, <1>2, <1>3, ToSetConcat, ZenonT(60)
<1>5. Distinct(s) <=> /\ Distinct(<<Head(s)>>)
                      /\ Distinct(Tail(s))
                      /\ ToSet(<<Head(s)>>) \cap ToSet(Tail(s)) = {}
  BY <1>1, <1>2, <1>3, DistinctConcat, ZenonT(60)
<1>6. ToSet(<<Head(s)>>) = {Head(s)} /\ Distinct(<<Head(s)>>)
  BY Singleton
<1>7. QED
  BY <1>1, <1>4, <1>5, <1>6

LEMMA Appended ==
  ASSUME NEW S, NEW s \in Seq(S), NEW x \in S
  PROVE  /\ Append(s, x) \in Seq(S)
         /\ ToSet(Append(s, x)) = ToSet(s) \cup {x}
         /\ Distinct(Append(s, x)) <=> Distinct(s) /\ x \notin ToSet(s)
<1>1. Append(s, x) = s \o <<x>> /\ Append(s, x) \in Seq(S) /\ <<x>> \in Seq(S)
  BY AppendIsConcat, AppendProperties
<1>2. ToSet(s \o <<x>>) = ToSet(s) \cup ToSet(<<x>>)
  BY <1>1, ToSetConcat, ZenonT(60)
<1>3. Distinct(s \o <<x>>) <=> /\ Distinct(s)
                               /\ Distinct(<<x>>)
                               /\ ToSet(s) \cap ToSet(<<x>>) = {}
  BY <1>1, DistinctConcat
<1>4. ToSet(<<x>>) = {x} /\ Distinct(<<x>>)
  BY Singleton
<1>5. QED
  BY <1>1, <1>2, <1>3, <1>4

LEMMA ElementsOf ==
  ASSUME NEW S, NEW s \in Seq(S)
  PROVE  ToSet(s) \subseteq S
  BY DEF ToSet

-----------------------------------------------------------------------------
(* Type correctness.  It needs RoomGranted: what submit_mem links to        *)
(* ctx->out is a buf only because get_buf has just provided one.            *)

TypeInv == TypeOK /\ RoomGranted

LEMMA InitTypeInv == Init => TypeInv
<1> SUFFICES ASSUME Init PROVE TypeInv
  OBVIOUS
<1>1. /\ mem \in Seq(Buf) /\ Len(mem) = 0
      /\ out \in Seq(Bufs) /\ busy_bufs \in Seq(Bufs) /\ free_bufs \in Seq(Bufs)
      /\ held \in Seq(Bufs) /\ postponed \in Seq(Nat) /\ delivered \in Seq(Nat)
  BY EmptySeq DEF Init
<1>2. piece \in [bytes : Seq(Nat), last_buf : BOOLEAN]
  BY EmptySeq DEF Init, NoPiece
<1>3. /\ main \in BOOLEAN /\ dead \in BOOLEAN /\ done \in BOOLEAN
      /\ seen_stream_end \in BOOLEAN /\ eof \in BOOLEAN
  BY DEF Init
<1>4. /\ pc \in Labels /\ pc \notin {"request_mem", "submit_mem"}
      /\ nbytes \in Nat /\ cached \in Nat
      /\ out_buf = 0 /\ avail_out = 0 /\ 0 \in 0..BufSize
  BY BufSizeAssumption DEF Init, Labels
<1>5. QED
  BY <1>1, <1>2, <1>3, <1>4 DEF TypeInv, TypeOK, RoomGranted

LEMMA FilledType ==
  ASSUME TypeInv, avail_out > 0,
         NEW bytes \in Seq(Nat), NEW flag \in BOOLEAN
  PROVE  /\ Filled(bytes, flag) \in Seq(Buf)
         /\ Len(Filled(bytes, flag)) = Len(mem)
<1>1. mem \in Seq(Buf) /\ out_buf \in 1..Len(mem) /\ mem[out_buf] \in Buf
  BY BufSizeAssumption DEF TypeInv, TypeOK
<1>2. [data |-> mem[out_buf].data \o bytes, last_buf |-> flag] \in Buf
  BY <1>1, ConcatProperties DEF Buf
<1>3. QED
  BY <1>1, <1>2, ExceptSeq DEF Filled

LEMMA SaveOutBufType ==
  ASSUME TypeInv, out_buf \in Bufs, SaveOutBuf \/ UNCHANGED <<out, dead>>
  PROVE  out' \in Seq(Bufs) /\ dead' \in BOOLEAN
<1>1. Append(out, out_buf) \in Seq(Bufs) /\ out \in Seq(Bufs)
  BY AppendProperties DEF TypeInv, TypeOK
<1>2. dead \in BOOLEAN
  BY DEF TypeInv, TypeOK
<1>3. out' \in {Append(out, out_buf), out}
  BY DEF SaveOutBuf
<1>4. dead' \in {dead, TRUE, FALSE}
  BY DEF SaveOutBuf
<1>5. QED
  BY <1>1, <1>2, <1>3, <1>4

LEMMA TypeStep == TypeInv /\ [Next]_vars => TypeInv'
<1> SUFFICES ASSUME TypeInv, [Next]_vars PROVE TypeInv'
  OBVIOUS
<1> USE BufSizeAssumption, BoundsAssumption
<1>1. CASE Enter
  BY <1>1 DEF Enter, TypeInv, TypeOK, RoomGranted, Labels, Bufs, handlerVars, chainVars, writerVars, clientVars
<1>2. ASSUME NEW n \in 0..MaxLen, NEW last \in BOOLEAN, Output(n, last)
      PROVE  TypeInv'
  <2>1. Bytes(nbytes, n) \in Seq(Nat)
    BY <1>2 DEF Bytes, TypeInv, TypeOK
  <2>2. piece' \in [bytes : Seq(Nat), last_buf : BOOLEAN]
    BY <1>2, <2>1 DEF Output, MarksLast, TypeInv, TypeOK
  <2>3. QED
    BY <1>2, <2>2 DEF Output, EndsStream, TypeInv, TypeOK, RoomGranted, Labels, Bufs, chainVars, writerVars, clientVars
<1>3. CASE HandlerFails
  BY <1>3 DEF HandlerFails, Fail, TypeInv, TypeOK, RoomGranted, Labels, Bufs, handlerVars, chainVars, writerVars, clientVars
<1>4. CASE GetBuf
  <2>1. CASE KeepBuf
    BY <1>4, <2>1 DEF GetBuf, KeepBuf, GetBufReturn, TypeInv, TypeOK, RoomGranted, Labels, Bufs, handlerVars, clientVars
  <2>2. CASE ReuseBuf
    <3>1. Head(free_bufs) \in Bufs /\ Tail(free_bufs) \in Seq(Bufs)
      BY <2>2, HeadTailProperties DEF ReuseBuf, TypeInv, TypeOK
    <3>2. QED
      BY <1>4, <2>2, <3>1, SMTT(30) DEF GetBuf, ReuseBuf, GetBufReturn, TypeInv, TypeOK, RoomGranted, Labels, Bufs, handlerVars, clientVars
  <2>3. CASE CreateBuf
    <3>1. mem' \in Seq(Buf) /\ Len(mem') = Len(mem) + 1 /\ Len(mem) \in Nat
      BY <2>3, AppendProperties, LenProperties DEF CreateBuf, TypeInv, TypeOK, Buf
    <3>2. Seq(Bufs) \subseteq Seq(Bufs')
      BY <3>1, SeqMonotonic DEF Bufs
    <3>3. QED
      BY <1>4, <2>3, <3>1, <3>2 DEF GetBuf, CreateBuf, GetBufReturn, TypeInv, TypeOK, RoomGranted, Labels, Bufs, handlerVars, clientVars
  <2>4. QED
    BY <1>4, <2>1, <2>2, <2>3 DEF GetBuf
<1>5. CASE GetBufFails
  BY <1>5 DEF GetBufFails, Fail, TypeInv, TypeOK, RoomGranted, Labels, Bufs, handlerVars, chainVars, writerVars, clientVars
<1>6. CASE SubmitDirect
  <2>1. avail_out > 0 /\ piece.bytes \in Seq(Nat) /\ piece.last_buf \in BOOLEAN
    BY <1>6 DEF SubmitDirect, TypeInv, TypeOK, RoomGranted
  <2>2. mem' \in Seq(Buf) /\ Len(mem') = Len(mem)
    BY <1>6, <2>1, FilledType DEF SubmitDirect
  <2>3. avail_out' \in 0..BufSize /\ out_buf \in Bufs
    BY <1>6, <2>1, LenProperties DEF SubmitDirect, FitsInBuf, TypeInv, TypeOK, Bufs
  <2>4. out' \in Seq(Bufs) /\ dead' \in BOOLEAN
    <3>1. SaveOutBuf \/ UNCHANGED <<out, dead>>
      BY <1>6 DEF SubmitDirect
    <3>2. QED
      BY <2>3, <3>1, SaveOutBufType
  <2>5. QED
    BY <1>6, <2>2, <2>3, <2>4 DEF SubmitDirect, TypeInv, TypeOK, RoomGranted, Labels, Bufs, handlerVars, clientVars
<1>7. CASE Postpone
  <2>1. Len(piece.bytes) \in Nat /\ piece.bytes \in Seq(Nat) /\ avail_out > 0
    BY <1>7, LenProperties DEF Postpone, TypeInv, TypeOK, RoomGranted
  <2>2. QED
    BY <1>7, <2>1 DEF Postpone, CacheSize, TypeInv, TypeOK, RoomGranted, Labels, Bufs, handlerVars, chainVars, clientVars
<1>8. CASE PostponeFails
  BY <1>8 DEF PostponeFails, Fail, TypeInv, TypeOK, RoomGranted, Labels, Bufs, handlerVars, chainVars, writerVars, clientVars
<1>9. CASE CopyPostponed
  <2>1. avail_out > 0 /\ postponed \in Seq(Nat) /\ Len(postponed) \in Nat
    BY <1>9, LenProperties DEF CopyPostponed, TypeInv, TypeOK, RoomGranted
  <2>2. CopyLen \in 0..Len(postponed) /\ CopyLen <= avail_out
    BY <2>1 DEF CopyLen, TypeInv, TypeOK
  <2>3. /\ SubSeq(postponed, 1, CopyLen) \in Seq(Nat)
        /\ postponed' \in Seq(Nat)
    BY <1>9, <2>1, <2>2, SubSeqProperties DEF CopyPostponed, PostponedRest
  <2>4. avail_out' \in 0..BufSize /\ out_buf \in Bufs /\ mem[out_buf] \in Buf
    BY <1>9, <2>1, <2>2 DEF CopyPostponed, TypeInv, TypeOK, Bufs
  <2>5. out' \in Seq(Bufs) /\ dead' \in BOOLEAN
    <3>1. SaveOutBuf \/ UNCHANGED <<out, dead>>
      BY <1>9 DEF CopyPostponed
    <3>2. QED
      BY <2>4, <3>1, SaveOutBufType
  <2> DEFINE flag == IF dead' THEN mem[out_buf].last_buf
                              ELSE CopiedFlag(postponed', avail_out')
  <2>6. flag \in BOOLEAN
    BY <2>4, <2>5 DEF CopiedFlag, TypeInv, TypeOK, Buf
  <2>7. mem' = Filled(SubSeq(postponed, 1, CopyLen), flag)
    BY <1>9 DEF CopyPostponed
  <2> HIDE DEF flag
  <2>8. mem' \in Seq(Buf) /\ Len(mem') = Len(mem)
    BY <2>1, <2>3, <2>6, <2>7, FilledType
  <2>9. pc' \in Labels /\ pc' \notin {"request_mem", "submit_mem"}
    BY <1>9 DEF CopyPostponed, Labels
  <2>10. QED
    BY <1>9, <2>3, <2>4, <2>5, <2>8, <2>9 DEF CopyPostponed, TypeInv, TypeOK, RoomGranted, Bufs, handlerVars, clientVars
<1>10. CASE OutputBufs
  <2>1. out' \in Seq(Bufs) /\ dead' \in BOOLEAN
    <3>1. CASE seen_stream_end /\ avail_out > 0
      <4>1. SaveOutBuf
        BY <1>10, <3>1 DEF OutputBufs, PassesPartial
      <4>2. out_buf \in Bufs
        BY <3>1 DEF TypeInv, TypeOK, Bufs
      <4>3. QED
        BY <4>1, <4>2, SaveOutBufType
    <3>2. CASE ~(seen_stream_end /\ avail_out > 0)
      <4>1. out' = out /\ dead' = dead
        BY <1>10, <3>2 DEF OutputBufs, PassesPartial
      <4>2. QED
        BY <4>1 DEF TypeInv, TypeOK, Bufs
    <3>3. QED
      BY <3>1, <3>2
  <2>2. avail_out' \in {0, avail_out}
    BY <1>10 DEF OutputBufs, PassesPartial
  <2>3. /\ seen_stream_end' \in BOOLEAN /\ pc' \in {"event", "send"}
        /\ UNCHANGED <<mem, main, done, nbytes, piece, busy_bufs, free_bufs, out_buf>>
        /\ UNCHANGED <<postponed, cached, held, delivered, eof>>
    BY <1>10 DEF OutputBufs, PassesPartial, clientVars
  <2>4. QED
    BY <2>1, <2>2, <2>3 DEF TypeInv, TypeOK, RoomGranted, Labels, Bufs
<1>11. CASE Return
  BY <1>11 DEF Return, TypeInv, TypeOK, RoomGranted, Labels, Bufs, handlerVars, chainVars, writerVars, clientVars
<1>12. CASE NextBodyFilter
  <2>1. held' \in Seq(Bufs)
    BY <1>12, ConcatProperties DEF NextBodyFilter, TypeInv, TypeOK
  <2>2. QED
    BY <1>12, <2>1 DEF NextBodyFilter, TypeInv, TypeOK, RoomGranted, Labels, Bufs, handlerVars, chainVars, writerVars
<1>13. CASE Drain
  <2>1. /\ Head(held) \in Bufs /\ held' \in Seq(Bufs)
        /\ mem[Head(held)] \in Buf
    BY <1>13, HeadTailProperties, ElementOfSeq DEF Drain, TypeInv, TypeOK, Bufs
  <2>2. delivered' \in Seq(Nat) /\ eof' \in BOOLEAN
    BY <1>13, <2>1, ConcatProperties DEF Drain, TypeInv, TypeOK, Buf
  <2>3. QED
    BY <1>13, <2>1, <2>2 DEF Drain, TypeInv, TypeOK, RoomGranted, Labels, Bufs, handlerVars, chainVars, writerVars
<1>14. CASE NextBodyFilterReturns
  <2>1. busy_bufs' \in Seq(Bufs) /\ out' \in Seq(Bufs)
    BY <1>14, ConcatProperties, EmptySeq DEF NextBodyFilterReturns, TypeInv, TypeOK
  <2>2. QED
    BY <1>14, <2>1 DEF NextBodyFilterReturns, TypeInv, TypeOK, RoomGranted, Labels, Bufs, handlerVars, writerVars, clientVars
<1>15. CASE NextBodyFilterFails
  BY <1>15 DEF NextBodyFilterFails, Fail, TypeInv, TypeOK, RoomGranted, Labels, Bufs, handlerVars, chainVars, writerVars, clientVars
<1>16. CASE Recycle
  <2>1. /\ Head(busy_bufs) \in Bufs /\ busy_bufs' \in Seq(Bufs)
        /\ mem[Head(busy_bufs)] \in Buf
    BY <1>16, HeadTailProperties, ElementOfSeq DEF Recycle, TypeInv, TypeOK, Bufs
  <2>2. free_bufs' \in Seq(Bufs)
    BY <1>16, <2>1, ConcatProperties DEF Recycle, TypeInv, TypeOK
  <2>3. mem' = [mem EXCEPT ![Head(busy_bufs)] =
                  [data |-> << >>, last_buf |-> mem[Head(busy_bufs)].last_buf]]
    BY <1>16, <2>1 DEF Recycle, TypeInv, TypeOK, Bufs
  <2>4. [data |-> << >>, last_buf |-> mem[Head(busy_bufs)].last_buf] \in Buf
    BY <2>1, EmptySeq DEF Buf
  <2>5. mem' \in Seq(Buf) /\ Len(mem') = Len(mem)
    BY <2>1, <2>3, <2>4, ExceptSeq DEF TypeInv, TypeOK, Bufs
  <2>6. QED
    BY <1>16, <2>1, <2>2, <2>5 DEF Recycle, TypeInv, TypeOK, RoomGranted, Labels, Bufs, handlerVars, writerVars, clientVars
<1>17. CASE UpdateChainsReturns
  BY <1>17 DEF UpdateChainsReturns, TypeInv, TypeOK, RoomGranted, Labels, Bufs, handlerVars, chainVars, writerVars, clientVars
<1>18. CASE UNCHANGED vars
  BY <1>18 DEF vars, TypeInv, TypeOK, RoomGranted, Labels, Bufs, handlerVars, chainVars, writerVars, clientVars
<1>19. QED
  BY <1>1, <1>2, <1>3, <1>4, <1>5, <1>6, <1>7, <1>8, <1>9, <1>10, <1>11, <1>12, <1>13,
     <1>14, <1>15, <1>16, <1>17, <1>18 DEF Next, Write, Send

\* Every reachable state is well-typed: in particular avail_out stays between
\* 0 and the buffer size, and every chain holds bufs that were created.
THEOREM TypeCorrect == Spec => []TypeOK
<1>1. TypeInv => TypeOK
  BY DEF TypeInv
<1>2. QED
  BY <1>1, InitTypeInv, TypeStep, PTL DEF Spec

-----------------------------------------------------------------------------
(* Buffer ownership.                                                       *)

\* BufferOwnership and HeldOnChains, chain by chain.
ChainsApart ==
  /\ Distinct(free_bufs) /\ Distinct(busy_bufs) /\ Distinct(out)
  /\ ToSet(free_bufs) \cap ToSet(busy_bufs) = {}
  /\ ToSet(free_bufs) \cap ToSet(out) = {}
  /\ ToSet(busy_bufs) \cap ToSet(out) = {}
  /\ avail_out > 0 =>
       out_buf \notin ToSet(free_bufs) \cup ToSet(busy_bufs) \cup ToSet(out)
  /\ ToSet(held) \subseteq ToSet(busy_bufs) \cup ToSet(out)

LEMMA OwnershipByChain ==
  ASSUME TypeOK
  PROVE  BufferOwnership /\ HeldOnChains <=> ChainsApart
<1>1. /\ free_bufs \in Seq(Bufs) /\ busy_bufs \in Seq(Bufs) /\ out \in Seq(Bufs)
      /\ Writable \in Seq(Bufs)
  <2>1. CASE avail_out > 0
    <3>1. out_buf \in Bufs
      BY <2>1 DEF TypeOK, Bufs
    <3>2. <<out_buf>> \in Seq(Bufs)
      BY <3>1
    <3>3. QED
      BY <2>1, <3>2 DEF TypeOK, Writable
  <2>2. CASE ~(avail_out > 0)
    BY <2>2, EmptySeq DEF TypeOK, Writable
  <2>3. QED
    BY <2>1, <2>2
<1>2. /\ free_bufs \o busy_bufs \in Seq(Bufs)
      /\ (free_bufs \o busy_bufs) \o out \in Seq(Bufs)
  BY <1>1, ConcatProperties
<1>3. /\ ToSet(Writable) = IF avail_out > 0 THEN {out_buf} ELSE {}
      /\ Distinct(Writable)
  BY Singleton, Empty DEF Writable
<1>4. ToSet(free_bufs \o busy_bufs) = ToSet(free_bufs) \cup ToSet(busy_bufs)
  BY <1>1, ToSetConcat
<1>5. Distinct(free_bufs \o busy_bufs) <=>
        /\ Distinct(free_bufs) /\ Distinct(busy_bufs)
        /\ ToSet(free_bufs) \cap ToSet(busy_bufs) = {}
  BY <1>1, DistinctConcat
<1>6. ToSet((free_bufs \o busy_bufs) \o out) =
         ToSet(free_bufs \o busy_bufs) \cup ToSet(out)
  BY <1>1, <1>2, ToSetConcat, ZenonT(60)
<1>7. Distinct((free_bufs \o busy_bufs) \o out) <=>
         /\ Distinct(free_bufs \o busy_bufs) /\ Distinct(out)
         /\ ToSet(free_bufs \o busy_bufs) \cap ToSet(out) = {}
  BY <1>1, <1>2, DistinctConcat
<1>8. Distinct(AllChains) <=>
        /\ Distinct((free_bufs \o busy_bufs) \o out) /\ Distinct(Writable)
        /\ ToSet((free_bufs \o busy_bufs) \o out) \cap ToSet(Writable) = {}
  BY <1>1, <1>2, DistinctConcat DEF AllChains
<1>9. ToSet(busy_bufs \o out) = ToSet(busy_bufs) \cup ToSet(out)
  BY <1>1, ToSetConcat
<1>10. QED
  BY <1>3, <1>4, <1>5, <1>6, <1>7, <1>8, <1>9
     DEF BufferOwnership, HeldOnChains, ChainsApart

LEMMA InitChainsApart == Init => ChainsApart
  BY Empty DEF Init, ChainsApart

\* Linking the written buf to ctx->out moves it from one place to another.
LEMMA SaveKeepsApart ==
  ASSUME TypeInv, ChainsApart, avail_out > 0,
         UNCHANGED <<free_bufs, busy_bufs, held, out_buf>>, avail_out' \in 0..avail_out,
         \/ SaveOutBuf /\ avail_out' = 0
         \/ UNCHANGED out
  PROVE  ChainsApart'
<1>1. CASE out' = Append(out, out_buf) /\ avail_out' = 0
  <2>1. out_buf \in Bufs /\ out \in Seq(Bufs)
    BY DEF TypeInv, TypeOK, Bufs
  <2>2. /\ ToSet(out') = ToSet(out) \cup {out_buf}
        /\ Distinct(out') <=> Distinct(out) /\ out_buf \notin ToSet(out)
    BY <1>1, <2>1, Appended
  <2>3. QED
    BY <1>1, <2>2 DEF ChainsApart
<1>2. CASE UNCHANGED out
  <2>1. avail_out' > 0 => avail_out > 0
    BY DEF TypeInv, TypeOK
  <2>2. QED
    BY <1>2, <2>1 DEF ChainsApart
<1>3. QED
  BY <1>1, <1>2 DEF SaveOutBuf

LEMMA ChainsApartStep ==
  ASSUME TypeInv, ChainsApart, [Next]_vars
  PROVE  ChainsApart'
<1> USE BufSizeAssumption
<1>1. ASSUME UNCHANGED <<out, busy_bufs, free_bufs, out_buf, avail_out, held>>
      PROVE  ChainsApart'
  BY <1>1 DEF ChainsApart
<1>2. CASE Enter \/ HandlerFails \/ GetBufFails \/ Postpone \/ PostponeFails \/ Return
           \/ NextBodyFilterFails \/ UpdateChainsReturns \/ UNCHANGED vars
           \/ \E n \in 0..MaxLen, last \in BOOLEAN : Output(n, last)
  BY <1>1, <1>2 DEF Enter, HandlerFails, GetBufFails, Postpone, PostponeFails, Return,
     NextBodyFilterFails, UpdateChainsReturns, Output, vars, chainVars, writerVars, clientVars
<1>3. CASE GetBuf
  <2>1. UNCHANGED <<out, busy_bufs, held>>
    BY <1>3 DEF GetBuf, clientVars
  <2>2. CASE KeepBuf
    BY <2>1, <2>2 DEF KeepBuf, ChainsApart
  <2>3. CASE ReuseBuf
    <3>1. /\ ToSet(free_bufs) = {Head(free_bufs)} \cup ToSet(Tail(free_bufs))
          /\ Distinct(free_bufs) <=> /\ Distinct(Tail(free_bufs))
                                     /\ Head(free_bufs) \notin ToSet(Tail(free_bufs))
      BY <2>3, HeadAndTail DEF ReuseBuf, TypeInv, TypeOK
    <3>2. out_buf' = Head(free_bufs) /\ free_bufs' = Tail(free_bufs)
      BY <2>3 DEF ReuseBuf
    <3>3. QED
      BY <2>1, <3>1, <3>2 DEF ChainsApart
  <2>4. CASE CreateBuf
    <3>1. /\ ToSet(free_bufs) \subseteq 1..Len(mem)
          /\ ToSet(busy_bufs) \subseteq 1..Len(mem)
          /\ ToSet(out) \subseteq 1..Len(mem)
      BY ElementsOf DEF TypeInv, TypeOK, Bufs
    <3>2. Len(mem) + 1 \notin 1..Len(mem)
      BY LenProperties DEF TypeInv, TypeOK
    <3>3. out_buf' = Len(mem) + 1 /\ free_bufs' = free_bufs
      BY <2>4 DEF CreateBuf
    <3>4. QED
      BY <2>1, <3>1, <3>2, <3>3 DEF ChainsApart
  <2>5. QED
    BY <1>3, <2>2, <2>3, <2>4 DEF GetBuf
<1>4. CASE SubmitDirect
  <2>1. avail_out > 0
    BY <1>4 DEF SubmitDirect, TypeInv, RoomGranted, TypeOK
  <2>2. avail_out' \in 0..avail_out
    BY <1>4, LenProperties DEF SubmitDirect, FitsInBuf, TypeInv, TypeOK
  <2>3. \/ SaveOutBuf /\ avail_out' = 0
        \/ UNCHANGED out
    BY <1>4 DEF SubmitDirect, Full
  <2>4. QED
    BY <1>4, <2>1, <2>2, <2>3, SaveKeepsApart DEF SubmitDirect, clientVars
<1>5. CASE CopyPostponed
  <2>1. avail_out > 0
    BY <1>5 DEF CopyPostponed, TypeInv, RoomGranted, TypeOK
  <2>2. avail_out' \in 0..avail_out
    BY <1>5, LenProperties DEF CopyPostponed, CopyLen, TypeInv, TypeOK
  <2>3. \/ SaveOutBuf /\ avail_out' = 0
        \/ UNCHANGED out
    BY <1>5 DEF CopyPostponed, Full
  <2>4. QED
    BY <1>5, <2>1, <2>2, <2>3, SaveKeepsApart DEF CopyPostponed, clientVars
<1>6. CASE OutputBufs
  <2>1. UNCHANGED <<free_bufs, busy_bufs, held, out_buf>>
    BY <1>6 DEF OutputBufs, PassesPartial, clientVars
  <2>2. CASE seen_stream_end /\ avail_out > 0
    <3>1. SaveOutBuf /\ avail_out' = IF dead' THEN avail_out ELSE 0
      BY <1>6, <2>2 DEF OutputBufs, PassesPartial
    <3>2. avail_out' \in 0..avail_out
      BY <3>1 DEF TypeInv, TypeOK
    <3>3. dead' => out' = out
      BY <1>6, <2>2, <3>1 DEF SaveOutBuf, OutputBufs, PassesPartial
    <3>4. QED
      BY <2>1, <2>2, <3>1, <3>2, <3>3, SaveKeepsApart
  <2>3. CASE ~(seen_stream_end /\ avail_out > 0)
    BY <1>6, <2>1, <2>3 DEF OutputBufs, PassesPartial, ChainsApart
  <2>4. QED
    BY <2>2, <2>3
<1>7. CASE NextBodyFilter
  <2>1. ToSet(held') = ToSet(held) \cup ToSet(out)
    BY <1>7, ToSetConcat DEF NextBodyFilter, TypeInv, TypeOK
  <2>2. QED
    BY <1>7, <2>1 DEF NextBodyFilter, ChainsApart, chainVars, writerVars
<1>8. CASE Drain
  <2>1. ToSet(held') \subseteq ToSet(held)
    BY <1>8, HeadAndTail DEF Drain, TypeInv, TypeOK
  <2>2. QED
    BY <1>8, <2>1 DEF Drain, ChainsApart, chainVars, writerVars
<1>9. CASE NextBodyFilterReturns
  <2>1. /\ ToSet(busy_bufs') = ToSet(busy_bufs) \cup ToSet(out)
        /\ Distinct(busy_bufs') <=> /\ Distinct(busy_bufs) /\ Distinct(out)
                                    /\ ToSet(busy_bufs) \cap ToSet(out) = {}
    BY <1>9, ToSetConcat, DistinctConcat DEF NextBodyFilterReturns, TypeInv, TypeOK
  <2>2. ToSet(out') = {} /\ Distinct(out')
    BY <1>9, Empty DEF NextBodyFilterReturns
  <2>3. QED
    BY <1>9, <2>1, <2>2 DEF NextBodyFilterReturns, ChainsApart, writerVars, clientVars
<1>10. CASE Recycle
  <2> DEFINE b == Head(busy_bufs)
  <2>1. /\ b \in Bufs
        /\ ToSet(busy_bufs) = {b} \cup ToSet(busy_bufs')
        /\ Distinct(busy_bufs) <=> Distinct(busy_bufs') /\ b \notin ToSet(busy_bufs')
    BY <1>10, HeadAndTail DEF Recycle, TypeInv, TypeOK
  <2>2. <<b>> \in Seq(Bufs) /\ ToSet(<<b>>) = {b} /\ Distinct(<<b>>)
    BY <2>1, Singleton
  <2>3. free_bufs' = <<b>> \o free_bufs /\ free_bufs \in Seq(Bufs)
    BY <1>10 DEF Recycle, TypeInv, TypeOK
  <2>4. /\ ToSet(free_bufs') = {b} \cup ToSet(free_bufs)
        /\ Distinct(free_bufs') <=> Distinct(free_bufs) /\ b \notin ToSet(free_bufs)
    <3> HIDE DEF b
    <3>1. ToSet(<<b>> \o free_bufs) = ToSet(<<b>>) \cup ToSet(free_bufs)
      BY <2>2, <2>3, ToSetConcat, ZenonT(60)
    <3>2. Distinct(<<b>> \o free_bufs) <=>
            /\ Distinct(<<b>>) /\ Distinct(free_bufs)
            /\ ToSet(<<b>>) \cap ToSet(free_bufs) = {}
      BY <2>2, <2>3, DistinctConcat
    <3>3. QED
      BY <2>2, <2>3, <3>1, <3>2
  <2>5. b \notin ToSet(held) /\ UNCHANGED <<out, out_buf, avail_out, held>>
    BY <1>10 DEF Recycle, Consumed, writerVars, clientVars
  <2> HIDE DEF b
  <2>6. QED
    BY <2>1, <2>4, <2>5 DEF ChainsApart
<1>11. QED
  BY <1>2, <1>3, <1>4, <1>5, <1>6, <1>7, <1>8, <1>9, <1>10 DEF Next, Write, Send

OwnInv == TypeInv /\ ChainsApart

LEMMA OwnStep == OwnInv /\ [Next]_vars => OwnInv'
  BY TypeStep, ChainsApartStep DEF OwnInv

LEMMA OwnInvariant == Spec => []OwnInv
<1>1. Init => OwnInv
  BY InitTypeInv, InitChainsApart DEF OwnInv
<1>2. QED
  BY <1>1, OwnStep, PTL DEF Spec

\* A buf is never in two places: get_buf never hands out a buf that is still
\* on ctx->out, on busy_bufs or with the next filters.
THEOREM BuffersOwned == Spec => []BufferOwnership
<1>1. OwnInv => BufferOwnership
  BY OwnershipByChain DEF OwnInv, TypeInv
<1>2. QED
  BY <1>1, OwnInvariant, PTL

-----------------------------------------------------------------------------
(* Bufs in flight.                                                         *)

LEMMA HeldUntouchedStep ==
  ASSUME OwnInv, [Next]_vars,
         NEW b \in ToSet(held)
  PROVE  mem'[b] = mem[b]
<1>1. /\ b \in 1..Len(mem) /\ mem \in Seq(Buf)
      /\ b \in ToSet(busy_bufs) \cup ToSet(out)
      /\ avail_out > 0 => b # out_buf
  BY ElementsOf DEF OwnInv, TypeInv, TypeOK, Bufs, ChainsApart
<1>2. CASE UNCHANGED mem
  BY <1>2
<1>3. CASE GetBuf
  <2>1. mem' = mem \/ mem' = Append(mem, [data |-> << >>, last_buf |-> FALSE])
    BY <1>3 DEF GetBuf, KeepBuf, ReuseBuf, CreateBuf
  <2>2. [data |-> << >>, last_buf |-> FALSE] \in Buf
    BY EmptySeq DEF Buf
  <2>3. QED
    BY <1>1, <2>1, <2>2, AppendProperties
<1>4. ASSUME NEW bytes, NEW flag, avail_out > 0, mem' = Filled(bytes, flag)
      PROVE  mem'[b] = mem[b]
  BY <1>1, <1>4 DEF Filled
<1>5. CASE SubmitDirect
  BY <1>4, <1>5 DEF SubmitDirect, OwnInv, TypeInv, RoomGranted
<1>6. CASE CopyPostponed
  BY <1>4, <1>6 DEF CopyPostponed, OwnInv, TypeInv, RoomGranted
<1>7. CASE Recycle
  BY <1>1, <1>7 DEF Recycle, Consumed
<1>8. QED
  BY <1>2, <1>3, <1>5, <1>6, <1>7 DEF Next, Write, Send, Enter, Output, HandlerFails,
     GetBufFails, Postpone, PostponeFails, OutputBufs, Return, NextBodyFilter, Drain,
     NextBodyFilterReturns, NextBodyFilterFails, UpdateChainsReturns, vars

\* No step of the filter changes the bytes or the last_buf flag of a buf that
\* the next filters hold, however slowly they drain what they were given.
THEOREM InFlightUntouched == Spec => HeldBufsUntouched
<1> DEFINE Untouched == \A b \in ToSet(held) \cap ToSet(held') : mem'[b] = mem[b]
<1>1. OwnInv /\ [Next]_vars => [Untouched]_vars
  BY HeldUntouchedStep
<1>2. QED
  BY <1>1, OwnInvariant, PTL DEF Spec, HeldBufsUntouched

-----------------------------------------------------------------------------
(* Space.                                                                  *)

SpaceInv == OwnInv /\ SpaceAccounted

LEMMA InitSpace == Init => SpaceAccounted
  BY Empty DEF Init, SpaceAccounted

\* Writing at most avail_out bytes to the owned buf keeps the accounts.
LEMMA FillKeepsSpace ==
  ASSUME SpaceInv, avail_out > 0,
         NEW bytes \in Seq(Nat), NEW flag, Len(bytes) <= avail_out,
         mem' = Filled(bytes, flag),
         avail_out' = avail_out - Len(bytes) \/ avail_out' = 0,
         UNCHANGED <<out_buf, free_bufs>>
  PROVE  /\ avail_out' > 0 => Len(mem'[out_buf'].data) + avail_out' = BufSize
         /\ \A b \in ToSet(free_bufs') : mem'[b].data = << >>
         /\ \A b \in DOMAIN mem' : Len(mem'[b].data) <= BufSize
<1>1. /\ mem \in Seq(Buf) /\ out_buf \in 1..Len(mem) /\ mem[out_buf] \in Buf
      /\ out_buf \notin ToSet(free_bufs) /\ ToSet(free_bufs) \subseteq 1..Len(mem)
      /\ avail_out \in Nat /\ Len(bytes) \in Nat
  BY LenProperties, ElementsOf DEF SpaceInv, OwnInv, TypeInv, TypeOK, Bufs, ChainsApart
<1>2. /\ mem'[out_buf].data = mem[out_buf].data \o bytes
      /\ DOMAIN mem' = 1..Len(mem) /\ DOMAIN mem = 1..Len(mem)
      /\ \A b \in 1..Len(mem) : b # out_buf => mem'[b] = mem[b]
  BY <1>1 DEF Filled
<1>3. /\ Len(mem'[out_buf].data) = Len(mem[out_buf].data) + Len(bytes)
      /\ Len(mem[out_buf].data) \in Nat
  BY <1>1, <1>2, ConcatProperties, LenProperties DEF Buf
<1>4. Len(mem[out_buf].data) + avail_out = BufSize
  BY DEF SpaceInv, SpaceAccounted
<1>5. Len(mem'[out_buf].data) <= BufSize
  BY <1>1, <1>3, <1>4, BufSizeAssumption
<1>6. avail_out' > 0 => Len(mem'[out_buf'].data) + avail_out' = BufSize
  BY <1>1, <1>3, <1>4, BufSizeAssumption
<1>7. \A b \in ToSet(free_bufs') : mem'[b].data = << >>
  BY <1>1, <1>2 DEF SpaceInv, SpaceAccounted
<1>8. \A b \in DOMAIN mem' : Len(mem'[b].data) <= BufSize
  BY <1>1, <1>2, <1>5 DEF SpaceInv, SpaceAccounted
<1>9. QED
  BY <1>6, <1>7, <1>8

LEMMA SpaceStep == SpaceInv /\ [Next]_vars => SpaceAccounted'
<1> SUFFICES ASSUME SpaceInv, [Next]_vars PROVE SpaceAccounted'
  OBVIOUS
<1> USE BufSizeAssumption
<1>0. TypeInv /\ ChainsApart /\ SpaceAccounted
  BY DEF SpaceInv, OwnInv
<1>1. ASSUME UNCHANGED <<mem, free_bufs, out_buf, avail_out, postponed, cached>>
      PROVE  SpaceAccounted'
  BY <1>0, <1>1 DEF SpaceAccounted
<1>2. CASE Enter \/ HandlerFails \/ GetBufFails \/ PostponeFails \/ Return
           \/ NextBodyFilter \/ Drain \/ NextBodyFilterReturns
           \/ NextBodyFilterFails \/ UpdateChainsReturns \/ UNCHANGED vars
           \/ \E n \in 0..MaxLen, last \in BOOLEAN : Output(n, last)
  BY <1>1, <1>2 DEF Enter, HandlerFails, GetBufFails, PostponeFails, Return, NextBodyFilter,
     Drain, NextBodyFilterReturns, NextBodyFilterFails, UpdateChainsReturns, Output, vars,
     chainVars, writerVars
<1>3. CASE GetBuf
  <2>1. UNCHANGED <<postponed, cached>>
    BY <1>3 DEF GetBuf
  <2>2. CASE KeepBuf
    BY <1>0, <2>1, <2>2 DEF KeepBuf, SpaceAccounted
  <2>3. CASE ReuseBuf
    <3>1. ToSet(free_bufs) = {Head(free_bufs)} \cup ToSet(Tail(free_bufs))
      BY <1>0, <2>3, HeadAndTail DEF ReuseBuf, TypeInv, TypeOK
    <3>2. mem[out_buf'].data = << >>
      BY <1>0, <2>3, <3>1 DEF ReuseBuf, SpaceAccounted
    <3>3. Len(mem'[out_buf'].data) + avail_out' = BufSize
      BY <2>3, <3>2 DEF ReuseBuf
    <3>4. QED
      BY <1>0, <2>1, <2>3, <3>1, <3>3 DEF ReuseBuf, SpaceAccounted
  <2>4. CASE CreateBuf
    <3> DEFINE new == [data |-> << >>, last_buf |-> FALSE]
    <3>1. mem \in Seq(Buf) /\ new \in Buf /\ Len(mem) \in Nat
      BY <1>0, EmptySeq, LenProperties DEF TypeInv, TypeOK, Buf
    <3>2. mem' = Append(mem, new) /\ out_buf' = Len(mem) + 1 /\ avail_out' = BufSize
          /\ free_bufs' = free_bufs /\ ToSet(free_bufs) = {}
      BY <2>4, Empty DEF CreateBuf
    <3>3. /\ \A b \in 1..Len(mem) : mem'[b] = mem[b]
          /\ mem'[Len(mem) + 1] = new /\ new.data = << >>
          /\ DOMAIN mem' = 1..(Len(mem) + 1) /\ DOMAIN mem = 1..Len(mem)
      BY <3>1, <3>2, AppendProperties
    <3>4. Len(<< >>) = 0
      OBVIOUS
    <3> HIDE DEF new
    <3>5. /\ Len(mem'[out_buf'].data) + avail_out' = BufSize
          /\ \A b \in DOMAIN mem' : Len(mem'[b].data) <= BufSize
      BY <1>0, <3>1, <3>2, <3>3, <3>4 DEF SpaceAccounted
    <3>6. QED
      BY <1>0, <2>1, <3>2, <3>5 DEF SpaceAccounted
  <2>5. QED
    BY <1>3, <2>2, <2>3, <2>4 DEF GetBuf
<1>4. CASE SubmitDirect
  <2>1. /\ avail_out > 0 /\ piece.bytes \in Seq(Nat)
        /\ Len(piece.bytes) <= avail_out
        /\ mem' = Filled(piece.bytes, piece.last_buf)
        /\ avail_out' = avail_out - Len(piece.bytes)
        /\ UNCHANGED <<out_buf, free_bufs, postponed, cached>>
    BY <1>0, <1>4 DEF SubmitDirect, FitsInBuf, TypeInv, TypeOK, RoomGranted
  <2>2. QED
    BY <1>0, <2>1, FillKeepsSpace DEF SpaceAccounted
<1>5. CASE Postpone
  <2>1. Len(piece.bytes) \in Nat /\ cached \in Nat
    BY <1>0, LenProperties DEF TypeInv, TypeOK
  <2>2. Len(postponed') <= cached'
    BY <1>5, <2>1 DEF Postpone, CacheSize
  <2>3. UNCHANGED <<mem, free_bufs, out_buf, avail_out>>
    BY <1>5 DEF Postpone, chainVars
  <2>4. QED
    BY <1>0, <2>2, <2>3 DEF SpaceAccounted
<1>6. CASE CopyPostponed
  <2> DEFINE taken == SubSeq(postponed, 1, CopyLen)
             flag == IF dead' THEN mem[out_buf].last_buf
                              ELSE CopiedFlag(postponed', avail_out')
  <2>1. /\ avail_out > 0 /\ postponed \in Seq(Nat) /\ Len(postponed) \in Nat
        /\ avail_out \in Nat /\ cached \in Nat
    BY <1>0, <1>6, LenProperties DEF CopyPostponed, TypeInv, TypeOK, RoomGranted
  <2>2. CopyLen \in 0..Len(postponed) /\ CopyLen <= avail_out
    BY <2>1 DEF CopyLen
  <2>3. /\ taken \in Seq(Nat) /\ Len(taken) = CopyLen
        /\ Len(SubSeq(postponed, CopyLen + 1, Len(postponed))) <= Len(postponed)
    BY <2>1, <2>2, SubSeqProperties
  <2>4. /\ mem' = Filled(taken, flag)
        /\ avail_out' = avail_out - CopyLen
        /\ UNCHANGED <<out_buf, free_bufs, cached>>
        /\ postponed' = SubSeq(postponed, CopyLen + 1, Len(postponed))
    BY <1>6 DEF CopyPostponed, PostponedRest
  <2> HIDE DEF taken, flag
  <2>5. /\ avail_out' > 0 => Len(mem'[out_buf'].data) + avail_out' = BufSize
        /\ \A b \in ToSet(free_bufs') : mem'[b].data = << >>
        /\ \A b \in DOMAIN mem' : Len(mem'[b].data) <= BufSize
    BY <2>1, <2>2, <2>3, <2>4, FillKeepsSpace
  <2>6. Len(postponed') \in Nat /\ Len(postponed') <= Len(postponed)
    BY <2>1, <2>2, <2>3, <2>4, SubSeqProperties, LenProperties
  <2>7. Len(postponed') <= cached'
    <3>1. Len(postponed) <= cached /\ cached' = cached
      BY <1>0, <2>4 DEF SpaceAccounted
    <3>2. QED
      BY <2>1, <2>6, <3>1
  <2>8. QED
    BY <2>5, <2>7 DEF SpaceAccounted
<1>7. CASE OutputBufs
  <2>1. /\ avail_out' \in {0, avail_out}
        /\ UNCHANGED <<mem, free_bufs, out_buf, postponed, cached>>
    BY <1>7 DEF OutputBufs, PassesPartial
  <2>2. QED
    BY <1>0, <2>1 DEF SpaceAccounted
<1>8. CASE Recycle
  <2> DEFINE b == Head(busy_bufs)
  <2>1. /\ b \in Bufs /\ ToSet(busy_bufs) = {b} \cup ToSet(Tail(busy_bufs))
        /\ mem \in Seq(Buf) /\ free_bufs \in Seq(Bufs)
    BY <1>0, <1>8, HeadAndTail DEF Recycle, TypeInv, TypeOK
  <2>2. /\ b \notin ToSet(free_bufs)
        /\ avail_out > 0 => b # out_buf
    BY <1>0, <2>1 DEF ChainsApart
  <2>3. /\ free_bufs' = <<b>> \o free_bufs
        /\ mem' = [mem EXCEPT ![b] = [data |-> << >>, last_buf |-> @.last_buf]]
        /\ UNCHANGED <<out_buf, avail_out, postponed, cached>>
    BY <1>8 DEF Recycle, writerVars
  <2> HIDE DEF b
  <2>4. ToSet(free_bufs') = {b} \cup ToSet(free_bufs)
    <3>1. <<b>> \in Seq(Bufs) /\ ToSet(<<b>>) = {b}
      BY <2>1, Singleton
    <3>2. free_bufs \in Seq(Bufs)
      BY <2>1
    <3>3. ToSet(<<b>> \o free_bufs) = ToSet(<<b>>) \cup ToSet(free_bufs)
      BY <3>1, <3>2, ToSetConcat, ZenonT(60)
    <3>4. QED
      BY <2>3, <3>1, <3>3
  <2>5. /\ mem'[b].data = << >> /\ DOMAIN mem' = DOMAIN mem
        /\ \A c \in DOMAIN mem : c # b => mem'[c] = mem[c]
    BY <2>1, <2>3 DEF Bufs
  <2>6. ToSet(free_bufs) \subseteq DOMAIN mem /\ (avail_out > 0 => out_buf \in DOMAIN mem)
    BY <1>0, <2>1, ElementsOf DEF Bufs, TypeInv, TypeOK
  <2>7. Len(<< >>) = 0
    OBVIOUS
  <2>8. avail_out' > 0 => Len(mem'[out_buf'].data) + avail_out' = BufSize
    BY <1>0, <2>2, <2>3, <2>5, <2>6 DEF SpaceAccounted
  <2>9. \A c \in ToSet(free_bufs') : mem'[c].data = << >>
    BY <1>0, <2>4, <2>5, <2>6 DEF SpaceAccounted
  <2>10. \A c \in DOMAIN mem' : Len(mem'[c].data) <= BufSize
    BY <1>0, <2>5, <2>7 DEF SpaceAccounted
  <2>11. QED
    BY <1>0, <2>3, <2>8, <2>9, <2>10 DEF SpaceAccounted
<1>9. QED
  BY <1>2, <1>3, <1>4, <1>5, <1>6, <1>7, <1>8 DEF Next, Write, Send

\* The writes through out_buf->last never pass the end of a buf, and a
\* postponed piece never passes the end of the cached area.
THEOREM SpaceIsAccounted == Spec => []SpaceAccounted
<1>1. Init => SpaceInv
  BY InitTypeInv, InitChainsApart, InitSpace DEF SpaceInv, OwnInv
<1>2. SpaceInv /\ [Next]_vars => SpaceInv'
  BY OwnStep, SpaceStep DEF SpaceInv
<1>3. SpaceInv => SpaceAccounted
  BY DEF SpaceInv
<1>4. QED
  BY <1>1, <1>2, <1>3, PTL DEF Spec

-----------------------------------------------------------------------------
(* What a call of the body filter leaves behind.                           *)

Sending == {"event", "send", "next_body_filter", "update_chains"}

\* How far the running call has got, and what it has done by then: only
\* submit_mem's loop has postponed bytes, and the handlers of the call that
\* ends the stream are followed by output_bufs, which looks at
\* seen_stream_end.
CallInv ==
  /\ dead => pc = "event"
  /\ ~dead =>
       /\ pc \in Sending \cup {"handler", "request_mem"} => postponed = << >>
       /\ pc = "submit_mem" => postponed # << >>
       /\ pc = "event" => out = << >>
       /\ seen_stream_end <=> done /\ pc \notin Sending
       /\ done /\ pc \in Sending => avail_out = 0

LEMMA InitCall == Init => CallInv
  BY DEF Init, CallInv, Sending

\* A step that fails leaves nothing to say about the call.
LEMMA DeadCall == ASSUME dead', pc' = "event" PROVE CallInv'
  BY DEF CallInv

LEMMA CallStep == OwnInv /\ CallInv /\ [Next]_vars => CallInv'
<1> SUFFICES ASSUME OwnInv, CallInv, [Next]_vars PROVE CallInv'
  OBVIOUS
<1>0. TypeOK /\ RoomGranted
  BY DEF OwnInv, TypeInv
<1>1. CASE Enter
  BY <1>1 DEF Enter, CallInv, Sending, handlerVars, chainVars, writerVars
<1>2. ASSUME NEW n \in 0..MaxLen, NEW last \in BOOLEAN, Output(n, last)
      PROVE  CallInv'
  BY <1>2 DEF Output, EndsStream, CallInv, Sending, chainVars, writerVars
<1>3. CASE HandlerFails \/ GetBufFails \/ PostponeFails \/ NextBodyFilterFails
  BY <1>3, DeadCall DEF HandlerFails, GetBufFails, PostponeFails, NextBodyFilterFails, Fail
<1>4. CASE GetBuf
  BY <1>4 DEF GetBuf, GetBufReturn, CallInv, Sending, handlerVars
<1>5. CASE SubmitDirect
  <2>1. CASE dead'
    BY <1>5, <2>1, DeadCall DEF SubmitDirect
  <2>2. CASE ~dead'
    BY <1>5, <2>2 DEF SubmitDirect, CallInv, Sending, handlerVars
  <2>3. QED
    BY <2>1, <2>2
<1>6. CASE Postpone
  <2>1. piece.bytes # << >>
    BY <1>0, <1>6, BufSizeAssumption DEF Postpone, FitsInBuf, TypeOK
  <2>2. QED
    BY <1>6, <2>1 DEF Postpone, CallInv, Sending, handlerVars, chainVars
<1>7. CASE CopyPostponed
  <2>1. CASE dead'
    BY <1>7, <2>1, DeadCall DEF CopyPostponed
  <2>2. CASE ~dead'
    BY <1>7, <2>2 DEF CopyPostponed, CallInv, Sending, handlerVars
  <2>3. QED
    BY <2>1, <2>2
<1>8. CASE OutputBufs
  <2>1. CASE dead'
    BY <1>8, <2>1, DeadCall DEF OutputBufs
  <2>2. CASE ~dead'
    <3>1. ~dead /\ postponed' = << >> /\ pc' = "send" /\ ~seen_stream_end'
      BY <1>8, <2>2 DEF OutputBufs, CallInv, Sending
    <3>2. done' => avail_out' = 0
      <4>1. CASE avail_out > 0
        BY <1>8, <2>2, <3>1, <4>1 DEF OutputBufs, PassesPartial, CallInv, Sending
      <4>2. CASE avail_out = 0
        BY <1>8, <2>2, <3>1, <4>2 DEF OutputBufs, PassesPartial
      <4>3. QED
        BY <1>0, <4>1, <4>2, BufSizeAssumption DEF TypeOK
    <3>3. QED
      BY <2>2, <3>1, <3>2 DEF CallInv, Sending
  <2>3. QED
    BY <2>1, <2>2
<1>9. CASE Return
  BY <1>9 DEF Return, CallInv, Sending, handlerVars, chainVars, writerVars
<1>10. CASE NextBodyFilter
  BY <1>10 DEF NextBodyFilter, CallInv, Sending, handlerVars, chainVars, writerVars
<1>11. CASE Drain
  BY <1>11 DEF Drain, CallInv, Sending, handlerVars, chainVars, writerVars
<1>12. CASE NextBodyFilterReturns
  BY <1>12 DEF NextBodyFilterReturns, CallInv, Sending, handlerVars, writerVars
<1>13. CASE Recycle
  BY <1>13 DEF Recycle, CallInv, Sending, handlerVars, writerVars
<1>14. CASE UpdateChainsReturns
  BY <1>14 DEF UpdateChainsReturns, CallInv, Sending, handlerVars, chainVars, writerVars
<1>15. CASE UNCHANGED vars
  BY <1>15 DEF vars, CallInv, Sending, handlerVars, chainVars, writerVars
<1>16. QED
  BY <1>1, <1>2, <1>3, <1>4, <1>5, <1>6, <1>7, <1>8, <1>9, <1>10, <1>11, <1>12, <1>13,
     <1>14, <1>15 DEF Next, Write, Send

\* Between two calls of the body filter nothing waits in it but a partly
\* filled buf, and not even that once the response has ended: output_bufs
\* looks at seen_stream_end in the call that ends the stream.
THEOREM NothingIsRetained == Spec => []NothingRetained
<1>1. Init => CallInv
  BY InitCall
<1>2. CallInv => NothingRetained
  BY DEF CallInv, NothingRetained, Sending
<1>3. QED
  BY <1>1, <1>2, CallStep, OwnInvariant, PTL DEF Spec

-----------------------------------------------------------------------------
(* No empty buf is sent.                                                   *)

SentFilled == \A b \in ToSet(out) \cup ToSet(held) : mem[b].data # << >>

\* The buf that output_bufs passes on partly filled is not empty: it took
\* the last piece, or the end of it.
SentInv ==
  /\ SentFilled
  /\ ~dead /\ seen_stream_end =>
       /\ pc \in {"get_buf", "request_mem"} /\ postponed = << >> => piece.bytes # << >>
       /\ pc = "handler" /\ avail_out > 0 => mem[out_buf].data # << >>

LEMMA InitSent == Init => SentInv
  BY Empty DEF Init, SentInv, SentFilled

LEMMA NonEmptyConcat ==
  ASSUME NEW S, NEW s \in Seq(S), NEW t \in Seq(S), t # << >>
  PROVE  s \o t # << >>
  BY ConcatEqualIffEmpty

\* Writing to out_buf and linking it when it holds anything.
LEMMA FillKeepsSent ==
  ASSUME OwnInv, SentFilled, avail_out > 0,
         NEW bytes \in Seq(Nat), NEW flag, mem' = Filled(bytes, flag), held' = held,
         \/ out' = out
         \/ out' = Append(out, out_buf) /\ bytes # << >>
  PROVE  SentFilled' /\ (bytes # << >> => mem'[out_buf].data # << >>)
<1>0. out_buf \notin ToSet(out) \cup ToSet(held)
  BY DEF OwnInv, ChainsApart
<1>1. /\ mem \in Seq(Buf) /\ out_buf \in 1..Len(mem) /\ mem[out_buf] \in Buf
      /\ out \in Seq(Bufs) /\ out_buf \in Bufs
  BY DEF OwnInv, TypeInv, TypeOK, Bufs
<1>2. /\ mem'[out_buf].data = mem[out_buf].data \o bytes
      /\ \A b \in 1..Len(mem) : b # out_buf => mem'[b] = mem[b]
  <2>1. DOMAIN mem = 1..Len(mem) /\ out_buf \in DOMAIN mem
    BY <1>1
  <2>2. mem'[out_buf].data = mem[out_buf].data \o bytes
    BY <2>1 DEF Filled
  <2>3. \A b \in 1..Len(mem) : b # out_buf => mem'[b] = mem[b]
    BY <2>1 DEF Filled
  <2>4. QED
    BY <2>2, <2>3
<1>3. mem[out_buf].data \in Seq(Nat)
  BY <1>1 DEF Buf
<1>4. bytes # << >> => mem'[out_buf].data # << >>
  BY <1>2, <1>3, NonEmptyConcat
<1>5. \A b \in ToSet(out) \cup ToSet(held) : b \in 1..Len(mem)
  BY <1>1, ElementsOf DEF OwnInv, TypeInv, TypeOK, Bufs
<1>6. ToSet(Append(out, out_buf)) = ToSet(out) \cup {out_buf}
  BY <1>1, Appended
<1>7. QED
  BY <1>0, <1>1, <1>2, <1>4, <1>5, <1>6 DEF SentFilled

LEMMA SentStep == SpaceInv /\ CallInv /\ SentInv /\ [Next]_vars => SentInv'
<1> SUFFICES ASSUME SpaceInv, CallInv, SentInv, [Next]_vars PROVE SentInv'
  OBVIOUS
<1>0. OwnInv /\ TypeOK /\ RoomGranted /\ SentFilled /\ ChainsApart
  BY DEF SpaceInv, OwnInv, TypeInv, SentInv
<1>1. ASSUME UNCHANGED <<mem, out, held>> PROVE SentFilled'
  BY <1>0, <1>1 DEF SentFilled
<1>2. CASE Enter \/ HandlerFails \/ GetBufFails \/ PostponeFails \/ Return
           \/ NextBodyFilterFails \/ UpdateChainsReturns \/ UNCHANGED vars
  <2>1. UNCHANGED <<mem, out, held, piece, postponed, seen_stream_end, avail_out, out_buf>>
    BY <1>2 DEF Enter, HandlerFails, GetBufFails, PostponeFails, Return, NextBodyFilterFails,
       UpdateChainsReturns, vars, handlerVars, chainVars, writerVars, clientVars
  <2>2. dead' \/ (dead' = dead /\ pc' = pc)
        \/ (dead' = dead /\ pc' = "handler" /\ pc \in Sending)
        \/ (dead' = dead /\ pc' \in Sending)
    BY <1>2 DEF Enter, HandlerFails, GetBufFails, PostponeFails, Return, NextBodyFilterFails,
       UpdateChainsReturns, vars, Fail, Sending
  <2>3. SentFilled'
    BY <1>1, <2>1
  <2>4. QED
    BY <2>1, <2>2, <2>3 DEF SentInv, CallInv, Sending
<1>3. ASSUME NEW n \in 0..MaxLen, NEW last \in BOOLEAN, Output(n, last)
      PROVE  SentInv'
  <2>1. SentFilled' /\ pc' = "get_buf" /\ seen_stream_end' = last
    BY <1>1, <1>3 DEF Output, EndsStream, chainVars, clientVars
  <2>2. last => piece'.bytes # << >>
    <3>1. ASSUME n > 0 PROVE Bytes(nbytes, n) # << >>
      <4>1. DOMAIN Bytes(nbytes, n) = 1..n /\ 1 \in 1..n
        BY <3>1, BoundsAssumption DEF Bytes
      <4>2. DOMAIN << >> = {}
        OBVIOUS
      <4>3. QED
        BY <4>1, <4>2
    <3>2. QED
      BY <1>3, <3>1 DEF Output
  <2>3. QED
    BY <2>1, <2>2 DEF SentInv
<1>4. CASE GetBuf
  <2>1. /\ UNCHANGED <<out, held, piece, postponed, seen_stream_end, dead>>
        /\ pc = "get_buf" /\ pc' = GetBufReturn
    BY <1>4 DEF GetBuf, handlerVars, clientVars
  <2>2. \A b \in ToSet(out) \cup ToSet(held) : b \in 1..Len(mem)
    BY <1>0, ElementsOf DEF TypeOK, Bufs
  <2>3. \A b \in 1..Len(mem) : mem'[b] = mem[b]
    <3>1. mem' = mem \/ mem' = Append(mem, [data |-> << >>, last_buf |-> FALSE])
      BY <1>4 DEF GetBuf, KeepBuf, ReuseBuf, CreateBuf
    <3>2. [data |-> << >>, last_buf |-> FALSE] \in Buf /\ mem \in Seq(Buf)
      BY <1>0, EmptySeq DEF Buf, TypeOK
    <3>3. QED
      BY <3>1, <3>2, AppendProperties
  <2>4. SentFilled'
    BY <1>0, <2>1, <2>2, <2>3 DEF SentFilled
  <2>5. QED
    BY <2>1, <2>4 DEF SentInv, GetBufReturn
<1>5. CASE SubmitDirect
  <2>1. /\ avail_out > 0 /\ piece.bytes \in Seq(Nat)
        /\ mem' = Filled(piece.bytes, piece.last_buf) /\ pc = "request_mem" /\ ~dead
        /\ UNCHANGED <<held, seen_stream_end, out_buf>>
        /\ dead' \/ pc' = "handler"
    BY <1>0, <1>5 DEF SubmitDirect, RoomGranted, TypeOK, clientVars, handlerVars, CallInv
  <2>2. out' = out \/ (out' = Append(out, out_buf) /\ piece.bytes # << >>)
    <3>1. CASE piece.bytes = << >>
      <4>1. ~Full(avail_out')
        BY <1>0, <1>5, <2>1, <3>1, BufSizeAssumption DEF SubmitDirect, Full, TypeOK
      <4>2. QED
        BY <1>5, <4>1 DEF SubmitDirect
    <3>2. CASE piece.bytes # << >>
      BY <1>5, <3>2 DEF SubmitDirect, SaveOutBuf
    <3>3. QED
      BY <3>1, <3>2
  <2>3. SentFilled' /\ (piece.bytes # << >> => mem'[out_buf].data # << >>)
    BY <1>0, <2>1, <2>2, FillKeepsSent
  <2>4. seen_stream_end => piece.bytes # << >>
    BY <2>1 DEF SentInv, CallInv, Sending
  <2>5. QED
    BY <2>1, <2>3, <2>4 DEF SentInv
<1>6. CASE Postpone
  <2>1. pc' = "submit_mem" /\ UNCHANGED <<mem, out, held>>
    BY <1>6 DEF Postpone, chainVars, clientVars
  <2>2. QED
    BY <1>1, <2>1 DEF SentInv
<1>7. CASE CopyPostponed
  <2> DEFINE taken == SubSeq(postponed, 1, CopyLen)
             flag == IF dead' THEN mem[out_buf].last_buf
                              ELSE CopiedFlag(postponed', avail_out')
  <2>1. /\ avail_out > 0 /\ postponed \in Seq(Nat) /\ Len(postponed) \in Nat
        /\ avail_out \in Nat /\ postponed # << >> /\ pc = "submit_mem" /\ ~dead
    BY <1>0, <1>7, LenProperties DEF CopyPostponed, TypeOK, RoomGranted, CallInv
  <2>2. CopyLen \in 1..Len(postponed)
    BY <2>1, EmptySeq, LenProperties DEF CopyLen
  <2>3. taken \in Seq(Nat) /\ Len(taken) = CopyLen
    BY <2>1, <2>2, SubSeqProperties
  <2>4. taken # << >>
    BY <2>2, <2>3
  <2>5. /\ mem' = Filled(taken, flag)
        /\ UNCHANGED <<held, seen_stream_end, out_buf>>
        /\ dead' \/ pc' = "handler" \/ (pc' = "get_buf" /\ postponed' # << >>)
        /\ out' = out \/ out' = Append(out, out_buf)
    BY <1>7 DEF CopyPostponed, SaveOutBuf, clientVars, handlerVars
  <2> HIDE DEF taken, flag
  <2>6. SentFilled' /\ mem'[out_buf].data # << >>
    BY <1>0, <2>1, <2>3, <2>4, <2>5, FillKeepsSent
  <2>7. QED
    BY <2>5, <2>6 DEF SentInv
<1>8. CASE OutputBufs
  <2>1. UNCHANGED <<mem, held, out_buf>> /\ ~seen_stream_end' /\ pc = "handler" /\ ~dead
    BY <1>8 DEF OutputBufs, clientVars, CallInv
  <2>2. out' = out \/ (out' = Append(out, out_buf) /\ mem[out_buf].data # << >> /\ out_buf \in Bufs)
    <3>1. CASE PassesPartial
      <4>1. mem[out_buf].data # << >> /\ out_buf \in Bufs
        BY <1>0, <2>1, <3>1 DEF PassesPartial, SentInv, TypeOK, Bufs
      <4>2. QED
        BY <1>8, <3>1, <4>1 DEF OutputBufs, SaveOutBuf
    <3>2. CASE ~PassesPartial
      BY <1>8, <3>2 DEF OutputBufs
    <3>3. QED
      BY <3>1, <3>2
  <2>3. out_buf \in Bufs => ToSet(Append(out, out_buf)) = ToSet(out) \cup {out_buf}
    BY <1>0, Appended DEF TypeOK
  <2>4. SentFilled'
    BY <1>0, <2>1, <2>2, <2>3 DEF SentFilled
  <2>5. QED
    BY <2>1, <2>4 DEF SentInv
<1>9. CASE NextBodyFilter
  <2>1. ToSet(held') = ToSet(held) \cup ToSet(out)
    BY <1>0, <1>9, ToSetConcat DEF NextBodyFilter, TypeOK
  <2>2. UNCHANGED <<mem, out>> /\ pc' = "next_body_filter"
    BY <1>9 DEF NextBodyFilter, chainVars
  <2>3. QED
    BY <1>0, <2>1, <2>2 DEF SentInv, SentFilled
<1>10. CASE Drain
  <2>1. ToSet(held') \subseteq ToSet(held)
    BY <1>0, <1>10, HeadAndTail DEF Drain, TypeOK
  <2>2. UNCHANGED <<pc, mem, out, dead, seen_stream_end>> /\ pc \in Sending
    BY <1>10 DEF Drain, chainVars, handlerVars, Sending
  <2>3. QED
    BY <1>0, <2>1, <2>2 DEF SentInv, SentFilled, Sending
<1>11. CASE NextBodyFilterReturns
  <2>1. ToSet(out') = {} /\ UNCHANGED <<mem, held>> /\ pc' = "update_chains"
    BY <1>11, Empty DEF NextBodyFilterReturns, clientVars
  <2>2. QED
    BY <1>0, <2>1 DEF SentInv, SentFilled
<1>12. CASE Recycle
  <2>1. /\ Head(busy_bufs) \in ToSet(busy_bufs) /\ Head(busy_bufs) \notin ToSet(held)
        /\ UNCHANGED <<pc, out, held>> /\ pc = "update_chains"
        /\ mem' = [mem EXCEPT ![Head(busy_bufs)] = [data |-> << >>, last_buf |-> @.last_buf]]
    BY <1>0, <1>12, HeadAndTail DEF Recycle, Consumed, TypeOK, clientVars
  <2>2. Head(busy_bufs) \notin ToSet(out)
    BY <1>0, <2>1 DEF ChainsApart
  <2>3. \A b \in ToSet(out) \cup ToSet(held) : b \in 1..Len(mem)
    BY <1>0, ElementsOf DEF TypeOK, Bufs
  <2>4. \A b \in 1..Len(mem) : b # Head(busy_bufs) => mem'[b] = mem[b]
    BY <1>0, <2>1 DEF TypeOK
  <2>5. SentFilled'
    BY <1>0, <2>1, <2>2, <2>3, <2>4 DEF SentFilled
  <2>6. QED
    BY <2>1, <2>5 DEF SentInv
<1>13. QED
  BY <1>2, <1>3, <1>4, <1>5, <1>6, <1>7, <1>8, <1>9, <1>10, <1>11, <1>12 DEF Next, Write, Send

\* The inductive invariant behind what is sent.
SendInv == SpaceInv /\ CallInv /\ SentInv

LEMMA SendInvariant == Spec => []SendInv
<1>1. Init => SpaceInv /\ CallInv /\ SentInv
  BY InitTypeInv, InitChainsApart, InitSpace, InitCall, InitSent DEF SpaceInv, OwnInv
<1>2. SendInv /\ [Next]_vars => SendInv'
  BY OwnStep, SpaceStep, CallStep, SentStep DEF SendInv, SpaceInv
<1>3. QED
  BY <1>1, <1>2, PTL DEF Spec, SendInv

\* Whatever the pieces are, an empty last one included in what went before:
\* every buf that output_bufs passes on or the next filters hold has bytes.
THEOREM SentBufsHaveBytes == Spec => []NoEmptyBufSent
<1>1. SendInv => NoEmptyBufSent
  <2> SUFFICES ASSUME SendInv PROVE NoEmptyBufSent
    OBVIOUS
  <2>1. ToSet(out \o held) = ToSet(out) \cup ToSet(held)
    BY ToSetConcat DEF SendInv, SpaceInv, OwnInv, TypeInv, TypeOK
  <2>2. QED
    BY <2>1 DEF SendInv, SentInv, SentFilled, NoEmptyBufSent
<1>2. QED
  BY <1>1, SendInvariant, PTL

-----------------------------------------------------------------------------
(* The bytes of a chain of bufs.                                           *)

\* The bytes of the bufs of a chain, one after the other (BytesOf, with the
\* bufs' memory as an argument).
DataOf(m, bufs) == [i \in DOMAIN bufs |-> m[bufs[i]].data]
Contents(m, bufs) == FlattenSeq(DataOf(m, bufs))

LEMMA FunctionAsSeq ==
  ASSUME NEW S, NEW n \in Nat, NEW f \in [1..n -> S]
  PROVE  f \in Seq(S) /\ Len(f) = n
<1>1. f \in Seq(S)
  BY SeqDef
<1>2. DOMAIN f = 1..n /\ DOMAIN f = 1..Len(f) /\ Len(f) \in Nat
  BY <1>1, LenProperties
<1>3. QED
  BY <1>1, <1>2

LEMMA ConcatOfSeqs ==
  \A s, t \in Seq(Seq(Nat)) :
    /\ s \o t \in Seq(Seq(Nat)) /\ Len(s \o t) = Len(s) + Len(t)
    /\ \A i \in 1..(Len(s) + Len(t)) :
         (s \o t)[i] = IF i <= Len(s) THEN s[i] ELSE t[i - Len(s)]
  BY ConcatProperties

LEMMA DataOfType ==
  ASSUME NEW m \in Seq(Buf), NEW s \in Seq(1..Len(m))
  PROVE  DataOf(m, s) \in Seq(Seq(Nat)) /\ Len(DataOf(m, s)) = Len(s)
<1>1. DOMAIN s = 1..Len(s) /\ Len(s) \in Nat
  BY LenProperties
<1>2. \A i \in 1..Len(s) : s[i] \in 1..Len(m) /\ m[s[i]] \in Buf
  BY ElementOfSeq
<1>3. \A i \in 1..Len(s) : m[s[i]].data \in Seq(Nat)
  BY <1>2 DEF Buf
<1>4. [i \in 1..Len(s) |-> m[s[i]].data] \in [1..Len(s) -> Seq(Nat)]
  BY <1>3
<1>5. DataOf(m, s) \in [1..Len(s) -> Seq(Nat)]
  BY <1>1, <1>4 DEF DataOf
<1>6. QED
  BY <1>1, <1>5, FunctionAsSeq

LEMMA ContentsType ==
  ASSUME NEW m \in Seq(Buf), NEW s \in Seq(1..Len(m))
  PROVE  Contents(m, s) \in Seq(Nat)
  BY DataOfType, FlattenType DEF Contents

LEMMA ContentsConcat ==
  ASSUME NEW m \in Seq(Buf), NEW s \in Seq(1..Len(m)), NEW t \in Seq(1..Len(m))
  PROVE  Contents(m, s \o t) = Contents(m, s) \o Contents(m, t)
<1> DEFINE ds == DataOf(m, s)
           dt == DataOf(m, t)
           dst == DataOf(m, s \o t)
<1>1. /\ s \o t \in Seq(1..Len(m)) /\ Len(s \o t) = Len(s) + Len(t)
      /\ \A i \in 1..(Len(s) + Len(t)) :
           (s \o t)[i] = IF i <= Len(s) THEN s[i] ELSE t[i - Len(s)]
  BY ConcatProperties
<1>2. /\ ds \in Seq(Seq(Nat)) /\ dt \in Seq(Seq(Nat)) /\ dst \in Seq(Seq(Nat))
      /\ Len(ds) = Len(s) /\ Len(dt) = Len(t) /\ Len(dst) = Len(s) + Len(t)
  BY <1>1, DataOfType
<1>3. /\ Len(s) \in Nat /\ Len(t) \in Nat
      /\ DOMAIN s = 1..Len(s) /\ DOMAIN t = 1..Len(t)
      /\ DOMAIN (s \o t) = 1..(Len(s) + Len(t))
  BY <1>1, LenProperties
<1>4. /\ \A i \in 1..Len(s) : ds[i] = m[s[i]].data
      /\ \A i \in 1..Len(t) : dt[i] = m[t[i]].data
      /\ \A i \in 1..(Len(s) + Len(t)) : dst[i] = m[(s \o t)[i]].data
  BY <1>3 DEF DataOf
<1> HIDE DEF ds, dt, dst
<1>5. /\ ds \o dt \in Seq(Seq(Nat)) /\ Len(ds \o dt) = Len(s) + Len(t)
      /\ \A i \in 1..(Len(s) + Len(t)) :
           (ds \o dt)[i] = IF i <= Len(s) THEN ds[i] ELSE dt[i - Len(s)]
  <2>1. /\ ds \o dt \in Seq(Seq(Nat)) /\ Len(ds \o dt) = Len(ds) + Len(dt)
        /\ \A i \in 1..(Len(ds) + Len(dt)) :
             (ds \o dt)[i] = IF i <= Len(ds) THEN ds[i] ELSE dt[i - Len(ds)]
    BY <1>2, ConcatOfSeqs, Zenon
  <2>2. QED
    BY <1>2, <2>1
<1>6. ASSUME NEW i \in 1..(Len(s) + Len(t)) PROVE dst[i] = (ds \o dt)[i]
  <2>1. CASE i <= Len(s)
    <3>1. i \in 1..Len(s)
      BY <1>3, <2>1
    <3>2. QED
      BY <1>1, <1>4, <1>5, <2>1, <3>1
  <2>2. CASE ~(i <= Len(s))
    <3>1. i - Len(s) \in 1..Len(t)
      BY <1>3, <2>2
    <3>2. QED
      BY <1>1, <1>4, <1>5, <2>2, <3>1
  <2>3. QED
    BY <2>1, <2>2
<1>7. dst = ds \o dt
  BY <1>2, <1>5, <1>6, SeqEqual
<1>8. FlattenSeq(ds \o dt) = FlattenSeq(ds) \o FlattenSeq(dt)
  BY <1>2, FlattenConcat
<1>9. QED
  BY <1>7, <1>8 DEF Contents, ds, dt, dst

LEMMA ContentsOfNone ==
  ASSUME NEW m
  PROVE  Contents(m, << >>) = << >>
<1>1. DataOf(m, << >>) = << >>
  BY DEF DataOf
<1>2. QED
  BY <1>1, FlattenEmpty DEF Contents

LEMMA ContentsOfOne ==
  ASSUME NEW m \in Seq(Buf), NEW b \in 1..Len(m)
  PROVE  /\ <<b>> \in Seq(1..Len(m))
         /\ m[b].data \in Seq(Nat)
         /\ Contents(m, <<b>>) = m[b].data
<1>1. m[b].data \in Seq(Nat)
  <2>1. m[b] \in Buf
    BY ElementOfSeq
  <2>2. QED
    BY <2>1 DEF Buf
<1>2. DataOf(m, <<b>>) = <<m[b].data>>
  BY DEF DataOf
<1>3. QED
  BY <1>1, <1>2, FlattenOne DEF Contents

\* Only what the bufs of the chain hold matters.
LEMMA ContentsSame ==
  ASSUME NEW S, NEW s \in Seq(S), NEW m, NEW k,
         \A b \in ToSet(s) : m[b].data = k[b].data
  PROVE  Contents(m, s) = Contents(k, s)
<1>1. \A i \in DOMAIN s : s[i] \in ToSet(s)
  BY DEF ToSet
<1>2. DataOf(m, s) = DataOf(k, s)
  BY <1>1 DEF DataOf
<1>3. QED
  BY <1>2 DEF Contents

LEMMA Associative ==
  \A a, b, c \in Seq(Nat) : /\ a \o b \in Seq(Nat)
                            /\ (a \o b) \o c = a \o (b \o c)
  BY ConcatProperties, ConcatAssociative, SMTT(30)

LEMMA NothingAdded == \A a \in Seq(Nat) : a \o << >> = a /\ << >> \o a = a
  BY ConcatEmptySeq

\* The next n bytes of the response after the first k ones.
LEMMA BytesFollow ==
  ASSUME NEW k \in Nat, NEW n \in Nat
  PROVE  /\ Bytes(0, k) \in Seq(Nat) /\ Len(Bytes(0, k)) = k
         /\ Bytes(k, n) \in Seq(Nat)
         /\ Bytes(0, k) \o Bytes(k, n) = Bytes(0, k + n)
<1>1. /\ Bytes(0, k) \in Seq(Nat) /\ Len(Bytes(0, k)) = k
      /\ Bytes(k, n) \in Seq(Nat) /\ Len(Bytes(k, n)) = n
      /\ Bytes(0, k + n) \in Seq(Nat) /\ Len(Bytes(0, k + n)) = k + n
  <2>1. /\ Bytes(0, k) \in [1..k -> Nat] /\ Bytes(k, n) \in [1..n -> Nat]
        /\ Bytes(0, k + n) \in [1..(k + n) -> Nat] /\ k + n \in Nat
    BY DEF Bytes
  <2>2. QED
    BY <2>1, FunctionAsSeq
<1>2. /\ \A i \in 1..k : Bytes(0, k)[i] = i
      /\ \A i \in 1..n : Bytes(k, n)[i] = k + i
      /\ \A i \in 1..(k + n) : Bytes(0, k + n)[i] = i
  BY DEF Bytes
<1>3. /\ Bytes(0, k) \o Bytes(k, n) \in Seq(Nat)
      /\ Len(Bytes(0, k) \o Bytes(k, n)) = k + n
      /\ \A i \in 1..(k + n) : (Bytes(0, k) \o Bytes(k, n))[i] =
                                  IF i <= k THEN Bytes(0, k)[i] ELSE Bytes(k, n)[i - k]
  <2> DEFINE a == Bytes(0, k)
             b == Bytes(k, n)
  <2> HIDE DEF a, b
  <2>1. a \in Seq(Nat) /\ b \in Seq(Nat) /\ Len(a) = k /\ Len(b) = n
    BY <1>1 DEF a, b
  <2>2. /\ a \o b \in Seq(Nat) /\ Len(a \o b) = Len(a) + Len(b)
        /\ \A i \in 1..(Len(a) + Len(b)) :
             (a \o b)[i] = IF i <= Len(a) THEN a[i] ELSE b[i - Len(a)]
    BY <2>1, ConcatProperties
  <2>3. QED
    BY <2>1, <2>2 DEF a, b
<1>4. ASSUME NEW i \in 1..(k + n)
      PROVE  (Bytes(0, k) \o Bytes(k, n))[i] = Bytes(0, k + n)[i]
  <2>1. CASE i <= k
    BY <1>2, <1>3, <2>1
  <2>2. CASE ~(i <= k)
    <3>1. i - k \in 1..n /\ k + (i - k) = i
      BY <2>2
    <3>2. QED
      BY <1>2, <1>3, <2>2, <3>1
  <2>3. QED
    BY <2>1, <2>2
<1>5. QED
  BY <1>1, <1>3, <1>4, SeqEqual

-----------------------------------------------------------------------------
(* The order of the bytes.                                                 *)

Chain == (held \o Unsent) \o Writable

\* What was delivered and what is in flight make the response so far.
FlightOrder == delivered \o (Contents(mem, Chain) \o Unwritten) = Bytes(0, nbytes)

OrderInv == ~dead => FlightOrder

LEMMA ChainType ==
  ASSUME TypeInv
  PROVE  /\ mem \in Seq(Buf) /\ Bufs = 1..Len(mem)
         /\ held \in Seq(Bufs) /\ out \in Seq(Bufs) /\ Unsent \in Seq(Bufs)
         /\ Writable \in Seq(Bufs) /\ Chain \in Seq(Bufs)
<1>1. mem \in Seq(Buf) /\ held \in Seq(Bufs) /\ out \in Seq(Bufs)
  BY DEF TypeInv, TypeOK
<1>2. Unsent \in Seq(Bufs)
  BY <1>1, EmptySeq DEF Unsent
<1>3. Writable \in Seq(Bufs)
  <2>1. CASE avail_out > 0
    <3>1. out_buf \in Bufs
      BY <2>1 DEF TypeInv, TypeOK, Bufs
    <3>2. <<out_buf>> \in Seq(Bufs)
      BY <3>1
    <3>3. QED
      BY <2>1, <3>2 DEF Writable
  <2>2. CASE ~(avail_out > 0)
    BY <2>2, EmptySeq DEF Writable
  <2>3. QED
    BY <2>1, <2>2
<1>4. held \o Unsent \in Seq(Bufs)
  BY <1>1, <1>2, ConcatProperties
<1>5. Chain \in Seq(Bufs)
  BY <1>3, <1>4, ConcatProperties DEF Chain
<1>6. QED
  BY <1>1, <1>2, <1>3, <1>5 DEF Bufs

LEMMA ChainMembers ==
  ASSUME TypeInv
  PROVE  ToSet(Chain) = (ToSet(held) \cup ToSet(Unsent)) \cup ToSet(Writable)
<1>1. held \in Seq(Bufs) /\ Unsent \in Seq(Bufs) /\ Writable \in Seq(Bufs)
  BY ChainType
<1>2. held \o Unsent \in Seq(Bufs)
  BY <1>1, ConcatProperties
<1>3. ToSet(held \o Unsent) = ToSet(held) \cup ToSet(Unsent)
  BY <1>1, ToSetConcat
<1>4. ToSet((held \o Unsent) \o Writable) = ToSet(held \o Unsent) \cup ToSet(Writable)
  BY <1>1, <1>2, ToSetConcat, ZenonT(60)
<1>5. QED
  BY <1>3, <1>4 DEF Chain

LEMMA FlightType ==
  ASSUME TypeInv
  PROVE  /\ delivered \in Seq(Nat) /\ Contents(mem, Chain) \in Seq(Nat)
         /\ Unwritten \in Seq(Nat) /\ nbytes \in Nat
<1>1. mem \in Seq(Buf) /\ Chain \in Seq(1..Len(mem))
  BY ChainType
<1>2. Contents(mem, Chain) \in Seq(Nat)
  BY <1>1, ContentsType
<1>3. QED
  BY <1>2 DEF TypeInv, TypeOK, Unwritten

\* The same, in a form that can be said of the state after a step.
FlightTypes ==
  /\ Chain \in Seq(1..Len(mem))
  /\ delivered \in Seq(Nat) /\ Contents(mem, Chain) \in Seq(Nat)
  /\ Unwritten \in Seq(Nat)

LEMMA NextTypes == TypeInv' => FlightTypes'
<1>1. TypeInv => FlightTypes
  BY ChainType, FlightType DEF FlightTypes
<1>2. QED
  BY <1>1, PTL

\* Linking out_buf does not change the chain, nor does passing it on.
LEMMA LinkKeepsChain ==
  ASSUME NEW S, NEW h \in Seq(S), NEW o \in Seq(S), NEW b \in S
  PROVE  (h \o Append(o, b)) \o << >> = (h \o o) \o <<b>>
<1>1. <<b>> \in Seq(S) /\ Append(o, b) = o \o <<b>> /\ o \o <<b>> \in Seq(S)
  BY AppendIsConcat, ConcatProperties
<1>2. h \o (o \o <<b>>) \in Seq(S) /\ (h \o o) \o <<b>> = h \o (o \o <<b>>)
  BY <1>1, ConcatProperties, ConcatAssociative
<1>3. QED
  BY <1>1, <1>2, ConcatEmptySeq

\* A step that leaves the chain and what its bufs hold alone.
LEMMA SameFlight ==
  ASSUME TypeInv, FlightOrder, UNCHANGED <<delivered, nbytes>>,
         Unwritten' = Unwritten, Chain' = Chain,
         \A b \in ToSet(Chain) : mem'[b].data = mem[b].data
  PROVE  FlightOrder'
<1>1. Chain \in Seq(Bufs)
  BY ChainType
<1>2. Contents(mem', Chain) = Contents(mem, Chain)
  BY <1>1, ContentsSame
<1>3. QED
  BY <1>2 DEF FlightOrder

\* A step that puts an empty buf at the end of the chain.
LEMMA EmptyBufFlight ==
  ASSUME TypeInv, TypeInv', FlightOrder, UNCHANGED <<delivered, nbytes>>,
         Unwritten' = Unwritten, NEW b \in Bufs', Chain' = Chain \o <<b>>,
         Chain \in Seq(Bufs'), mem'[b].data = << >>,
         \A c \in ToSet(Chain) : mem'[c].data = mem[c].data
  PROVE  FlightOrder'
<1>1. mem' \in Seq(Buf) /\ Bufs' = 1..Len(mem')
  BY DEF TypeInv, TypeOK, Bufs
<1>2. Contents(mem', Chain) = Contents(mem, Chain)
  BY ContentsSame
<1>3. <<b>> \in Seq(1..Len(mem')) /\ Contents(mem', <<b>>) = << >>
  BY <1>1, ContentsOfOne
<1>4. Contents(mem', Chain \o <<b>>) = Contents(mem', Chain) \o Contents(mem', <<b>>)
  BY <1>1, <1>3, ContentsConcat
<1>5. Contents(mem, Chain) \in Seq(Nat)
  BY FlightType
<1>6. Contents(mem', Chain') = Contents(mem, Chain)
  BY <1>2, <1>3, <1>4, <1>5, NothingAdded
<1>7. QED
  BY <1>6 DEF FlightOrder

\* Concatenation under a name of its own, which a leaf keeps folded: the
\* provers then match its laws as those of any operator.
Joined(s, t) == s \o t

LEMMA JoinedType == \A S : \A a, c \in Seq(S) : Joined(a, c) \in Seq(S)
<1> TAKE S
<1> TAKE a, c \in Seq(S)
<1>1. a \o c \in Seq(S)
  BY ConcatProperties
<1>2. QED
  BY <1>1 DEF Joined

LEMMA JoinedAssociative ==
  \A S : \A a, c, u \in Seq(S) : Joined(Joined(a, c), u) = Joined(a, Joined(c, u))
<1> TAKE S
<1> TAKE a, c, u \in Seq(S)
<1>1. (a \o c) \o u = a \o (c \o u)
  BY ConcatAssociative
<1>2. QED
  BY <1>1 DEF Joined

LEMMA RegroupJoined ==
  \A S : \A d, a, c, u \in Seq(S) :
    /\ Joined(Joined(d, a), Joined(c, u)) = Joined(d, Joined(Joined(a, c), u))
    /\ Joined(Joined(Joined(d, a), c), u) = Joined(d, Joined(Joined(a, c), u))
<1> TAKE S
<1> TAKE d, a, c, u \in Seq(S)
<1>1. Joined(d, a) \in Seq(S) /\ Joined(a, c) \in Seq(S) /\ Joined(c, u) \in Seq(S)
  BY JoinedType
<1>2. Joined(Joined(a, c), u) = Joined(a, Joined(c, u))
  BY JoinedAssociative
<1>3. Joined(Joined(d, a), Joined(c, u)) = Joined(d, Joined(a, Joined(c, u)))
  BY <1>1, JoinedAssociative
<1>4. Joined(Joined(Joined(d, a), c), u) = Joined(Joined(d, a), Joined(c, u))
  BY <1>1, JoinedAssociative
<1>5. QED
  BY <1>2, <1>3, <1>4

\* A step that moves the next bytes to the buf at the end of the chain.
LEMMA FillFlight ==
  ASSUME OwnInv, FlightOrder, UNCHANGED <<delivered, nbytes>>, Unsent = out,
         avail_out > 0, NEW bytes \in Seq(Nat), NEW flag, mem' = Filled(bytes, flag),
         mem' \in Seq(Buf), Len(mem') = Len(mem),
         NEW rest \in Seq(Nat), Unwritten = bytes \o rest, Unwritten' = rest,
         Chain' = Chain
  PROVE  FlightOrder'
<1> DEFINE earlier == held \o out
<1>1. /\ mem \in Seq(Buf) /\ held \in Seq(Bufs) /\ out \in Seq(Bufs) /\ Bufs = 1..Len(mem)
      /\ out_buf \in Bufs
  BY ChainType DEF OwnInv, TypeInv, TypeOK, Bufs
<1>2. /\ earlier \in Seq(Bufs) /\ ToSet(earlier) = ToSet(held) \cup ToSet(out)
      /\ Chain = earlier \o <<out_buf>>
  BY <1>1, ConcatProperties, ToSetConcat, SMTT(30) DEF Chain, Writable
<1>3. out_buf \notin ToSet(earlier) /\ ToSet(earlier) \subseteq Bufs
  <2>1. out_buf \notin ToSet(held) \cup ToSet(out)
    BY DEF OwnInv, ChainsApart
  <2> HIDE DEF earlier
  <2>2. ToSet(earlier) \subseteq Bufs
    BY <1>2, ElementsOf
  <2>3. QED
    BY <1>2, <2>1, <2>2
<1> HIDE DEF earlier
<1>4. DOMAIN mem = 1..Len(mem) /\ out_buf \in DOMAIN mem
  BY <1>1, LenProperties
<1>5. mem'[out_buf].data = mem[out_buf].data \o bytes
  BY <1>4 DEF Filled
<1>6. \A b \in ToSet(earlier) : mem'[b].data = mem[b].data
  BY <1>1, <1>3, <1>4 DEF Filled
<1>7. Contents(mem', earlier) = Contents(mem, earlier)
  BY <1>2, <1>6, ContentsSame
<1>8. /\ <<out_buf>> \in Seq(1..Len(mem)) /\ mem[out_buf].data \in Seq(Nat)
      /\ Contents(mem, <<out_buf>>) = mem[out_buf].data
      /\ Contents(mem', <<out_buf>>) = mem[out_buf].data \o bytes
  BY <1>1, <1>5, ContentsOfOne
<1>9. Contents(mem, Chain) = Contents(mem, earlier) \o mem[out_buf].data
  BY <1>1, <1>2, <1>8, ContentsConcat
<1>10. Contents(mem', Chain) = Contents(mem, earlier) \o (mem[out_buf].data \o bytes)
  <2>1. earlier \in Seq(1..Len(mem')) /\ <<out_buf>> \in Seq(1..Len(mem'))
    BY <1>1, <1>2, <1>8
  <2>2. Contents(mem', earlier \o <<out_buf>>) = Contents(mem', earlier) \o Contents(mem', <<out_buf>>)
    BY <2>1, ContentsConcat
  <2>3. QED
    BY <1>2, <1>7, <1>8, <2>2
<1>11. Contents(mem, earlier) \in Seq(Nat) /\ Contents(mem, Chain) \in Seq(Nat)
  BY <1>1, <1>2, ContentsType, FlightType DEF OwnInv
<1>12. Contents(mem', Chain) = Contents(mem, Chain) \o bytes
  <2> DEFINE e == Contents(mem, earlier)
             d == mem[out_buf].data
  <2>1. e \in Seq(Nat) /\ d \in Seq(Nat)
    BY <1>8, <1>11
  <2> HIDE DEF e, d
  <2>2. Joined(Joined(e, d), bytes) = Joined(e, Joined(d, bytes))
    BY <2>1, JoinedAssociative
  <2>3. (e \o d) \o bytes = e \o (d \o bytes)
    BY <2>2 DEF Joined
  <2>4. QED
    BY <1>9, <1>10, <2>3 DEF e, d
<1>13. (Contents(mem, Chain) \o bytes) \o rest = Contents(mem, Chain) \o (bytes \o rest)
  <2> DEFINE c == Contents(mem, Chain)
  <2>1. c \in Seq(Nat)
    BY <1>11
  <2> HIDE DEF c
  <2>2. Joined(Joined(c, bytes), rest) = Joined(c, Joined(bytes, rest))
    BY <2>1, JoinedAssociative
  <2>3. (c \o bytes) \o rest = c \o (bytes \o rest)
    BY <2>2 DEF Joined
  <2>4. QED
    BY <2>3 DEF c
<1>14. QED
  BY <1>12, <1>13 DEF FlightOrder

LEMMA InitOrder == Init => OrderInv
<1> SUFFICES ASSUME Init PROVE FlightOrder
  BY DEF OrderInv
<1>1. Unsent = << >> /\ Writable = << >> /\ held = << >> /\ Unwritten = << >> /\ delivered = << >>
  BY DEF Init, Unsent, Writable, Unwritten
<1>2. << >> \o << >> = << >> /\ << >> \in Seq(Nat)
  BY NothingAdded, EmptySeq
<1>3. Chain = << >> /\ Contents(mem, Chain) = << >>
  BY <1>1, <1>2, ContentsOfNone DEF Chain
<1>4. Bytes(0, 0) = << >>
  BY DEF Bytes
<1>5. QED
  BY <1>1, <1>2, <1>3, <1>4 DEF Init, FlightOrder

LEMMA LinkedOrNot ==
  ASSUME TypeInv, avail_out > 0, UNCHANGED <<held, out_buf>>, Unsent = out, Unsent' = out',
         \/ avail_out' = 0 /\ out' = Append(out, out_buf)
         \/ avail_out' > 0 /\ out' = out
  PROVE  Chain' = Chain
<1>1. held \in Seq(Bufs) /\ out \in Seq(Bufs) /\ out_buf \in Bufs
  BY ChainType DEF TypeInv, TypeOK, Bufs
<1>2. (held \o Append(out, out_buf)) \o << >> = (held \o out) \o <<out_buf>>
  BY <1>1, LinkKeepsChain
<1>3. CASE avail_out' = 0 /\ out' = Append(out, out_buf)
  BY <1>2, <1>3 DEF Chain, Writable
<1>4. CASE avail_out' > 0 /\ out' = out
  <2>1. Writable' = Writable /\ Unsent' = Unsent
    BY <1>4 DEF Writable
  <2>2. QED
    BY <2>1 DEF Chain
<1>5. QED
  BY <1>3, <1>4

LEMMA SubSeqSplit ==
  ASSUME NEW s \in Seq(Nat), NEW n \in 1..Len(s)
  PROVE  /\ SubSeq(s, 1, n) \in Seq(Nat)
         /\ SubSeq(s, n + 1, Len(s)) \in Seq(Nat)
         /\ SubSeq(s, 1, n) \o SubSeq(s, n + 1, Len(s)) = s
<1> DEFINE a == SubSeq(s, 1, n)
           b == SubSeq(s, n + 1, Len(s))
<1>1. Len(s) \in Nat /\ n \in Nat /\ n <= Len(s)
  BY LenProperties
<1>2. a \in Seq(Nat) /\ Len(a) = n /\ \A i \in 1..n : a[i] = s[i]
  BY <1>1, SubSeqProperties
<1>3. b \in Seq(Nat) /\ Len(b) = Len(s) - n /\ \A i \in 1..(Len(s) - n) : b[i] = s[n + i]
  BY <1>1, SubSeqProperties
<1> HIDE DEF a, b
<1>4. /\ a \o b \in Seq(Nat) /\ Len(a \o b) = Len(a) + Len(b)
      /\ \A i \in 1..(Len(a) + Len(b)) : (a \o b)[i] = IF i <= Len(a) THEN a[i] ELSE b[i - Len(a)]
  BY <1>2, <1>3, ConcatProperties
<1>5. ASSUME NEW i \in 1..Len(s) PROVE (a \o b)[i] = s[i]
  <2>1. CASE i <= n
    BY <1>1, <1>2, <1>3, <1>4, <2>1, SMTT(30)
  <2>2. CASE ~(i <= n)
    <3>1. i - n \in 1..(Len(s) - n) /\ n + (i - n) = i
      BY <1>1, <2>2
    <3>2. QED
      BY <1>1, <1>2, <1>3, <1>4, <2>2, <3>1, SMTT(30)
  <2>3. QED
    BY <2>1, <2>2
<1>6. Len(a \o b) = Len(s)
  <2>1. Len(a \o b) = n + (Len(s) - n)
    BY <1>2, <1>3, <1>4, Zenon
  <2>2. QED
    BY <1>1, <2>1
<1>7. a \o b = s
  BY <1>4, <1>5, <1>6, SeqEqual
<1>8. QED
  BY <1>2, <1>3, <1>7 DEF a, b

\* The steps of the running call that link out_buf to ctx->out.
LEMMA WriteKeepsChain ==
  ASSUME OwnInv, CallInv, ~dead', SubmitDirect \/ CopyPostponed
  PROVE  Chain' = Chain
<1>1. TypeInv /\ TypeOK /\ RoomGranted
  BY DEF OwnInv, TypeInv
<1>2. /\ pc \in {"request_mem", "submit_mem"} /\ avail_out > 0
      /\ UNCHANGED <<held, out_buf>> /\ pc' # "next_body_filter"
  BY <1>1 DEF RoomGranted, SubmitDirect, CopyPostponed, clientVars
<1>3. avail_out' \in Nat
  <2>1. CASE SubmitDirect
    BY <1>1, <2>1, LenProperties DEF SubmitDirect, FitsInBuf, TypeOK
  <2>2. CASE CopyPostponed
    BY <1>1, <2>2, LenProperties DEF CopyPostponed, CopyLen, TypeOK
  <2>3. QED
    BY <2>1, <2>2
<1>4. IF avail_out' = 0 THEN out' = Append(out, out_buf) ELSE out' = out
  BY DEF SubmitDirect, CopyPostponed, Full, SaveOutBuf
<1>5. /\ \/ avail_out' = 0 /\ out' = Append(out, out_buf)
         \/ avail_out' > 0 /\ out' = out
      /\ Unsent = out /\ Unsent' = out'
  BY <1>2, <1>3, <1>4 DEF Unsent
<1>6. QED
  BY <1>1, <1>2, <1>5, LinkedOrNot

\* The steps that pass the bufs on.
LEMMA SendKeepsChain ==
  ASSUME OwnInv, CallInv, ~dead', OutputBufs \/ NextBodyFilter \/ NextBodyFilterReturns
  PROVE  Chain' = Chain
<1>0. TypeInv
  BY DEF OwnInv
<1>1. CASE OutputBufs
  <2>1. UNCHANGED <<held, out_buf>> /\ pc = "handler" /\ pc' = "send"
    BY <1>1 DEF OutputBufs, clientVars
  <2>2. Unsent = out /\ Unsent' = out'
    BY <2>1 DEF Unsent
  <2>3. CASE PassesPartial
    <3>1. avail_out > 0 /\ avail_out' = 0 /\ out' = Append(out, out_buf)
      BY <1>1, <2>3 DEF OutputBufs, PassesPartial, SaveOutBuf
    <3>2. QED
      BY <1>0, <2>1, <2>2, <3>1, LinkedOrNot
  <2>4. CASE ~PassesPartial
    BY <1>1, <2>1, <2>2, <2>4 DEF OutputBufs, Chain, Writable
  <2>5. QED
    BY <2>3, <2>4
<1>2. CASE NextBodyFilter
  <2>1. /\ UNCHANGED <<out, avail_out, out_buf>> /\ held' = held \o out
        /\ pc = "send" /\ pc' = "next_body_filter"
    BY <1>2 DEF NextBodyFilter, chainVars, writerVars
  <2>2. held \o out \in Seq(Bufs) /\ Unsent = out /\ Unsent' = << >>
    BY <1>0, <2>1, ChainType, ConcatProperties DEF Unsent
  <2>3. (held \o out) \o << >> = held \o out
    BY <2>2, ConcatEmptySeq
  <2>4. QED
    BY <2>1, <2>2, <2>3 DEF Chain, Writable
<1>3. CASE NextBodyFilterReturns
  <2>1. /\ UNCHANGED <<held, avail_out, out_buf>> /\ out' = << >>
        /\ pc = "next_body_filter" /\ pc' = "update_chains"
    BY <1>3 DEF NextBodyFilterReturns, writerVars, clientVars
  <2>2. QED
    BY <2>1 DEF Chain, Unsent, Writable
<1>4. QED
  BY <1>1, <1>2, <1>3

\* The client takes the first buf of the chain.
LEMMA DrainTakesFirst ==
  ASSUME TypeInv, Drain
  PROVE  /\ Head(held) \in 1..Len(mem)
         /\ Chain = <<Head(held)>> \o Chain' /\ Chain' \in Seq(1..Len(mem))
<1> DEFINE g == <<Head(held)>>
           t == Tail(held)
<1>1. /\ Bufs = 1..Len(mem) /\ held \in Seq(Bufs) /\ held # << >>
      /\ Unsent \in Seq(Bufs) /\ Writable \in Seq(Bufs)
  BY ChainType DEF Drain
<1>2. Head(held) \in Bufs /\ t \in Seq(Bufs)
  BY <1>1, HeadTailProperties
<1>3. g \in Seq(Bufs) /\ held = g \o t
  BY <1>1, <1>2
<1>4. held' = t /\ Unsent' = Unsent /\ Writable' = Writable
  BY DEF Drain, Unsent, Writable, chainVars, writerVars
<1> HIDE DEF g, t
<1>5. Joined(Joined(Joined(g, t), Unsent), Writable) = Joined(g, Joined(Joined(t, Unsent), Writable))
  BY <1>1, <1>2, <1>3, RegroupJoined
<1>6. ((g \o t) \o Unsent) \o Writable = g \o ((t \o Unsent) \o Writable)
  BY <1>5 DEF Joined
<1>7. t \o Unsent \in Seq(Bufs) /\ (t \o Unsent) \o Writable \in Seq(Bufs)
  BY <1>1, <1>2, ConcatProperties
<1>8. QED
  BY <1>1, <1>2, <1>3, <1>4, <1>6, <1>7 DEF Chain, g

LEMMA OrderStep == SendInv /\ SendInv' /\ OrderInv /\ [Next]_vars => OrderInv'
<1> SUFFICES ASSUME SendInv, SendInv', OrderInv, [Next]_vars, ~dead' PROVE FlightOrder'
  BY DEF OrderInv
<1>0. /\ OwnInv /\ TypeInv /\ CallInv /\ ChainsApart /\ TypeInv'
      /\ TypeOK /\ RoomGranted
  BY DEF SendInv, SpaceInv, OwnInv, TypeInv
<1>live. ASSUME ~dead PROVE FlightOrder
  BY <1>live DEF OrderInv
<1>1. CASE Enter \/ Return \/ UpdateChainsReturns \/ UNCHANGED vars
  <2>1. /\ UNCHANGED <<dead, delivered, nbytes, mem, held, out, avail_out, out_buf, postponed, piece>>
        /\ pc' = pc \/ (pc \in {"event", "send", "update_chains"} /\ pc' \in {"event", "send", "handler"})
    BY <1>1 DEF Enter, Return, UpdateChainsReturns, vars, handlerVars, chainVars, writerVars, clientVars
  <2>2. Chain' = Chain /\ Unwritten' = Unwritten
    BY <2>1 DEF Chain, Unsent, Writable, Unwritten
  <2>3. QED
    BY <1>0, <1>live, <2>1, <2>2, SameFlight
<1>2. ASSUME NEW n \in 0..MaxLen, NEW last \in BOOLEAN, Output(n, last)
      PROVE  FlightOrder'
  <2>1. /\ UNCHANGED <<dead, delivered, mem, held, out, avail_out, out_buf, postponed>>
        /\ pc = "handler" /\ pc' = "get_buf" /\ nbytes' = nbytes + n
        /\ piece'.bytes = Bytes(nbytes, n)
    BY <1>2 DEF Output, chainVars, writerVars, clientVars
  <2>2. postponed = << >> /\ FlightOrder
    BY <1>0, <1>live, <2>1 DEF CallInv
  <2>3. Chain' = Chain /\ Unwritten = << >> /\ Unwritten' = Bytes(nbytes, n)
    BY <2>1, <2>2 DEF Chain, Unsent, Writable, Unwritten
  <2>4. /\ nbytes \in Nat /\ n \in Nat /\ delivered \in Seq(Nat)
        /\ Contents(mem, Chain) \in Seq(Nat)
    BY <1>0, FlightType, BoundsAssumption
  <2>5. /\ Bytes(nbytes, n) \in Seq(Nat)
        /\ Bytes(0, nbytes) \o Bytes(nbytes, n) = Bytes(0, nbytes + n)
    BY <2>4, BytesFollow
  <2>6. delivered \o Contents(mem, Chain) = Bytes(0, nbytes)
    BY <2>2, <2>3, <2>4, NothingAdded DEF FlightOrder
  <2>7. delivered \o (Contents(mem, Chain) \o Bytes(nbytes, n)) =
          (delivered \o Contents(mem, Chain)) \o Bytes(nbytes, n)
    BY <2>4, <2>5, Associative, ZenonT(60)
  <2>8. QED
    BY <2>1, <2>3, <2>5, <2>6, <2>7 DEF FlightOrder
<1>3. CASE HandlerFails \/ GetBufFails \/ PostponeFails \/ NextBodyFilterFails
  BY <1>3 DEF HandlerFails, GetBufFails, PostponeFails, NextBodyFilterFails, Fail
<1>4. CASE GetBuf
  <2>1. /\ UNCHANGED <<dead, delivered, nbytes, held, out, postponed, piece>>
        /\ pc = "get_buf" /\ pc' = GetBufReturn
    BY <1>4 DEF GetBuf, handlerVars, clientVars
  <2>2. FlightOrder /\ Unwritten' = Unwritten /\ Unsent = out /\ Unsent' = out
    BY <1>live, <2>1 DEF Unwritten, Unsent, GetBufReturn
  <2>3. CASE KeepBuf
    <3>1. Chain' = Chain /\ mem' = mem
      BY <2>1, <2>2, <2>3 DEF KeepBuf, Chain, Writable
    <3>2. QED
      BY <1>0, <2>1, <2>2, <3>1, SameFlight
  <2>4. CASE ReuseBuf \/ CreateBuf
    <3>1. avail_out = 0 /\ avail_out' > 0
      BY <2>4, BufSizeAssumption DEF ReuseBuf, CreateBuf
    <3>2. Writable = << >> /\ Writable' = <<out_buf'>>
      BY <3>1 DEF Writable
    <3>3. /\ held \in Seq(Bufs) /\ out \in Seq(Bufs) /\ Chain \in Seq(Bufs)
          /\ held \o out \in Seq(Bufs)
      BY <1>0, ChainType, ConcatProperties
    <3>4. Chain = held \o out /\ Chain' = Chain \o <<out_buf'>>
      BY <2>1, <2>2, <3>2, <3>3, ConcatEmptySeq DEF Chain
    <3>5. out_buf' \in Bufs'
      BY <1>0, <3>1 DEF TypeInv, TypeOK, Bufs
    <3>6. /\ mem \in Seq(Buf) /\ Len(mem) \in Nat
          /\ [data |-> << >>, last_buf |-> FALSE] \in Buf
      BY <1>0, EmptySeq, LenProperties DEF TypeOK, Buf
    <3>7. /\ Len(mem') >= Len(mem) /\ Len(mem') \in Nat
          /\ \A b \in 1..Len(mem) : mem'[b] = mem[b]
          /\ mem'[out_buf'].data = << >>
      <4>1. CASE ReuseBuf
        <5>1. Head(free_bufs) \in ToSet(free_bufs)
          BY <1>0, <4>1, HeadAndTail DEF ReuseBuf, TypeOK
        <5>2. QED
          BY <3>6, <4>1, <5>1 DEF ReuseBuf, SendInv, SpaceInv, SpaceAccounted
      <4>2. CASE CreateBuf
        <5>1. /\ Len(mem') = Len(mem) + 1 /\ mem'[Len(mem) + 1] = [data |-> << >>, last_buf |-> FALSE]
              /\ \A b \in 1..Len(mem) : mem'[b] = mem[b]
          BY <3>6, <4>2, AppendProperties DEF CreateBuf
        <5>2. QED
          BY <3>6, <4>2, <5>1 DEF CreateBuf
      <4>3. QED
        BY <2>4, <4>1, <4>2
    <3>8. Chain \in Seq(Bufs') /\ \A c \in ToSet(Chain) : mem'[c].data = mem[c].data
      <4>1. Bufs \subseteq Bufs'
        BY <3>6, <3>7 DEF Bufs
      <4>2. ToSet(Chain) \subseteq 1..Len(mem)
        BY <3>3, ElementsOf DEF Bufs
      <4>3. QED
        BY <3>3, <3>7, <4>1, <4>2, SeqMonotonic
    <3>9. QED
      BY <1>0, <2>1, <2>2, <3>4, <3>5, <3>7, <3>8, EmptyBufFlight
  <2>5. QED
    BY <1>4, <2>3, <2>4 DEF GetBuf
<1>5. CASE SubmitDirect
  <2>1. /\ avail_out > 0 /\ piece.bytes \in Seq(Nat) /\ pc = "request_mem" /\ ~dead
        /\ mem' = Filled(piece.bytes, piece.last_buf) /\ piece.last_buf \in BOOLEAN
        /\ UNCHANGED <<delivered, nbytes, held, out_buf, postponed>>
        /\ pc' = "handler"
    BY <1>0, <1>5 DEF SubmitDirect, RoomGranted, TypeOK, clientVars, handlerVars, CallInv
  <2>2. postponed = << >> /\ FlightOrder
    BY <1>0, <1>live, <2>1 DEF CallInv
  <2>3. /\ Unsent = out /\ Unsent' = out' /\ Unwritten = piece.bytes /\ Unwritten' = << >>
    BY <2>1, <2>2 DEF Unsent, Unwritten
  <2>5. Chain' = Chain
    BY <1>0, <1>5, WriteKeepsChain
  <2>6. mem' \in Seq(Buf) /\ Len(mem') = Len(mem)
    BY <1>0, <2>1, FilledType
  <2>7. piece.bytes = piece.bytes \o << >> /\ << >> \in Seq(Nat)
    BY <2>1, NothingAdded, EmptySeq
  <2>8. QED
    BY <1>0, <2>1, <2>2, <2>3, <2>5, <2>6, <2>7, FillFlight
<1>6. CASE Postpone
  <2>1. /\ UNCHANGED <<delivered, nbytes, mem, held, out, avail_out, out_buf, dead>>
        /\ pc = "request_mem" /\ pc' = "submit_mem" /\ postponed' = piece.bytes
    BY <1>6 DEF Postpone, handlerVars, chainVars, clientVars
  <2>2. Chain' = Chain /\ Unwritten' = Unwritten
    BY <2>1 DEF Chain, Unsent, Writable, Unwritten
  <2>3. QED
    BY <1>0, <1>live, <2>1, <2>2, SameFlight
<1>7. CASE CopyPostponed
  <2> DEFINE taken == SubSeq(postponed, 1, CopyLen)
             rest == SubSeq(postponed, CopyLen + 1, Len(postponed))
             flag == IF dead' THEN mem[out_buf].last_buf
                              ELSE CopiedFlag(postponed', avail_out')
  <2>1. /\ avail_out > 0 /\ postponed \in Seq(Nat) /\ Len(postponed) \in Nat
        /\ avail_out \in Nat /\ postponed # << >> /\ pc = "submit_mem" /\ ~dead
    BY <1>0, <1>7, LenProperties DEF CopyPostponed, TypeOK, RoomGranted, CallInv
  <2>2. CopyLen \in 1..Len(postponed)
    BY <2>1, EmptySeq, LenProperties DEF CopyLen
  <2>3. taken \in Seq(Nat) /\ rest \in Seq(Nat) /\ taken \o rest = postponed
    BY <2>1, <2>2, SubSeqSplit
  <2>4. /\ mem' = Filled(taken, flag) /\ postponed' = rest
        /\ UNCHANGED <<delivered, nbytes, held, out_buf>>
        /\ pc' = "handler" \/ (pc' = "get_buf" /\ postponed' # << >>)
    BY <1>7 DEF CopyPostponed, PostponedRest, clientVars, handlerVars
  <2>5. flag \in BOOLEAN
    <3>1. out_buf \in 1..Len(mem) /\ mem[out_buf] \in Buf
      BY <1>0, <2>1 DEF TypeOK
    <3>2. QED
      BY <1>0, <3>1 DEF CopiedFlag, TypeOK, Buf
  <2> HIDE DEF taken, rest, flag
  <2>6. mem' \in Seq(Buf) /\ Len(mem') = Len(mem)
    BY <1>0, <2>1, <2>3, <2>4, <2>5, FilledType
  <2>8. Unsent = out /\ Unsent' = out' /\ Unwritten = taken \o rest /\ Unwritten' = rest
    BY <2>1, <2>3, <2>4 DEF Unsent, Unwritten
  <2>9. Chain' = Chain
    BY <1>0, <1>7, WriteKeepsChain
  <2>10. FlightOrder
    BY <1>live, <2>1
  <2>11. QED
    BY <1>0, <2>1, <2>3, <2>4, <2>6, <2>8, <2>9, <2>10, FillFlight
<1>8. CASE OutputBufs
  <2>1. /\ UNCHANGED <<delivered, nbytes, mem, held, out_buf, postponed, piece>>
        /\ pc = "handler" /\ pc' = "send" /\ ~dead
    BY <1>0, <1>8 DEF OutputBufs, clientVars, CallInv
  <2>2. Unwritten' = Unwritten
    BY <2>1 DEF Unwritten
  <2>3. Chain' = Chain
    BY <1>0, <1>8, SendKeepsChain
  <2>4. QED
    BY <1>0, <1>live, <2>1, <2>2, <2>3, SameFlight
<1>9. CASE NextBodyFilter
  <2>1. /\ UNCHANGED <<dead, delivered, nbytes, mem, avail_out, out_buf, postponed, piece>>
        /\ pc = "send" /\ pc' = "next_body_filter" /\ held' = held \o out
    BY <1>9 DEF NextBodyFilter, handlerVars, chainVars, writerVars
  <2>2. Unwritten' = Unwritten
    BY <2>1 DEF Unwritten
  <2>3. Chain' = Chain
    BY <1>0, <1>9, SendKeepsChain
  <2>4. QED
    BY <1>0, <1>live, <2>1, <2>2, <2>3, SameFlight
<1>10. CASE Drain
  <2> DEFINE h == Head(held)
             data == mem[Head(held)].data
  <2>1. /\ UNCHANGED <<pc, dead, nbytes, mem, out, avail_out, out_buf, postponed, piece>>
        /\ delivered' = delivered \o data /\ held' = Tail(held) /\ ~dead /\ held # << >>
    BY <1>10 DEF Drain, handlerVars, chainVars, writerVars
  <2>2. mem \in Seq(Buf) /\ h \in 1..Len(mem)
    BY <1>0, <1>10, ChainType, DrainTakesFirst
  <2>3. Chain = <<h>> \o Chain' /\ Chain' \in Seq(1..Len(mem))
    BY <1>0, <1>10, DrainTakesFirst
  <2>4. /\ <<h>> \in Seq(1..Len(mem)) /\ data \in Seq(Nat) /\ Contents(mem, <<h>>) = data
    BY <2>2, ContentsOfOne
  <2> HIDE DEF h, data
  <2>6. Contents(mem, <<h>> \o Chain') = Contents(mem, <<h>>) \o Contents(mem, Chain')
    BY <2>2, <2>3, <2>4, ContentsConcat
  <2>7. Contents(mem, Chain) = data \o Contents(mem, Chain')
    BY <2>3, <2>4, <2>6
  <2>8. /\ Contents(mem, Chain') \in Seq(Nat) /\ delivered \in Seq(Nat) /\ Unwritten \in Seq(Nat)
    BY <1>0, <2>2, <2>3, ContentsType, FlightType
  <2>9. (delivered \o data) \o (Contents(mem, Chain') \o Unwritten) =
          delivered \o ((data \o Contents(mem, Chain')) \o Unwritten)
    <3> DEFINE c == Contents(mem, Chain')
    <3>1. c \in Seq(Nat)
      BY <2>8
    <3> HIDE DEF c
    <3>2. Joined(Joined(delivered, data), Joined(c, Unwritten)) =
             Joined(delivered, Joined(Joined(data, c), Unwritten))
      BY <2>4, <2>8, <3>1, RegroupJoined
    <3>3. (delivered \o data) \o (c \o Unwritten) = delivered \o ((data \o c) \o Unwritten)
      BY <3>2 DEF Joined
    <3>4. QED
      BY <3>3 DEF c
  <2>10. Unwritten' = Unwritten /\ FlightOrder
    BY <1>live, <2>1 DEF Unwritten
  <2>11. QED
    BY <2>1, <2>7, <2>9, <2>10 DEF FlightOrder
<1>11. CASE NextBodyFilterReturns
  <2>1. /\ UNCHANGED <<dead, delivered, nbytes, mem, held, avail_out, out_buf, postponed, piece>>
        /\ pc = "next_body_filter" /\ pc' = "update_chains" /\ out' = << >>
    BY <1>11 DEF NextBodyFilterReturns, handlerVars, writerVars, clientVars
  <2>2. Unwritten' = Unwritten
    BY <2>1 DEF Unwritten
  <2>3. Chain' = Chain
    BY <1>0, <1>11, SendKeepsChain
  <2>4. QED
    BY <1>0, <1>live, <2>1, <2>2, <2>3, SameFlight
<1>12. CASE Recycle
  <2>1. /\ Head(busy_bufs) \in ToSet(busy_bufs) /\ Head(busy_bufs) \notin ToSet(held)
        /\ UNCHANGED <<pc, dead, delivered, nbytes, out, held, avail_out, out_buf, postponed, piece>>
        /\ mem' = [mem EXCEPT ![Head(busy_bufs)] = [data |-> << >>, last_buf |-> @.last_buf]]
    BY <1>0, <1>12, HeadAndTail DEF Recycle, Consumed, TypeOK, clientVars, handlerVars, writerVars
  <2>2. Head(busy_bufs) \notin ToSet(Unsent) \cup ToSet(Writable)
    <3>1. ToSet(Unsent) \subseteq ToSet(out)
      BY Empty DEF Unsent
    <3>2. ToSet(Writable) = IF avail_out > 0 THEN {out_buf} ELSE {}
      BY Singleton, Empty DEF Writable
    <3>3. QED
      BY <1>0, <2>1, <3>1, <3>2 DEF ChainsApart
  <2>3. Head(busy_bufs) \notin ToSet(Chain)
    BY <1>0, <2>1, <2>2, ChainMembers
  <2>4. \A b \in ToSet(Chain) : mem'[b].data = mem[b].data
    <3>1. ToSet(Chain) \subseteq 1..Len(mem)
      BY <1>0, ChainType, ElementsOf
    <3>2. QED
      BY <1>0, <2>1, <2>3, <3>1 DEF TypeOK
  <2>5. Chain' = Chain /\ Unwritten' = Unwritten
    BY <2>1 DEF Chain, Unsent, Writable, Unwritten
  <2>6. QED
    BY <1>0, <1>live, <2>1, <2>4, <2>5, SameFlight
<1>13. QED
  BY <1>1, <1>2, <1>3, <1>4, <1>5, <1>6, <1>7, <1>8, <1>9, <1>10, <1>11, <1>12 DEF Next, Write, Send

LEMMA OrderInvariant == Spec => [](SendInv /\ OrderInv)
<1>1. Init => OrderInv
  BY InitOrder
<1>2. QED
  BY <1>1, OrderStep, SendInvariant, PTL DEF Spec

\* However the pieces fall on the bufs and however slowly the client reads:
\* the client has received a prefix of the response, and what is missing is
\* in flight, in order, with nothing lost, doubled or overwritten by
\* submit_mem, output_bufs and the recycling of bufs.
THEOREM BytesAreInOrder == Spec => []BytesInOrder
<1>1. OrderInv => BytesInOrder
  BY DEF OrderInv, FlightOrder, Contents, DataOf, Chain, BytesInOrder, InFlight, BytesOf
<1>2. QED
  BY <1>1, OrderInvariant, PTL

-----------------------------------------------------------------------------
(* The mark of the last buf.                                               *)

\* What precedes the rest of the response is a prefix of it.
LEMMA PrefixOfBytes ==
  ASSUME NEW n \in Nat, NEW s \in Seq(Nat), NEW t \in Seq(Nat), s \o t = Bytes(0, n)
  PROVE  /\ Len(s) \in Nat /\ Len(s) <= n /\ Len(t) = n - Len(s)
         /\ s = Bytes(0, Len(s))
<1>1. /\ Len(s \o t) = Len(s) + Len(t)
      /\ \A i \in 1..(Len(s) + Len(t)) : (s \o t)[i] = IF i <= Len(s) THEN s[i] ELSE t[i - Len(s)]
  BY ConcatProperties
<1>2. Len(s) \in Nat /\ Len(t) \in Nat
  BY LenProperties
<1>3. Len(Bytes(0, n)) = n /\ \A i \in 1..n : Bytes(0, n)[i] = i
  BY BytesFollow DEF Bytes
<1>4. Len(s) + Len(t) = n
  BY <1>1, <1>3
<1>5. /\ Bytes(0, Len(s)) \in Seq(Nat) /\ Len(Bytes(0, Len(s))) = Len(s)
      /\ \A i \in 1..Len(s) : Bytes(0, Len(s))[i] = i
  BY <1>2, BytesFollow DEF Bytes
<1>6. ASSUME NEW i \in 1..Len(s) PROVE s[i] = i
  <2>1. i \in 1..(Len(s) + Len(t)) /\ i <= Len(s) /\ i \in 1..n
    BY <1>2, <1>4
  <2>2. (s \o t)[i] = s[i]
    BY <1>1, <2>1
  <2>3. Bytes(0, n)[i] = i
    BY <1>3, <2>1
  <2>4. QED
    BY <2>2, <2>3
<1>7. s = Bytes(0, Len(s))
  BY <1>5, <1>6, SeqEqual
<1>8. QED
  BY <1>2, <1>4, <1>7

\* A buf carries the mark only once the last piece of a main request was
\* written to it, and it is then the last buf on its way to the client.
FlagInv ==
  /\ piece.last_buf => main /\ done
  /\ \A b \in 1..Len(mem) : mem[b].last_buf => main /\ done /\ pc \in Sending \cup {"handler"}
  /\ \A i \in 1..Len(Chain) : mem[Chain[i]].last_buf => i = Len(Chain)

EofInv == EofIsLast /\ (~dead => FlagInv)

LEMMA InitEof == Init => EofInv
<1> SUFFICES ASSUME Init PROVE EofInv
  OBVIOUS
<1>1. Chain = << >>
  BY NothingAdded, EmptySeq DEF Init, Chain, Unsent, Writable
<1>2. Len(mem) = 0 /\ Len(Chain) = 0
  BY <1>1 DEF Init
<1>3. FlagInv
  BY <1>2 DEF Init, FlagInv, NoPiece
<1>4. QED
  BY <1>3 DEF Init, EofInv, EofIsLast

\* A step that leaves the chain and the marks alone.
LEMMA SameFlags ==
  ASSUME TypeInv, FlagInv, UNCHANGED <<main, done, piece>>, Chain' = Chain, Len(mem') = Len(mem),
         \A b \in 1..Len(mem) : mem'[b].last_buf = mem[b].last_buf,
         done /\ pc \in Sending \cup {"handler"} => pc' \in Sending \cup {"handler"}
  PROVE  FlagInv'
<1>1. Chain \in Seq(1..Len(mem))
  BY ChainType
<1>2. \A i \in 1..Len(Chain) : Chain[i] \in 1..Len(mem)
  BY <1>1, ElementOfSeq
<1>3. QED
  BY <1>2 DEF FlagInv

\* The buf at the end of a chain that is not on the rest of it.
LEMMA AtTheEnd ==
  ASSUME NEW S, NEW s \in Seq(S), NEW x \in S, x \notin ToSet(s),
         NEW i \in 1..Len(s \o <<x>>), (s \o <<x>>)[i] = x
  PROVE  i = Len(s \o <<x>>)
<1>1. <<x>> \in Seq(S) /\ Len(<<x>>) = 1
  OBVIOUS
<1>2. /\ Len(s \o <<x>>) = Len(s) + 1
      /\ \A j \in 1..(Len(s) + 1) :
           (s \o <<x>>)[j] = IF j <= Len(s) THEN s[j] ELSE <<x>>[j - Len(s)]
  BY <1>1, ConcatProperties
<1>3. Len(s) \in Nat /\ \A j \in 1..Len(s) : s[j] \in ToSet(s)
  BY LenProperties DEF ToSet
<1>4. ~(i <= Len(s))
  BY <1>2, <1>3
<1>5. QED
  BY <1>2, <1>3, <1>4

\* Writing to out_buf marks at most out_buf.
LEMMA FillFlag ==
  ASSUME OwnInv, avail_out > 0, Unsent = out, Chain' = Chain,
         \A b \in 1..Len(mem) : ~mem[b].last_buf,
         NEW bytes \in Seq(Nat), NEW flag \in BOOLEAN, mem' = Filled(bytes, flag)
  PROVE  /\ \A b \in 1..Len(mem') : mem'[b].last_buf => flag
         /\ \A i \in 1..Len(Chain') : mem'[Chain'[i]].last_buf => i = Len(Chain')
<1> DEFINE earlier == held \o out
<1>1. /\ mem \in Seq(Buf) /\ held \in Seq(Bufs) /\ out \in Seq(Bufs) /\ Bufs = 1..Len(mem)
      /\ out_buf \in Bufs /\ Chain \in Seq(Bufs)
  BY ChainType DEF OwnInv, TypeInv, TypeOK, Bufs
<1>2. /\ earlier \in Seq(Bufs) /\ ToSet(earlier) = ToSet(held) \cup ToSet(out)
      /\ Chain = earlier \o <<out_buf>>
  BY <1>1, ConcatProperties, ToSetConcat, SMTT(30) DEF Chain, Writable
<1>3. out_buf \notin ToSet(held) \cup ToSet(out)
  BY DEF OwnInv, ChainsApart
<1> HIDE DEF earlier
<1>4. DOMAIN mem = 1..Len(mem) /\ out_buf \in DOMAIN mem
  BY <1>1, LenProperties
<1>5. /\ Len(mem') = Len(mem) /\ mem'[out_buf].last_buf = flag
      /\ \A b \in 1..Len(mem) : b # out_buf => mem'[b] = mem[b]
  <2>1. Len(mem') = Len(mem)
    BY FilledType DEF OwnInv
  <2>2. mem'[out_buf].last_buf = flag
    BY <1>4 DEF Filled
  <2>3. \A b \in 1..Len(mem) : b # out_buf => mem'[b] = mem[b]
    BY <1>4 DEF Filled
  <2>4. QED
    BY <2>1, <2>2, <2>3
<1>6. \A b \in 1..Len(mem') : mem'[b].last_buf => flag /\ b = out_buf
  BY <1>5
<1>7. ASSUME NEW i \in 1..Len(Chain), mem'[Chain[i]].last_buf PROVE i = Len(Chain)
  <2>1. Chain[i] \in 1..Len(mem')
    BY <1>1, <1>5, ElementOfSeq
  <2>2. Chain[i] = out_buf
    BY <1>6, <1>7, <2>1
  <2>3. QED
    BY <1>1, <1>2, <1>3, <2>2, AtTheEnd
<1>8. QED
  BY <1>6, <1>7

\* The step that hands over the bufs' marks to the client.
LEMMA DrainEof ==
  ASSUME SendInv, OrderInv', TypeInv', EofInv, ~dead, Drain
  PROVE  EofInv'
<1> DEFINE h == Head(held)
<1>1. /\ UNCHANGED <<pc, dead, mem, main, done, nbytes, piece>>
      /\ delivered' = delivered \o mem[h].data /\ eof' = (eof \/ mem[h].last_buf)
  BY DEF Drain, handlerVars
<1>2. OwnInv /\ TypeInv /\ FlagInv /\ EofIsLast
  BY DEF SendInv, SpaceInv, OwnInv, EofInv
<1>3. /\ h \in 1..Len(mem) /\ Chain = <<h>> \o Chain' /\ Chain' \in Seq(1..Len(mem))
  BY <1>2, DrainTakesFirst
<1>4. /\ mem \in Seq(Buf) /\ mem[h].data \in Seq(Nat) /\ delivered \in Seq(Nat) /\ nbytes \in Nat
  BY <1>2, <1>3, ContentsOfOne, ChainType, FlightType
<1> HIDE DEF h
<1>5. /\ Len(Chain) = Len(Chain') + 1 /\ Len(Chain') \in Nat /\ Chain[1] = h
      /\ \A i \in 1..Len(Chain') : Chain[i + 1] = Chain'[i]
  <2> DEFINE g == <<h>>
             c == Chain'
  <2>1. g \in Seq(1..Len(mem)) /\ Len(g) = 1 /\ g[1] = h
    BY <1>3
  <2> HIDE DEF g, c
  <2>2. c \in Seq(1..Len(mem)) /\ Len(c) \in Nat
    BY <1>3, LenProperties DEF c
  <2>3. /\ Len(g \o c) = Len(g) + Len(c)
        /\ \A i \in 1..(Len(g) + Len(c)) : (g \o c)[i] = IF i <= Len(g) THEN g[i] ELSE c[i - Len(g)]
    BY <2>1, <2>2, ConcatProperties
  <2>4. Len(g \o c) = Len(c) + 1 /\ (g \o c)[1] = h
    BY <2>1, <2>2, <2>3
  <2>5. ASSUME NEW i \in 1..Len(c) PROVE (g \o c)[i + 1] = c[i]
    <3>1. /\ i + 1 \in 1..(Len(g) + Len(c)) /\ ~(i + 1 <= Len(g)) /\ (i + 1) - Len(g) = i
      BY <2>1, <2>2
    <3>2. QED
      BY <2>3, <3>1
  <2>6. QED
    BY <1>3, <2>2, <2>4, <2>5 DEF g, c
<1>6. FlagInv'
  <2>1. ASSUME NEW i \in 1..Len(Chain'), mem[Chain'[i]].last_buf PROVE i = Len(Chain')
    <3>1. i + 1 \in 1..Len(Chain) /\ mem[Chain[i + 1]].last_buf
      BY <1>5, <2>1
    <3>2. i + 1 = Len(Chain)
      BY <1>2, <3>1 DEF FlagInv
    <3>3. QED
      BY <1>5, <3>2
  <2>2. QED
    BY <1>1, <1>2, <2>1 DEF FlagInv
<1>7. FlightOrder' /\ /\ delivered' \in Seq(Nat) /\ Contents(mem', Chain') \in Seq(Nat)
                      /\ Unwritten' \in Seq(Nat)
  BY <1>1, NextTypes DEF OrderInv, FlightTypes
<1>8. ASSUME eof' PROVE main' /\ done' /\ delivered' = Bytes(0, nbytes)
  <2>1. CASE eof
    <3>1. main /\ done /\ delivered = Bytes(0, nbytes)
      BY <1>2, <2>1 DEF EofIsLast
    <3> DEFINE rest == Contents(mem', Chain') \o Unwritten'
    <3>2. rest \in Seq(Nat) /\ delivered' \o rest = Bytes(0, nbytes)
      BY <1>1, <1>7, Associative DEF FlightOrder
    <3> HIDE DEF rest
    <3>3. Len(delivered') \in Nat /\ Len(delivered') <= nbytes /\ delivered' = Bytes(0, Len(delivered'))
      BY <1>4, <1>7, <3>2, PrefixOfBytes
    <3>4. Len(delivered) = nbytes
      BY <1>4, <3>1, BytesFollow
    <3>5. Len(delivered') = Len(delivered) + Len(mem[h].data) /\ Len(mem[h].data) \in Nat
      <4> DEFINE data == mem[h].data
      <4>1. data \in Seq(Nat) /\ delivered' = delivered \o data
        BY <1>1, <1>4
      <4> HIDE DEF data
      <4>2. Len(delivered \o data) = Len(delivered) + Len(data) /\ Len(data) \in Nat
        BY <1>4, <4>1, ConcatProperties, LenProperties
      <4>3. QED
        BY <4>1, <4>2 DEF data
    <3>6. Len(delivered') = nbytes
      BY <1>4, <3>3, <3>4, <3>5
    <3>7. QED
      BY <1>1, <3>1, <3>3, <3>6
  <2>2. CASE mem[h].last_buf
    <3>1. main /\ done /\ pc \in Sending \cup {"handler"}
      BY <1>2, <1>3, <2>2 DEF FlagInv
    <3>2. Len(Chain') = 0
      <4>1. 1 \in 1..Len(Chain) /\ mem[Chain[1]].last_buf
        BY <1>5, <2>2
      <4>2. 1 = Len(Chain)
        BY <1>2, <4>1 DEF FlagInv
      <4>3. QED
        BY <1>5, <4>2
    <3>3. Chain' = << >>
      BY <1>3, <3>2, EmptySeq
    <3>4. Contents(mem', Chain') = << >>
      BY <3>3, ContentsOfNone
    <3>5. Unwritten' = << >>
      BY <3>1 DEF SendInv, CallInv, Sending, Drain, Unwritten, writerVars, handlerVars
    <3>6. << >> \o << >> = << >> /\ delivered' \o << >> = delivered'
      BY <1>7, NothingAdded, EmptySeq
    <3>7. delivered' = Bytes(0, nbytes)
      BY <1>1, <1>7, <3>4, <3>5, <3>6 DEF FlightOrder
    <3>8. QED
      BY <1>1, <3>1, <3>7
  <2>3. QED
    BY <1>1, <1>8, <2>1, <2>2
<1>9. QED
  BY <1>1, <1>6, <1>8 DEF EofInv, EofIsLast

LEMMA EofStep ==
  SendInv /\ OrderInv /\ EofInv /\ SendInv' /\ OrderInv' /\ [Next]_vars => EofInv'
<1> SUFFICES ASSUME SendInv, OrderInv, EofInv, SendInv', OrderInv', [Next]_vars PROVE EofInv'
  OBVIOUS
<1>0. /\ OwnInv /\ TypeInv /\ CallInv /\ TypeInv' /\ TypeOK /\ RoomGranted /\ EofIsLast
  BY DEF SendInv, SpaceInv, OwnInv, TypeInv, EofInv
<1>live. ~dead => FlagInv
  BY DEF EofInv
<1>kept. ASSUME UNCHANGED <<main, done, nbytes, delivered, eof>> PROVE EofIsLast'
  BY <1>0, <1>kept DEF EofIsLast
<1>1. CASE Enter \/ Return \/ UpdateChainsReturns \/ UNCHANGED vars
  <2>1. /\ UNCHANGED <<dead, delivered, eof, main, done, nbytes, mem, held, out,
                        avail_out, out_buf, postponed, piece>>
        /\ \/ pc' = pc
           \/ pc \in {"event", "send", "update_chains"} /\ pc' \in {"event", "send", "handler"}
    BY <1>1 DEF Enter, Return, UpdateChainsReturns, vars, handlerVars, chainVars, writerVars, clientVars
  <2>2. Chain' = Chain
    BY <2>1 DEF Chain, Unsent, Writable
  <2>3. ~dead => FlagInv'
    BY <1>0, <1>live, <2>1, <2>2, SameFlags DEF Sending
  <2>4. QED
    BY <1>kept, <2>1, <2>3 DEF EofInv
<1>2. ASSUME NEW n \in 0..MaxLen, NEW last \in BOOLEAN, Output(n, last)
      PROVE  EofInv'
  <2>1. /\ UNCHANGED <<dead, main, delivered, eof, mem, held, out, avail_out, out_buf, postponed>>
        /\ pc = "handler" /\ pc' = "get_buf" /\ ~done /\ done' = last
        /\ piece'.last_buf = (last /\ main)
    BY <1>2 DEF Output, MarksLast, chainVars, writerVars, clientVars
  <2>2. ~dead /\ FlagInv /\ Chain' = Chain /\ Chain \in Seq(1..Len(mem))
    BY <1>0, <1>live, <2>1, ChainType DEF CallInv, Chain, Unsent, Writable
  <2>3. \A b \in 1..Len(mem) : ~mem[b].last_buf
    BY <2>1, <2>2 DEF FlagInv
  <2>4. FlagInv'
    BY <2>1, <2>2, <2>3, ElementOfSeq DEF FlagInv
  <2>5. ~eof
    BY <1>0, <2>1 DEF EofIsLast
  <2>6. QED
    BY <2>1, <2>4, <2>5 DEF EofInv, EofIsLast
<1>3. CASE HandlerFails \/ GetBufFails \/ PostponeFails \/ NextBodyFilterFails
  BY <1>3, <1>kept DEF HandlerFails, GetBufFails, PostponeFails, NextBodyFilterFails,
     Fail, EofInv, handlerVars, clientVars
<1>4. CASE GetBuf
  <2>1. /\ UNCHANGED <<dead, main, done, nbytes, delivered, eof, piece>> /\ pc = "get_buf"
        /\ mem' = mem \/ mem' = Append(mem, [data |-> << >>, last_buf |-> FALSE])
    BY <1>4 DEF GetBuf, KeepBuf, ReuseBuf, CreateBuf, handlerVars, clientVars
  <2>2. ~dead /\ FlagInv /\ Chain' \in Seq(1..Len(mem'))
    BY <1>0, <1>live, <2>1, NextTypes DEF CallInv, FlightTypes
  <2>3. \A b \in 1..Len(mem) : ~mem[b].last_buf
    BY <2>1, <2>2 DEF FlagInv, Sending
  <2>4. mem \in Seq(Buf) /\ [data |-> << >>, last_buf |-> FALSE] \in Buf
    BY <1>0, EmptySeq DEF TypeOK, Buf
  <2>5. \A b \in 1..Len(mem') : ~mem'[b].last_buf
    <3>1. CASE mem' = mem
      BY <2>3, <3>1
    <3>2. CASE mem' = Append(mem, [data |-> << >>, last_buf |-> FALSE])
      BY <2>3, <2>4, <3>2, AppendProperties
    <3>3. QED
      BY <2>1, <3>1, <3>2
  <2>6. FlagInv'
    BY <2>1, <2>2, <2>5, ElementOfSeq DEF FlagInv
  <2>7. QED
    BY <1>kept, <2>1, <2>6 DEF EofInv
<1>5. CASE SubmitDirect \/ CopyPostponed
  <2>1. /\ pc \in {"request_mem", "submit_mem"} /\ ~dead /\ avail_out > 0
        /\ UNCHANGED <<main, done, nbytes, delivered, eof, piece>>
    BY <1>0, <1>5 DEF SubmitDirect, CopyPostponed, RoomGranted, CallInv, handlerVars, clientVars
  <2>2. CASE dead'
    BY <1>kept, <2>1, <2>2 DEF EofInv
  <2>3. CASE ~dead'
    <3>1. FlagInv /\ Unsent = out /\ Chain' = Chain
      BY <1>0, <1>live, <1>5, <2>1, <2>3, WriteKeepsChain DEF Unsent
    <3>2. \A b \in 1..Len(mem) : ~mem[b].last_buf
      BY <2>1, <3>1 DEF FlagInv, Sending
    <3>3. PICK bytes \in Seq(Nat), flag \in BOOLEAN :
            /\ mem' = Filled(bytes, flag)
            /\ flag => piece.last_buf /\ pc' = "handler"
      <4>1. CASE SubmitDirect
        <5>1. piece.bytes \in Seq(Nat) /\ piece.last_buf \in BOOLEAN
          BY <1>0 DEF TypeOK
        <5>2. mem' = Filled(piece.bytes, piece.last_buf) /\ pc' = "handler"
          BY <2>3, <4>1 DEF SubmitDirect
        <5>3. QED
          BY <5>1, <5>2
      <4>2. CASE CopyPostponed
        <5> DEFINE taken == SubSeq(postponed, 1, CopyLen)
                   flag == CopiedFlag(postponed', avail_out')
        <5>1. /\ postponed \in Seq(Nat) /\ Len(postponed) \in Nat /\ postponed # << >>
              /\ avail_out \in Nat
          BY <1>0, <2>1, <4>2, LenProperties DEF TypeOK, CallInv, CopyPostponed
        <5>2. CopyLen \in 1..Len(postponed)
          BY <2>1, <5>1, EmptySeq, LenProperties DEF CopyLen
        <5>3. taken \in Seq(Nat)
          BY <5>1, <5>2, SubSeqSplit
        <5>4. mem' = Filled(taken, flag) /\ pc' = (IF postponed' = << >> THEN "handler" ELSE "get_buf")
          BY <2>3, <4>2 DEF CopyPostponed
        <5>5. ~mem[out_buf].last_buf /\ mem[out_buf].last_buf \in BOOLEAN /\ piece.last_buf \in BOOLEAN
          <6>1. out_buf \in 1..Len(mem) /\ mem[out_buf] \in Buf
            BY <1>0, <2>1 DEF TypeOK
          <6>2. QED
            BY <1>0, <3>2, <6>1 DEF Buf, TypeOK
        <5>6. flag \in BOOLEAN /\ (flag => piece.last_buf /\ pc' = "handler")
          BY <5>4, <5>5 DEF CopiedFlag
        <5> HIDE DEF taken, flag
        <5>7. QED
          BY <5>3, <5>4, <5>6
      <4>3. QED
        BY <1>5, <4>1, <4>2
    <3>4. /\ \A b \in 1..Len(mem') : mem'[b].last_buf => flag
          /\ \A i \in 1..Len(Chain') : mem'[Chain'[i]].last_buf => i = Len(Chain')
      BY <1>0, <2>1, <3>1, <3>2, <3>3, FillFlag
    <3>5. FlagInv'
      BY <2>1, <3>1, <3>3, <3>4 DEF FlagInv, Sending
    <3>6. QED
      BY <1>kept, <2>1, <3>5 DEF EofInv
  <2>4. QED
    BY <2>2, <2>3
<1>6. CASE Postpone
  <2>1. /\ UNCHANGED <<dead, main, done, nbytes, delivered, eof, mem, held, out, avail_out, out_buf, piece>>
        /\ pc = "request_mem" /\ pc' = "submit_mem"
    BY <1>6 DEF Postpone, handlerVars, chainVars, clientVars
  <2>2. Chain' = Chain /\ ~dead
    BY <1>0, <2>1 DEF CallInv, Chain, Unsent, Writable
  <2>3. FlagInv'
    BY <1>0, <1>live, <2>1, <2>2, SameFlags DEF FlagInv, Sending
  <2>4. QED
    BY <1>kept, <2>1, <2>3 DEF EofInv
<1>7. CASE OutputBufs \/ NextBodyFilter \/ NextBodyFilterReturns
  <2>1. /\ UNCHANGED <<main, done, nbytes, delivered, eof, mem, piece>> /\ ~dead
        /\ dead' \/ pc' \in Sending
    BY <1>0, <1>7 DEF OutputBufs, NextBodyFilter, NextBodyFilterReturns, CallInv, Sending,
       handlerVars, clientVars
  <2>2. CASE dead'
    BY <1>kept, <2>1, <2>2 DEF EofInv
  <2>3. CASE ~dead'
    <3>1. Chain' = Chain
      BY <1>0, <1>7, <2>3, SendKeepsChain
    <3>2. FlagInv'
      BY <1>0, <1>live, <2>1, <2>3, <3>1, SameFlags
    <3>3. QED
      BY <1>kept, <2>1, <3>2 DEF EofInv
  <2>4. QED
    BY <2>2, <2>3
<1>8. CASE Drain
  <2>1. ~dead
    BY <1>8 DEF Drain
  <2>2. QED
    BY <1>0, <1>8, <2>1, DrainEof
<1>9. CASE Recycle
  <2>1. /\ UNCHANGED <<pc, dead, main, done, nbytes, delivered, eof, held, out, avail_out, out_buf, piece>>
        /\ ~dead
        /\ mem' = [mem EXCEPT ![Head(busy_bufs)] = [data |-> << >>, last_buf |-> @.last_buf]]
    BY <1>0, <1>9 DEF Recycle, CallInv, handlerVars, writerVars, clientVars
  <2>2. Chain' = Chain
    BY <2>1 DEF Chain, Unsent, Writable
  <2>3. Len(mem') = Len(mem) /\ \A b \in 1..Len(mem) : mem'[b].last_buf = mem[b].last_buf
    BY <1>0, <2>1, SMTT(30) DEF TypeOK
  <2>4. FlagInv'
    BY <1>0, <1>live, <2>1, <2>2, <2>3, SameFlags
  <2>5. QED
    BY <1>kept, <2>1, <2>4 DEF EofInv
<1>10. QED
  BY <1>1, <1>2, <1>3, <1>4, <1>5, <1>6, <1>7, <1>8, <1>9 DEF Next, Write, Send

LEMMA EofInvariant == Spec => [](SendInv /\ OrderInv /\ EofInv)
<1>1. Init => EofInv
  BY InitEof
<1>2. QED
  BY <1>1, EofStep, OrderInvariant, PTL DEF Spec

\* The mark of the last buf reaches the client after the last byte of the
\* response and in a main request only, although bufs keep their last_buf
\* when they are recycled and the mark is set in three places.
THEOREM EofComesLast == Spec => []EofIsLast
<1>1. EofInv => EofIsLast
  BY DEF EofInv
<1>2. QED
  BY <1>1, EofInvariant, PTL

-----------------------------------------------------------------------------
(* What the handlers and the client can see of output.c.                   *)

\* The client has the first bytes of the response, in order: all of them when
\* it has seen the mark, or when it holds nothing after a call that followed the
\* end of the response; and what the next filters hold is not empty.
ClientSide ==
  /\ delivered \in Seq(Nat) /\ nbytes \in Nat /\ eof \in BOOLEAN /\ dead \in BOOLEAN
  /\ Len(delivered) \in 0..nbytes /\ delivered = Bytes(0, Len(delivered))
  /\ eof => done /\ Len(delivered) = nbytes
  /\ (pc = "event" /\ ~dead /\ done /\ held = << >>) => Len(delivered) = nbytes
  /\ held # << >> => mem[Head(held)].data \in Seq(Nat) /\ mem[Head(held)].data # << >>

\* Nothing more is delivered when the request is dead.
Received == Len(delivered) \in 0..nbytes /\ delivered = Bytes(0, Len(delivered))

LEMMA ReceivedStep ==
  SendInv' /\ OrderInv' /\ SendInv /\ Received /\ [Next]_vars => Received'
<1> SUFFICES ASSUME SendInv', OrderInv', SendInv, Received, [Next]_vars PROVE Received'
  OBVIOUS
<1>1. CASE ~dead'
  <2>1. delivered' \o (Contents(mem', Chain') \o Unwritten') = Bytes(0, nbytes')
    BY <1>1 DEF OrderInv, FlightOrder
  <2>2. TypeInv'
    BY DEF SendInv, SpaceInv, OwnInv
  <2>3. nbytes' \in Nat
    BY <2>2 DEF TypeInv, TypeOK
  <2> DEFINE d == delivered'
             rest == Contents(mem', Chain') \o Unwritten'
             n == nbytes'
  <2>4. d \in Seq(Nat) /\ rest \in Seq(Nat) /\ n \in Nat /\ d \o rest = Bytes(0, n)
    BY <2>1, <2>2, <2>3, NextTypes, ConcatProperties DEF FlightTypes
  <2> HIDE DEF d, rest, n
  <2>5. Len(d) \in Nat /\ Len(d) <= n /\ d = Bytes(0, Len(d))
    BY <2>4, PrefixOfBytes
  <2>6. QED
    BY <2>4, <2>5 DEF Received, d, n
<1>2. CASE dead'
  <2>1. UNCHANGED <<delivered, nbytes>>
    BY <1>2 DEF SendInv, CallInv, Next, Write, Send, Enter, Output, HandlerFails, GetBuf,
       GetBufFails, SubmitDirect, Postpone, PostponeFails, CopyPostponed, OutputBufs, Return,
       NextBodyFilter, NextBodyFilterReturns, NextBodyFilterFails, Recycle, UpdateChainsReturns,
       Drain, vars, handlerVars, clientVars
  <2>2. QED
    BY <2>1 DEF Received
<1>3. QED
  BY <1>1, <1>2

LEMMA ClientSeen ==
  ASSUME SendInv, OrderInv, EofInv, Received
  PROVE  ClientSide
<1>1. TypeInv /\ TypeOK /\ CallInv
  BY DEF SendInv, SpaceInv, OwnInv, TypeInv
<1>2. delivered \in Seq(Nat) /\ nbytes \in Nat /\ eof \in BOOLEAN /\ dead \in BOOLEAN
  BY <1>1 DEF TypeOK
<1>3. Len(Bytes(0, nbytes)) = nbytes
  BY <1>2, BytesFollow
<1>4. eof => done /\ Len(delivered) = nbytes
  BY <1>3 DEF EofInv, EofIsLast
<1>5. ASSUME pc = "event", ~dead, done, held = << >>
      PROVE  Len(delivered) = nbytes
  <2>1. postponed = << >> /\ avail_out = 0 /\ out = << >>
    BY <1>1, <1>5 DEF CallInv, Sending
  <2>2. Unwritten = << >> /\ Unsent = << >> /\ Writable = << >>
    BY <1>5, <2>1 DEF Unwritten, Unsent, Writable
  <2>3. Chain = << >>
    BY <1>5, <2>2, NothingAdded, EmptySeq DEF Chain
  <2>4. Contents(mem, Chain) = << >>
    BY <1>1, <2>3, ContentsOfNone, ChainType
  <2>5. delivered \o (<< >> \o << >>) = Bytes(0, nbytes)
    BY <1>5, <2>2, <2>4 DEF OrderInv, FlightOrder
  <2>6. delivered \o << >> = delivered /\ << >> \o << >> = << >>
    BY <1>2, NothingAdded, EmptySeq
  <2>7. QED
    BY <1>3, <2>5, <2>6
<1>6. ASSUME held # << >>
      PROVE  mem[Head(held)].data \in Seq(Nat) /\ mem[Head(held)].data # << >>
  <2>1. Head(held) \in ToSet(held) /\ Head(held) \in Bufs
    BY <1>1, <1>6, HeadAndTail, ElementsOf DEF TypeOK
  <2>2. mem[Head(held)] \in Buf
    BY <1>1, <2>1, ElementOfSeq DEF TypeOK, Bufs
  <2>3. QED
    BY <2>1, <2>2 DEF Buf, SendInv, SentInv, SentFilled
<1>7. QED
  BY <1>2, <1>4, <1>5, <1>6 DEF ClientSide, Received

LEMMA ClientSideHolds == Spec => []ClientSide
<1>1. Init => Received
  <2>1. Len(<< >>) = 0 /\ Bytes(0, 0) = << >>
    BY EmptySeq DEF Bytes
  <2>2. QED
    BY <2>1 DEF Init, Received
<1>2. SendInv /\ OrderInv /\ EofInv /\ Received => ClientSide
  BY ClientSeen
<1>3. QED
  BY <1>1, <1>2, ReceivedStep, EofInvariant, PTL DEF Spec

-----------------------------------------------------------------------------
(* output.c implements the byte pipe.                                      *)

LEMMA InitImplements == Init => Sink!SinkInit
  BY DEF Init, Sink!SinkInit

LEMMA DrainConsumes ==
  ASSUME SendInv, OrderInv', TypeInv', ~dead, Drain
  PROVE  Sink!Consume
<1> DEFINE data == mem[Head(held)].data
           rest == Contents(mem', Chain') \o Unwritten'
<1>1. /\ UNCHANGED <<dead, mem, done, nbytes>> /\ delivered' = delivered \o data
      /\ held # << >>
  BY DEF Drain, handlerVars
<1>2. TypeInv /\ TypeOK
  BY DEF SendInv, SpaceInv, OwnInv, TypeInv
<1>3. data \in Seq(Nat) /\ delivered \in Seq(Nat) /\ nbytes \in Nat
  BY <1>2, ContentsOfOne, ChainType, FlightType, DrainTakesFirst
<1>4. data # << >>
  <2>1. Head(held) \in ToSet(held)
    BY <1>1, <1>2, HeadAndTail DEF TypeOK
  <2>2. QED
    BY <2>1 DEF SendInv, SentInv, SentFilled
<1>5. rest \in Seq(Nat) /\ delivered' \in Seq(Nat) /\ delivered' \o rest = Bytes(0, nbytes)
  BY <1>1, NextTypes, Associative DEF OrderInv, FlightOrder, FlightTypes
<1> HIDE DEF data, rest
<1>6. Len(delivered') \in Nat /\ Len(delivered') <= nbytes /\ delivered' = Bytes(0, Len(delivered'))
  BY <1>3, <1>5, PrefixOfBytes
<1>7. /\ Len(delivered') = Len(delivered) + Len(data)
      /\ Len(data) \in Nat /\ Len(data) # 0 /\ Len(delivered) \in Nat
  BY <1>1, <1>3, <1>4, ConcatProperties, LenProperties, EmptySeq
<1>8. Len(delivered') \in (Len(delivered) + 1)..nbytes
  BY <1>3, <1>6, <1>7
<1>9. Bytes(0, Len(delivered')) = Sink!FirstBytes(Len(delivered'))
  BY <1>6 DEF Bytes, Sink!FirstBytes
<1>10. QED
  BY <1>1, <1>6, <1>8, <1>9 DEF Sink!Consume

LEMMA StepImplements ==
  SendInv /\ SendInv' /\ OrderInv' /\ [Next]_vars => [Sink!SinkNext]_(Sink!sinkVars)
<1> SUFFICES ASSUME SendInv, SendInv', OrderInv', [Next]_vars
             PROVE  Sink!SinkNext \/ UNCHANGED <<nbytes, delivered, done, dead>>
  BY DEF Sink!sinkVars
<1>0. /\ TypeInv /\ TypeOK /\ CallInv /\ TypeInv'
  BY DEF SendInv, SpaceInv, OwnInv, TypeInv
<1>1. CASE Enter \/ Return \/ UpdateChainsReturns \/ GetBuf \/ Postpone \/ NextBodyFilter
           \/ NextBodyFilterReturns \/ Recycle \/ UNCHANGED vars
  BY <1>1 DEF Enter, Return, UpdateChainsReturns, GetBuf, Postpone, NextBodyFilter,
     NextBodyFilterReturns, Recycle, vars, handlerVars, chainVars, writerVars, clientVars
<1>2. ASSUME NEW n \in 0..MaxLen, NEW last \in BOOLEAN, Output(n, last)
      PROVE  Sink!Produce
  BY <1>0, <1>2, BoundsAssumption DEF Output, CallInv, TypeOK, Sink!Produce, clientVars
<1>3. CASE HandlerFails \/ GetBufFails \/ PostponeFails \/ NextBodyFilterFails
           \/ SubmitDirect \/ CopyPostponed \/ OutputBufs
  <2>1. ~dead /\ UNCHANGED <<nbytes, delivered, done>> /\ dead' \in BOOLEAN
    BY <1>0, <1>3 DEF HandlerFails, GetBufFails, PostponeFails, NextBodyFilterFails,
       SubmitDirect, CopyPostponed, OutputBufs, CallInv, handlerVars, clientVars, TypeInv, TypeOK
  <2>2. dead' = dead \/ dead' = TRUE
    BY <1>0, <2>1 DEF TypeOK
  <2>3. QED
    BY <2>1, <2>2 DEF Sink!SinkNext, Sink!Abort
<1>4. CASE Drain
  <2>1. ~dead
    BY <1>4 DEF Drain
  <2>2. QED
    BY <1>0, <1>4, <2>1, DrainConsumes DEF Sink!SinkNext
<1>5. QED
  BY <1>1, <1>2, <1>3, <1>4 DEF Next, Write, Send, Sink!SinkNext

\* What the handlers emit comes out at the client's side in order, each step
\* of output.c being one of the byte pipe's or invisible to it: the safety
\* part of ImplementsSink.
THEOREM StepsImplementSink == Spec => Sink!SinkInit /\ [][Sink!SinkNext]_(Sink!sinkVars)
<1>1. QED
  BY InitImplements, StepImplements, OrderInvariant, PTL DEF Spec
=============================================================================
