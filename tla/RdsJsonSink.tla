---------------------------- MODULE RdsJsonSink ----------------------------
(***************************************************************************)
(* What the output side of the filter promises to the rest of the response *)
(* chain: a byte pipe.  The handlers append bytes until they close the     *)
(* stream; the client receives a growing prefix of exactly these bytes, in *)
(* order; the request may be aborted at any time; a closed stream that is  *)
(* not aborted is received to its last byte.                               *)
(*                                                                         *)
(* No line of the repository is translated here: this is the contract that *)
(* RdsJsonBuf, the module of output.c, is shown to implement.              *)
(***************************************************************************)
EXTENDS Naturals, Sequences

VARIABLES
  sent,    \* number of bytes the handlers have produced: bytes 1 .. sent
  got,     \* the bytes the client side has received, in order
  closed,  \* the handlers will produce nothing more
  aborted  \* the request was finalized with an error

sinkVars == <<sent, got, closed, aborted>>

FirstBytes(n) == [i \in 1..n |-> i]

SinkInit ==
  /\ sent = 0
  /\ got = << >>
  /\ closed = FALSE
  /\ aborted = FALSE

\* The handlers emit the next bytes, and may say that these are the last.
Produce ==
  /\ ~closed
  /\ ~aborted
  /\ sent' \in Nat /\ sent' >= sent
  /\ closed' \in BOOLEAN
  /\ UNCHANGED <<got, aborted>>

\* The client side takes some of the bytes it is missing.
Consume ==
  /\ ~aborted
  /\ \E k \in (Len(got) + 1)..sent : got' = FirstBytes(k)
  /\ UNCHANGED <<sent, closed, aborted>>

Abort ==
  /\ ~aborted
  /\ aborted' = TRUE
  /\ UNCHANGED <<sent, got, closed>>

SinkNext ==
  \/ Produce
  \/ Consume
  \/ Abort

SinkSpec ==
  /\ SinkInit
  /\ [][SinkNext]_sinkVars
  /\ WF_sinkVars(closed /\ Consume)
=============================================================================
