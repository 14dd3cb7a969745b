--------------------------- MODULE RdsJsonPromise ---------------------------
(***************************************************************************)
(* What the module promises to a client for one response that it converts: *)
(* one response header; after a 200 header a growing prefix of the JSON    *)
(* text of the result set; the mark that ends the response only after the  *)
(* last byte of this text, or right after a 500 header.  A request that    *)
(* fails midway is cut off, never ended as if it were whole.               *)
(*                                                                         *)
(* No line of the repository is translated here: this is the contract that *)
(* RdsJsonRequest, the whole of the module, is shown to implement.         *)
(***************************************************************************)
EXTENDS Integers, Sequences, SequencesExt

VARIABLES
  text,      \* the JSON text of the result set; never changes
  status,    \* the response headers sent
  got,       \* what the client has received of the text
  complete,  \* the client has been told that the response ends here
  aborted    \* the request was finalized with an error

promiseVars == <<text, status, got, complete, aborted>>

PromiseInit ==
  /\ status = << >>
  /\ got = << >>
  /\ complete = FALSE
  /\ aborted = FALSE

\* The result set is refused, or promised.
Answer ==
  /\ status = << >> /\ ~aborted
  /\ \/ status' = <<200>> /\ complete' = FALSE
     \/ status' = <<500>> /\ complete' \in BOOLEAN
  /\ aborted' \in BOOLEAN
  /\ UNCHANGED <<text, got>>

\* The client gets some of what it is missing; the end mark may come with it.
Deliver ==
  /\ status = <<200>> /\ ~complete /\ ~aborted
  /\ IsPrefix(got, got') /\ IsPrefix(got', text)
  /\ complete' \in BOOLEAN
  /\ complete' => got' = text
  /\ UNCHANGED <<text, status, aborted>>

Abort ==
  /\ ~aborted
  /\ aborted' = TRUE
  /\ UNCHANGED <<text, status, got, complete>>

PromiseNext == Answer \/ Deliver \/ Abort

PromiseSpec == PromiseInit /\ [][PromiseNext]_promiseVars
=============================================================================
