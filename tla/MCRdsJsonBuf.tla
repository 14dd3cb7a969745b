---------------------------- MODULE MCRdsJsonBuf ----------------------------
(***************************************************************************)
(* The instances of RdsJsonBuf that TLC checks.  The constants are given   *)
(* in the .cfg files; a piece may be longer than two bufs, and a response  *)
(* fills several of them.                                                  *)
(***************************************************************************)
EXTENDS RdsJsonBuf

\* The pieces are long enough to straddle a buf boundary with a rest on
\* either side, which is what the bounds have to allow.
ASSUME BoundsReachBoundary == MaxLen > BufSize /\ MaxBytes > 2 * BufSize
=============================================================================
