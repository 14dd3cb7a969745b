--------------------------- MODULE MCRdsJsonSizes ---------------------------
(***************************************************************************)
(* Small lengths for RdsJsonSizes, and numbers on both sides of a power of *)
(* ten.                                                                    *)
(***************************************************************************)
EXTENDS RdsJsonSizes

\* Empty, plain, and with escapes of one and of five more bytes.
MCTexts == {[len |-> 0, esc |-> 0], [len |-> 1, esc |-> 0],
            [len |-> 1, esc |-> 5], [len |-> 2, esc |-> 1]}

MCProps == {[count |-> 0, keys |-> 0, len |-> 0, esc |-> 0],
            [count |-> 1, keys |-> 3, len |-> 1, esc |-> 0],
            [count |-> 2, keys |-> 7, len |-> 3, esc |-> 6]}
=============================================================================
