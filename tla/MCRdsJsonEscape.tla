-------------------------- MODULE MCRdsJsonEscape --------------------------
(***************************************************************************)
(* The texts for RdsJsonEscape: every byte alone and next to one of its    *)
(* class, and triples.                                                     *)
(***************************************************************************)
EXTENDS RdsJsonEscape

\* A byte of every class: a short escape, a control character, the last of
\* these, plain ones, and a byte of a UTF-8 sequence.
Sample == {10, 12, 34, 92, 0, 31, 32, 117, 127, 128, 255}

MCTexts == {<< >>} \cup {<<c>> : c \in Bytes} \cup {<<c, d>> : c, d \in Sample}
             \cup {<<c, d, e>> : c, d, e \in {10, 92, 31, 128}}
=============================================================================
