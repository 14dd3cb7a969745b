---------------------------- MODULE MCRdsJsonRet ----------------------------
(***************************************************************************)
(* A configuration file for TLC: a server with one location and an if      *)
(* block in it.  "$v" is an nginx variable, which may turn out empty.      *)
(***************************************************************************)
EXTENDS RdsJsonRet

MCBlocks == {"server", "location", "if"}

\* The http block stands for the server, the only one in it.
MCEnclosing ==
  [b \in MCBlocks |->
     CASE b = "server"   -> {"server"}
       [] b = "location" -> {"server", "location"}
       [] b = "if"       -> {"server", "location", "if"}]

MCKind == [b \in MCBlocks |-> b]

MCCodes == {<<0>>, <<0, 1>>}
=============================================================================
