SPECIFICATION Spec
CONSTANTS
  Blocks <- MCBlocks
  Http = "server"
  Enclosing <- MCEnclosing
  Kind <- MCKind
  Texts = {"", "a", "$v"}
  Codes <- MCCodes
  MaxDirectives = 3
  Variable = "$v"
INVARIANT RetHasArguments
\* A request is served once.
CHECK_DEADLOCK FALSE
