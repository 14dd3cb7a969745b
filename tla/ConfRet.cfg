SPECIFICATION Spec
CONSTANTS
  Blocks <- MCBlocks
  Http = "server"
  Enclosing <- MCEnclosing
  Kind <- MCKind
  Texts = {"", "a", "$v"}
  Codes <- MCCodes
  MaxDirectives = 3
  Variable = "$v"
INVARIANT TypeOK
INVARIANT MergedIsInherited
INVARIANT EnabledIsRequired
INVARIANT EmitsItsDirectives
\* A request is served once.
CHECK_DEADLOCK FALSE
