SPECIFICATION Spec
CONSTANTS
  Texts <- MCTexts
  Props <- MCProps
  Numbers = {0, 9, 10, 999999999}
  ErrCodes = {0, 9, 10, 65535}
  Counts = {0, 1, 2, 3}
INVARIANT TypeOK
INVARIANT FitsExactly
\* A response is complete, or a setter has returned.
CHECK_DEADLOCK FALSE
