SPECIFICATION FairSpec
CONSTANTS
  BufSize = 2
  MaxLen = 3
  MaxBytes = 5
PROPERTY ResponseCompletes
PROPERTY ImplementsSink
\* The system stops when the response is complete or the request failed.
CHECK_DEADLOCK FALSE
