SPECIFICATION Spec
CONSTANTS
  BufSize = 2
  MaxLen = 3
  MaxBytes = 5
INVARIANT LastBufDelivered
\* The system stops when the response is complete or the request failed.
CHECK_DEADLOCK FALSE
