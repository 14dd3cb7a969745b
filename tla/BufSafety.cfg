SPECIFICATION Spec
CONSTANTS
  BufSize = 3
  MaxLen = 7
  MaxBytes = 9
INVARIANT TypeOK
INVARIANT BufferOwnership
INVARIANT SpaceAccounted
INVARIANT NoEmptyBufSent
INVARIANT BytesInOrder
INVARIANT EofIsLast
INVARIANT NothingRetained
PROPERTY HeldBufsUntouched
\* The system stops when the response is complete or the request failed.
CHECK_DEADLOCK FALSE
