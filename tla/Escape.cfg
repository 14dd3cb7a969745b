SPECIFICATION Spec
CONSTANT Texts <- MCTexts
INVARIANT TypeOK
INVARIANT FillsItsMemory
INVARIANT NeverOverruns
INVARIANT ReadsBack
\* The second call returns.
CHECK_DEADLOCK FALSE
