SPECIFICATION Spec
CONSTANTS
  MaxBlocks = 3
  MaxLoads = 4
INVARIANT TypeOK
INVARIANT NoLoop
INVARIANT UsedIsRegistered
INVARIANT ServedAfterLoad
PROPERTY UnusedIsSkipped
\* Loads are bounded, and nginx may not start.
CHECK_DEADLOCK FALSE
