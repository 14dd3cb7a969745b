SPECIFICATION Spec
CONSTANTS
  MaxBlocks = 3
  MaxLoads = 4
INVARIANT EveryWorkerConverts
\* Loads are bounded, and nginx may not start.
CHECK_DEADLOCK FALSE
