\* A tail call fails after another of the same drain.
SPECIFICATION Spec
CONSTANTS
  MaxLog = 2
  MaxBytes = 1
  MaxChunks = 2
  MaxErrors = 2
  MaxRuns = 1
  MaxBoots = 0
INVARIANT NoByteTwice
\* Runs are bounded.
CHECK_DEADLOCK FALSE
