\* A run is killed before the state write of its first poll, and the VM is
\* replaced before the next run.
SPECIFICATION Spec
CONSTANTS
  MaxLog = 1
  MaxBytes = 1
  MaxChunks = 1
  MaxErrors = 1
  MaxRuns = 2
  MaxBoots = 1
INVARIANT OneRuntime
\* Runs are bounded.
CHECK_DEADLOCK FALSE
