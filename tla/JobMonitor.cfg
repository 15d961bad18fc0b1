\* Runs of the monitor are killed, interrupted and restarted, the VM is replaced,
\* and any call may fail; or a wait or a tail reads the job; liveness.
SPECIFICATION ClientsSpec
CONSTANTS
  MaxLog = 2
  MaxBytes = 1
  MaxChunks = 1
  MaxErrors = 2
  MaxRuns = 2
  MaxBoots = 1
  Client = {"monitor", "wait", "tail"}
INVARIANT EvidenceIsPrefix
INVARIANT EvidenceIsComplete
INVARIANT MonitorInv
INVARIANT WaitIsComplete
PROPERTY RunEnds
\* Runs are bounded.
CHECK_DEADLOCK FALSE
