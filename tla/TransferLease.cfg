\* Two pids, each used by up to three processes one after another.
SPECIFICATION FairSpec
CONSTANTS
  Pid = {p1, p2}
  NoPid = NoPid
  MaxStarts = 2
  MaxProgress = 1
INVARIANT SingleWriter
INVARIANT LeaseInv
PROPERTY LiveOwnerNeverRecycled
PROPERTY OwnershipSpec
PROPERTY LockIsGivenBack
\* Starts are bounded, so the system stops when every process has ended.
CHECK_DEADLOCK FALSE
