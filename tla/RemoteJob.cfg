\* Every failure, and liveness: two VMs, kernel restarts, runner crashes, failing writes.
SPECIFICATION FairSpec
CONSTANTS
  MaxBoots = 1
  KernelRestarts = TRUE
  RunnerCrashes = TRUE
  WriteFaults = TRUE
INVARIANT LostIsTrue
INVARIANT VerdictIsReal
INVARIANT CancelStopsTheJob
INVARIANT JobInv
PROPERTY AnswersAreFinal
PROPERTY DeadRunnerIsNoticed
PROPERTY CancelEnds
\* A submission cut off before the status exists leaves a job nobody can run.
CHECK_DEADLOCK FALSE
