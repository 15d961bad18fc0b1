\* Two threads, a call each; a kernel that prints, asks or falls silent.
SPECIFICATION FairSpec
CONSTANTS
  Caller = {c1, c2}
  MaxCalls = 2
  MaxWire = 1
  MaxQueue = 2
  MaxTrouble = 1
INVARIANT GuardIsOwn
INVARIANT InTimeIsNoTimeout
INVARIANT OneReply
INVARIANT KernelIsNamed
PROPERTY CallsEnd
\* Calls are bounded.
CHECK_DEADLOCK FALSE
