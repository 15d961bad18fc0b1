\* Any two commands at a time, on the same session or on different ones; failures,
\* kills, lost and unheard answers, errors misread.
SPECIFICATION Spec
CONSTANTS
  Name = {a, b}
  Slot = {c1, c2}
  Command = {"new", "run", "attach", "stop", "release", "sync", "exec", "console"}
  Connect = TRUE
  Mortal = {"new", "run", "attach", "stop"}
  MaxVMs = 2
  MaxPids = 1
  MaxTrouble = 1
INVARIANT TypeOK
INVARIANT VMIsAccountedFor
INVARIANT DaemonIsRecorded
INVARIANT OneSessionPerVM
PROPERTY RemovedIsGone
SYMMETRY Interchangeable
VIEW Relevant
\* Two VMs and one daemon, ever.
CHECK_DEADLOCK FALSE
