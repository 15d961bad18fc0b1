\* One command at a time; is a session only pruned when its VM is gone?
SPECIFICATION Spec
CONSTANTS
  Name = {a}
  Slot = {c1}
  Command = {"new", "exec"}
  Connect = FALSE
  Mortal = {}
  MaxVMs = 1
  MaxPids = 1
  MaxTrouble = 1
PROPERTY CleanedUpIsGone
\* A session that is used once.
CHECK_DEADLOCK FALSE
