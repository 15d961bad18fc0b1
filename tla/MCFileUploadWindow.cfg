\* One client; the Contents server works on while the kernel finalizes.
SPECIFICATION Spec
CONSTANTS
  a = a
  b = b
  Uploader = {u1}
  Version = {a}
  Size <- ChunksOf
  MaxAttempts = 2
  MaxTrouble = 2
  KernelWindow = TRUE
PROPERTY ReplacementIsVerified
\* An upload that is done stays so.
CHECK_DEADLOCK FALSE
