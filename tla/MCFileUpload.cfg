\* Two clients upload to one path, the same content or two, lose calls, are
\* interrupted and start again, and edit their files; liveness.
SPECIFICATION FairSpec
CONSTANTS
  a = a
  b = b
  Uploader = {u1, u2}
  Version = {a, b}
  Size <- ChunksOf
  MaxAttempts = 2
  MaxTrouble = 2
  KernelWindow = FALSE
INVARIANT UploadInv
INVARIANT TargetIsWhole
PROPERTY UploadHeals
PROPERTY DoneIsDelivered
PROPERTY NoOverwriteIsKept
\* An upload that is done stays so.
CHECK_DEADLOCK FALSE
