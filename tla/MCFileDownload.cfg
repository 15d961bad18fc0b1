\* Two downloads of one local target from two VMs, and an edit on the first.
SPECIFICATION FairSpec
CONSTANTS
  d1 = d1
  d2 = d2
  e1 = e1
  vm1 = vm1
  vm2 = vm2
  Downloader = {d1, d2}
  Editor = {e1}
  Path = {"local", "temporary"}
  PathOf <- PathsOfRuns
  Runtime = {vm1, vm2}
  SourceOf <- SourcesOfRuns
  Content <- Contents
  Given <- GivenFiles
  ChunkSize = 2
  MaxTrouble = 2
INVARIANT DownloadInv
PROPERTY TargetIsDelivered
PROPERTY ProgressIsKept
PROPERTY RunEnds
