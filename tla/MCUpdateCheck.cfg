\* Two processes use both stores and check for updates; one write breaks off.
SPECIFICATION Spec
CONSTANTS
  Proc = {p1, p2}
  Name = {a, b}
  Endpoint = {vm1, vm2}
  NoEndpoint = none
  Setting <- SettingRecords
  DefaultSetting <- NoSettings
  Current = 0
  Upstream = 1
  MaxRelease = 2
  MaxBreaks = 1
INVARIANT UpdateInv
INVARIANT InstallIsVerified
PROPERTY AtomicStores
PROPERTY StrictKeepsDamaged
SYMMETRY Symmetry
