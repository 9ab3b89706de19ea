\* Each component by itself, with its failures and races.
SPECIFICATION SafeSpec
CONSTANTS
  a3 = a3
  g1 = g1
  g2 = g2
  g3 = g3
  p1 = p1
  p2 = p2
  y1 = y1
  y2 = y2
  z1 = z1
  z2 = z2
  s3 = s3
  d1 = d1
  d2 = d2
  Proc = {p1, p2}
  Attempt = {z1, z2, a3}
  ProcOf <- MCProcOf
  Run = {y1, y2}
  MaxLeaseFaults = 2
  Unowned = Unowned
  Server = {p1, p2}
  Registration = {g1, g2, g3}
  ServerOf <- MCServerOf
  Device = {y1, y2}
  MaxDevices = 1
  MaxDeviceFaults = 1
  Nothing = Nothing
  Session = {z1, z2, s3}
  DeviceOf <- MCDeviceOf
  NoDevice = NoDevice
  Request = {y1, y2}
  PlanMax = 1
  EnvMax = 2
  Policies = {"refuse", "evict"}
  Stores = {TRUE, FALSE}
  Channel = {z1, z2, z3}
  Title = {t1}
  Imported = {z1, z2, z3, t1}
  Sync = {y1, y2}
  Rollback = {b1}
  Kinds = {"xtream", "m3u"}
  CatalogHazards = {"overlap", "throw", "crash", "duplicate", "merge", "hide", "relist"}
  MaxOccurred = 1
SYMMETRY Alike
INVARIANTS
  NoOverlap LiveRunShown CapHolds AloneInTime LimitHolds StillWatching
PROPERTIES PruneKeepsHalf RollbackUndoes
CHECK_DEADLOCK FALSE
