\* Crashes, stalls, failing writes and failing releases, under fairness.
SPECIFICATION LiveSpec
CONSTANTS
  a1 = a1
  a2 = a2
  a3 = a3
  g1 = g1
  g2 = g2
  g3 = g3
  p1 = p1
  p2 = p2
  Proc = {p1, p2}
  Attempt = {a1, a3}
  ProcOf <- MCProcOf
  Run = {r1, r2}
  MaxLeaseFaults = 2
  Unowned = Unowned
  Server = {p1, p2}
  Registration = {g1, g2, g3}
  ServerOf <- MCServerOf
  Device = {e1}
  MaxDevices = 1
  MaxDeviceFaults = 1
  Nothing = Nothing
  Client = {c1, c2}
  NoAccount = NoAccount
  Take = {t1, t2}
  Feed = {f1, f2}
  NoFeed = NoFeed
  MaxConcurrent = 1
  RecordingHazards = {"crash", "cutOff"}
  w3 = w3
  Host = {p1, p2}
  Watch = {w1, w3}
  HostOf <- MCHostOf
  WatchdogHazards = {}
  Tv = {v1, v2}
  Pin = {x1}
  Owner = {u1, u2}
  NoTv = NoTv
  NoOwner = NoOwner
  NoPin = NoPin
  k1 = k1
  k2 = k2
  Channel = {k1, k2}
  NoChannel = NoChannel
  Offered <- MCOffered
  Proxied = {k2}
  MaxPresses = 2
  FirstTries = 3
  MaxFallbackSlots = 4
  RedeemHazards = {"throw", "undoFails", "crash", "slow", "replay", "lateWrite"}
INVARIANTS NoDanglingCode HolderIsSubscribed NothingLeftBehind
  RowsMatchDisk PairingAgrees DeadAfterAllTried
PROPERTIES RecoversSlowly TaskRunsAgain EveryCallAnswers
CHECK_DEADLOCK FALSE
