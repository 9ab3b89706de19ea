\* Crashes and failing calls, sub-resellers, admin codes, lapsed codes.
SPECIFICATION SoundSpec
CONSTANTS
  r1 = r1
  r2 = r2
  Reseller = {r1, r2}
  Sub = {r2}
  Job = {j1, j2}
  Kinds = {"generate", "renew", "transfer", "allot", "return", "adminGenerate"}
  MaxCode = 2
  MaxQty = 2
  Initial <- OneRich
  Hazards = {"throw", "halfWrite", "crash", "refundFails", "returnFails", "pushRace", "listing", "lateRedeem"}
  NoOne = NoOne
INVARIANT NoFreeCredit
PROPERTY LapsedCodesPayBack
CHECK_DEADLOCK FALSE
