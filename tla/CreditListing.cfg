\* An admin list marks lapsed codes.
SPECIFICATION FairSpec
CONSTANTS
  r1 = r1
  r2 = r2
  Reseller = {r1, r2}
  Sub = {}
  Job = {j1, j2}
  Kinds = {"generate"}
  MaxCode = 2
  MaxQty = 2
  Initial <- OneRich
  Hazards = {"listing"}
  NoOne = NoOne
PROPERTY LapsedPaysBack
CHECK_DEADLOCK FALSE
