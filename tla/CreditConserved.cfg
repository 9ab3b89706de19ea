\* Handlers in any interleaving, with failing calls that are rolled back.
SPECIFICATION Spec
CONSTANTS
  r1 = r1
  r2 = r2
  Reseller = {r1, r2}
  Sub = {}
  Job = {j1, j2, j3}
  Kinds = {"generate", "renew", "transfer", "return", "edit"}
  MaxCode = 2
  MaxQty = 2
  Initial <- OneRich
  Hazards = {"throw", "logFails"}
  NoOne = NoOne
SYMMETRY Jobs
INVARIANTS TypeOK Conserved ReturnedOnce FlippedIsPaid LedgerAddsUp CreditUsable
CHECK_DEADLOCK FALSE
