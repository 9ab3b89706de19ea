CONSTANTS
  c1 = c1
  c2 = c2
  u1 = u1
  u2 = u2
  r1 = r1
  r2 = r2
  r3 = r3
  Nobody = Nobody
  Code = {c1, c2}
  User = {u1, u2}
  Call = {r1, r2, r3}
  Owner <- MCOwner
  Days <- MCDays
  ExpiresOn <- MCExpiresOn
  MaxAdmins = 1
  MaxNow = 2
  Hazards = {"throw"}
SPECIFICATION Spec
SYMMETRY Twins
CHECK_DEADLOCK FALSE
INVARIANTS OneMintPerCode OpenMeansUnpaid OneActiveRow PaidDaysKept
PROPERTIES ActivatedIsFinal KeepsPromise
