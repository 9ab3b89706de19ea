CONSTANTS
  c1 = c1
  c2 = c2
  u1 = u1
  u2 = u2
  r1 = r1
  r2 = r2
  r3 = r3
  Nobody = Nobody
  Code = {c1}
  User = {u1, u2}
  Call = {r1, r3}
  Owner <- MCOwner
  Days <- MCDays
  ExpiresOn <- MCExpiresOn
  MaxAdmins = 1
  MaxNow = 1
  Hazards = {"throw"}
SPECIFICATION Spec
CHECK_DEADLOCK FALSE
PROPERTIES FailureHandsBack
