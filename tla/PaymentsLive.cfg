\* Captured money and the gateway that repeats its webhook.
SPECIFICATION FairSpec
CONSTANTS
  Trigger = {t1, t2}
  Code = {c1, c2, c3}
  MaxFaults = 2
  Hazards = {"throw", "crash", "orphan", "stall", "legacy"}
  None = None
INVARIANT NeverStranded
PROPERTIES CapturedGetsCode IssuesOnce
CHECK_DEADLOCK FALSE
