\* A claim is handed back while its loser looks at the row.
SPECIFICATION FairSpec
CONSTANTS
  Trigger = {t1, t2}
  Code = {c1, c2}
  MaxFaults = 1
  Hazards = {"throw", "releaseRace"}
  None = None
PROPERTIES CapturedGetsCode
CHECK_DEADLOCK FALSE
