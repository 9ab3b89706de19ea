\* Three requests race to fulfil a payment, with failures, crashes, stalls
\* and second attempts; or two requests and redemptions of two codes change
\* the rows of a customer, with failing writes that are applied or not.
SPECIFICATION SalesSpec
CONSTANTS
  t1 = t1
  t2 = t2
  t3 = t3
  h1 = h1
  h2 = h2
  Trigger = {t1, t2, t3}
  Code = {1, 2, 3}
  MaxFaults = 2
  Hazards = {"throw", "crash", "stall", "releaseRace", "secondAttempt"}
  None = None
  day = day
  pair = pair
  Plan = {day, pair}
  PlanDays <- MCPlanDays
  Credit <- MCCredit
  Coupon = {1, 2}
  FirstPlan <- MCFirstPlan
  Handler = {h1, h2}
  MaxRow = 2
  MaxDay = 1
  MaxBefell = 1
  LifeHazards = {"writeFails", "halfWrite", "overlap"}
SYMMETRY Alike
INVARIANTS NoOrphan PaidHasCode NoFreeDays DaysArrive
CHECK_DEADLOCK FALSE
