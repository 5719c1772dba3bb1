SPECIFICATION SafetySpec
CONSTANTS
  Plans = {"starter", "pro"}
  Subs = {s1, s2}
  Custs = {c1, c2}
  Slots = {w1, w2}
  TrialDays = 1
  GraceDays = 1
  MaxTime = 2
  MaxEvents = 3
  MaxRequests = 2
  None = None
SYMMETRY Symmetry
CHECK_DEADLOCK FALSE
PROPERTY PlanChangesArePaid
