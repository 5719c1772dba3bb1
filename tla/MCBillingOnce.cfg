SPECIFICATION Spec
CONSTANTS
  Plans = {"starter"}
  Subs = {s1, s2}
  Custs = {c1}
  Slots = {w1, w2}
  TrialDays = 1
  GraceDays = 1
  MaxTime = 0
  MaxEvents = 3
  MaxRequests = 2
  None = None
CHECK_DEADLOCK FALSE
PROPERTY AppliesEveryEventOnce
