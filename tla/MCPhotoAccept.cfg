SPECIFICATION Spec
CONSTANTS
  Messages = {m1, m2}
  Tasks = {1, 2, 3}
  Clerks = {c1}
  MaxRetries = 1
  Limit = 1
  Slots = 2
  None = None
CHECK_DEADLOCK FALSE
INVARIANT
  RepliesAccept
