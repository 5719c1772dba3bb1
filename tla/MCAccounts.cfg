SPECIFICATION Spec
CONSTANTS
  Emails = {e1}
  Requests = {r1, r2, r3, r4}
  Ttl <- MCTtl
  LockFor = 1
  MaxFailed = 2
  MaxTime = 1
  None = None
SYMMETRY Symmetry
CHECK_DEADLOCK FALSE
INVARIANTS
  TypeOK
  SpentTokensDoNothing
  OldSessionsNeedOverlap
  LockNeedsFailures
  LoneFailuresAreCounted
