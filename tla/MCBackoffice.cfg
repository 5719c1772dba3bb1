SPECIFICATION Spec
CONSTANTS
  Requests = {r1, r2, r3}
  None = None
  Users = {u1, u2}
  Owner = u1
  Changes <- MCChanges
  Jobs = {j1, j2}
  Customers = {c1}
  Dates = {0}
  Durations = {0}
  Plans <- MCPlans
  Edits <- MCEdits
  DefaultDuration = 4
  Items = {i1, i2}
  Orders = {o1}
  Suppliers = {s1}
  Skus = {k1}
  Stocks = {1}
  Carts <- MCCarts
SYMMETRY Symmetry
CHECK_DEADLOCK FALSE
INVARIANTS
  TypeOK
  LoneStepsStay
  AdminsLostOnlyByOverlapOrSelf
  DoubleBookingNeedsOverlapOrEdit
  CompletionStampNeedsOverlap
  DuplicateSkusNeedOverlap
PROPERTY
  OrdersFollowTheirGraph
