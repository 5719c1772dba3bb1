SPECIFICATION Spec
CONSTANTS
  Requests = {r1, r2, r3}
  None = None
  Users = {u1, u2}
  Owner = u1
  Changes = {}
  Jobs = {}
  Customers = {}
  Dates = {0}
  Durations = {0}
  Plans <- MCPlans
  Edits = {}
  DefaultDuration = 4
  Items = {i1}
  Orders = {o1, o2}
  Suppliers = {s1}
  Skus = {k1}
  Stocks = {1}
  Carts <- MCCarts
CHECK_DEADLOCK FALSE
INVARIANT
  LinesAreReserved
