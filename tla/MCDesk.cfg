SPECIFICATION Spec
CONSTANTS
  Keys = {k1, k2}
  MaxRequests = 2
  Window = 2
  MaxKeys = 1
  MaxTime = 4
  MaxCalls = 6
  Scale = 100
  Fine = 10
  Amounts = {0, 35, 3050}
  Rates = {0, 5, 40, 90}
  Unset = Unset
  Trades = {"landscaping", "roofing", "plumbing", "autobody", "electrical"}
  Areas = {1000, 1001}
  Strange = {"difficult"}
  MaxPhotos = 2
  Unseen = Unseen
  Requests = {r1, r2, r3}
  Wishes = {w1, w2}
  Names = {"Ann", "ann"}
  Lowered <- MCLowered
  Plans <- MCPlans
  None = None
SYMMETRY Symmetry
CHECK_DEADLOCK FALSE
INVARIANTS
  TypeOK
  RefusesExactlyWhenFull
  PublishedFiguresAddUp
  PricingNeverFails
  OnlyStrangeAccessLowersThePrice
  NamesakesNeedOverlap
  RepeatsNeedInterruption
