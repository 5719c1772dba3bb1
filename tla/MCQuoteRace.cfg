SPECIFICATION Spec
CONSTANTS
  Quotes = {q1}
  Requests = {r1, r2, r3, r4, r5}
  ValidFor = 1
  MaxTime = 2
  None = None
SYMMETRY Symmetry
CHECK_DEADLOCK FALSE
INVARIANT OneJobPerQuote
