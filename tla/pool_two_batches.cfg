CONSTANTS
  w1 = w1
  w2 = w2
  m1 = m1
  m2 = m2
  b1 = b1
  b2 = b2
  n1 = n1
  n2 = n2
  n3 = n3
  None = None
  Workers = {w1, w2}
  BufferSize = 2
  Async = {}
  Batches = {b1, b2}
  BatchOf <- TwoBatches
  Failing = {}
SPECIFICATION Spec
INVARIANTS
  BatchGetsItsResults
CHECK_DEADLOCK FALSE
