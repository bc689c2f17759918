CONSTANTS
  w1 = w1
  w2 = w2
  m1 = m1
  m2 = m2
  b1 = b1
  b2 = b2
  n1 = n1
  n2 = n2
  n3 = n3
  None = None
  Workers = {w1}
  BufferSize = 1
  Async = {m1, m2}
  Batches = {}
  BatchOf <- NoBatch
  Failing = {}
SPECIFICATION Spec
INVARIANTS
  StopIsGraceful
CHECK_DEADLOCK FALSE
