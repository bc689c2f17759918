CONSTANTS
  r1 = r1
  r2 = r2
  r3 = r3
  r4 = r4
  r5 = r5
  s1 = s1
  w1 = w1
  w2 = w2
  a = a
  b = b
  v = v
  None = None
  NoLog = NoLog
  NoID = NoID
  Wild = Wild
  Word = {a, b}
  Variable = {v}
  MaxDepth = 2
  SimNum = 1
  SimDen = 2
  Hash <- MCHash
  Requests = {r1, r2, r3}
  Scrapes = {s1}
  Form <- RequestForm
  Workers = {w1, w2}
  BufferSize = 1
SPECIFICATION Spec
INVARIANTS
  ServiceInv
  MinerMatchesPool
  ScrapeIsConsistent
  EachLineMinedOnce
PROPERTIES
  NothingRunsAfterStop
SYMMETRY WorkersAlike
CHECK_DEADLOCK FALSE
