CONSTANTS
  a = a
  b = b
  c = c
  v = v
  w = w
  User = User
  john = john
  jane = jane
  logged = logged
  in = in
  from = from
  Server = Server
  started = started
  on = on
  port = port
  Wild = Wild
  NoID = NoID
  Word = {a, b, c}
  Variable = {v, w}
  Logs <- MCLogs
  Timestamps = {1}
  MaxDepth = 3
  SimNum = 1
  SimDen = 2
  Hash <- MCHash
  MaxParses = 5
SPECIFICATION Spec
INVARIANTS
  MinerInv
  DistinctTemplates
  LinesStayCovered
  ResultsLossless
  RepeatsHit
PROPERTIES
  TemplatesOnlyGeneralize
CHECK_DEADLOCK FALSE
