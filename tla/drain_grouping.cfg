CONSTANTS
  a = a
  b = b
  c = c
  v = v
  w = w
  User = User
  john = john
  jane = jane
  logged = logged
  in = in
  from = from
  Server = Server
  started = started
  on = on
  port = port
  Wild = Wild
  NoID = NoID
  Word = {User, john, jane, logged, in, from, Server, started, on, port}
  Variable = {v, w}
  Logs <- GroupingLogs
  Timestamps = {1}
  MaxDepth = 4
  SimNum = 1
  SimDen = 2
  Hash <- MCHash
  MaxParses = 3
SPECIFICATION Spec
INVARIANTS
  SecondUserIsKnown
CHECK_DEADLOCK FALSE
