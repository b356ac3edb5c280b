SPECIFICATION BoundedSpec
CONSTANTS
  p1 = p1
  p2 = p2
  a = a
  b = b
  x = x
  z = z
  NoCandidate = NoCandidate
  Accounts = {a, b}
  Day = 2
  Procs = {p1}
  Cli = {p1}
  Trades = {x, z}
  AccountOf <- TwoTrades
  HappenedAt <- EarlyTrade
  Dated = {z}
  MaxTime = 2
  CommitLag = 0
  MaxPending = 2
PROPERTIES
  NothingForgotten
