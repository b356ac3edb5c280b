SPECIFICATION BoundedSpec
CONSTANTS
  p1 = p1
  p2 = p2
  a = a
  b = b
  x = x
  z = z
  NoCandidate = NoCandidate
  Accounts = {a, b}
  Day = 2
  Procs = {p1, p2}
  Cli = {p2}
  Trades = {x, z}
  AccountOf <- TwoTrades
  HappenedAt <- LateTrade
  Dated = {x}
  MaxTime = 3
  CommitLag = 1
  MaxPending = 2
INVARIANTS
  CountedOnce
  NoFalseFailure
PROPERTIES
  UnavailableForGood
