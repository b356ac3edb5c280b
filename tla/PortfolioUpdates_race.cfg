SPECIFICATION RaceSpec
CONSTANTS
  p1 = p1
  p2 = p2
  a = a
  b = b
  x = x
  z = z
  NoCandidate = NoCandidate
  Accounts = {a, b}
  Day = 2
  Procs = {p1, p2}
  Cli = {p2}
  Trades = {x, z}
  AccountOf <- TwoTrades
  HappenedAt <- EarlyTrade
  Dated = {}
  MaxTime = 2
  CommitLag = 0
  MaxPending = 1
INVARIANTS
  CheckpointsAdvance
