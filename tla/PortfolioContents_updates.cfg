SPECIFICATION MCSpec
CONSTANTS
  Absent = Absent
  a = a
  b = b
  x = x
  Accounts = {a, b}
  Assets = {x}
  Nominal = {a}
  Events <- SomeEvents
  Begin <- SeedPortfolio
  BeginSeen <- SeedSeen
  HeldAtFirst <- SeedHeld
  MoneyAtFirst <- SeedMoney
  MaxEvents = 2
  MaxRecords = 2
  MaxUpdates = 2
  MaxCandidates = 2
  Kinds <- SomeKinds
  Ids = {1, 2}
  Day = 2
  Lag = 1
  MaxSteps = 5
INVARIANTS
  PositionsExplained
  CashExplained
  RecordedIsServed
  ValuesFit
CHECK_DEADLOCK FALSE
