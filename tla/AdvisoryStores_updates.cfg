SPECIFICATION MCSpec
CONSTANTS
  s1 = s1
  s2 = s2
  t1 = t1
  t2 = t2
  t3 = t3
  f = f
  g = g
  i1 = i1
  i2 = i2
  i3 = i3
  i4 = i4
  Servers = {s1, s2}
  Workers = {t1, t2, t3}
  HostOf <- TwoServers
  Portfolios = {f, g}
  Ids = {i1, i2, i3, i4}
  Imported <- Baseline
  MaxPending = 2
  NoPlan = NoPlan
  p1 = p1
  p2 = p2
  u1 = u1
  u2 = u2
  u3 = u3
  f1 = f1
  f2 = f2
  Procs = {p1, p2}
  Updates = {u1, u2, u3}
  Changes = {u1, u2}
  PolicyPortfolios = {f1, f2}
  MaxPreviews = 1
  MaxVersion = 3
  Damaged = Damaged
  NoOne = NoOne
  NoWork = NoWork
SYMMETRY Symmetry
INVARIANTS
  ActiveIsLatest
  AnswersHold
  PoliciesSucceed
PROPERTIES
  PlansRetained
  UnusableForGood
  PoliciesUnusableForGood
