SPECIFICATION Spec
CONSTANTS
  Unset = Unset
  g1 = g1
  u1 = u1
  r1 = r1
  d1 = d1
  d2 = d2
  d3 = d3
  Bundles <- SomeBundles
  Publishers = {g1, u1}
  Guarded = {g1}
  Offered <- SomeOffered
  Registrars = {r1}
  MaxFaults = 1
  MaxDeaths = 1
INVARIANTS
  ListedIsThere
  ReleasedOnce
PROPERTIES
  HistoryOnlyGrows
  InvalidationIsFinal
