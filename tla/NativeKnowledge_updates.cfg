SPECIFICATION Spec
CONSTANTS
  p1 = p1
  p2 = p2
  r1 = r1
  r2 = r2
  r3 = r3
  r4 = r4
  g1 = g1
  g2 = g2
  g3 = g3
  c1 = c1
  c2 = c2
  e1 = e1
  e2 = e2
  Procs = {p1, p2}
  Cli = {p2}
  Requests = {r1, r2, r3, r4}
  Generations = {g1, g2, g3}
  GenerationOf <- SharedId
  Items = {e1, e2}
  Claims = {c1, c2}
  EvidenceOf <- Evidence
  ClaimsOf <- Citing
  MaxPending = 1
  Cuts = {"partial", "no_newline"}
  NoGeneration = NoGeneration
  NoWork = NoWork
INVARIANTS
  LinearHistory
  AppliedOnce
  AppliedIsKept
  ClaimsSupported
