SPECIFICATION Spec
CONSTANTS
  None = None
  NoFile = NoFile
  Idle = Idle
  c1 = c1
  c2 = c2
  u1 = u1
  u2 = u2
  kn = kn
  pf = pf
  Requests = {kn, pf}
  KindOf <- SomeKinds
  Clients = {c1, c2}
  Users = {u1, u2}
  Grants <- SomeGrants
  Tickets = {t1, t2}
  Cookies = {k1, k2}
  Handles = {h1}
  ReviewTtl = 1
  MaxPending = 2
  MaxTime = 1
SYMMETRY Symmetry
INVARIANTS
  WritesReviewed
  PreviewsAccounted
  FilesTellTruth
  AppliedAnswersHold
