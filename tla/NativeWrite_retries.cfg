SPECIFICATION Spec
CONSTANTS
  p1 = p1
  p2 = p2
  u1 = u1
  u2 = u2
  v1 = v1
  v2 = v2
  v3 = v3
  k1 = k1
  k2 = k2
  k3 = k3
  pf = pf
  acct = acct
  fill = fill
  stmt = stmt
  b1 = b1
  b2 = b2
  NoRef = NoRef
  NoIdentity = NoIdentity
  NoJob = NoJob
  Procs = {p1, p2}
  Users = {u1}
  Previews = {v1, v2, v3}
  Keys = {k1, k2}
  Portfolios = {pf}
  Accounts = {acct}
  Refs = {fill, stmt}
  Bodies = {b1, b2}
  KeyOf <- ReusedKey
  PayloadOf <- SameFill
  GrantOf <- OneGrant
  PreviewTtl = 3
  ApprovalTtl = 2
  MaxTime = 0
  MaxApprovalRows = 3
  Cuts = {}
PROPERTIES
  ImplementsLedger
