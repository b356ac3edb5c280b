SPECIFICATION Spec
CONSTANTS
  p1 = p1
  p2 = p2
  u1 = u1
  u2 = u2
  v1 = v1
  v2 = v2
  v3 = v3
  k1 = k1
  k2 = k2
  k3 = k3
  pf = pf
  acct = acct
  fill = fill
  stmt = stmt
  b1 = b1
  b2 = b2
  NoRef = NoRef
  NoIdentity = NoIdentity
  NoJob = NoJob
  Procs = {p1, p2}
  Users = {u1, u2}
  Previews = {v1, v2}
  Keys = {k1, k2}
  Portfolios = {pf}
  Accounts = {acct}
  Refs = {fill, stmt}
  Bodies = {b1, b2}
  KeyOf <- TwoKeys
  PayloadOf <- TwoFills
  GrantOf <- TwoGrants
  PreviewTtl = 2
  ApprovalTtl = 1
  MaxTime = 2
  MaxApprovalRows = 2
  Cuts = {"partial", "no_newline"}
SYMMETRY Symmetry
INVARIANTS
  WritesApproved
  ReceiptsAgree
  ReceiptsDurableWhileReadable
PROPERTIES
  RevocationIsFinal
