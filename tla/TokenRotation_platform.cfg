SPECIFICATION Spec
SYMMETRY Symmetry
CONSTANTS
  u1 = u1
  Users = {u1}
  f1 = f1
  Families = {f1}
  h1 = h1
  h2 = h2
  h3 = h3
  h4 = h4
  Hashes = {h1, h2, h3, h4}
  r1 = r1
  r2 = r2
  Requests = {r1, r2}
  None = None
  NoUser = NoUser
  NoFamily = NoFamily
  GraceOn = TRUE
  Plane = "platform"
  CapOn = FALSE
  Verified = {TRUE}
  Lapses = {"grace", "consumed", "family"}
  MaxEpoch = 1
INVARIANTS
  ExchangedOnce
  LineageInherited
PROPERTIES
  LedgerKept
CHECK_DEADLOCK FALSE
