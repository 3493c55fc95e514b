SPECIFICATION Spec
SYMMETRY Symmetry
CONSTANTS
  u1 = u1
  Users = {u1}
  f1 = f1
  f2 = f2
  Families = {f1, f2}
  h1 = h1
  h2 = h2
  h3 = h3
  Hashes = {h1, h2, h3}
  r1 = r1
  r2 = r2
  Requests = {r1, r2}
  None = None
  NoUser = NoUser
  NoFamily = NoFamily
  GraceOn = TRUE
  Plane = "dashboard"
  CapOn = TRUE
  Verified = {TRUE}
  Lapses = {"live", "grace", "index", "prune"}
  MaxEpoch = 1
INVARIANTS
  TypeOK
  LiveIndexed
  GraceIndexed
  LiveInFamily
  RevokedFamilyStaysDead
  SweptUserStaysOut
  NoSessionPastCap
  KilledTokensRefused
CHECK_DEADLOCK FALSE
