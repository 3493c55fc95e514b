SPECIFICATION Spec
SYMMETRY Symmetry
CONSTANTS
  u1 = u1
  Users = {u1}
  f1 = f1
  f2 = f2
  f3 = f3
  Families = {f1, f2, f3}
  h1 = h1
  h2 = h2
  h3 = h3
  Hashes = {h1, h2, h3}
  r1 = r1
  r2 = r2
  Requests = {r1, r2}
  None = None
  NoUser = NoUser
  NoFamily = NoFamily
  GraceOn = TRUE
  Limit = 2
  Explored = {"signin", "refresh", "revoke", "lapse", "fail"}
  MaxEpoch = 1
INVARIANTS
  TypeOK
  LiveIndexed
  OwnSessionKept
  ListedSessionsEnded
  LimitHolds
CHECK_DEADLOCK FALSE
