SPECIFICATION FairSpec
CONSTANTS
  u1 = u1
  Users = {u1}
  f1 = f1
  Families = {f1}
  h1 = h1
  h2 = h2
  Hashes = {h1, h2}
  Attempts = {1, 2}
  None = None
  NoUser = NoUser
  NoFamily = NoFamily
  GraceOn = TRUE
  SessionsOn = TRUE
  Refusable = {"readSession", "readMarker", "blacklist", "live", "member", "detail", "pointer", "pointerMember", "metadata", "settle", "confirm", "remember"}
  Losable = {"live", "settle"}
  Mixes <- MCMixes
INVARIANTS
  TypeOK
  LiveIndexed
  SignedOutForGood
  AnnouncedOnce
PROPERTIES
  EventuallyAnnounced
CHECK_DEADLOCK FALSE
