SPECIFICATION Spec
SYMMETRY Symmetry
CONSTANTS
  r1 = r1
  r2 = r2
  Handlers = {r1, r2}
  e0 = e0
  e1 = e1
  e2 = e2
  Emails = {e0, e1, e2}
  AdminEmail = e0
  OwnerEmail = e1
  w1 = w1
  w2 = w2
  Words = {w1, w2}
  OwnerWord = w1
  None = None
  Admin = Admin
  Owner = Owner
  u1 = u1
  Slots = {u1}
  MaxAttempts = 1
  MaxCodeAttempts = 1
  SupersedeAttempts = 2
  TokenLife = 2
  TicketTtl = 1
  Mixes <- MCMixes
INVARIANTS
  TypeOK
  ProofsSpentOnce
  LockoutBounds
  StaleProofRefused
  
  SupersededStaysDead
  CacheFollows
  RevokedRefused
  KeyInHand
