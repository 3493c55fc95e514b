SPECIFICATION Spec
SYMMETRY Symmetry
CONSTANTS
  r1 = r1
  r2 = r2
  Handlers = {r1, r2}
  t1 = t1
  t2 = t2
  Tokens = {t1, t2}
  s1 = s1
  s2 = s2
  Secrets = {s1, s2}
  c1 = c1
  c2 = c2
  c3 = c3
  Codes = {c1, c2, c3}
  None = None
  CodeCount = 1
  Steps = {1}
  Window = 1
  MaxWindow = 10
  MaxAttempts = 1
  Mixes <- MCMixes
INVARIANTS
  TypeOK
  LockHeldAlone
  OpensOnce
  GuessesBounded
PROPERTIES
  RecordIsLedger
