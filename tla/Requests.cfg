SPECIFICATION RequestsSpec
CONSTANTS
  Challenges = {c1, c2}
  Logins = {l1}
  AuthRequests = {q1, q2}
  FailureThreshold = 2
  NoChallenge = NoChallenge
  r1 = r1  r2 = r2  r3 = r3  open = open  shut = shut
  Requests = {r1, r2, r3}
  KeyOf <- SharedKey
  FaultBound = 1
  Loops = {o1, o2}
  AuditAttempts = 2
  Keys = {open, shut}
  FailClosed = {shut}
  Limit = 1  Window = 2  NoTtl = NoTtl
INVARIANTS
  RevokedStaysOut
  CircuitCountsFailures
  AuditInOrder
  WithinLimit
PROPERTIES
  ServiceRecovers
  ServedIsAudited
  RefusalLifts
CHECK_DEADLOCK FALSE
