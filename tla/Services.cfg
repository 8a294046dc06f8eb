SPECIFICATION ServicesSpec
CONSTANTS
  Files = {x, y}
  Hashes = {h1}
  CaptureTimes <- SomeCaptureTimes
  ExpiryTimes = {4}
  Times = {0, 8, 20}
  MaxPhotoAge = 7
  MaxCaptureSkew = 1
  None = None
  a = a  b = b  f1 = f1  f2 = f2  g1 = g1  c1 = c1  c2 = c2
  Submissions = {a, b}
  Users = {a, b}
  PhotoFiles = {f1, f2, g1}
  Contents = {c1, c2}
  UserOf <- OwnUser
  RequestOf <- MCRequestOf
  ContentOf <- SharedPhoto
  SubmissionFaults = 1
  Payouts = {p1}
  Workers = {w1, w2}
  Sweepers = {s1, s2}
  CreatedAt <- OneTime  BatchSize = 1
  SlowPayouts = {p1}  Contested = {p1}
  MaxAttempts = 2  ReclaimBound = 1  FaultBound = 1
  NoPayout = NoPayout  NoWorker = NoWorker
  Challenges = {k1, k2}
  Logins = {l1, l2}
  AuthRequests = {q1}
  FailureThreshold = 2
  NoChallenge = NoChallenge
  Tasks = {1, 2, 3}
  MaxTime = 2
  PageLimits = {1, 2}
  NoId = NoId
SYMMETRY Symmetry
INVARIANTS
  ApprovalIsEvidenced
  VerdictRule
  NoOrphans
  AcceptedPhotosAreKept
  FailedLeaveNoProof
  PaidWasSent
  OneTokenPerChallenge
  PagesDescend
  NothingSkipped
PROPERTIES
  NoReversal
  ImplementsLedger
CHECK_DEADLOCK FALSE
