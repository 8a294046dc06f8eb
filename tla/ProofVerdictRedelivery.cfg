SPECIFICATION FairSpec
CONSTANTS
  p1 = p1  p2 = p2  t1 = t1
  Proofs = {p1}
  Tasks = {t1}
  TaskOf <- OneTask
  Workers = {W1, W2}
  Admins = {A1}
  Quorums = {Q1}
  Capacities = {1}
  Unlimited = Unlimited
  MaxAttempts = 2  StallBound = 2  MadeBound = 3
  NoProof = NoProof  NoWorker = NoWorker  Idle = Idle
INVARIANTS
  FinalIsNotified
  OpenProofsOweNothing
  CompletedJobAttended
PROPERTIES
  DecidedStaysDecided
  JobsSettle
CHECK_DEADLOCK FALSE
