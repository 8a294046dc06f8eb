SPECIFICATION Spec
CONSTANTS
  p1 = p1  p2 = p2  t1 = t1
  Proofs = {p1, p2}
  Tasks = {t1}
  TaskOf <- OneTask
  Workers = {W1}
  Admins = {A1}
  Quorums = {Q1}
  Capacities = {1, 2}
  Unlimited = Unlimited
  MaxAttempts = 1  StallBound = 0  MadeBound = 0
  NoProof = NoProof  NoWorker = NoWorker  Idle = Idle
SYMMETRY Symmetry
INVARIANTS
  ApprovedHasPayout
PROPERTIES
  PayoutWithinCapacity
  ImplementsLedger
CHECK_DEADLOCK FALSE
