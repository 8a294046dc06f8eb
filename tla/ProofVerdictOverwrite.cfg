SPECIFICATION Spec
CONSTANTS
  p1 = p1  p2 = p2  t1 = t1
  Proofs = {p1}
  Tasks = {t1}
  TaskOf <- OneTask
  Workers = {W1}
  Admins = {A1}
  Quorums = {}
  Capacities = {1, Unlimited}
  Unlimited = Unlimited
  MaxAttempts = 2  StallBound = 0  MadeBound = 0
  NoProof = NoProof  NoWorker = NoWorker  Idle = Idle
SYMMETRY Symmetry
PROPERTIES
  FinalVerdictStands
CHECK_DEADLOCK FALSE
