SPECIFICATION Spec
CONSTANTS
  older = older  newer = newer
  Payouts = {newer}
  Workers = {w1, w2}
  Sweepers = {s1, s2}
  CreatedAt <- RowOrder  BatchSize = 1
  SlowPayouts = {newer}  Contested = {newer}
  MaxAttempts = 2  ReclaimBound = 2  FaultBound = 1
  NoPayout = NoPayout  NoWorker = NoWorker
INVARIANTS
  AtMostOncePayout
SYMMETRY Symmetry
CHECK_DEADLOCK FALSE
