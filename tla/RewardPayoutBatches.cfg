SPECIFICATION BackedOffSpec
CONSTANTS
  older = older  newer = newer
  Payouts = {older, newer}
  Workers = {w1}
  Sweepers = {s1}
  CreatedAt <- RowOrder  BatchSize = 1
  SlowPayouts = {newer}  Contested = {newer}
  MaxAttempts = 2  ReclaimBound = 2  FaultBound = 1
  NoPayout = NoPayout  NoWorker = NoWorker
PROPERTIES
  RowsSettle
  ClaimsEnd
CHECK_DEADLOCK FALSE
