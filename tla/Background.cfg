SPECIFICATION BackgroundSpec
CONSTANTS
  Rows = {n1}
  CreatedAt <- OneTime
  BatchSize = 1
  Sweepers = {s1, s2}
  Workers = {w1, w2}
  MaxAttempts = 2  JobAttempts = 2  FaultBound = 2
  NoRow = NoRow  NoWorker = NoWorker
  Requests = {r1}
  Callers = {SIGTERM, uncaughtException}
  StepFaults = 1
INVARIANTS
  OneDrainPerRow
  SentWasEnqueued
  RedisOutlivesWork
  ClientIsLive
PROPERTIES
  RowsSettle
  DeliveryStands
  ShutdownEnds
CHECK_DEADLOCK FALSE
