SPECIFICATION SessionsSpec
CONSTANTS
  Challenges = {c1}
  Logins = {l1}
  AuthRequests = {q1, q2}
  FailureThreshold = 2
  NoChallenge = NoChallenge
PROPERTIES
  OneProbePerCooldown
CHECK_DEADLOCK FALSE
