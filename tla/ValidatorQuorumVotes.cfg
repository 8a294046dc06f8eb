SPECIFICATION EarlyVoteSpec
CONSTANTS
  v1 = v1  v2 = v2  v3 = v3  v4 = v4  r1 = r1  r2 = r2  r3 = r3  r4 = r4  r5 = r5
  Validators = {v1, v2, v3, v4}
  Requests = {r1, r2, r3, r4, r5}
  VoterOf <- OneTwice
  Intents <- TwinsAndOthers
  QuorumRequired = 3
  FaultBound = 1
  None = None
INVARIANTS
  ReputationFollowsVotes
  ReviewsMatchRows
PROPERTIES
  VotesResolve
  ImplementsBallot
CHECK_DEADLOCK FALSE
