CONSTANTS
  Jti = {j1, j2}
  Request = {r1, r2}
  MaxAttempts = 2
  TicksPerSecond = 1
  Ttl = 2
  MaxTime = 3
SPECIFICATION Spec
INVARIANT
  ChallengesEnd
CHECK_DEADLOCK FALSE
