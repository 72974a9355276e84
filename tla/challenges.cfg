CONSTANTS
  Jti = {k1, k2}
  TicksPerSecond = 1
  Ttl = 2
  MaxTime = 3
  MaxAttempts = 2
  Request = {r1, r2}
SPECIFICATION Spec
INVARIANTS
  TypeOK
  GrantedOnce
  ForItsPurpose
  AttemptsBounded
CHECK_DEADLOCK FALSE
