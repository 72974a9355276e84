CONSTANTS
  Admin = {a1, a2}
  Jti = {j1, j2, j3, j4}
  Secret = {s1, s2}
  Request = {r1, r2}
  MaxAttempts = 2
SPECIFICATION Spec
SYMMETRY Symmetry
INVARIANTS
  TypeOK
  OneSessionPerLogin
  OwnCode
  EnabledAfterCode
CHECK_DEADLOCK FALSE
