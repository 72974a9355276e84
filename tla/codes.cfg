CONSTANTS
  Code = {k1, k2}
  Client = {c1, c2}
  Request = {r1, r2}
  CodeTtl = 1
  MaxTime = 3
  Application = {a1}
  Token = {t1, t2, t3}
  Family = {f1}
  Student = {u1}
  TicksPerSecond = 2
  InactivitySecs = 1
  SessionMax = 4
  SessionsTime = 7
SPECIFICATION MCSpec
INVARIANTS
  TypeOK
  OneSessionPerCode
  RightClient
PROPERTIES
  AcceptedInTime
  CodesForgotten
  SessionsEnd
CHECK_DEADLOCK FALSE
