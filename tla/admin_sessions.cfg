CONSTANTS
  Token = {t1, t2, t3}
  Family = {f1, f2}
  Admin = {a1}
  Request = {r1, r2, r3}
SPECIFICATION Spec
SYMMETRY Symmetry
INVARIANTS
  TypeOK
  RemovalClosesSessions
PROPERTIES
  SessionsLiveOnce
  RemovedGetsNoToken
CHECK_DEADLOCK FALSE
