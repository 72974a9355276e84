CONSTANTS
  Token = {t1, t2, t3}
  Family = {f1}
  Client = {c1}
  Request = {r1, r2}
  TicksPerSecond = 2
  InactivitySecs = 1
  SessionMax = 3
  MaxTime = 5
SPECIFICATION Spec
SYMMETRY Symmetry
INVARIANTS
  TypeOK
  LinearRotation
  FamilyUniform
PROPERTIES
  SuspensionHoldsOnceDrained
  SessionsLiveOnce
  EndedStaysEnded
CHECK_DEADLOCK FALSE
