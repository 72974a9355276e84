CONSTANTS
  Client = {c1, c2}
  Secret = {s1, s2}
  Data = {d1}
  Link = {l1, l2}
  Request = {r1, r2}
SPECIFICATION Spec
SYMMETRY Symmetry
INVARIANTS
  TypeOK
  ShownOnce
  OwnSecret
PROPERTIES
  DeliveredOnce
  SuspendedUntilActivated
CHECK_DEADLOCK FALSE
