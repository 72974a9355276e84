CONSTANTS
  Admin = {a1, a2, a3}
  Username = {seeded, n1, n2}
  Password = {p0, p1}
  Request = {r1, r2}
  Seeded = seeded
  SeededPassword = p0
SPECIFICATION Spec
SYMMETRY Symmetry
INVARIANTS
  TypeOK
PROPERTIES
  RemovedStaysOutOnceDrained
  PasswordsStay
  ListensSeeded
CHECK_DEADLOCK FALSE
