CONSTANTS
  Admin = {a1, a2, a3}
  Username = {seeded, n1}
  Password = {p0}
  Request = {r1, r2}
  Seeded = seeded
  SeededPassword = p0
SPECIFICATION Spec
PROPERTIES
  LastAdminStays
CHECK_DEADLOCK FALSE
