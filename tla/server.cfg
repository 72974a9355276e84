CONSTANTS
  Student = {u1}
  Admin = {a1}
  Request = {r1, r2}
  JWT_ACCESS_SECRET = k1
  JWT_REFRESH_SECRET = k2
  JWT_ADMIN_ACCESS_SECRET = k3
  JWT_ADMIN_REFRESH_SECRET = k4
  AccessTtl = 1
  RefreshTtl = 2
  PendingTtl = 1
  MaxTime = 3
  Amount = {0, 1, 2, 7, 15, 24}
  MaxOdd = 2
  Row = {w1, w2, w3}
SPECIFICATION MCSpec
SYMMETRY Symmetry
INVARIANTS
  TypeOK
  RightAudience
  AccessEnds
  
  NoDefaultsInProduction
  RowsFitEntities
  OnlyLongSecretStopsUp
