CONSTANTS
  Caller = {c1}
  GlobalLimit = 3
  LoginLimit = 1
  TokenLimit = 2
  Ttl = 2
SPECIFICATION Spec
INVARIANTS
  LoginLimited
