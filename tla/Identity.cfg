CONSTANTS
  Users = {u1, u2, u3}
  Requests = {r1, r2}
  Tokens = {t1}
  Addrs = {a1}
  MaxAttempts = 1
  MaxHash = 1
  NoUser = NoUser
  NoAddr = NoAddr
  NoSession = NoSession
SPECIFICATION Spec
INVARIANTS TypeOK AdminRemains OneOrganization SessionsAreCurrent FailuresBounded
SYMMETRY Interchangeable
