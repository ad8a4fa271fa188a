CONSTANTS
  c1 = c1
  t1 = t1
  t2 = t2
  t3 = t3
  r1 = r1
  r2 = r2
  s1 = s1
  NoCode = NoCode
  NoToken = NoToken
  NoTenant = NoTenant
  Codes = {c1}
  Tokens = {t1, t2}
  Requests = {r1}
  Sessions = {s1}
  Sid <- MCOneSession
  Store = "postgres"
  Tenant = default
  DefaultTenant = default
  CodeTTL = 1
  RefreshTTL = 1
  AbsoluteTTL = 2
  MaxTime = 1
SPECIFICATION Spec
SYMMETRY Symmetric
CHECK_DEADLOCK FALSE
INVARIANT OwnTokenAccepted
