SPECIFICATION FairSpec
CONSTANTS
  Hub = {h1}
  Token = {t1, t2}
  Dev = {d1, d2}
  Key = {k1}
  Proc = {p1, p2}
  MaxIndex = 2
  None = None
  Faults = FALSE
  Requests = {"mintHub", "mintDevice", "register", "remove", "beat", "age", "gc"}
PROPERTIES RequestsAnswered OrphanBindingCleared SilentDeviceSwept
