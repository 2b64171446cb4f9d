SPECIFICATION Spec
CONSTANTS
  Hub = {h1}
  Token = {t1, t2}
  Dev = {d1, d2}
  Key = {k1, k2}
  Proc = {p1, p2}
  MaxIndex = 2
  None = None
  Faults = TRUE
  Requests = {"mintHub", "mintDevice", "register", "remove", "release", "revoke", "reset", "rotate", "expire", "delete"}
SYMMETRY Symmetry
INVARIANT BindingAgrees
PROPERTY ImplementsAdmission
