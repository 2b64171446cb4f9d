SPECIFICATION Spec
CONSTANTS
  Hub = {h1}
  Token = {t1, t2, t3}
  Dev = {d1, d2, d3}
  Key = {k1, k2}
  Proc = {p1, p2}
  MaxIndex = 3
  None = None
  Faults = FALSE
  Requests = {"mintHub", "mintDevice", "register", "leave", "remove", "release"}
SYMMETRY Symmetry
INVARIANTS TypeOK TokenSingleUse SeatsExclusive OrphanBindingHasCleaner
PROPERTY ImplementsAdmission
