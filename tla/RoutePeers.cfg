SPECIFICATION Spec
CONSTANTS
  Hub = {h1, h2}
  Dev = {d1, d2, d3, d4}
  Host = {b1, b2}
  Site = {l1}
  Subnet = {}
  None = None
  Changes = {"enrol", "isolate", "depart", "unbind", "link", "endpoint", "open", "egress", "delete"}
SYMMETRY Symmetry
CHECK_DEADLOCK FALSE
INVARIANTS TypeOK RoutesForwarded ReturnPath PeeringMutual
