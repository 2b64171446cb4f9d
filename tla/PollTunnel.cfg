SPECIFICATION PollSpec
CONSTANTS
  Hub = {h1, h2}
  Dev = {d1, d2, d3}
  Host = {b1}
  Site = {}
  Subnet = {s1}
  None = None
  Changes = {"enrol", "link", "open", "egress", "delete"}
  MaxInFlight = 1
SYMMETRY Symmetry
CHECK_DEADLOCK FALSE
INVARIANTS TunnelOnlyToOwnHub FullTunnelStaysHome
