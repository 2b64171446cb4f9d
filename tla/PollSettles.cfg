SPECIFICATION FairPollSpec
CONSTANTS
  Hub = {h1, h2}
  Dev = {d1, d2, d3}
  Host = {b1}
  Site = {}
  Subnet = {}
  None = None
  Changes = {"enrol", "link", "depart"}
  MaxInFlight = 3
PROPERTIES ConfigurationFollows RemovedBoxStops
