SPECIFICATION FairSpec
CONSTANTS
  Bundle = {1, 2}
  Version = {v1, v2}
  Arch = {any, arm}
  AnyArch = any
  Content = {c1, c2}
  Proc = {p1, p2}
  Client = {box}
  None = None
  Faults = TRUE
INVARIANTS
  OneLatestPerPlatform
  RedirectServesLatest
PROPERTIES
  LatestSurvives
  BundleRequestsAnswered
  ImplementsCatalogue
