SPECIFICATION FairSpec
CONSTANTS
  Key = {k1}
  Box = {b1, b2}
  PollEvery = 4
  ReportEvery = 2
  Latency = 1
  None = None
  Parsed = TRUE
  Faults = TRUE
INVARIANTS
  FreshMeansHeard
  ReportingHubFresh
PROPERTIES
  ForgottenHubDropped
