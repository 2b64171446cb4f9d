SPECIFICATION FairSpec
CONSTANTS
  Token = {t1, t2}
  Key = {k1, k2, k3}
  None = None
  MaxRetries = 2
  MaxCrashes = 2
  Events = {"remove", "expire", "leave"}
INVARIANTS TypeOK InterfaceGoverned AddressMatchesKey
CHECK_DEADLOCK FALSE
PROPERTIES EvictsOnlyRefused TunnelComesUp EvictionCompletes
