SPECIFICATION Spec
CONSTANTS
  Proc = {p1, p2}
  Text <- Texts
  Where <- Places
  Slug <- Slugs
  NoLan = ""
  None = None
  Gone = Gone
  LastId = 4
  LastSlot = 2
  LastSeat = 3
SYMMETRY Symmetry
INVARIANTS LanMatesShareSite
PROPERTIES RefusedOnlyWhenFull NamesAgree
