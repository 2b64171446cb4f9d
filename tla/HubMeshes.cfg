SPECIFICATION Spec
CONSTANTS
  Hub = {h1, h2}
  Slug = {s1, s2}
  Endpoint = {e1}
  Proc = {p1, p2}
  Blocks = 2
  Edited = {None}
  Typed <- TypedNets
  RouteLists <- TypedLists
  None = None
SYMMETRY Symmetry
INVARIANT OverlapNeedsRace
PROPERTIES UpdateLosesNothing RoutesOutsideOthers
