SPECIFICATION RescueSpec
CONSTANTS
  Nets = {"a", "b"}
  Existing = {}
  Cells = {1, 2, 3, 4, 5}
  Stub <- PairStubs
  FileRoute <- NoCells
  RouteOptions <- PairRoutes
  Escape <- NoCells
  Order <- OrderA
  Multipoint = {"a"}
  Phase1 <- PairPhase1
  Matched = {}
  Unmatched <- NoCells
  TapOptions <- PairTaps
  StubSites <- PairSites
  MaxRip = 1
  Protected = {}
  None = None
INVARIANTS
  NoShort
