SPECIFICATION Spec
CONSTANTS
  Nets = {"a", "b", "c", "d"}
  Existing = {}
  Cells <- TapCells
  Stub <- BothStubs
  FileRoute <- NoCells
  RouteOptions <- TapRoutes
  Escape <- NoCells
  Order <- OrderCAB
  Multipoint = {"a", "b", "c"}
  Phase1 <- TapPhase1
  Matched = {"c"}
  Unmatched <- TapBefore
  TapOptions <- TapTaps
  StubSites <- NoSites
  MaxRip = 2
  Protected = {"d"}
  None = None
INVARIANTS
  ResultsAreOnBoard
