SPECIFICATION Spec
CONSTANTS
  Nets = {"a", "b", "c", "d"}
  Existing = {}
  Cells <- TapCells
  Stub <- TapStubs
  FileRoute <- NoCells
  RouteOptions <- TapRoutes
  Escape <- NoCells
  Order <- OrderCAB
  Multipoint = {"a", "b", "c"}
  Phase1 <- TapPhase1
  Matched = {"c"}
  Unmatched <- TapBefore
  TapOptions <- TapTaps
  StubSites <- TapSites
  MaxRip = 2
  Protected = {"d"}
  None = None
INVARIANTS
  NoShort
  MapAccounts
  LedgersAgree
  OpenCallsAreSound
  PendingWorkFits
PROPERTIES
  PhaseEnds
  TurnsEndRouted
