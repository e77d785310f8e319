SPECIFICATION RunSpec
CONSTANTS
  Nets = {"a", "b", "e"}
  Existing = {"e"}
  Cells <- HalfCells
  Stub <- NoStubs
  FileRoute <- HalfFile
  RouteOptions <- HalfRoutes
  Escape <- HalfEscape
  Order <- OrderAB
  Id <- IdsABE
  StubSites <- NoSites
  MaxRip = 2
  MaxSwaps = 0
  StubLayerSwap = FALSE
  Protected = {}
  Blamable = {}
  None = None
INVARIANTS
  PartialRestoresShip
