SPECIFICATION Spec
CONSTANTS
  Nets = {"a", "b", "c", "e"}
  Existing = {"e"}
  Cells <- ContendedCells
  Stub <- NoStubs
  FileRoute <- ContendedFile
  RouteOptions <- ContendedRoutes
  Escape <- ContendedEscape
  Order <- OrderABC
  StubSites <- OneSite
  MaxRip = 3
  MaxSwaps = 1
  StubLayerSwap = TRUE
  Protected = {}
  Blamable = {}
  None = None
INVARIANTS
  LadderTypeOK
  MapCovers
  LedgersAgree
  RipsAreOrderly
  FailedLadderLeavesNoTrace
  VictimsKeepTheirTurn
PROPERTIES
  Terminates
  RipsAreAtomic
