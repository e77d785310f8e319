SPECIFICATION RunSpec
CONSTANTS
  Nets = {"a", "b", "c", "e"}
  Existing = {"e"}
  Cells <- HalfCells
  Stub <- HalfStubs
  FileRoute <- HalfFile
  RouteOptions <- HalfRoutes
  Escape <- HalfEscape
  Order <- OrderABC
  Id <- IdsCABE
  StubSites <- NoSites
  MaxRip = 2
  MaxSwaps = 0
  StubLayerSwap = FALSE
  Protected = {}
  Blamable = {"e"}
  None = None
INVARIANTS
  NoShort
  MapBalanced
  NoNetForgotten
  CustodyNeverAbandoned
  WrittenLedgersAgree
PROPERTIES
  EventuallyWritten
