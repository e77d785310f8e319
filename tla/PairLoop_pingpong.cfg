SPECIFICATION Spec
CONSTANTS
  Pairs = {"a", "b", "c"}
  Cells <- CorridorCells
  PairOptions <- CorridorOptions
  Chained = {}
  PairStub <- NoStub
  PairEscape <- NoEscape
  Order <- OrderABC
  MaxRip = 1
  None = None
CHECK_DEADLOCK FALSE
PROPERTIES
  PairsEnd
