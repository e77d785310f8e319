CONSTANTS
  Layers = {top}
  Cells <- MoreCells
  Endpoints <- OneEnd
  Zones <- MCZones
  Margin = 2
  MaxWindow = 49
  CountModulus = 3
  WordBits = 4
  SweptRows <- MCRows
  SweptColumns <- MCColumns
SPECIFICATION Spec
INVARIANTS
  BitmapCachesCounts
  SweepsAreExact
PROPERTIES
  PermanentRowsStay
  ImplementsStampedGrid
