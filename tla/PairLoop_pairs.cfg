SPECIFICATION Spec
CONSTANTS
  Pairs = {"a", "b", "c"}
  Cells <- ChainCells
  PairOptions <- ChainOptions
  Chained = {"c"}
  PairStub <- NoStub
  PairEscape <- ChainEscape
  Order <- OrderACB
  MaxRip = 2
  None = None
CHECK_DEADLOCK FALSE
INVARIANTS
  PairBooksAgree
  FailedPairLeavesNoTrace
  NoPairForgotten
  PairsAheadAreUnrouted
PROPERTIES
  PairsEnd
  PairRipsAreAtomic
