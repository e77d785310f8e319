CONSTANTS
  None = None
  LayerIds <- MCLayers
  OrthoCost = 1000
  DiagCost = 1414
  BBoxMinTargets = 16
  DirectionSteps = 2
  Quantum = 1000
  QuantumPct = 2
  Grace = 1
  NoRef = 1000000
  KeyHalf = 524288
  MaxBlockedCells = 16
  Requests <- Searches
SPECIFICATION Spec
CHECK_DEADLOCK FALSE
INVARIANTS
  NodeStoreIsSound
  FrontierSeparates
  BudgetIsEarned
  RoutesObeyTheRules
PROPERTIES
  ExpandedIsFinal
  FoundIsNearCheapest
