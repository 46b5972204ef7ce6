SPECIFICATION Spec
CONSTANTS
  GridCounts = {0, 1, 2}
  InitSpan = 0
  Reports <- DecisiveReports
  MaxGen = 2
  MaxHop = 2
INVARIANTS TypeOK OrdersOnLevel FillsAreAnswered GridInv OneOrderPerChain
PROPERTY ChainsSpec
