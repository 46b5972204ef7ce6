SPECIFICATION SysSpec
CONSTANTS
  GridCounts = {2}
  InitSpan = 0
  Reports <- AllReports
  MaxGen = 1
  MaxHop = 4
  BatchSize = 20
  FillsListed = 50
  MaxFills = 2
  MaxPartials = 0
  MaxRefused = 0
  MaxBusy = 0
  MaxBreaks = 0
  MaxStops = 1
  MaxTests = 0
  TakesProfit = TRUE
CHECK_DEADLOCK FALSE
INVARIANT ClosedOut
