SPECIFICATION SysSpec
CONSTANTS
  GridCounts = {2}
  InitSpan = 0
  Reports <- AllReports
  MaxGen = 2
  MaxHop = 4
  BatchSize = 2
  FillsListed = 50
  MaxFills = 2
  MaxPartials = 0
  MaxRefused = 1
  MaxBusy = 0
  MaxBreaks = 0
  MaxStops = 0
  MaxTests = 0
  TakesProfit = FALSE
CHECK_DEADLOCK FALSE
INVARIANT ClosedOut
PROPERTY FillsNoticed
