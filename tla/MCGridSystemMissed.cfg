SPECIFICATION SysSpec
CONSTANTS
  GridCounts = {2}
  InitSpan = 0
  Reports <- AllReports
  MaxGen = 1
  MaxHop = 4
  BatchSize = 20
  FillsListed = 50
  MaxFills = 2
  MaxPartials = 0
  MaxRefused = 0
  MaxBusy = 0
  MaxBreaks = 1
  MaxStops = 0
  MaxTests = 0
  TakesProfit = FALSE
CHECK_DEADLOCK FALSE
PROPERTY MissedFillsNoticed
