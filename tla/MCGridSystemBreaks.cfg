SPECIFICATION SysSpec
CONSTANTS
  GridCounts = {1, 2}
  InitSpan = 0
  Reports <- AllReports
  MaxGen = 1
  MaxHop = 4
  BatchSize = 20
  FillsListed = 1
  MaxFills = 2
  MaxPartials = 0
  MaxRefused = 0
  MaxBusy = 0
  MaxBreaks = 2
  MaxStops = 1
  MaxTests = 1
  TakesProfit = FALSE
CHECK_DEADLOCK FALSE
INVARIANTS SysTypeOK AnswerAfterWholeFill
