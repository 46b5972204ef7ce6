SPECIFICATION Spec
CONSTANTS
  Kinds = {"private"}
  Cmds = {"a"}
  MaxBreaks = 1
  MaxBusy = 0
  MaxRefusals = 0
  MaxPile = 4
  MaxRuns = 2
CHECK_DEADLOCK FALSE
PROPERTY RequestAnswered
