SPECIFICATION Spec
CONSTANTS
  Kinds = {"private", "public"}
  Cmds = {"a"}
  MaxBreaks = 2
  MaxBusy = 1
  MaxRefusals = 1
  MaxPile = 3
  MaxRuns = 2
CHECK_DEADLOCK FALSE
INVARIANTS TypeOK Conserved AnswersHaveAddressee ReadyAfterLogin CarriedOutOnce
PROPERTIES RequestsSpec AnsweredInSession Starts QuietReconnect PublicRecovers
