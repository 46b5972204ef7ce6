SPECIFICATION ConnSpec
CONSTANTS
  Versions = {4, 5}
  DomainLengths <- NameLengths
  Kinds = {"ws", "http"}
  Settings <- AllSettings
  MaxMsgs = 3
CHECK_DEADLOCK FALSE
INVARIANTS ConnTypeOK NothingLeftOver SuccessIsGranted ReadsWhatComes OneVerdict UsedWhenConnected OneRead SettingRead
PROPERTIES WaitEnds EndNoticed HandshakeEnds
