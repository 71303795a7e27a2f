SPECIFICATION PadSpec
CONSTANTS
  NumChannels = 3
  LevelSize = 3
  QueueLength = 1
  PowerOn <- MCPowerOn
  Numbers = {0, 1, 2, 3}
  MaxTokens = 6
  MaxCommands = 3
  Short = 2
  Strings <- MCPlainStrings
  MaxRequests = 2
  OtherTokens <- MCNoOther
INVARIANTS ShowsLevels
CHECK_DEADLOCK FALSE
