SPECIFICATION PadSpec
CONSTANTS
  NumChannels = 3
  LevelSize = 3
  QueueLength = 1
  PowerOn <- MCPowerOn
  Numbers = {0, 1, 2, 3}
  MaxTokens = 6
  MaxCommands = 3
  Short = 2
  Strings <- MCStrings
  MaxRequests = 3
  OtherTokens <- MCOtherTokens
INVARIANTS PageTypeOK ObeysCommand ReleaseClears LitIsCaptured ShowsPlainLevels SoloMoves
CHECK_DEADLOCK FALSE
