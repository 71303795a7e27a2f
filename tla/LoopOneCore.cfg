SPECIFICATION Spec
CONSTANTS
  NumChannels = 3
  Levels = {0, 1}
  FifoDepth = 1
  QueueLength = 2
  LoopMode = TRUE
  SMP = FALSE
  PowerOn <- MCPowerOn
  Commands <- MCCommands
  MaxCommands = 3
INVARIANTS TypeOK TornOnlyFromGap SettlesUnlessStale
PROPERTIES NoStartDuringUpdate CleanStart FramesInOrder
