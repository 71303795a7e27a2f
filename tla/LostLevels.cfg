SPECIFICATION Spec
CONSTANTS
  NumChannels = 3
  Levels = {0, 1}
  FifoDepth = 1
  QueueLength = 1
  LoopMode = FALSE
  SMP = FALSE
  PowerOn <- MCPowerOn
  Commands <- MCCommandsSolo
  MaxCommands = 3
INVARIANT OffMeansOff
