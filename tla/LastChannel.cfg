SPECIFICATION Spec
CONSTANTS
  NumChannels = 3
  Levels = {0, 1}
  FifoDepth = 1
  QueueLength = 1
  LoopMode = TRUE
  SMP = FALSE
  PowerOn <- MCPowerOn
  Commands <- MCCommandsLast
  MaxCommands = 2
INVARIANT LastChannelSettles
