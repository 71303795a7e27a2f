SPECIFICATION FairSpec
CONSTANTS
  NumChannels = 3
  Levels = {0, 1}
  FifoDepth = 1
  QueueLength = 2
  LoopMode = FALSE
  SMP = FALSE
  PowerOn <- MCPowerOn
  Commands <- MCCommands
  MaxCommands = 4
INVARIANTS WholeFrames
PROPERTIES FramesGetShown WebReturns LineFollowsBuffer
CHECK_DEADLOCK FALSE
