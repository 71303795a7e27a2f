SPECIFICATION FairSpec
CONSTANTS
  Period = 16
  FrameTicks = 27
  CopyTicks = 2
  MaxFrames = 3
INVARIANTS TypeOK BoundedWait Refreshed
PROPERTY FrameApplied
