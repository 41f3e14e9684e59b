SPECIFICATION Spec
CONSTANTS
  FrameDuration = 1
  ReadyTimeout = 3
  QueueCapacity = 2
  MaxPlayouts = 1
  MaxFrames = 5
  MaxLate = 8
  None = None
INVARIANTS DroppedFramesWereStale
