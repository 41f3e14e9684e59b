SPECIFICATION FairSpec
CONSTANTS
  FirstSeq = 0
  SeqSpace = 16
  Stream <- Av1Stream
  ReorderTtl = 1
  ReorderMax = 2
  None = None
  Sources = {s1, s2}
  ReadyMax = 1
  MaxSkip = 2
  MaxDelay = 1
INVARIANT SchedulesExact
INVARIANT WholeFrames
PROPERTY GapResolves
