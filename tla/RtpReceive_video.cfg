SPECIFICATION Spec
CONSTANTS
  FirstSeq = 6
  SeqSpace = 10
  Stream <- VideoStream
  ReorderTtl = 1
  ReorderMax = 2
  None = None
  Sources = {s1}
  ReadyMax = 2
  MaxSkip = 2
  MaxDelay = 2
INVARIANT TypeOK
INVARIANT InOrder
INVARIANT NoSilentLoss
INVARIANT WholeFrames
