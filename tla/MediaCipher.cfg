SPECIFICATION Spec
CONSTANTS
  None = None
  NoncesPerGeneration = 2
  GenerationWrap = 3
  MaxGenerationGap = 2
  MaxMissingNonces = 2
  FramesPerTick = 3
  CipherExpiry = 1
  RatchetExpiry = 1
  MaxEpoch = 2
  MaxNonce = 7
  MaxFrames = 3
  MaxTime = 3
INVARIANTS TypeOK NoReplay NoNonceReuse LateFrameOpens WindowExact CacheExact
PROPERTY RetainedThroughTransition
CHECK_DEADLOCK FALSE
