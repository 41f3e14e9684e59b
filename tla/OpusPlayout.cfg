SPECIFICATION FairSpec
CONSTANTS
  FrameDuration = 1
  ReadyTimeout = 2
  QueueCapacity = 2
  MaxPlayouts = 2
  MaxFrames = 5
  MaxLate = 8
  None = None
INVARIANTS SpeakingAgrees FinishDelivers PacedByClock
PROPERTIES SentInOrder FinishAnswered
