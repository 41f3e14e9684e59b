SPECIFICATION Spec
CONSTANTS
  None = None
  Width = 4
  UlebDigits = 2
  TagBytes = 3
  Vp8KeyHeader = 3
  MaxZeroBits = 6
  MaxNonce = 15
  MaxPayload = 14
  Frames <- AllFrames
  Video <- AllVideo
  Updated <- SomeVideo
  CipherBytes = {0, 1}
  FreeBytes = 3
  FreeFrames = 1
  LaterByte = 1
  MaxAttempts = 2
  SeqSpace = 16
  TimeSpace = 4
  FirstSeq = {14}
  MaxFrames = 2
  MaxUpdates = 1
INVARIANTS RoundTrip OnlySentFrames PayloadsFit ScanExact
CHECK_DEADLOCK FALSE
