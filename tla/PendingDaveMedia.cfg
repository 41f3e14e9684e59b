SPECIFICATION FairSpec
CONSTANTS
  Ssrcs = {s1, s2}
  Ttl = 1
  MaxFrames = 3
  None = None
INVARIANTS ExactlyOnce WaitsForItsReason SourceOrderKept
PROPERTY Settles
CHECK_DEADLOCK FALSE
