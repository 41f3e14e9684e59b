SPECIFICATION Spec
CONSTANTS
  Ssrcs = {s1}
  Ttl = 2
  MaxFrames = 1
  None = None
INVARIANT RetriedOnce
