SPECIFICATION FairSpec
CONSTANTS
  Request = {r1}
  Waiter = {w1, w2}
  CommandCapacity = 1
  MediaCapacity = 1
  MaxWait = 1
  None = None
INVARIANT InOneQueue
INVARIANT NothingHeldWhenReady
PROPERTY ServiceKept
PROPERTY TimedCallsReturn
CHECK_DEADLOCK FALSE
