SPECIFICATION Spec
CONSTANTS
  None = None
  Members = {}
  Grace = 1
  Transitions = {0, 1}
  Versions = {1}
  Epochs = {1}
  MaxEvents = 4
INVARIANT InvalidGroupReported
CHECK_DEADLOCK FALSE
