SPECIFICATION Spec
CONSTANTS
  None = None
  Members = {u1}
  Grace = 1
  Transitions = {0, 1}
  Versions = {0, 1}
  Epochs = {1, 2}
  MaxEvents = 4
INVARIANTS MediaReadyKeyed ReadyMeansKeyed PlaintextBounded NoProposalSkipped PumpSettled
PROPERTIES HandedOnce SenderSwitchesOnExecute
CHECK_DEADLOCK FALSE
