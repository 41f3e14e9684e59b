CONSTANTS
  User = {u1, u2}
  Ssrc = {s1}
  Me = me
  HelloInterval = 0
  MinAckTimeout = 3
  StageTimeout = 1
  MaxLate = 2
  MaxEvents = 3
  None = None
SPECIFICATION Spec
INVARIANTS RosterExact HeartbeatWatch
CHECK_DEADLOCK FALSE
