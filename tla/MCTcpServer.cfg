SPECIFICATION Spec
CONSTANTS
  App = {"wait", "keep", "close"}
  Conn = {c1, c2}
  Loop = {base, sub}
  Base = base
  Fd = {f1, f2}
  None = none
  Timeouts = {0, 1}
  Faults = {"reset"}
  UserOps = {}
  MaxSend = 1
  MaxUser = 0
INVARIANTS TypeOK ActivesAlive PollerMapsOwner ConnectedIsMonitored WriteInterest FlushBeforeClose ShutdownEnds TimerImpliesLive ClosedIsForgotten
PROPERTY ConnectionsLiveOnce
SYMMETRY Symmetry
CHECK_DEADLOCK FALSE
