SPECIFICATION FairSpec
CONSTANTS
  App = {"wait", "keep", "close"}
  Conn = {c1}
  Loop = {base, sub}
  Base = base
  Fd = {f1}
  None = none
  Timeouts = {0, 2}
  Faults = {"reset", "signal"}
  UserOps = {"send", "shutdown", "cancel", "drop", "after"}
  MaxSend = 1
  MaxUser = 1
INVARIANTS OpenIsKept ShutdownEnds TimerImpliesLive InactiveIsArmed
PROPERTIES PeerCloseIsSeen InactiveIsReleased
CHECK_DEADLOCK FALSE
