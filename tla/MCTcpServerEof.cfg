SPECIFICATION FairSpec
CONSTANTS
  App = {"wait", "keep", "close"}
  Conn = {c1}
  Loop = {base, sub}
  Base = base
  Fd = {f1}
  None = none
  Timeouts = {0}
  Faults = {"signal"}
  UserOps = {}
  MaxSend = 1
  MaxUser = 0
PROPERTY PeerCloseIsNoticed
CHECK_DEADLOCK FALSE
