SPECIFICATION Spec
CONSTANTS
  App = {"wait", "keep", "close"}
  Conn = {c1}
  Loop = {base, sub}
  Base = base
  Fd = {f1}
  None = none
  Timeouts = {0}
  Faults = {"reset"}
  UserOps = {}
  MaxSend = 1
  MaxUser = 0
INVARIANT NoUseAfterFree
CHECK_DEADLOCK FALSE
