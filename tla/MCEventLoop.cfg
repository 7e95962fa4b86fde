CONSTANTS
  Caller = {p1, p2}
  LoopThread = loop
  Task = {t1, t2, t3}
  Channel = {c1, c2}
  EventFd = efd
  Idle = idle
  MaxEvents = 2
  MaxCounter = 3
SPECIFICATION FairSpec
INVARIANTS TypeOK NoLostWakeup
PROPERTIES TasksRunInOrder EveryTaskRuns InputIsHandled
