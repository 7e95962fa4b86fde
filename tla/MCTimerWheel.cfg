CONSTANTS
  Id = {a, b}
  None = none
  Capacity = 3
  Delay <- DelaysWithinTurn
  MaxExpirations = 2
SPECIFICATION FairSpec
INVARIANTS TypeOK TimersMatchTasks
PROPERTIES TimersCountDown TimersExpire
