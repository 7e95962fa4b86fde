CONSTANTS
  Id = {a}
  None = none
  Capacity = 3
  Delay <- DelaysWithinTurn
  MaxExpirations = 2
SPECIFICATION Spec
INVARIANT NeverFiresEarly
