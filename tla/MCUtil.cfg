SPECIFICATION Spec
CONSTANTS
  MaxText = 4
  MaxPath = 8
INVARIANTS SplitAgrees TargetIsUnderstood PathStaysBelow
CHECK_DEADLOCK FALSE
