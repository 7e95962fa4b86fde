SPECIFICATION FairSpec
CONSTANTS
  MaxThreads = 4
  MaxConns = 4
  Base = Base
  NULL = NULL
  Garbage = Garbage
INVARIANTS TypeOK LoopsAreBuilt ConnectionsAreBalanced
PROPERTY CreateReturns
CHECK_DEADLOCK FALSE
