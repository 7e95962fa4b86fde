SPECIFICATION Spec
CONSTANTS
  MaxLine = 2
  Kinds = {"keep", "short"}
  Pipelined = {}
  Scripts <- MCScripts
  Files <- MCFiles
  Handlers <- MCHandlers
  Timeout = 2
INVARIANT NothingAfterClose
CHECK_DEADLOCK FALSE
