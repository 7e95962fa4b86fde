SPECIFICATION FairSpec
CONSTANTS
  MaxLine = 2
  Kinds = {"keep", "short", "post", "put", "moved", "badline", "badhead",
           "longline", "longhead"}
  Pipelined = {"keep", "short", "badhead"}
  Scripts <- MCScripts
  Files <- MCFiles
  Handlers <- MCHandlers
  Timeout = 2
INVARIANTS TypeOK RepliesInOrder NothingLeftUnanswered KeepAliveStaysOpen
PROPERTY FinalReplyCloses
CHECK_DEADLOCK FALSE
