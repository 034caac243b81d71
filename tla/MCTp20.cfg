SPECIFICATION FairSpec
CONSTANTS
  engine = engine
  cluster = cluster
  Modules <- MCModules
  Kept <- MCKept
  RequestParts <- MCRequestParts
  ReplyParts <- MCReplyParts
  Patience = 2
  MaxOpens = 2
  MaxRequests = 2
  MaxLosses = 1
CHECK_DEADLOCK FALSE
INVARIANTS
  ValueIsTheReply
  ReaderFollowsChannel
PROPERTIES
  DisconnectIsLast
  EveryWaitEnds
