SPECIFICATION FairSpec
CONSTANTS
  Threads = {t1, t2}
  Limits = {0, 1}
  Rooms = {0, 1}
  MaxCalls = 2
  MaxOpens = 1
  NoThread = NoThread
CHECK_DEADLOCK FALSE
INVARIANTS EveryReplyHasAReader NoForeignReply
PROPERTY EveryCallEnds
