\* Three connections share two descriptors; every fault.
CONSTANTS
  c1 = c1
  Conns = {c1, c2, c3}
  NoConn = NoConn
  ListenFd = 3
  FirstFd = 5
  LastFd = 6
  MaxWaiting = 2
  Stream <- OneSilent
  SNDBUF = 22
  Faults = {"close", "abort", "enospc"}
  MAX_EVENT = 2
  INIT_BUF_SIZE = 3
  NUM = 10
  HEAD_LEN = 2
  REPLY_LEN = 13
  WRITE_SIZE = 8
SPECIFICATION Spec
SYMMETRY Symmetry
INVARIANTS
  EventsFresh
  AcceptNeverBlocks
  NoLostWakeup
PROPERTY ImplementsRequestReply
\* SIGPIPE may end the server.
CHECK_DEADLOCK FALSE
