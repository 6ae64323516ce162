\* Peers that stay or close; one connection waits for accept at a time.
CONSTANTS
  c1 = c1
  Conns = {c1, c2}
  NoConn = NoConn
  ListenFd = 3
  FirstFd = 5
  LastFd = 6
  MaxWaiting = 1
  Stream <- TwoAndPart
  SNDBUF = 22
  Faults = {"close"}
  MAX_EVENT = 2
  INIT_BUF_SIZE = 3
  NUM = 10
  HEAD_LEN = 2
  REPLY_LEN = 13
  WRITE_SIZE = 8
SPECIFICATION FairSpec
PROPERTIES
  EofReclaimed
  StreamServed
  ImplementsRequestReplyFairly
