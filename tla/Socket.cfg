\* Two connections on two descriptors, both sending requests; every fault.
CONSTANTS
  c1 = c1
  Conns = {c1, c2}
  NoConn = NoConn
  ListenFd = 3
  FirstFd = 5
  LastFd = 6
  MaxWaiting = 2
  Stream <- Requests
  SNDBUF = 20
  Faults = {"close", "abort", "enospc"}
  MAX_EVENT = 2
  INIT_BUF_SIZE = 3
  NUM = 10
  HEAD_LEN = 2
  REPLY_LEN = 13
  WRITE_SIZE = 8
SPECIFICATION FairSpecNN
INVARIANTS
  BuffersReleased
  CarriedOnlyAfterClose
PROPERTIES
  ImplementsLossyRequestReply
  GivenUpForCause
  ReadToTheEnd
\* SIGPIPE may end the server, and epoll_wait waits for ever.
CHECK_DEADLOCK FALSE
