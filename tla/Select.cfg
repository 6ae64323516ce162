\* Three connections on two descriptors, every fault; peers leave in the end.
CONSTANTS
  c1 = c1
  c2 = c2
  Conns = {c1, c2, c3}
  NoConn = NoConn
  ListenFd = 3
  FirstFd = 4
  LastFd = 5
  MaxWaiting = 2
  Stream <- Text
  SNDBUF = 3
  Faults = {"close", "abort"}
  MSG_SIZE = 2
  REPLY_LEN = 2
SPECIFICATION FairSpec
INVARIANTS
  ListIsOpen
  ReportedIsReadable
  AllAnswered
PROPERTY Reclaimed
\* A blocking read or write may wait for ever, and an error ends the program.
CHECK_DEADLOCK FALSE
