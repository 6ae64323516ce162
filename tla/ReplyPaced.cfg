\* The reply of the server, its writes read one by one or cut anywhere.
CONSTANTS
  Message <- Reply
  Behind <- BehindReply
  WRITE_SIZE = 8
  MSG_SIZE = 8
  MaxReplies = 3
  Delayed = TRUE
  MaxCut = 1
  MaxLen = 24
SPECIFICATION FairSpec
INVARIANT PacedMessageIsReply
PROPERTIES
  RepliesPrinted
  EndNoticed
\* The client's thread exits when the server closes.
CHECK_DEADLOCK FALSE
