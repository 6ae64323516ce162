\* One reply whose bytes arrive as they are sent; every read gets all there are.
CONSTANTS
  Message <- Reply
  Behind <- BehindReply
  WRITE_SIZE = 8
  MSG_SIZE = 8
  MaxReplies = 1
  Delayed = FALSE
  MaxCut = 1
  MaxLen = 24
SPECIFICATION Spec
INVARIANT MessageIsReply
CHECK_DEADLOCK FALSE
