CONSTANTS
  MSG_SIZE = 2
  MaxText = 5
SPECIFICATION FairSpec
PROPERTIES
  ReaderLeaves
  ProcessEnds
\* The client ends.
CHECK_DEADLOCK FALSE
