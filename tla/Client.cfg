\* Both clients and every fault; two identifiers, so that a second child would
\* show.
CONSTANTS
  Pids = {1, 2}
  Addresses = {"server", "other"}
  MaxTroubles = 3
  Faults = {"fork", "resolve", "socket", "kill", "garbled"}
  MSG_SIZE = 10
  MaxText = 21
SPECIFICATION FairClientsSpec
INVARIANT
  AlwaysOneClient
PROPERTIES
  Reconnects
  ClientsTurnOver
\* The client ends when a fork fails.
CHECK_DEADLOCK FALSE
