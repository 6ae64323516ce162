\* Every fault; an identifier to spare, so that a third worker would show.
CONSTANTS
  Pids = {1, 2, 3}
  MaxDeaths = 4
  Faults = {"fork", "term", "early"}
SPECIFICATION FairSpec
INVARIANT WorkersConserved
PROPERTIES
  Restored
  NeverIdle
\* The parent sleeps when no worker ends any more.
CHECK_DEADLOCK FALSE
