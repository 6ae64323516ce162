\* Both programs, every fault.
CONSTANTS
  MaxFd = 4
  Faults = {"fork", "devnull"}
  Columns = {"uid", "car_number"}
  Results <- Drivers
  NoResult = NoResult
SPECIFICATION FairSpec
INVARIANT OutputApart
PROPERTY ShutdownHeeded
\* Both programs end.
CHECK_DEADLOCK FALSE
