CONSTANTS
  Columns = {"uid", "car_number"}
  Results <- SmallResults
  NoResult = NoResult
SPECIFICATION WrapperSpec
INVARIANT ListNamesOneColumn
