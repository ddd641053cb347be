SPECIFICATION Spec
CONSTANTS
  Jobs = {1, 2, 3}
  Old = {1, 2}
  Fetches = {f1, f2}
  PageSize = 1
  PerMilli = 2
  \* Both times are of one millisecond, and a cursor at 1 is cut to 0.
  MaxTime = 1
  MaxChanges = 2
  MaxRefetches = 1
  NoCursor = NoCursor
SYMMETRY Symmetry
INVARIANTS
  TypeOK
  EachJobOnce
  NoGaps
  EndIsTheEnd
  RowsAreCorrected
CHECK_DEADLOCK FALSE
