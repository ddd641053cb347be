SPECIFICATION Spec
CONSTANTS
  Requests = {r1, r2, r3, r4}
  Limit = 2
  Window = 3
  TicksPerSecond = 2
  Delay = 1
  \* Past the first deadlines: the TTL is 5.
  MaxTime = 6
  MaxBroken = 1
  MaxUndoFaults = 1
SYMMETRY RequestSymmetry
INVARIANTS
  TypeOK
  AnyWindow
  KeyOutlivesWindow
PROPERTIES
  RetryAfterHonest
\* Time and the requests are bounded: the last ones end the run.
CHECK_DEADLOCK FALSE
