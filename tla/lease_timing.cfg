SPECIFICATION Spec
CONSTANTS
  Workers = {w1, w2, w3}
  \* A tick is 5 s.
  Lease = 6
  Beat = 2
  Interval = 3
  Late = 1
  MaxFaults = 3
  NoWorker = NoWorker
SYMMETRY Symmetry
INVARIANTS
  TypeOK
  LeaseHolds
  RecoveredInTime
