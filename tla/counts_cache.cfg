SPECIFICATION Spec
CONSTANTS
  Dashboards = {d1}
  Replicas = {r1, r2}
  Fetches = {f1, f2}
  Sources = {"worker", "cancel", "submit", "sweep"}
  TTL = 2
  Delay = 1
  MaxChanges = 2
  MaxLost = 1
  MaxEvents = 2
  NoOne = NoOne
  NoValue = NoValue
SYMMETRY Symmetry
INVARIANTS
  TypeOK
  CacheAgeBounded
  StaleOnlyByRace
  PageIsTold
