SPECIFICATION FairSpec
CONSTANTS
  Dashboards = {d1}
  Replicas = {r1}
  Fetches = {f1, f2}
  Sources = {"worker"}
  TTL = 2
  Delay = 1
  MaxChanges = 1
  MaxLost = 0
  MaxEvents = 1
  NoOne = NoOne
  NoValue = NoValue
PROPERTIES
  CountsConverge
