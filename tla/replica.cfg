SPECIFICATION FairSpec
CONSTANTS
  n1 = n1
  n2 = n2
  k1 = k1
  v1 = v1
  Nodes = {n1, n2}
  Keys = {k1}
  Values = {v1}
  Nil = Nil
  Empty = Empty
  None = None
  Events = {"apply", "restore", "persist", "compact", "scan", "revert"}
  MaxLog = 2
  MaxFailures = 1
INVARIANTS TypeOK ReplicaMatchesLog
PROPERTY ReplicaCatchesUp
CHECK_DEADLOCK FALSE
