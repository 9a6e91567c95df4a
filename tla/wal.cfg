SPECIFICATION Spec
CONSTANTS
    Keys = {k1, k2}
    Values = {v1}
    Nil = Nil
    Empty = Empty
    Absent = Absent
    Events = {"short", "sync", "kill", "power", "truncate", "read"}
    MaxRecords = 4
    MaxStops = 2
INVARIANT AckedRecovered
INVARIANT SequenceIncreases
PROPERTY ImplementsMap
SYMMETRY Symmetry
CHECK_DEADLOCK FALSE
