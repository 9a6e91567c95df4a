SPECIFICATION Spec
CONSTANTS
    Keys = {k1, k2}
    Values = {v1}
    Absent = Absent
    Nil = Nil
    Empty = Empty
    None = None
    MemtableThreshold = 2
    CompactionThreshold = 2
    Tiers = {0}
    Events = {"tick", "crash"}
    MaxWrites = 4
    MaxStops = 1
INVARIANT StableKeysSurvive
SYMMETRY Symmetry
CHECK_DEADLOCK FALSE
