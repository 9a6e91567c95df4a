SPECIFICATION Spec
CONSTANTS
    Keys = {k1, k2}
    Values = {v1, v2}
    Absent = Absent
    Nil = Nil
    Empty = Empty
    None = None
    MemtableThreshold = 2
    CompactionThreshold = 2
    Tiers = {0}
    Events = {"crash", "rotate", "open"}
    MaxWrites = 4
    MaxStops = 2
INVARIANT MemoryDurable
INVARIANT StableKeysSurvive
INVARIANT AckedOnDisk
INVARIANT ScanComplete
SYMMETRY Symmetry
CHECK_DEADLOCK FALSE
