SPECIFICATION Spec
CONSTANTS
    Keys = {k1, k2}
    Values = {v1, v2}
    Absent = Absent
    Nil = Nil
    Empty = Empty
    None = None
    MemtableThreshold = 2
    CompactionThreshold = 2
    Tiers = {0}
    Events = {"tick", "walio", "rotate", "rename", "open", "merge", "reopen"}
    MaxWrites = 4
    MaxStops = 0
INVARIANT ReadsLastAcked
PROPERTY ImplementsKVStore
SYMMETRY Symmetry
CHECK_DEADLOCK FALSE
