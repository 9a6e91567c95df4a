SPECIFICATION FairSpec
CONSTANTS
    Keys = {k1, k2}
    Values = {v1}
    Absent = Absent
    Nil = Nil
    Empty = Empty
    None = None
    MemtableThreshold = 2
    CompactionThreshold = 2
    Tiers = {0}
    Events = {"close", "tick"}
    MaxWrites = 3
    MaxStops = 1
PROPERTY LargeMemtableFlushed
PROPERTY CloseTerminates
CHECK_DEADLOCK FALSE
