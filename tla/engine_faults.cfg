SPECIFICATION Spec
CONSTANTS
    Keys = {k1, k2}
    Values = {v1}
    Absent = Absent
    Nil = Nil
    Empty = Empty
    None = None
    MemtableThreshold = 2
    CompactionThreshold = 2
    Tiers = {0}
    Events = {"close", "tick", "crash", "torn", "walio", "rotate", "rename", "build", "open", "verify", "merge", "reopen", "openlog", "recover"}
    MaxWrites = 3
    MaxStops = 1
INVARIANT ReadersOpen
INVARIANT NothingInvented
PROPERTY PanicsOnlyInClose
SYMMETRY Symmetry
CHECK_DEADLOCK FALSE
