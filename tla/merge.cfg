SPECIFICATION Spec
CONSTANTS
    Keys = {1, 2, 3}
    Values = {v1, v2}
    NumFiles = 3
    Events = {"read"}
INVARIANT MergeCorrect
INVARIANT AddsAscend
PROPERTY RoundsConsume
CHECK_DEADLOCK FALSE
