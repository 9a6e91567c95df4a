SPECIFICATION FairSpec
CONSTANTS
    Keys = {1, 2, 3, 4}
    Lengths = {0, 2}
    IndexInterval = 2
    HashBits = 5
    Rotation = 2
    HashFunctions <- MCHashFunctions
    BitsPerKey = 4
    MinKeys = 1
    KProbes = 2
    Callers = {c1, c2}
    Free = Free
INVARIANT TypeOK
INVARIANT GetCorrect
INVARIANT ReadAllComplete
PROPERTY HoldersAdvance
PROPERTY GetReturns
CHECK_DEADLOCK FALSE
