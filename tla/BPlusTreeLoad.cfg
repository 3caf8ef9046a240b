CONSTANTS
    Keys = {1, 2, 3}
    MaxKey = 100
    LeafCapacity = 2
    DirCapacity = 3
    MaxRecords = 4
    RepeatedKeys = {1, 2, 3}
SPECIFICATION LoadSpec
INVARIANT LoadedIsFound
CHECK_DEADLOCK FALSE
