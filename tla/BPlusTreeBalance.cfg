CONSTANTS
    Keys = {1, 2, 3, 4, 5, 6}
    MaxKey = 100
    LeafCapacity = 1
    DirCapacity = 3
    MaxRecords = 6
    RepeatedKeys = {}
SPECIFICATION Spec
INVARIANT Balanced
