CONSTANTS
    Keys = {1, 2, 3, 4, 5, 6, 7}
    MaxKey = 100
    LeafCapacity = 2
    DirCapacity = 3
    MaxRecords = 8
    RepeatedKeys = {1, 2, 3}
SPECIFICATION Spec
INVARIANT TypeOK RecordsKept TreeShape KeysBounded ReadsStayOnPage RangeExact SortedInOrder
PROPERTY AppendEnds
