CONSTANTS
    SortKeys = {1, 2, 3}
    MaxPages = 3
    PageCapacity = 2
    RunSizes = {1, 2, 3}
    MaxAppended = 6
    Tables <- MCTables
    Junk <- MCJunk
SPECIFICATION Spec
INVARIANT EachInOnePlace ListsInOrder
PROPERTY SortsTable SortReturns
CHECK_DEADLOCK FALSE
