CONSTANTS
    Types <- MCTypes
    Numbers <- MCNumbers
    Strings <- MCStrings
    InitialSize = 8
SPECIFICATION Spec
INVARIANT ChangedRecordIsWritten
