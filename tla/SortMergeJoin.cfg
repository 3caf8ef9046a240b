SPECIFICATION Spec
CONSTANTS
    LeftTables <- MCLeftTables
    RightTables <- MCRightTables
    RunSize = 2
    Rejections <- MCRejections
INVARIANT TypeOK GroupsWhole
PROPERTY JoinsOnce JoinReturns
CHECK_DEADLOCK FALSE
