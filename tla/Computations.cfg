SPECIFICATION Spec
CONSTANTS
    LeftAtts <- MCLeftAtts
    RightAtts <- MCRightAtts
    LeftRecords <- MCLeftRecords
    RightRecords <- MCRightRecords
    Jobs <- MCJobs
INVARIANT TypeOK ResultsMean OutputKept EndsAsMeant AttributesFound HashesAgree
CHECK_DEADLOCK FALSE
