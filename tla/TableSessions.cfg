CONSTANTS
    PageCapacity = 2
    NewDescriptor <- MCNewDescriptor
    Statements <- MCStatements
    MaxPages = 3
    MaxRecords = 3
    MaxCreated = 1
    MaxCrashes = 1
SPECIFICATION Spec
INVARIANT ReadsBack OrderlyEndKeepsTable CrashKeepsTable
