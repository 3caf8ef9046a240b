SPECIFICATION Spec
CONSTANTS
    Databases <- MCDatabases
    Queries <- MCQueries
    RowsOnPage = 1
    NumFrames = 4
    Buckets = 2
INVARIANT PredicatesOnce PlanIsCheapest Answered TemporariesLive OthersAnswered
CHECK_DEADLOCK FALSE
